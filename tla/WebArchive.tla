----------------------------- MODULE WebArchive -----------------------------
(***************************************************************************)
(* The archive tab of the web client (web/app.js:160-293): searches, the   *)
(* detail dialog with its page images, and corrections made in it.  Every  *)
(* handler awaits its requests, so answers arrive in any order.  The       *)
(* server is external: it keeps one corrected field (the summary, which    *)
(* the dialog shows a second time) of each document.                       *)
(***************************************************************************)
EXTENDS Naturals, Sequences, FiniteSets

CONSTANTS
    Docs,         \* documents in the archive
    NoDoc,        \* nothing shown
    NumPages,     \* page images of each document
    MaxSearches,  \* bound: searches made
    MaxOpens,     \* bound: documents opened
    MaxEdits      \* bound: corrections entered

ASSUME WebArchiveAssumption ==
    /\ NoDoc \notin Docs
    /\ {NumPages, MaxSearches, MaxOpens, MaxEdits} \subseteq Nat

VARIABLES
    asked,     \* number of searches made
    searching, \* searches whose answer is awaited
    listed,    \* the search whose answer the list shows
    opened,    \* number of documents opened
    opening,   \* GETs of documents whose answer is awaited
    dialog,    \* what the dialog shows
    images,    \* page images awaited, with the element each will fill
    edits,     \* number of corrections entered
    patching,  \* PATCHes whose answer is awaited
    summary,   \* external: the summary of each document, by the edit it is of
    history    \* what the properties compare with

archiveVars == <<asked, searching, listed, opened, opening, dialog, images, edits, patching,
          summary, history>>

PageNos == 1 .. NumPages

\* An image element waits, shows a page of a document, or was removed.
Placeholder == [pc |-> "waiting", doc |-> NoDoc, page |-> 0]

\* The dialog before a document is opened: which opening filled it, its title,
\* the document its inputs are bound to, one input and its mark, the document
\* of the summary above them, the page images.
EmptyDialog == [open |-> FALSE, opening |-> 0, title |-> NoDoc, doc |-> NoDoc, input |-> 0,
                dirty |-> FALSE, head |-> NoDoc, slots |-> [p \in PageNos |-> Placeholder]]

\* The searches answered; whether one was made while another was awaited;
\* whether a PATCH was awaited when another document filled the dialog, or when
\* its input was changed again; the document in view when each edit was typed;
\* the edits the server made.
NoHistory == [answered |-> {}, crossed |-> FALSE, reopened |-> FALSE, overtyped |-> FALSE,
              typed |-> [e \in 1 .. MaxEdits |-> NoDoc], accepted |-> {}]

-----------------------------------------------------------------------------
(* Searching *)

\* runSearch: the search form, or the tab.
Search ==
    /\ asked < MaxSearches
    /\ asked' = asked + 1
    /\ searching' = searching \cup {asked'}
    /\ history' = [history EXCEPT !.crossed = @ \/ searching # {}]
    /\ UNCHANGED <<listed, opened, opening, dialog, images, edits, patching, summary>>

\* The list is emptied and filled with the answer.
Listed(n) == n

SearchAnswered(n) ==
    /\ searching' = searching \ {n}
    /\ listed' = Listed(n)
    /\ history' = [history EXCEPT !.answered = @ \cup {n}]
    /\ UNCHANGED <<asked, opened, opening, dialog, images, edits, patching, summary>>

-----------------------------------------------------------------------------
(* Opening a document *)

\* A card is clicked; the dialog covers the cards while it is open.
Open(d) ==
    /\ ~dialog.open
    /\ opened < MaxOpens
    /\ opened' = opened + 1
    /\ opening' = opening \cup {[opening |-> opened', doc |-> d, answer |-> 0, pc |-> "sent"]}
    /\ UNCHANGED <<asked, searching, listed, dialog, images, edits, patching, summary, history>>

\* External: the GET reads the document.
ServeOpen(o) ==
    /\ o.pc = "sent"
    /\ opening' = (opening \ {o}) \cup {[o EXCEPT !.pc = "answered", !.answer = summary[o.doc]]}
    /\ UNCHANGED <<asked, searching, listed, opened, dialog, images, edits, patching, summary,
                   history>>

HeadOf(o) == o.doc

\* The answer fills the whole dialog; one placeholder per page, one request each.
OpenAnswered(o) ==
    /\ o.pc = "answered"
    /\ opening' = opening \ {o}
    /\ dialog' = [open |-> TRUE, opening |-> o.opening, title |-> o.doc, doc |-> o.doc,
                  input |-> o.answer, dirty |-> FALSE, head |-> HeadOf(o),
                  slots |-> [p \in PageNos |-> Placeholder]]
    /\ images' = images \cup {[opening |-> o.opening, doc |-> o.doc, page |-> p] : p \in PageNos}
    /\ history' = [history EXCEPT !.reopened = @ \/ patching # {}]
    /\ UNCHANGED <<asked, searching, listed, opened, edits, patching, summary>>

\* (broken) an image fills the first element that waits.
FirstWaiting(f) ==
    CHOOSE p \in PageNos :
        /\ dialog.slots[p].pc = "waiting"
        /\ \A q \in 1 .. p - 1 : dialog.slots[q].pc # "waiting"
SlotOf(f) == f.page

\* An image arrives, or its element is removed; the elements of an earlier
\* opening are no longer on the page.
ImageAnswered(f) ==
    /\ images' = images \ {f}
    /\ IF f.opening # dialog.opening THEN UNCHANGED dialog
       ELSE \E pc \in {"shown", "removed"} :
              dialog' = [dialog EXCEPT !.slots[SlotOf(f)] = [pc |-> pc, doc |-> f.doc, page |-> f.page]]
    /\ UNCHANGED <<asked, searching, listed, opened, opening, edits, patching, summary, history>>

\* d-close.
Close ==
    /\ dialog.open
    /\ dialog' = [dialog EXCEPT !.open = FALSE]
    /\ UNCHANGED <<asked, searching, listed, opened, opening, images, edits, patching, summary,
                   history>>

-----------------------------------------------------------------------------
(* Correcting *)

\* The inputs close over the document they were made for.
PatchedDocument == dialog.doc

\* The inputs are there once the dialog is shown.
Editable == dialog.open

\* An input's onchange.
Edit ==
    /\ Editable
    /\ edits < MaxEdits
    /\ edits' = edits + 1
    /\ dialog' = [dialog EXCEPT !.input = edits', !.dirty = TRUE]
    /\ patching' = patching \cup {[opening |-> dialog.opening, doc |-> PatchedDocument,
                                   edit |-> edits', pc |-> "sent"]}
    /\ history' = [history EXCEPT !.typed[edits'] = dialog.title,
         !.overtyped = @ \/ \E c \in patching : c.opening = dialog.opening]
    /\ UNCHANGED <<asked, searching, listed, opened, opening, images, summary>>

\* External: the server makes the correction, or refuses it.
ServeEdit(c) ==
    /\ c.pc = "sent"
    /\ \/ /\ summary' = [summary EXCEPT ![c.doc] = c.edit]
          /\ history' = [history EXCEPT !.accepted = @ \cup {c.edit}]
          /\ patching' = (patching \ {c}) \cup {[c EXCEPT !.pc = "accepted"]}
       \/ /\ patching' = (patching \ {c}) \cup {[c EXCEPT !.pc = "refused"]}
          /\ UNCHANGED <<summary, history>>
    /\ UNCHANGED <<asked, searching, listed, opened, opening, dialog, images, edits>>

\* (broken) the mark goes whatever the answer.
DirtyNever(c) == FALSE
\* The mark goes when the correction was made; it is the mark of an input that
\* may no longer be on the page.
DirtyAfter(c) == dialog.dirty /\ ~(c.opening = dialog.opening /\ c.pc = "accepted")

\* The answer sets the summary above the inputs, whichever document is shown.
EditAnswered(c) ==
    /\ c.pc # "sent"
    /\ patching' = patching \ {c}
    /\ dialog' = [dialog EXCEPT !.dirty = DirtyAfter(c),
                                !.head = IF c.pc = "accepted" THEN c.doc ELSE @]
    /\ UNCHANGED <<asked, searching, listed, opened, opening, images, edits, summary, history>>

\* No answer, or an error: a toast.  A PATCH may have been made all the same.
Fails ==
    /\ \/ \E n \in searching : searching' = searching \ {n} /\ UNCHANGED <<opening, patching>>
       \/ \E o \in opening : opening' = opening \ {o} /\ UNCHANGED <<searching, patching>>
       \/ \E c \in patching : patching' = patching \ {c} /\ UNCHANGED <<searching, opening>>
    /\ UNCHANGED <<asked, listed, opened, dialog, images, edits, summary, history>>

-----------------------------------------------------------------------------
ArchiveInit ==
    /\ asked = 0 /\ searching = {} /\ listed = 0
    /\ opened = 0 /\ opening = {} /\ images = {}
    /\ dialog = EmptyDialog
    /\ edits = 0 /\ patching = {}
    /\ summary = [d \in Docs |-> 0]
    /\ history = NoHistory

ArchiveNext ==
    \/ Search \/ Close \/ Edit \/ Fails
    \/ \E n \in searching : SearchAnswered(n)
    \/ \E d \in Docs : Open(d)
    \/ \E o \in opening : ServeOpen(o) \/ OpenAnswered(o)
    \/ \E f \in images : ImageAnswered(f)
    \/ \E c \in patching : ServeEdit(c) \/ EditAnswered(c)

ArchiveSpec == ArchiveInit /\ [][ArchiveNext]_archiveVars

-----------------------------------------------------------------------------
(* Properties *)

\* The list shows the latest answered search as long as no search was made
\* while another was awaited (app.js:164-175): runSearch does not number its
\* requests, so answers that cross leave the older one on the page.
ListIsLatest == ~history.crossed => \A n \in history.answered : n <= listed

\* The dialog is of one document: each image is on its page's place whatever
\* order images arrive and documents are opened in (app.js:276-289), and the
\* summary is that of the title, unless a document was opened while a
\* correction was awaited: line 253 sets the summary of whichever is shown.  A
\* correction reaches the document that was in view when it was typed.
DialogIsOfTitle ==
    /\ \A p \in PageNos : dialog.slots[p].pc # "waiting" =>
         dialog.slots[p].doc = dialog.title /\ dialog.slots[p].page = p
    /\ ~history.reopened => dialog.head = dialog.title
    /\ \A d \in Docs : summary[d] # 0 => history.typed[summary[d]] = d

\* An input that is not marked holds what the server has stored
\* (app.js:245-264), unless it was changed again before the answer.
CleanIsStored ==
    ~history.overtyped /\ ~dialog.dirty => dialog.input \in history.accepted \cup {0}
=============================================================================

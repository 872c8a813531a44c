----------------------------- MODULE WebCapture -----------------------------
(***************************************************************************)
(* The capture tab of the web client (web/app.js:56-158): pages are chosen,*)
(* uploaded, and the upload is tracked by polling until it is filed, has   *)
(* failed or cannot be reached.  Handlers interleave where they await a    *)
(* request.  The server is external here: Ingest says that statuses move   *)
(* this way, that only failed documents go and that rowids are reused.     *)
(***************************************************************************)
EXTENDS Integers, SequencesExt

CONSTANTS
    MaxPages,    \* bound: pages chosen
    MaxUploads,  \* bound: POST requests
    MaxMisses,   \* failed polls in a row that are retried
    MaxRetries   \* bound: how often a document goes back to queued

ASSUME WebCaptureAssumption ==
    {MaxPages, MaxUploads, MaxMisses, MaxRetries} \subseteq Nat

VARIABLES
    pending,   \* pendingFiles
    captured,  \* number of pages chosen so far
    upload,    \* the POST requests
    tracked,   \* tracked: the status shown of each id
    chain,     \* the polling chain that each upload starts
    removal,   \* the DELETE of each id
    docs,      \* external: the server's documents
    retries,   \* external: attempts started again
    late,      \* history: pages chosen while an upload was under way
    discarded, \* history: pages the user cleared
    removed    \* history: uploads that the user removed

captureVars == <<pending, captured, upload, tracked, chain, removal, docs, retries,
          late, discarded, removed>>

Uploads == 1 .. MaxUploads
Ids == 1 .. MaxUploads

\* An id of 0 is a request that is not answered with one.
Unused == [pc |-> "unused", form |-> <<>>, id |-> 0]
\* answer is a status or "404".
Untracked == [pc |-> "off", misses |-> 0, answer |-> "404"]
\* by is the upload whose document was deleted.
NoRemoval == [pc |-> "no", by |-> 0]
\* by is the upload that made it; the status is one of db.py:38.
NoDocument == [by |-> 0, status |-> "none"]

Existing == {i \in Ids : docs[i] # NoDocument}
IsNextRowid(id) ==
    /\ id = 1 \/ id - 1 \in Existing
    /\ \A i \in Existing : i < id

UnderWay == {u \in Uploads : upload[u].pc \in {"sent", "answered"}}

-----------------------------------------------------------------------------
(* Choosing and uploading pages *)

\* file-input: onchange.
Choose ==
    /\ captured < MaxPages
    /\ captured' = captured + 1
    /\ pending' = Append(pending, captured')
    /\ late' = IF UnderWay = {} THEN late ELSE late \cup {captured'}
    /\ UNCHANGED <<upload, tracked, chain, removal, docs, retries, discarded, removed>>

\* btn-clear.
Clear ==
    /\ pending # <<>>
    /\ pending' = <<>>
    /\ discarded' = discarded \cup ToSet(pending)
    /\ UNCHANGED <<captured, upload, tracked, chain, removal, docs, retries, late, removed>>

\* (broken) the button is not disabled while a request is under way.
NeverDisabled == FALSE
UploadDisabled == UnderWay # {}

\* (broken) the pages are cleared before the answer is there.
SubmitClears(u) ==
    /\ upload[u].pc = "unused"
    /\ pending # <<>> /\ ~UploadDisabled
    /\ upload' = [upload EXCEPT ![u] = [@ EXCEPT !.pc = "sent", !.form = pending]]
    /\ pending' = <<>>
    /\ UNCHANGED <<captured, tracked, chain, removal, docs, retries, late, discarded, removed>>

\* btn-upload: the form is a snapshot of the pending pages.
Submit(u) ==
    /\ upload[u].pc = "unused"
    /\ pending # <<>> /\ ~UploadDisabled
    /\ upload' = [upload EXCEPT ![u] = [@ EXCEPT !.pc = "sent", !.form = pending]]
    /\ UNCHANGED <<pending, captured, tracked, chain, removal, docs, retries, late,
                   discarded, removed>>

\* The answer: the pages are cleared, tracking starts in 3 s.
UploadAcknowledged(u) ==
    /\ upload[u].pc = "answered" /\ upload[u].id # 0
    /\ upload' = [upload EXCEPT ![u].pc = "acknowledged"]
    /\ pending' = <<>>
    /\ tracked' = [tracked EXCEPT ![upload[u].id] = "queued"]
    /\ chain' = [chain EXCEPT ![u].pc = "timer"]
    /\ UNCHANGED <<captured, removal, docs, retries, late, discarded, removed>>

\* An error status, or no answer: the server may have taken the pages or not.
UploadFails(u) ==
    /\ upload[u].pc \in {"sent", "answered"}
    /\ upload' = [upload EXCEPT ![u].pc = "failed"]
    /\ UNCHANGED <<pending, captured, tracked, chain, removal, docs, retries, late,
                   discarded, removed>>

-----------------------------------------------------------------------------
(* Tracking *)

\* The timer fires and the server answers with what it has now.
Poll(u) ==
    LET id == upload[u].id IN
    /\ chain[u].pc = "timer"
    /\ chain' = [chain EXCEPT ![u] = [@ EXCEPT !.pc = "asked",
         !.answer = IF id \in Existing THEN docs[id].status ELSE "404"]]
    /\ UNCHANGED <<pending, captured, upload, tracked, removal, docs, retries, late,
                   discarded, removed>>

\* (broken) only a filed document ends the polling.
UntilDone(status) == status # "done"
\* (broken) a document in processing ends it too.
WhileQueued(status) == status = "queued"
PollsOn(status) == status \in {"queued", "processing"}

\* api() throws when the answer is an error.
Throws(answer) == answer = "404"

PollAnswered(u) ==
    /\ chain[u].pc = "asked" /\ ~Throws(chain[u].answer)
    /\ tracked' = [tracked EXCEPT ![upload[u].id] = chain[u].answer]
    /\ chain' = [chain EXCEPT ![u] = [@ EXCEPT !.misses = 0,
         !.pc = IF PollsOn(chain[u].answer) THEN "timer" ELSE "over"]]
    /\ UNCHANGED <<pending, captured, upload, removal, docs, retries, late, discarded, removed>>

\* (broken) misses are not counted.
SameMisses(n) == n
Missed(n) == n + 1

\* A 404, any other error, or no answer: it is asked again, a while.
PollMissed(u) ==
    LET misses == Missed(chain[u].misses) IN
    /\ chain[u].pc = "asked"
    /\ chain' = [chain EXCEPT ![u] = [@ EXCEPT !.misses = misses,
         !.pc = IF misses <= MaxMisses THEN "timer" ELSE "lost"]]
    /\ UNCHANGED <<pending, captured, upload, tracked, removal, docs, retries, late,
                   discarded, removed>>

\* The remove button, which failed uploads have.
AskRemoval(id) ==
    /\ tracked[id] = "failed"
    /\ removal[id] = NoRemoval
    /\ removal' = [removal EXCEPT ![id].pc = "sent"]
    /\ UNCHANGED <<pending, captured, upload, tracked, chain, docs, retries, late,
                   discarded, removed>>

\* 204: the entry is taken off the list.
RemovalAnswered(id) ==
    /\ removal[id].pc = "gone"
    /\ removal' = [removal EXCEPT ![id] = NoRemoval]
    /\ tracked' = [tracked EXCEPT ![id] = "none"]
    /\ removed' = removed \cup {removal[id].by}
    /\ UNCHANGED <<pending, captured, upload, chain, docs, retries, late, discarded>>

\* 404, 409 or no answer: a toast.
RemovalFails(id) ==
    /\ removal[id] # NoRemoval
    /\ removal' = [removal EXCEPT ![id] = NoRemoval]
    /\ UNCHANGED <<pending, captured, upload, tracked, chain, docs, retries, late,
                   discarded, removed>>

-----------------------------------------------------------------------------
(* External: the server *)

Gone(id) == docs' = [docs EXCEPT ![id] = NoDocument]

\* A POST is refused, or makes a document under the next rowid.
Receive(u) ==
    /\ upload[u].pc = "sent"
    /\ \/ /\ upload' = [upload EXCEPT ![u].pc = "answered"]
          /\ UNCHANGED docs
       \/ \E id \in Ids :
          /\ IsNextRowid(id)
          /\ upload' = [upload EXCEPT ![u] = [@ EXCEPT !.pc = "answered", !.id = id]]
          /\ docs' = [docs EXCEPT ![id] = [by |-> u, status |-> "queued"]]
    /\ UNCHANGED <<pending, captured, tracked, chain, removal, retries, late, discarded, removed>>

\* The DELETE reaches the server, which takes only failed documents away.
ServeRemoval(id) ==
    /\ removal[id].pc = "sent" /\ docs[id].status = "failed"
    /\ Gone(id)
    /\ removal' = [removal EXCEPT ![id] = [pc |-> "gone", by |-> docs[id].by]]
    /\ UNCHANGED <<pending, captured, upload, tracked, chain, retries, late, discarded, removed>>

\* Another device removes a failed document.
OthersRemove(id) ==
    /\ docs[id].status = "failed"
    /\ Gone(id)
    /\ UNCHANGED <<pending, captured, upload, tracked, chain, removal, retries, late,
                   discarded, removed>>

\* The worker takes up a document, ends it, or puts it back for a retry.
Work(id) ==
    /\ \/ /\ docs[id].status = "queued"
          /\ docs' = [docs EXCEPT ![id].status = "processing"]
          /\ UNCHANGED retries
       \/ /\ docs[id].status = "processing"
          /\ \E status \in {"done", "failed"} : docs' = [docs EXCEPT ![id].status = status]
          /\ UNCHANGED retries
       \/ /\ docs[id].status = "processing" /\ retries < MaxRetries
          /\ docs' = [docs EXCEPT ![id].status = "queued"]
          /\ retries' = retries + 1
    /\ UNCHANGED <<pending, captured, upload, tracked, chain, removal, late, discarded, removed>>

-----------------------------------------------------------------------------
CaptureInit ==
    /\ pending = <<>> /\ captured = 0
    /\ upload = [u \in Uploads |-> Unused]
    /\ tracked = [i \in Ids |-> "none"]
    /\ chain = [u \in Uploads |-> Untracked]
    /\ removal = [i \in Ids |-> NoRemoval]
    /\ docs = [i \in Ids |-> NoDocument] /\ retries = 0
    /\ late = {} /\ discarded = {} /\ removed = {}

PollStep(u) == Poll(u) \/ PollAnswered(u) \/ PollMissed(u)
Server == \E i \in Ids : Work(i)

CaptureNext ==
    \/ Choose \/ Clear
    \/ \E u \in Uploads :
        Submit(u) \/ Receive(u) \/ UploadAcknowledged(u) \/ UploadFails(u) \/ PollStep(u)
    \/ \E i \in Ids :
        AskRemoval(i) \/ ServeRemoval(i) \/ RemovalAnswered(i) \/ RemovalFails(i) \/ OthersRemove(i)
    \/ Server

\* Timers fire, requests are answered or fail, and the worker goes on
\* (ProcessingEnds of the ingest model).
CaptureFairness ==
    /\ \A u \in Uploads : WF_captureVars(PollStep(u))
    /\ \A i \in Ids : WF_captureVars(Work(i))

CaptureSpec == CaptureInit /\ [][CaptureNext]_captureVars /\ CaptureFairness

-----------------------------------------------------------------------------
(* Properties *)

\* No page is filed in two documents whose uploads were acknowledged, however
\* often the button is pressed and whatever is added meanwhile
\* (app.js:84-95); only an answer that was lost makes the user file twice.
FiledOnce ==
    \A u, v \in Uploads :
        upload[u].pc = "acknowledged" /\ upload[v].pc = "acknowledged" /\ u # v =>
            ToSet(upload[u].form) \cap ToSet(upload[v].form) = {}

\* A chosen page is pending until an upload with it is acknowledged or the
\* user discards it, failing uploads included (app.js:81-97); pages chosen
\* while an upload is awaited are the exception: line 89 drops them.
PagesKept ==
    \A p \in (1 .. captured) \ late :
        \/ p \in ToSet(pending) \cup discarded
        \/ \E u \in Uploads : upload[u].pc = "acknowledged" /\ p \in ToSet(upload[u].form)

\* No other upload of this page was given the same rowid: two chains that poll
\* one id overwrite each other's entry.
OwnsId(u) == \A v \in Uploads \ {u} : upload[v].id # upload[u].id

\* When the polling of an upload is over, what is shown is where its document
\* ended, for as long as the document is there (app.js:143-148).
ShownIsFinal ==
    \A u \in Uploads :
        LET id == upload[u].id IN
        chain[u].pc = "over" /\ docs[id].by = u /\ OwnsId(u) => tracked[id] = docs[id].status

\* An upload that was removed does not come back on the list: no answer that
\* was under way is left to put it there (app.js:121-123, 141).
RemovedIsGone ==
    \A u \in removed : OwnsId(u) => tracked[upload[u].id] = "none"

\* Every upload is tracked to an end: filed, failed, or given up on
\* (app.js:143-154).
TrackingEnds ==
    \A u \in Uploads : chain[u].pc = "timer" ~> chain[u].pc \in {"over", "lost"}
=============================================================================

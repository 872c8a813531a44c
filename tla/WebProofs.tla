------------------------------ MODULE WebProofs ------------------------------
(* The web client keeps pages, answers and documents apart, for any number  *)
(* of pages, uploads, searches, openings and corrections.                   *)
EXTENDS WebCapture, WebArchive, TLAPS

-----------------------------------------------------------------------------
(* The capture tab: types *)

Statuses == {"queued", "processing", "done", "failed"}
UploadFrame == [pc : {"unused", "sent", "answered", "acknowledged", "failed"},
                form : Seq(Nat), id : Ids \cup {0}]
ChainFrame == [pc : {"off", "timer", "asked", "over", "lost"}, misses : Nat,
               answer : Statuses \cup {"404"}]
RemovalFrame == [pc : {"no", "sent", "gone"}, by : Uploads \cup {0}]
Document == {NoDocument} \cup [by : Uploads, status : Statuses]
Acknowledged(u) == upload[u].pc = "acknowledged"

CaptureTypes ==
    /\ captured \in Nat
    /\ pending \in Seq(Nat) /\ ToSet(pending) \subseteq 1 .. captured
    /\ upload \in [Uploads -> UploadFrame]
    /\ \A u \in Uploads : ToSet(upload[u].form) \subseteq 1 .. captured
    /\ \A u \in Uploads : upload[u].pc \in {"unused", "sent"} => upload[u].id = 0
    /\ \A u \in Uploads : Acknowledged(u) => upload[u].id \in Ids
    /\ tracked \in [Ids -> Statuses \cup {"none"}]
    /\ chain \in [Uploads -> ChainFrame]
    /\ \A u \in Uploads : chain[u].pc # "off" => Acknowledged(u)
    /\ removal \in [Ids -> RemovalFrame]
    /\ docs \in [Ids -> Document]
    /\ retries \in Nat

LEMMA OneMorePage ==
    ASSUME NEW s \in Seq(Nat), NEW n \in Nat
    PROVE  Append(s, n) \in Seq(Nat) /\ ToSet(Append(s, n)) = ToSet(s) \cup {n}
<1>1. /\ Append(s, n) \in Seq(Nat)
      /\ DOMAIN Append(s, n) = DOMAIN s \cup {Len(s) + 1}
      /\ Append(s, n)[Len(s) + 1] = n
      /\ \A i \in DOMAIN s : Append(s, n)[i] = s[i]
  OBVIOUS
<1>. QED  BY <1>1 DEF ToSet

LEMMA NoPages == <<>> \in Seq(Nat) /\ ToSet(<<>>) = {}
BY DEF ToSet

LEMMA CaptureTypesStart == CaptureInit => CaptureTypes
<1>. SUFFICES ASSUME CaptureInit PROVE CaptureTypes
  OBVIOUS
<1>1. Unused \in UploadFrame /\ Untracked \in ChainFrame /\ NoRemoval \in RemovalFrame
      /\ NoDocument \in Document
  BY NoPages DEF Unused, UploadFrame, Untracked, ChainFrame, NoRemoval, RemovalFrame, Document
<1>2. \A u \in Uploads : upload[u] = Unused /\ chain[u] = Untracked
  BY DEF CaptureInit
<1>3. \A u \in Uploads : /\ upload[u].pc = "unused" /\ upload[u].form = <<>> /\ upload[u].id = 0
                         /\ chain[u].pc = "off"
  BY <1>2 DEF Unused, Untracked
<1>. HIDE DEF Document, ChainFrame, UploadFrame, RemovalFrame
<1>. QED  BY <1>1, <1>3, NoPages DEF CaptureInit, CaptureTypes, Acknowledged

\* An upload's frame is replaced by one with the same pages.
LEMMA SetUpload ==
    ASSUME CaptureTypes, NEW u \in Uploads, NEW x \in UploadFrame,
           upload' = [upload EXCEPT ![u] = x],
           x.form = upload[u].form,
           x.pc \in {"unused", "sent"} => x.id = 0,
           x.pc = "acknowledged" => x.id \in Ids,
           Acknowledged(u) => x.pc = "acknowledged"
    PROVE  /\ upload' \in [Uploads -> UploadFrame]
           /\ \A v \in Uploads : /\ upload'[v].form = upload[v].form
                                 /\ upload'[v].pc \in {"unused", "sent"} => upload'[v].id = 0
                                 /\ upload'[v].pc = "acknowledged" => upload'[v].id \in Ids
                                 /\ Acknowledged(v) => upload'[v].pc = "acknowledged"
           /\ \A v \in Uploads \ {u} : upload'[v] = upload[v]
           /\ upload'[u] = x
BY DEF CaptureTypes, Acknowledged

LEMMA CaptureTypesStep == CaptureTypes /\ [CaptureNext]_captureVars => CaptureTypes'
<1>. SUFFICES ASSUME CaptureTypes, [CaptureNext]_captureVars PROVE CaptureTypes'
  OBVIOUS
<1>. USE DEF CaptureTypes
<1>1. CASE Choose
  <2>1. captured' = captured + 1 /\ captured + 1 \in Nat /\ pending' = Append(pending, captured + 1)
        /\ upload' = upload
    BY <1>1 DEF Choose
  <2>2. pending' \in Seq(Nat) /\ ToSet(pending') = ToSet(pending) \cup {captured + 1}
    BY <2>1, OneMorePage
  <2>3. 1 .. captured \subseteq 1 .. captured' /\ captured + 1 \in 1 .. captured'
    BY <2>1
  <2>4. ToSet(pending') \subseteq 1 .. captured'
        /\ \A u \in Uploads : ToSet(upload'[u].form) \subseteq 1 .. captured'
    BY <2>1, <2>2, <2>3
  <2>. QED  BY <1>1, <2>1, <2>2, <2>4 DEF Choose, Acknowledged
<1>2. CASE Clear
  BY <1>2, NoPages DEF Clear, Acknowledged
<1>3. ASSUME NEW u \in Uploads, Submit(u) PROVE CaptureTypes'
  <2>. DEFINE x == [upload[u] EXCEPT !.pc = "sent", !.form = pending]
  <2>1. /\ x \in UploadFrame /\ x.pc = "sent" /\ x.form = pending /\ x.id = 0
        /\ ~Acknowledged(u) /\ upload' = [upload EXCEPT ![u] = x]
    BY <1>3 DEF Submit, UploadFrame, Acknowledged
  <2>. HIDE DEF x
  <2>2. upload' \in [Uploads -> UploadFrame] /\ upload'[u] = x
        /\ \A v \in Uploads \ {u} : upload'[v] = upload[v]
    BY <2>1
  <2>3. \A v \in Uploads : ToSet(upload'[v].form) \subseteq 1 .. captured
    BY <2>1, <2>2
  <2>4. \A v \in Uploads : /\ upload'[v].pc \in {"unused", "sent"} => upload'[v].id = 0
                           /\ upload'[v].pc = "acknowledged" => upload'[v].id \in Ids
                           /\ Acknowledged(v) => upload'[v].pc = "acknowledged"
    BY <2>1, <2>2 DEF Acknowledged
  <2>. QED  BY <1>3, <2>2, <2>3, <2>4 DEF Submit, Acknowledged
<1>4. ASSUME NEW u \in Uploads, NEW x \in UploadFrame,
             upload' = [upload EXCEPT ![u] = x],
             x.form = upload[u].form,
             x.pc \in {"unused", "sent"} => x.id = 0,
             x.pc = "acknowledged" => x.id \in Ids,
             Acknowledged(u) => x.pc = "acknowledged",
             docs' \in [Ids -> Document], UNCHANGED <<captured, pending, tracked, chain, removal, retries>>
      PROVE  CaptureTypes'
  <2>1. /\ upload' \in [Uploads -> UploadFrame]
        /\ \A v \in Uploads : /\ upload'[v].form = upload[v].form
                              /\ upload'[v].pc \in {"unused", "sent"} => upload'[v].id = 0
                              /\ upload'[v].pc = "acknowledged" => upload'[v].id \in Ids
                              /\ Acknowledged(v) => upload'[v].pc = "acknowledged"
    BY <1>4, SetUpload
  <2>. QED  BY <1>4, <2>1 DEF Acknowledged
<1>5. ASSUME NEW u \in Uploads, Receive(u) \/ UploadFails(u) PROVE CaptureTypes'
  <2>1. upload[u] \in UploadFrame /\ ~Acknowledged(u)
    BY <1>5 DEF Receive, UploadFails, Acknowledged
  <2>2. ASSUME NEW pc \in {"answered", "failed"}, NEW id \in Ids \cup {0}
        PROVE  LET x == [upload[u] EXCEPT !.pc = pc, !.id = id]
               IN  /\ x \in UploadFrame /\ x.form = upload[u].form /\ x.pc = pc
                   /\ [upload[u] EXCEPT !.pc = pc] \in UploadFrame
                   /\ [upload[u] EXCEPT !.pc = pc].form = upload[u].form
                   /\ [upload[u] EXCEPT !.pc = pc].pc = pc
    BY <2>1 DEF UploadFrame
  <2>3. CASE UploadFails(u)
    <3>. DEFINE x == [upload[u] EXCEPT !.pc = "failed"]
    <3>1. x \in UploadFrame /\ x.form = upload[u].form /\ x.pc = "failed"
      BY <2>2
    <3>2. upload' = [upload EXCEPT ![u] = x] /\ docs' \in [Ids -> Document]
          /\ UNCHANGED <<captured, pending, tracked, chain, removal, retries>>
      BY <2>3 DEF UploadFails
    <3>. HIDE DEF x
    <3>. QED  BY <2>1, <3>1, <3>2, <1>4
  <2>4. CASE Receive(u) /\ upload' = [upload EXCEPT ![u].pc = "answered"] /\ UNCHANGED docs
    <3>. DEFINE x == [upload[u] EXCEPT !.pc = "answered"]
    <3>1. x \in UploadFrame /\ x.form = upload[u].form /\ x.pc = "answered"
      BY <2>2
    <3>2. upload' = [upload EXCEPT ![u] = x] /\ docs' \in [Ids -> Document]
          /\ UNCHANGED <<captured, pending, tracked, chain, removal, retries>>
      BY <2>4 DEF Receive
    <3>. HIDE DEF x
    <3>. QED  BY <2>1, <3>1, <3>2, <1>4
  <2>5. ASSUME NEW id \in Ids, Receive(u),
               upload' = [upload EXCEPT ![u] = [@ EXCEPT !.pc = "answered", !.id = id]],
               docs' = [docs EXCEPT ![id] = [by |-> u, status |-> "queued"]]
        PROVE  CaptureTypes'
    <3>. DEFINE x == [upload[u] EXCEPT !.pc = "answered", !.id = id]
    <3>1. x \in UploadFrame /\ x.form = upload[u].form /\ x.pc = "answered"
      BY <2>2
    <3>2. [by |-> u, status |-> "queued"] \in Document
      BY DEF Document, Statuses
    <3>3. upload' = [upload EXCEPT ![u] = x] /\ docs' \in [Ids -> Document]
          /\ UNCHANGED <<captured, pending, tracked, chain, removal, retries>>
      BY <2>5, <3>2 DEF Receive
    <3>. HIDE DEF x
    <3>. QED  BY <2>1, <3>1, <3>3, <1>4
  <2>. QED  BY <1>5, <2>3, <2>4, <2>5 DEF Receive
<1>6. ASSUME NEW u \in Uploads, UploadAcknowledged(u) PROVE CaptureTypes'
  <2>. DEFINE x == [upload[u] EXCEPT !.pc = "acknowledged"]
              y == [chain[u] EXCEPT !.pc = "timer"]
  <2>1. upload[u] \in UploadFrame /\ chain[u] \in ChainFrame /\ upload[u].id \in Ids
    BY <1>6 DEF UploadAcknowledged, UploadFrame
  <2>2. /\ x \in UploadFrame /\ x.form = upload[u].form /\ x.pc = "acknowledged" /\ x.id \in Ids
        /\ y \in ChainFrame
    BY <2>1 DEF UploadFrame, ChainFrame
  <2>3. upload' = [upload EXCEPT ![u] = x] /\ chain' = [chain EXCEPT ![u] = y]
        /\ pending' = <<>> /\ tracked' = [tracked EXCEPT ![upload[u].id] = "queued"]
        /\ UNCHANGED <<captured, removal, docs, retries>>
    BY <1>6 DEF UploadAcknowledged
  <2>. HIDE DEF x, y
  <2>4. /\ upload' \in [Uploads -> UploadFrame]
        /\ \A v \in Uploads : /\ upload'[v].form = upload[v].form
                              /\ upload'[v].pc \in {"unused", "sent"} => upload'[v].id = 0
                              /\ upload'[v].pc = "acknowledged" => upload'[v].id \in Ids
                              /\ Acknowledged(v) => upload'[v].pc = "acknowledged"
        /\ upload'[u] = x
    BY <2>2, <2>3, SetUpload
  <2>5. chain' \in [Uploads -> ChainFrame] /\ \A v \in Uploads \ {u} : chain'[v] = chain[v]
    BY <2>2, <2>3
  <2>6. tracked' \in [Ids -> Statuses \cup {"none"}]
    BY <2>1, <2>3 DEF Statuses
  <2>7. \A v \in Uploads : chain'[v].pc # "off" => upload'[v].pc = "acknowledged"
    BY <2>2, <2>4, <2>5
  <2>. QED  BY <2>3, <2>4, <2>5, <2>6, <2>7, NoPages DEF Acknowledged
<1>7. ASSUME NEW u \in Uploads, NEW y \in ChainFrame, chain[u].pc # "off",
             chain' = [chain EXCEPT ![u] = y],
             tracked' \in [Ids -> Statuses \cup {"none"}],
             UNCHANGED <<captured, pending, upload, removal, docs, retries>>
      PROVE  CaptureTypes'
  BY <1>7 DEF Acknowledged
<1>8. ASSUME NEW u \in Uploads, PollStep(u) PROVE CaptureTypes'
  <2>1. chain[u] \in ChainFrame /\ chain[u].pc # "off" /\ upload[u].id \in Ids
    BY <1>8 DEF PollStep, Poll, PollAnswered, PollMissed
  <2>2. CASE Poll(u)
    <3>. DEFINE answer == IF upload[u].id \in Existing THEN docs[upload[u].id].status ELSE "404"
                y == [chain[u] EXCEPT !.pc = "asked", !.answer = answer]
    <3>1. answer \in Statuses \cup {"404"}
      BY DEF Existing, Document
    <3>2. y \in ChainFrame
      BY <2>1, <3>1 DEF ChainFrame
    <3>3. chain' = [chain EXCEPT ![u] = y]
      BY <2>2 DEF Poll
    <3>4. UNCHANGED <<captured, pending, upload, removal, docs, retries, tracked>>
      BY <2>2 DEF Poll
    <3>. HIDE DEF y
    <3>. QED  BY <2>1, <3>2, <3>3, <3>4, <1>7
  <2>3. CASE PollAnswered(u)
    <3>. DEFINE y == [chain[u] EXCEPT !.misses = 0,
                        !.pc = IF PollsOn(chain[u].answer) THEN "timer" ELSE "over"]
    <3>1. y \in ChainFrame
      BY <2>1 DEF ChainFrame
    <3>2. chain' = [chain EXCEPT ![u] = y] /\ UNCHANGED <<captured, pending, upload, removal, docs, retries>>
      BY <2>3 DEF PollAnswered
    <3>3. chain[u].answer \in Statuses
      BY <2>1, <2>3 DEF PollAnswered, Throws, ChainFrame
    <3>4. tracked' \in [Ids -> Statuses \cup {"none"}]
      BY <2>1, <2>3, <3>3 DEF PollAnswered
    <3>. HIDE DEF y
    <3>. QED  BY <2>1, <3>1, <3>2, <3>4, <1>7
  <2>4. CASE PollMissed(u)
    <3>. DEFINE misses == chain[u].misses + 1
                y == [chain[u] EXCEPT !.misses = misses,
                        !.pc = IF misses <= MaxMisses THEN "timer" ELSE "lost"]
    <3>1. y \in ChainFrame
      <4>1. misses \in Nat
        BY <2>1 DEF ChainFrame
      <4>. HIDE DEF misses
      <4>. QED  BY <2>1, <4>1 DEF ChainFrame
    <3>2. chain' = [chain EXCEPT ![u] = y]
          /\ UNCHANGED <<captured, pending, upload, removal, docs, retries, tracked>>
      BY <2>4 DEF PollMissed, Missed
    <3>. HIDE DEF y
    <3>. QED  BY <2>1, <3>1, <3>2, <1>7
  <2>. QED  BY <1>8, <2>2, <2>3, <2>4 DEF PollStep
<1>9. ASSUME NEW i \in Ids, NEW r \in RemovalFrame, removal' = [removal EXCEPT ![i] = r],
             docs' \in [Ids -> Document], tracked' \in [Ids -> Statuses \cup {"none"}],
             UNCHANGED <<captured, pending, upload, chain, retries>>
      PROVE  CaptureTypes'
  BY <1>9 DEF Acknowledged
<1>10. ASSUME NEW i \in Ids, AskRemoval(i) PROVE CaptureTypes'
  <2>. DEFINE r == [removal[i] EXCEPT !.pc = "sent"]
  <2>1. r \in RemovalFrame
    BY DEF RemovalFrame
  <2>2. removal' = [removal EXCEPT ![i] = r]
        /\ UNCHANGED <<captured, pending, upload, chain, retries, docs, tracked>>
    BY <1>10 DEF AskRemoval
  <2>. HIDE DEF r
  <2>. QED  BY <2>1, <2>2, <1>9
<1>11. ASSUME NEW i \in Ids, ServeRemoval(i) PROVE CaptureTypes'
  <2>. DEFINE r == [pc |-> "gone", by |-> docs[i].by]
  <2>1. docs[i].by \in Uploads \cup {0}
    BY DEF Document, NoDocument
  <2>2. r \in RemovalFrame
    BY <2>1 DEF RemovalFrame
  <2>3. docs' \in [Ids -> Document]
    BY <1>11 DEF ServeRemoval, Gone, Document
  <2>4. removal' = [removal EXCEPT ![i] = r]
        /\ UNCHANGED <<captured, pending, upload, chain, retries, tracked>>
    BY <1>11 DEF ServeRemoval
  <2>. HIDE DEF r
  <2>. QED  BY <2>2, <2>3, <2>4, <1>9
<1>12. ASSUME NEW i \in Ids, RemovalAnswered(i) \/ RemovalFails(i) PROVE CaptureTypes'
  <2>1. NoRemoval \in RemovalFrame
    BY DEF NoRemoval, RemovalFrame
  <2>2. removal' = [removal EXCEPT ![i] = NoRemoval]
        /\ tracked' \in [Ids -> Statuses \cup {"none"}]
        /\ UNCHANGED <<captured, pending, upload, chain, retries, docs>>
    BY <1>12 DEF RemovalAnswered, RemovalFails
  <2>. QED  BY <2>1, <2>2, <1>9
<1>13. ASSUME docs' \in [Ids -> Document], retries' \in Nat,
              UNCHANGED <<captured, pending, upload, tracked, chain, removal>>
       PROVE  CaptureTypes'
  BY <1>13 DEF Acknowledged
<1>14. ASSUME NEW i \in Ids, OthersRemove(i) PROVE CaptureTypes'
  BY <1>14, <1>13 DEF OthersRemove, Gone, Document
<1>15. ASSUME NEW i \in Ids, Work(i) PROVE CaptureTypes'
  <2>1. PICK status \in Statuses : docs' = [docs EXCEPT ![i].status = status]
    BY <1>15 DEF Work, Statuses
  <2>2. docs[i] \in [by : Uploads, status : Statuses]
    BY <1>15 DEF Work, NoDocument, Document
  <2>3. docs' \in [Ids -> Document]
    BY <2>1, <2>2 DEF Document
  <2>. QED  BY <1>15, <2>3, <1>13 DEF Work
<1>16. CASE UNCHANGED captureVars
  BY <1>16 DEF captureVars, Acknowledged
<1>. QED  BY <1>1, <1>2, <1>3, <1>5, <1>6, <1>8, <1>10, <1>11, <1>12, <1>14, <1>15, <1>16
          DEF CaptureNext, Server

-----------------------------------------------------------------------------
(* The capture tab: pages *)

\* One upload is under way at a time; what it does not take along was chosen
\* late; and pages that were acknowledged are neither pending nor under way.
Pages ==
    /\ \A u, v \in UnderWay : u = v
    /\ \A u \in UnderWay : ToSet(pending) \subseteq ToSet(upload[u].form) \cup late
    /\ \A a \in Uploads : Acknowledged(a) =>
         /\ ToSet(pending) \cap ToSet(upload[a].form) = {}
         /\ \A u \in UnderWay : ToSet(upload[u].form) \cap ToSet(upload[a].form) = {}
    /\ FiledOnce
    /\ PagesKept

LEMMA PagesStart == CaptureInit => Pages
BY DEF CaptureInit, Pages, UnderWay, Acknowledged, FiledOnce, PagesKept, Unused

\* A step that leaves pages and forms alone, and acknowledges nothing.
LEMMA PagesStay ==
    ASSUME Pages, UNCHANGED <<captured, pending, late, discarded>>,
           UnderWay' \subseteq UnderWay,
           \A u \in Uploads : upload'[u].form = upload[u].form,
           \A u \in Uploads : upload'[u].pc = "acknowledged" <=> upload[u].pc = "acknowledged"
    PROVE  Pages'
<1>1. /\ \A u, v \in UnderWay' : u = v
      /\ \A u \in UnderWay' : u \in Uploads /\ ToSet(pending) \subseteq ToSet(upload'[u].form) \cup late
  BY DEF Pages, UnderWay
<1>2. ASSUME NEW a \in Uploads, upload'[a].pc = "acknowledged"
      PROVE  /\ ToSet(pending) \cap ToSet(upload'[a].form) = {}
             /\ \A u \in UnderWay' : ToSet(upload'[u].form) \cap ToSet(upload'[a].form) = {}
  BY <1>1, <1>2 DEF Pages, Acknowledged
<1>3. FiledOnce'
  BY DEF Pages, FiledOnce
<1>4. PagesKept'
  BY DEF Pages, PagesKept
<1>. QED  BY <1>1, <1>2, <1>3, <1>4 DEF Pages, Acknowledged

LEMMA PagesStep == CaptureTypes /\ Pages /\ [CaptureNext]_captureVars => Pages'
<1>. SUFFICES ASSUME CaptureTypes, Pages, [CaptureNext]_captureVars PROVE Pages'
  OBVIOUS
<1>0. /\ upload \in [Uploads -> UploadFrame] /\ captured \in Nat /\ pending \in Seq(Nat)
      /\ \A u \in Uploads : ToSet(upload[u].form) \subseteq 1 .. captured
      /\ ToSet(pending) \subseteq 1 .. captured
  BY DEF CaptureTypes
<1>1. CASE Choose
  <2>1. /\ captured' = captured + 1
        /\ pending' = Append(pending, captured + 1)
        /\ upload' = upload /\ discarded' = discarded
        /\ late' = IF UnderWay = {} THEN late ELSE late \cup {captured + 1}
    BY <1>1 DEF Choose
  <2>2. ToSet(pending') = ToSet(pending) \cup {captured + 1}
    BY <2>1, <1>0, OneMorePage
  <2>3. captured + 1 \notin 1 .. captured /\ 1 .. captured' = (1 .. captured) \cup {captured + 1}
    BY <2>1, <1>0
  <2>4. UnderWay' = UnderWay
    BY <2>1 DEF UnderWay
  <2>5. \A u \in UnderWay : ToSet(pending') \subseteq ToSet(upload[u].form) \cup late'
    BY <2>1, <2>2 DEF Pages
  <2>6. \A a \in Uploads : Acknowledged(a) => ToSet(pending') \cap ToSet(upload[a].form) = {}
    BY <2>2, <2>3, <1>0 DEF Pages
  <2>7. FiledOnce'
    BY <2>1 DEF Pages, FiledOnce
  <2>8. PagesKept'
    <3>1. SUFFICES ASSUME NEW p \in (1 .. captured') \ late'
                   PROVE  \/ p \in ToSet(pending') \cup discarded
                          \/ \E u \in Uploads : upload[u].pc = "acknowledged" /\ p \in ToSet(upload[u].form)
      BY <2>1 DEF PagesKept
    <3>2. CASE p = captured + 1
      BY <3>2, <2>2
    <3>3. CASE p \in (1 .. captured) \ late
      BY <3>3, <2>2 DEF Pages, PagesKept
    <3>4. late \subseteq late'
      BY <2>1
    <3>. QED  BY <3>2, <3>3, <3>4, <2>3
  <2>. QED  BY <2>1, <2>4, <2>5, <2>6, <2>7, <2>8 DEF Pages, Acknowledged
<1>2. CASE Clear
  <2>1. pending' = <<>> /\ discarded' = discarded \cup ToSet(pending)
        /\ UNCHANGED <<captured, upload, late>>
    BY <1>2 DEF Clear
  <2>2. ToSet(pending') = {} /\ UnderWay' = UnderWay
    BY <2>1, NoPages DEF UnderWay
  <2>3. PagesKept'
    BY <2>1, <2>2 DEF Pages, PagesKept
  <2>. QED  BY <2>1, <2>2, <2>3 DEF Pages, Acknowledged, FiledOnce
<1>3. ASSUME NEW u \in Uploads, Submit(u) PROVE Pages'
  <2>1. /\ upload'[u].pc = "sent" /\ upload'[u].form = pending /\ upload[u].pc = "unused"
        /\ \A v \in Uploads \ {u} : upload'[v] = upload[v]
        /\ UnderWay = {} /\ UNCHANGED <<captured, pending, late, discarded>>
    BY <1>3, <1>0 DEF Submit, UploadDisabled, UploadFrame
  <2>2. UnderWay' = {u}
    BY <2>1 DEF UnderWay
  <2>3. \A a \in Uploads : upload'[a].pc = "acknowledged" => a # u /\ Acknowledged(a) /\ upload'[a] = upload[a]
    BY <2>1 DEF Acknowledged
  <2>4. \A a \in Uploads : Acknowledged(a) => a # u
    BY <2>1 DEF Acknowledged
  <2>5. FiledOnce'
    BY <2>3 DEF Pages, FiledOnce, Acknowledged
  <2>6. PagesKept'
    BY <2>1, <2>4 DEF Pages, PagesKept, Acknowledged
  <2>. QED  BY <2>1, <2>2, <2>3, <2>5, <2>6 DEF Pages, Acknowledged
<1>4. ASSUME NEW u \in Uploads, UploadAcknowledged(u) PROVE Pages'
  <2>1. /\ upload'[u].pc = "acknowledged" /\ upload'[u].form = upload[u].form
        /\ u \in UnderWay
        /\ \A v \in Uploads \ {u} : upload'[v] = upload[v]
        /\ pending' = <<>> /\ UNCHANGED <<captured, late, discarded>>
    BY <1>4, <1>0 DEF UploadAcknowledged, UploadFrame, UnderWay
  <2>2. UnderWay' = {}
    BY <2>1 DEF UnderWay, Pages
  <2>3. ToSet(pending') = {}
    BY <2>1, NoPages
  <2>4. FiledOnce'
    BY <2>1 DEF Pages, FiledOnce, Acknowledged
  <2>5. PagesKept'
    <3>1. SUFFICES ASSUME NEW p \in (1 .. captured) \ late, p \notin discarded
                   PROVE  \E v \in Uploads : upload'[v].pc = "acknowledged" /\ p \in ToSet(upload'[v].form)
      BY <2>1 DEF PagesKept
    <3>2. CASE p \in ToSet(pending)
      BY <2>1, <3>1, <3>2 DEF Pages
    <3>3. CASE \E v \in Uploads : upload[v].pc = "acknowledged" /\ p \in ToSet(upload[v].form)
      BY <2>1, <3>3
    <3>. QED  BY <3>1, <3>2, <3>3 DEF Pages, PagesKept
  <2>. QED  BY <2>1, <2>2, <2>3, <2>4, <2>5 DEF Pages
<1>5. ASSUME NEW u \in Uploads, Receive(u) \/ UploadFails(u) PROVE Pages'
  <2>1. /\ u \in UnderWay /\ upload'[u].pc \in {"answered", "failed"} /\ upload'[u].form = upload[u].form
        /\ upload[u].pc \in {"sent", "answered"}
        /\ \A v \in Uploads \ {u} : upload'[v] = upload[v]
        /\ UNCHANGED <<captured, pending, late, discarded>>
    BY <1>5, <1>0 DEF Receive, UploadFails, UploadFrame, UnderWay
  <2>2. UnderWay' \subseteq UnderWay
    BY <2>1 DEF UnderWay
  <2>3. \A v \in Uploads : /\ upload'[v].form = upload[v].form
                           /\ upload'[v].pc = "acknowledged" <=> upload[v].pc = "acknowledged"
    BY <2>1
  <2>. QED  BY <2>1, <2>2, <2>3, PagesStay
<1>6. CASE UNCHANGED <<captured, pending, late, discarded, upload>>
  BY <1>6, PagesStay DEF UnderWay
<1>7. (\E u \in Uploads : PollStep(u)) \/ Server
      \/ (\E i \in Ids : AskRemoval(i) \/ ServeRemoval(i) \/ RemovalAnswered(i) \/ RemovalFails(i)
                         \/ OthersRemove(i))
      \/ UNCHANGED captureVars
      => UNCHANGED <<captured, pending, late, discarded, upload>>
  BY DEF PollStep, Poll, PollAnswered, PollMissed, Server, Work, AskRemoval, ServeRemoval,
     RemovalAnswered, RemovalFails, OthersRemove, captureVars
<1>. QED  BY <1>1, <1>2, <1>3, <1>4, <1>5, <1>6, <1>7 DEF CaptureNext

\* app.js:84-95: no page is filed by two acknowledged uploads.
THEOREM FiledOnceHolds == CaptureSpec => []FiledOnce
<1>1. Pages => FiledOnce
  BY DEF Pages
<1>. QED  BY <1>1, CaptureTypesStart, CaptureTypesStep, PagesStart, PagesStep, PTL DEF CaptureSpec

\* app.js:58-97: a page stays pending until an acknowledged upload has it or the
\* user clears it, short of those added while an upload is awaited.
THEOREM PagesKeptHolds == CaptureSpec => []PagesKept
<1>1. Pages => PagesKept
  BY DEF Pages
<1>. QED  BY <1>1, CaptureTypesStart, CaptureTypesStep, PagesStart, PagesStep, PTL DEF CaptureSpec

-----------------------------------------------------------------------------
(* The capture tab: tracking *)

\* Whose id is tracked or being removed.
HasUpload(id) == \E v \in Uploads : upload[v].id = id /\ Acknowledged(v)

Settled == {"done", "failed"}

\* Documents and the removals made of them belong to the upload that was given
\* the id.
Belonging ==
    /\ \A i \in Ids, u \in Uploads : docs[i].by = u =>
         upload[u].id = i /\ (removal[i].pc = "gone" => removal[i].by # u)
    /\ \A i \in Ids : removal[i].pc = "gone" =>
         removal[i].by \in Uploads /\ upload[removal[i].by].id = i

\* What is tracked or being removed was acknowledged.
Known == \A i \in Ids : tracked[i] # "none" \/ removal[i] # NoRemoval => HasUpload(i)

\* An upload that has its id to itself is failed or being removed only when its
\* polling is over.
FailedIsOver ==
    \A i \in Ids, u \in Uploads :
        /\ upload[u].id = i /\ OwnsId(u)
        /\ tracked[i] = "failed" \/ removal[i] # NoRemoval
        => chain[u].pc = "over"

\* An answer that ends the polling is still true of the document.
AnswersStand ==
    \A i \in Ids, u \in Uploads : docs[i].by = u =>
        /\ chain[u].pc = "asked" /\ chain[u].answer \in Settled => docs[i].status = chain[u].answer
        /\ chain[u].pc = "over" => docs[i].status \in Settled

RemovedIsOver ==
    \A u \in removed :
        /\ u \in Uploads /\ upload[u].id \in Ids
        /\ OwnsId(u) => chain[u].pc = "over"

Tracking ==
    /\ Belonging /\ Known /\ FailedIsOver /\ AnswersStand /\ RemovedIsOver
    /\ ShownIsFinal /\ RemovedIsGone

LEMMA TrackingStarts == CaptureInit => Tracking
<1>. SUFFICES ASSUME CaptureInit PROVE Tracking
  OBVIOUS
<1>1. /\ \A i \in Ids : docs[i].by = 0 /\ removal[i] = NoRemoval /\ removal[i].pc = "no" /\ tracked[i] = "none"
      /\ \A u \in Uploads : chain[u].pc = "off" /\ u # 0
      /\ removed = {}
  BY DEF CaptureInit, NoDocument, NoRemoval, Untracked, Uploads
<1>. QED  BY <1>1 DEF Tracking, Belonging, Known, FailedIsOver, AnswersStand, RemovedIsOver,
             ShownIsFinal, RemovedIsGone

\* Steps that leave the ids of all uploads alone.
LEMMA SameIds ==
    ASSUME \A u \in Uploads : upload'[u].id = upload[u].id,
           \A u \in Uploads : Acknowledged(u) => upload'[u].pc = "acknowledged"
    PROVE  /\ \A u \in Uploads : OwnsId(u)' <=> OwnsId(u)
           /\ \A i \in Ids : HasUpload(i) => HasUpload(i)'
BY DEF OwnsId, HasUpload, Acknowledged

LEMMA TrackingStays ==
    ASSUME Tracking, UNCHANGED <<tracked, chain, removal, docs, removed>>,
           \A u \in Uploads : upload'[u].id = upload[u].id,
           \A u \in Uploads : Acknowledged(u) => upload'[u].pc = "acknowledged"
    PROVE  Tracking'
<1>1. /\ \A u \in Uploads : OwnsId(u)' <=> OwnsId(u)
      /\ \A i \in Ids : HasUpload(i) => HasUpload(i)'
  BY SameIds
<1>2. Belonging' /\ Known' /\ FailedIsOver'
  BY <1>1 DEF Tracking, Belonging, Known, FailedIsOver
<1>3. AnswersStand' /\ RemovedIsOver'
  BY <1>1 DEF Tracking, AnswersStand, RemovedIsOver
<1>4. ShownIsFinal' /\ RemovedIsGone'
  BY <1>1 DEF Tracking, ShownIsFinal, RemovedIsGone, RemovedIsOver
<1>. QED  BY <1>2, <1>3, <1>4 DEF Tracking

\* The server takes the pages, and gives them an id.
LEMMA TrackingReceives ==
    ASSUME CaptureTypes, Tracking, NEW u \in Uploads, NEW id \in Ids,
           upload[u].pc = "sent", IsNextRowid(id),
           upload' = [upload EXCEPT ![u] = [@ EXCEPT !.pc = "answered", !.id = id]],
           docs' = [docs EXCEPT ![id] = [by |-> u, status |-> "queued"]],
           UNCHANGED <<tracked, chain, removal, removed>>
    PROVE  Tracking'
<1>1. /\ upload[u].id = 0 /\ upload'[u].id = id /\ 0 \notin Ids
      /\ \A v \in Uploads \ {u} : upload'[v] = upload[v]
      /\ ~Acknowledged(u) /\ chain[u].pc = "off"
  BY DEF CaptureTypes, UploadFrame, Acknowledged, Ids
<1>2. /\ docs'[id].by = u
      /\ \A i \in Ids \ {id} : docs'[i] = docs[i]
  BY DEF CaptureTypes
<1>3. \A v \in Uploads : upload[v].id \in Ids => v # u /\ (OwnsId(v)' => OwnsId(v))
  BY <1>1 DEF OwnsId
<1>4. \A i \in Ids : HasUpload(i) => HasUpload(i)'
  BY <1>1 DEF HasUpload, Acknowledged
<1>5. HasUpload(id) => ~OwnsId(u)'
  BY <1>1 DEF HasUpload, Acknowledged, OwnsId
<1>6. \A i \in Ids, v \in Uploads : docs'[i].by = v =>
        \/ i = id /\ v = u
        \/ i # id /\ v # u /\ docs[i].by = v
  BY <1>1, <1>2 DEF Tracking, Belonging
<1>7. Belonging'
  BY <1>1, <1>6 DEF Tracking, Belonging
<1>8. Known'
  BY <1>4 DEF Tracking, Known
<1>9. FailedIsOver'
  <2>1. SUFFICES ASSUME NEW i \in Ids, NEW v \in Uploads, upload'[v].id = i, OwnsId(v)',
                        tracked[i] = "failed" \/ removal[i] # NoRemoval
                 PROVE  chain[v].pc = "over"
    BY DEF FailedIsOver
  <2>2. v # u
    BY <1>1, <1>5, <2>1 DEF Tracking, Known
  <2>. QED  BY <1>1, <1>3, <2>1, <2>2 DEF Tracking, FailedIsOver
<1>10. AnswersStand'
  BY <1>1, <1>2, <1>6 DEF Tracking, AnswersStand
<1>11. RemovedIsOver' /\ RemovedIsGone'
  BY <1>1, <1>3 DEF Tracking, RemovedIsOver, RemovedIsGone
<1>12. ShownIsFinal'
  <2>1. SUFFICES ASSUME NEW v \in Uploads, chain[v].pc = "over", docs'[upload'[v].id].by = v, OwnsId(v)'
                 PROVE  tracked[upload'[v].id] = docs'[upload'[v].id].status
    BY DEF ShownIsFinal
  <2>2. v # u /\ upload[v].id \in Ids
    BY <1>1, <2>1 DEF CaptureTypes
  <2>. QED  BY <1>1, <1>2, <1>3, <1>6, <2>1, <2>2 DEF Tracking, ShownIsFinal
<1>. QED  BY <1>7, <1>8, <1>9, <1>10, <1>11, <1>12 DEF Tracking

\* A page of the list changes with the chain of the upload it is about.
LEMMA TrackingMoves ==
    ASSUME CaptureTypes, Tracking, NEW u \in Uploads, upload[u].id \in Ids,
           NEW status \in Statuses, chain[u].pc # "over",
           \A v \in Uploads : upload'[v].id = upload[v].id,
           \A v \in Uploads : Acknowledged(v) => upload'[v].pc = "acknowledged",
           upload'[u].pc = "acknowledged",
           \A v \in Uploads \ {u} : chain'[v] = chain[v],
           \/ UNCHANGED tracked /\ chain'[u].pc # "over"
           \/ /\ tracked' = [tracked EXCEPT ![upload[u].id] = status]
              /\ status = "failed" => chain'[u].pc = "over",
           chain'[u].pc = "over" /\ docs[upload[u].id].by = u =>
               status \in Settled /\ docs[upload[u].id].status = status,
           chain'[u].pc = "asked" /\ chain'[u].answer \in Settled /\ docs[upload[u].id].by = u =>
               docs[upload[u].id].status = chain'[u].answer,
           UNCHANGED <<removal, docs, removed>>
    PROVE  Tracking'
<1>. PICK id \in Ids : id = upload[u].id
  OBVIOUS
<1>0. tracked \in [Ids -> Statuses \cup {"none"}]
  BY DEF CaptureTypes
<1>1. /\ \A v \in Uploads : OwnsId(v)' <=> OwnsId(v)
      /\ \A i \in Ids : HasUpload(i) => HasUpload(i)'
  BY SameIds
<1>2. HasUpload(id)'
  BY DEF HasUpload, Acknowledged
<1>3. \A v \in Uploads \ {u} : OwnsId(v) => upload[v].id # id
  BY DEF OwnsId
<1>4. \A i \in Ids \ {id} : tracked'[i] = tracked[i]
  BY <1>0
<1>5. OwnsId(u) => removal[id] = NoRemoval /\ tracked[id] # "failed" /\ u \notin removed
  BY DEF Tracking, FailedIsOver, RemovedIsOver
<1>6. \/ tracked'[id] = tracked[id] /\ chain'[u].pc # "over"
      \/ tracked'[id] = status /\ (status = "failed" => chain'[u].pc = "over")
  <2>1. CASE UNCHANGED tracked /\ chain'[u].pc # "over"
    BY <2>1
  <2>2. CASE tracked' = [tracked EXCEPT ![upload[u].id] = status]
             /\ (status = "failed" => chain'[u].pc = "over")
    <3>1. tracked'[id] = status
      BY <1>0, <2>2
    <3>. QED  BY <3>1, <2>2
  <2>. QED  BY <2>1, <2>2
<1>7. Belonging'
  <2>1. Belonging /\ docs' = docs /\ removal' = removal
    BY DEF Tracking
  <2>2. \A v \in Uploads : upload'[v].id = upload[v].id
    OBVIOUS
  <2>3. \A i \in Ids : docs'[i].by = docs[i].by /\ removal'[i] = removal[i]
    BY <2>1
  <2>4. ASSUME NEW i \in Ids, NEW v \in Uploads, docs[i].by = v
        PROVE  upload'[v].id = i /\ (removal[i].pc = "gone" => removal[i].by # v)
    BY <2>1, <2>2, <2>4 DEF Belonging
  <2>5. ASSUME NEW i \in Ids, removal[i].pc = "gone"
        PROVE  removal[i].by \in Uploads /\ upload'[removal[i].by].id = i
    BY <2>1, <2>2, <2>5 DEF Belonging
  <2>. QED  BY <2>1, <2>4, <2>5 DEF Belonging
<1>8. Known'
  <2>1. SUFFICES ASSUME NEW i \in Ids, tracked'[i] # "none" \/ removal[i] # NoRemoval
                 PROVE  HasUpload(i)'
    BY DEF Known
  <2>. QED  BY <1>1, <1>2, <1>4, <2>1 DEF Tracking, Known
<1>9. FailedIsOver'
  <2>1. SUFFICES ASSUME NEW i \in Ids, NEW v \in Uploads, upload[v].id = i, OwnsId(v),
                        tracked'[i] = "failed" \/ removal[i] # NoRemoval
                 PROVE  chain'[v].pc = "over"
    BY <1>1 DEF FailedIsOver
  <2>2. CASE v = u
    BY <1>5, <1>6, <2>1, <2>2
  <2>3. CASE v # u
    BY <1>3, <1>4, <2>1, <2>3 DEF Tracking, FailedIsOver
  <2>. QED  BY <2>2, <2>3
<1>10. AnswersStand'
  <2>1. SUFFICES ASSUME NEW i \in Ids, NEW v \in Uploads, docs[i].by = v
                 PROVE  /\ chain'[v].pc = "asked" /\ chain'[v].answer \in Settled =>
                             docs[i].status = chain'[v].answer
                        /\ chain'[v].pc = "over" => docs[i].status \in Settled
    BY DEF AnswersStand
  <2>2. upload[v].id = i
    BY <2>1 DEF Tracking, Belonging
  <2>. QED  BY <2>1, <2>2 DEF Tracking, AnswersStand
<1>11. RemovedIsOver'
  BY <1>1, <1>5 DEF Tracking, RemovedIsOver
<1>12. RemovedIsGone'
  BY <1>1, <1>3, <1>4, <1>5 DEF Tracking, RemovedIsGone, RemovedIsOver
<1>13. ShownIsFinal'
  <2>1. SUFFICES ASSUME NEW v \in Uploads, chain'[v].pc = "over", docs[upload[v].id].by = v, OwnsId(v)
                 PROVE  tracked'[upload[v].id] = docs[upload[v].id].status
    BY <1>1 DEF ShownIsFinal
  <2>2. CASE v = u
    BY <1>6, <2>1, <2>2
  <2>3. CASE v # u
    <3>1. upload[v].id \in Ids /\ upload[v].id # id
      BY <1>3, <2>1, <2>3 DEF CaptureTypes
    <3>. QED  BY <1>4, <2>1, <2>3, <3>1 DEF Tracking, ShownIsFinal
  <2>. QED  BY <2>2, <2>3
<1>. QED  BY <1>7, <1>8, <1>9, <1>10, <1>11, <1>12, <1>13 DEF Tracking

\* What the server does with its documents: nothing is tracked anew.
LEMMA TrackingServed ==
    ASSUME CaptureTypes, Tracking, NEW i \in Ids,
           UNCHANGED <<tracked, chain, upload, removed>>,
           \A j \in Ids \ {i} : docs'[j] = docs[j] /\ removal'[j] = removal[j],
           removal'[i] # NoRemoval => removal[i] # NoRemoval,
           \/ docs'[i].by = 0
           \/ /\ docs'[i].by = docs[i].by /\ docs[i].status \notin Settled
              /\ removal' = removal,
           \/ removal'[i].pc = "gone" => removal[i].pc = "gone" /\ removal'[i].by = removal[i].by
           \/ removal'[i].by = docs[i].by /\ docs[i].by \in Uploads
    PROVE  Tracking'
<1>1. 0 \notin Uploads /\ \A u \in Uploads : OwnsId(u)' <=> OwnsId(u)
  BY DEF OwnsId, Uploads
<1>2. \A j \in Ids : HasUpload(j)' <=> HasUpload(j)
  BY DEF HasUpload, Acknowledged
<1>3. \A j \in Ids, u \in Uploads : docs'[j].by = u =>
        docs[j].by = u /\ (j # i \/ (docs[i].status \notin Settled /\ removal' = removal))
  BY <1>1
<1>4. Belonging'
  <2>1. ASSUME NEW j \in Ids, NEW u \in Uploads, docs'[j].by = u
        PROVE  upload[u].id = j /\ (removal'[j].pc = "gone" => removal'[j].by # u)
    BY <1>3, <2>1 DEF Tracking, Belonging
  <2>2. ASSUME NEW j \in Ids, removal'[j].pc = "gone"
        PROVE  removal'[j].by \in Uploads /\ upload[removal'[j].by].id = j
    BY <2>2 DEF Tracking, Belonging
  <2>. QED  BY <2>1, <2>2 DEF Belonging
<1>5. \A j \in Ids : removal'[j] # NoRemoval => removal[j] # NoRemoval
  OBVIOUS
<1>6. Known'
  BY <1>2, <1>5 DEF Tracking, Known
<1>7. FailedIsOver'
  BY <1>1, <1>5 DEF Tracking, FailedIsOver
<1>8. AnswersStand'
  BY <1>3 DEF Tracking, AnswersStand
<1>9. RemovedIsOver' /\ RemovedIsGone'
  BY <1>1 DEF Tracking, RemovedIsOver, RemovedIsGone
<1>10. ShownIsFinal'
  <2>1. SUFFICES ASSUME NEW u \in Uploads, chain[u].pc = "over", docs'[upload[u].id].by = u, OwnsId(u)
                 PROVE  tracked[upload[u].id] = docs'[upload[u].id].status
    BY <1>1 DEF ShownIsFinal
  <2>2. Acknowledged(u) /\ upload[u].id \in Ids
    BY <2>1 DEF CaptureTypes
  <2>3. docs[upload[u].id].by = u /\ docs[upload[u].id].status \in Settled /\ upload[u].id # i
    BY <1>3, <2>1, <2>2 DEF Tracking, AnswersStand
  <2>. QED  BY <2>1, <2>2, <2>3 DEF Tracking, ShownIsFinal
<1>. QED  BY <1>4, <1>6, <1>7, <1>8, <1>9, <1>10 DEF Tracking

LEMMA TrackingRemoves ==
    ASSUME CaptureTypes, Tracking, NEW i \in Ids, RemovalAnswered(i)
    PROVE  Tracking'
<1>. DEFINE by == removal[i].by
<1>1. /\ by \in Uploads /\ upload[by].id = i
      /\ removal[i] # NoRemoval
      /\ \A u \in Uploads : docs[i].by = u => u # by
  BY DEF RemovalAnswered, NoRemoval, Tracking, Belonging
<1>2. /\ \A j \in Ids \ {i} : tracked'[j] = tracked[j] /\ removal'[j] = removal[j]
      /\ tracked'[i] = "none" /\ removal'[i] = NoRemoval
      /\ removed' = removed \cup {by}
      /\ UNCHANGED <<upload, chain, docs>>
  BY DEF RemovalAnswered, CaptureTypes
<1>3. NoRemoval.pc = "no"
  BY DEF NoRemoval
<1>4. /\ \A u \in Uploads : OwnsId(u)' <=> OwnsId(u)
      /\ \A j \in Ids : HasUpload(j)' <=> HasUpload(j)
  BY <1>2 DEF OwnsId, HasUpload, Acknowledged
<1>5. Belonging'
  <2>1. ASSUME NEW j \in Ids, NEW u \in Uploads, docs[j].by = u
        PROVE  upload[u].id = j /\ (removal'[j].pc = "gone" => removal'[j].by # u)
    BY <1>2, <1>3, <2>1 DEF Tracking, Belonging
  <2>2. ASSUME NEW j \in Ids, removal'[j].pc = "gone"
        PROVE  removal'[j].by \in Uploads /\ upload[removal'[j].by].id = j
    BY <1>2, <1>3, <2>2 DEF Tracking, Belonging
  <2>. QED  BY <1>2, <2>1, <2>2 DEF Belonging
<1>6. \A j \in Ids : tracked'[j] # "none" \/ removal'[j] # NoRemoval => j # i
  BY <1>2
<1>7. Known'
  BY <1>2, <1>4, <1>6 DEF Tracking, Known
<1>8. FailedIsOver'
  BY <1>2, <1>4, <1>6 DEF Tracking, FailedIsOver
<1>9. AnswersStand'
  BY <1>2 DEF Tracking, AnswersStand
<1>10. RemovedIsOver'
  <2>1. OwnsId(by) => chain[by].pc = "over"
    BY <1>1 DEF Tracking, FailedIsOver
  <2>2. ASSUME NEW u \in removed'
        PROVE  u \in Uploads /\ upload[u].id \in Ids /\ (OwnsId(u) => chain[u].pc = "over")
    BY <1>1, <1>2, <2>1, <2>2 DEF Tracking, RemovedIsOver
  <2>. QED  BY <1>2, <1>4, <2>2 DEF RemovedIsOver
<1>11. RemovedIsGone'
  <2>1. ASSUME NEW u \in removed', OwnsId(u)
        PROVE  u \in Uploads /\ tracked'[upload[u].id] = "none"
    BY <1>1, <1>2, <2>1 DEF Tracking, RemovedIsOver, RemovedIsGone
  <2>2. \A u \in removed' : u \in Uploads
    BY <1>1, <1>2 DEF Tracking, RemovedIsOver
  <2>. QED  BY <1>2, <1>4, <2>1, <2>2 DEF RemovedIsGone
<1>12. ShownIsFinal'
  <2>1. SUFFICES ASSUME NEW u \in Uploads, chain[u].pc = "over", docs[upload[u].id].by = u, OwnsId(u)
                 PROVE  tracked'[upload[u].id] = docs[upload[u].id].status
    BY <1>2, <1>4 DEF ShownIsFinal
  <2>2. Acknowledged(u) /\ upload[u].id \in Ids
    BY <2>1 DEF CaptureTypes
  <2>3. upload[u].id # i
    BY <1>1, <2>1 DEF OwnsId
  <2>. QED  BY <1>2, <2>1, <2>2, <2>3 DEF Tracking, ShownIsFinal
<1>. QED  BY <1>5, <1>7, <1>8, <1>9, <1>10, <1>11, <1>12 DEF Tracking

LEMMA TrackingStep == CaptureTypes /\ Tracking /\ [CaptureNext]_captureVars => Tracking'
<1>. SUFFICES ASSUME CaptureTypes, Tracking, [CaptureNext]_captureVars PROVE Tracking'
  OBVIOUS
<1>0. /\ upload \in [Uploads -> UploadFrame] /\ chain \in [Uploads -> ChainFrame]
      /\ docs \in [Ids -> Document] /\ removal \in [Ids -> RemovalFrame]
      /\ \A u \in Uploads : upload[u] \in UploadFrame /\ chain[u] \in ChainFrame
      /\ \A u \in Uploads : Acknowledged(u) => upload[u].id \in Ids
      /\ \A u \in Uploads : chain[u].pc # "off" => Acknowledged(u)
  BY DEF CaptureTypes
<1>1. CASE Choose \/ Clear \/ UNCHANGED captureVars
  BY <1>1, TrackingStays DEF Choose, Clear, captureVars, Acknowledged
<1>2. ASSUME NEW u \in Uploads,
             \/ Submit(u) \/ UploadFails(u)
             \/ Receive(u) /\ upload' = [upload EXCEPT ![u].pc = "answered"] /\ UNCHANGED docs
      PROVE  Tracking'
  <2>1. /\ \A v \in Uploads \ {u} : upload'[v] = upload[v]
        /\ ~Acknowledged(u) /\ upload'[u].id = upload[u].id
        /\ UNCHANGED <<tracked, chain, removal, docs, removed>>
    <3>1. CASE Submit(u)
      BY <1>0, <3>1 DEF Submit, Acknowledged, UploadFrame
    <3>2. CASE UploadFails(u)
      BY <1>0, <3>2 DEF UploadFails, Acknowledged, UploadFrame
    <3>3. CASE Receive(u) /\ upload' = [upload EXCEPT ![u].pc = "answered"] /\ UNCHANGED docs
      BY <1>0, <3>3 DEF Receive, Acknowledged, UploadFrame
    <3>. QED  BY <1>2, <3>1, <3>2, <3>3
  <2>2. \A v \in Uploads : /\ upload'[v].id = upload[v].id
                           /\ Acknowledged(v) => upload'[v].pc = "acknowledged"
    BY <2>1 DEF Acknowledged
  <2>. QED  BY <2>1, <2>2, TrackingStays
<1>3. ASSUME NEW u \in Uploads, Receive(u) PROVE Tracking'
  BY <1>2, <1>3, TrackingReceives DEF Receive
<1>4. ASSUME NEW u \in Uploads, UploadAcknowledged(u) PROVE Tracking'
  <2>1. /\ upload[u].id \in Ids /\ chain[u].pc # "over"
        /\ \A v \in Uploads \ {u} : upload'[v] = upload[v] /\ chain'[v] = chain[v]
        /\ upload'[u].id = upload[u].id /\ upload'[u].pc = "acknowledged"
        /\ chain'[u].pc = "timer"
        /\ tracked' = [tracked EXCEPT ![upload[u].id] = "queued"]
        /\ UNCHANGED <<removal, docs, removed>>
    BY <1>0, <1>4 DEF UploadAcknowledged, Acknowledged, UploadFrame, ChainFrame
  <2>2. \A v \in Uploads : /\ upload'[v].id = upload[v].id
                           /\ Acknowledged(v) => upload'[v].pc = "acknowledged"
    BY <2>1 DEF Acknowledged
  <2>3. "queued" \in Statuses
    BY DEF Statuses
  <2>. QED  BY <2>1, <2>2, <2>3, TrackingMoves
<1>5. ASSUME NEW u \in Uploads, Poll(u) PROVE Tracking'
  <2>1. /\ upload[u].id \in Ids /\ chain[u].pc # "over" /\ Acknowledged(u)
        /\ \A v \in Uploads \ {u} : chain'[v] = chain[v]
        /\ chain'[u].pc = "asked"
        /\ chain'[u].answer = IF upload[u].id \in Existing THEN docs[upload[u].id].status ELSE "404"
        /\ UNCHANGED <<upload, tracked, removal, docs, removed>>
    BY <1>0, <1>5 DEF Poll, ChainFrame
  <2>2. docs[upload[u].id].by = u => chain'[u].answer = docs[upload[u].id].status
    BY <2>1 DEF Existing, NoDocument, Uploads
  <2>3. "queued" \in Statuses /\ upload'[u].pc = "acknowledged"
        /\ \A v \in Uploads : /\ upload'[v].id = upload[v].id
                              /\ Acknowledged(v) => upload'[v].pc = "acknowledged"
    BY <2>1 DEF Statuses, Acknowledged
  <2>. QED  BY <2>1, <2>2, <2>3, TrackingMoves
<1>6. ASSUME NEW u \in Uploads, PollAnswered(u) PROVE Tracking'
  <2>. DEFINE status == chain[u].answer
  <2>1. /\ upload[u].id \in Ids /\ chain[u].pc = "asked" /\ Acknowledged(u)
        /\ status \in Statuses
        /\ \A v \in Uploads \ {u} : chain'[v] = chain[v]
        /\ chain'[u].pc = IF PollsOn(status) THEN "timer" ELSE "over"
        /\ tracked' = [tracked EXCEPT ![upload[u].id] = status]
        /\ UNCHANGED <<upload, removal, docs, removed>>
    BY <1>0, <1>6 DEF PollAnswered, Throws, ChainFrame
  <2>2. /\ chain'[u].pc = "over" => status \in Settled
        /\ status = "failed" => chain'[u].pc = "over"
        /\ chain'[u].pc # "asked"
    BY <2>1 DEF PollsOn, Settled, Statuses
  <2>3. docs[upload[u].id].by = u /\ status \in Settled => docs[upload[u].id].status = status
    BY <2>1 DEF Tracking, AnswersStand
  <2>4. upload'[u].pc = "acknowledged"
        /\ \A v \in Uploads : /\ upload'[v].id = upload[v].id
                              /\ Acknowledged(v) => upload'[v].pc = "acknowledged"
    BY <2>1 DEF Acknowledged
  <2>. HIDE DEF status
  <2>. QED  BY <2>1, <2>2, <2>3, <2>4, TrackingMoves
<1>7. ASSUME NEW u \in Uploads, PollMissed(u) PROVE Tracking'
  <2>1. /\ upload[u].id \in Ids /\ chain[u].pc # "over" /\ Acknowledged(u)
        /\ \A v \in Uploads \ {u} : chain'[v] = chain[v]
        /\ chain'[u].pc \in {"timer", "lost"}
        /\ UNCHANGED <<upload, tracked, removal, docs, removed>>
    BY <1>0, <1>7 DEF PollMissed, ChainFrame
  <2>2. "queued" \in Statuses /\ upload'[u].pc = "acknowledged"
        /\ \A v \in Uploads : /\ upload'[v].id = upload[v].id
                              /\ Acknowledged(v) => upload'[v].pc = "acknowledged"
    BY <2>1 DEF Statuses, Acknowledged
  <2>. QED  BY <2>1, <2>2, TrackingMoves
<1>8. ASSUME NEW i \in Ids, AskRemoval(i) PROVE Tracking'
  <2>1. /\ tracked[i] = "failed"
        /\ \A j \in Ids \ {i} : removal'[j] = removal[j]
        /\ removal'[i].pc = "sent"
        /\ UNCHANGED <<upload, tracked, chain, docs, removed>>
    BY <1>0, <1>8 DEF AskRemoval, RemovalFrame
  <2>2. /\ \A u \in Uploads : OwnsId(u)' <=> OwnsId(u)
        /\ \A j \in Ids : HasUpload(j)' <=> HasUpload(j)
    BY <2>1 DEF OwnsId, HasUpload, Acknowledged
  <2>3. Belonging'
    BY <2>1 DEF Tracking, Belonging
  <2>4. Known' /\ FailedIsOver'
    BY <2>1, <2>2 DEF Tracking, Known, FailedIsOver
  <2>5. AnswersStand' /\ RemovedIsOver'
    BY <2>1, <2>2 DEF Tracking, AnswersStand, RemovedIsOver
  <2>6. ShownIsFinal' /\ RemovedIsGone'
    BY <2>1, <2>2 DEF Tracking, RemovedIsOver, ShownIsFinal, RemovedIsGone
  <2>. QED  BY <2>3, <2>4, <2>5, <2>6 DEF Tracking
<1>9. ASSUME NEW i \in Ids, ServeRemoval(i) PROVE Tracking'
  <2>1. /\ docs'[i].by = 0 /\ docs[i].by \in Uploads
        /\ removal[i] # NoRemoval /\ removal'[i].by = docs[i].by
        /\ \A j \in Ids \ {i} : docs'[j] = docs[j] /\ removal'[j] = removal[j]
        /\ UNCHANGED <<upload, tracked, chain, removed>>
    BY <1>0, <1>9 DEF ServeRemoval, Gone, Document, NoDocument, NoRemoval
  <2>. QED  BY <2>1, TrackingServed
<1>10. ASSUME NEW i \in Ids, RemovalFails(i) PROVE Tracking'
  <2>1. /\ \A j \in Ids \ {i} : removal'[j] = removal[j]
        /\ removal'[i] = NoRemoval /\ NoRemoval.pc = "no"
        /\ UNCHANGED <<upload, tracked, chain, docs, removed>>
    BY <1>0, <1>10 DEF RemovalFails, NoRemoval
  <2>2. /\ \A u \in Uploads : OwnsId(u)' <=> OwnsId(u)
        /\ \A j \in Ids : HasUpload(j)' <=> HasUpload(j)
    BY <2>1 DEF OwnsId, HasUpload, Acknowledged
  <2>3. Belonging'
    BY <2>1 DEF Tracking, Belonging
  <2>4. Known' /\ FailedIsOver'
    BY <2>1, <2>2 DEF Tracking, Known, FailedIsOver
  <2>5. AnswersStand' /\ RemovedIsOver'
    BY <2>1, <2>2 DEF Tracking, AnswersStand, RemovedIsOver
  <2>6. ShownIsFinal' /\ RemovedIsGone'
    BY <2>1, <2>2 DEF Tracking, RemovedIsOver, ShownIsFinal, RemovedIsGone
  <2>. QED  BY <2>3, <2>4, <2>5, <2>6 DEF Tracking
<1>11. ASSUME NEW i \in Ids, OthersRemove(i) PROVE Tracking'
  <2>1. /\ docs'[i].by = 0
        /\ \A j \in Ids \ {i} : docs'[j] = docs[j]
        /\ UNCHANGED <<upload, tracked, chain, removed, removal>>
    BY <1>0, <1>11 DEF OthersRemove, Gone, NoDocument
  <2>. QED  BY <2>1, TrackingServed
<1>12. ASSUME NEW i \in Ids, Work(i) PROVE Tracking'
  <2>1. docs[i] \in [by : Uploads, status : Statuses]
    BY <1>0, <1>12 DEF Work, NoDocument, Document
  <2>2. PICK status \in Statuses : docs' = [docs EXCEPT ![i].status = status]
    BY <1>12 DEF Work, Statuses
  <2>3. /\ docs'[i].by = docs[i].by /\ docs[i].status \notin Settled
        /\ \A j \in Ids \ {i} : docs'[j] = docs[j]
        /\ UNCHANGED <<upload, tracked, chain, removed, removal>>
    BY <1>0, <1>12, <2>1, <2>2 DEF Work, Settled
  <2>. QED  BY <2>3, TrackingServed
<1>. QED  BY <1>1, <1>2, <1>3, <1>4, <1>5, <1>6, <1>7, <1>8, <1>9, <1>10, <1>11, <1>12,
             TrackingRemoves DEF CaptureNext, Server, PollStep

\* app.js:135-154: a settled status on the list is the status of the document,
\* of an upload that does not share its id with a later one.
THEOREM ShownHolds == CaptureSpec => []ShownIsFinal
<1>1. Tracking => ShownIsFinal
  BY DEF Tracking
<1>. QED  BY <1>1, CaptureTypesStart, CaptureTypesStep, TrackingStarts, TrackingStep, PTL
          DEF CaptureSpec

\* app.js:121-123, 141: no late answer puts a removed upload back on the list.
THEOREM RemovedHolds == CaptureSpec => []RemovedIsGone
<1>1. Tracking => RemovedIsGone
  BY DEF Tracking
<1>. QED  BY <1>1, CaptureTypesStart, CaptureTypesStep, TrackingStarts, TrackingStep, PTL
          DEF CaptureSpec

-----------------------------------------------------------------------------
(* The archive tab: types *)

DocsShown == Docs \cup {NoDoc}
OpeningFrame == [opening : Nat, doc : Docs, answer : Nat, pc : {"sent", "answered"}]
Slot == [pc : {"waiting", "shown", "removed"}, doc : DocsShown, page : PageNos \cup {0}]
DialogFrame == [open : BOOLEAN, opening : Nat, title : DocsShown, doc : DocsShown, input : Nat,
                dirty : BOOLEAN, head : DocsShown, slots : [PageNos -> Slot]]
ImageFrame == [opening : Nat, doc : Docs, page : PageNos]
PatchFrame == [opening : Nat, doc : DocsShown, edit : Nat,
               pc : {"sent", "accepted", "refused"}]
HistoryFrame == [answered : SUBSET Nat, crossed : BOOLEAN, reopened : BOOLEAN,
                 overtyped : BOOLEAN, typed : [1 .. MaxEdits -> DocsShown],
                 accepted : SUBSET Nat]

ArchiveTypes ==
    /\ asked \in Nat /\ searching \subseteq Nat /\ listed \in Nat
    /\ opened \in Nat /\ opening \subseteq OpeningFrame
    /\ dialog \in DialogFrame /\ images \subseteq ImageFrame
    /\ edits \in 0 .. MaxEdits /\ patching \subseteq PatchFrame
    /\ summary \in [Docs -> Nat]
    /\ history \in HistoryFrame

LEMMA ArchiveTypesStart == ArchiveInit => ArchiveTypes
<1>. SUFFICES ASSUME ArchiveInit PROVE ArchiveTypes
  OBVIOUS
<1>1. Placeholder \in Slot
  BY DEF Placeholder, Slot, DocsShown
<1>2. EmptyDialog \in DialogFrame
  BY <1>1 DEF EmptyDialog, DialogFrame, DocsShown
<1>3. NoHistory \in HistoryFrame
  BY DEF NoHistory, HistoryFrame, DocsShown
<1>4. 0 \in 0 .. MaxEdits
  BY WebArchiveAssumption
<1>. QED  BY <1>2, <1>3, <1>4 DEF ArchiveInit, ArchiveTypes

LEMMA ArchiveTypesStep == ArchiveTypes /\ [ArchiveNext]_archiveVars => ArchiveTypes'
<1>. SUFFICES ASSUME ArchiveTypes, [ArchiveNext]_archiveVars PROVE ArchiveTypes'
  OBVIOUS
<1>. USE DEF ArchiveTypes
<1>1. CASE Search
  <2>1. history' \in HistoryFrame
    <3>1. PICK crossed \in BOOLEAN : history' = [history EXCEPT !.crossed = crossed]
      BY <1>1 DEF Search
    <3>. QED  BY <3>1 DEF HistoryFrame
  <2>. QED  BY <1>1, <2>1 DEF Search
<1>2. ASSUME NEW n \in searching, SearchAnswered(n) PROVE ArchiveTypes'
  <2>1. history' \in HistoryFrame
    BY <1>2 DEF SearchAnswered, HistoryFrame
  <2>. QED  BY <1>2, <2>1 DEF SearchAnswered, Listed
<1>3. ASSUME NEW d \in Docs, Open(d) PROVE ArchiveTypes'
  <2>1. [opening |-> opened', doc |-> d, answer |-> 0, pc |-> "sent"] \in OpeningFrame
    BY <1>3 DEF Open, OpeningFrame
  <2>. QED  BY <1>3, <2>1 DEF Open
<1>4. ASSUME NEW o \in opening, ServeOpen(o) PROVE ArchiveTypes'
  <2>1. [o EXCEPT !.pc = "answered", !.answer = summary[o.doc]] \in OpeningFrame
    BY DEF OpeningFrame
  <2>. QED  BY <1>4, <2>1 DEF ServeOpen
<1>5. ASSUME NEW o \in opening, OpenAnswered(o) PROVE ArchiveTypes'
  <2>1. o \in OpeningFrame /\ Placeholder \in Slot
    BY DEF Placeholder, Slot, DocsShown
  <2>2. dialog' \in DialogFrame
    BY <1>5, <2>1 DEF OpenAnswered, HeadOf, OpeningFrame, DialogFrame, DocsShown
  <2>3. images' \subseteq ImageFrame
    BY <1>5, <2>1 DEF OpenAnswered, OpeningFrame, ImageFrame
  <2>4. history' \in HistoryFrame
    <3>1. PICK reopened \in BOOLEAN : history' = [history EXCEPT !.reopened = reopened]
      BY <1>5 DEF OpenAnswered
    <3>. QED  BY <3>1 DEF HistoryFrame
  <2>. QED  BY <1>5, <2>2, <2>3, <2>4 DEF OpenAnswered
<1>6. ASSUME NEW f \in images, ImageAnswered(f) PROVE ArchiveTypes'
  <2>1. CASE UNCHANGED dialog
    BY <1>6, <2>1 DEF ImageAnswered
  <2>2. ASSUME NEW pc \in {"shown", "removed"},
               dialog' = [dialog EXCEPT !.slots[SlotOf(f)] = [pc |-> pc, doc |-> f.doc, page |-> f.page]]
        PROVE  ArchiveTypes'
    <3>1. [pc |-> pc, doc |-> f.doc, page |-> f.page] \in Slot
      BY DEF Slot, ImageFrame, DocsShown
    <3>2. dialog' \in DialogFrame
      BY <2>2, <3>1 DEF DialogFrame
    <3>. QED  BY <1>6, <3>2 DEF ImageAnswered
  <2>. QED  BY <1>6, <2>1, <2>2 DEF ImageAnswered
<1>7. CASE Close
  BY <1>7 DEF Close, DialogFrame
<1>8. CASE Edit
  <2>1. edits + 1 \in 1 .. MaxEdits /\ edits' = edits + 1
    BY <1>8, WebArchiveAssumption DEF Edit
  <2>2. dialog' \in DialogFrame
    <3>1. edits + 1 \in Nat /\ dialog' = [dialog EXCEPT !.input = edits + 1, !.dirty = TRUE]
      BY <1>8, <2>1 DEF Edit
    <3>. QED  BY <3>1 DEF DialogFrame
  <2>3. dialog.doc \in DocsShown /\ dialog.title \in DocsShown /\ dialog.opening \in Nat
    BY DEF DialogFrame
  <2>4. patching' \subseteq PatchFrame
    BY <1>8, <2>1, <2>3 DEF Edit, PatchFrame, PatchedDocument
  <2>5. history' \in HistoryFrame
    <3>. DEFINE overtyped == history.overtyped \/ \E c \in patching : c.opening = dialog.opening
    <3>1. overtyped \in BOOLEAN
      OBVIOUS
    <3>2. history' = [history EXCEPT !.typed[edits + 1] = dialog.title, !.overtyped = overtyped]
      BY <1>8, <2>1 DEF Edit
    <3>. HIDE DEF overtyped
    <3>. QED  BY <2>1, <2>3, <3>1, <3>2 DEF HistoryFrame
  <2>. QED  BY <1>8, <2>1, <2>2, <2>4, <2>5 DEF Edit
<1>9. ASSUME NEW c \in patching, ServeEdit(c) PROVE ArchiveTypes'
  <2>1. c \in PatchFrame /\ c.edit \in Nat
    BY DEF PatchFrame
  <2>2. [c EXCEPT !.pc = "accepted"] \in PatchFrame /\ [c EXCEPT !.pc = "refused"] \in PatchFrame
    BY <2>1 DEF PatchFrame
  <2>3. patching' \subseteq PatchFrame
    BY <1>9, <2>2 DEF ServeEdit
  <2>4. summary' \in [Docs -> Nat]
    BY <1>9, <2>1 DEF ServeEdit
  <2>5. history' \in HistoryFrame
    BY <1>9, <2>1 DEF ServeEdit, HistoryFrame
  <2>. QED  BY <1>9, <2>3, <2>4, <2>5 DEF ServeEdit
<1>10. ASSUME NEW c \in patching, EditAnswered(c) PROVE ArchiveTypes'
  <2>1. c.doc \in DocsShown /\ DirtyAfter(c) \in BOOLEAN
    BY DEF PatchFrame, DirtyAfter
  <2>2. PICK dirty \in BOOLEAN, head \in DocsShown :
          dialog' = [dialog EXCEPT !.dirty = dirty, !.head = head]
    BY <1>10, <2>1 DEF EditAnswered, DialogFrame
  <2>3. dialog' \in DialogFrame
    BY <2>2 DEF DialogFrame
  <2>. QED  BY <1>10, <2>3 DEF EditAnswered
<1>11. CASE Fails
  BY <1>11 DEF Fails
<1>12. CASE UNCHANGED archiveVars
  BY <1>12 DEF archiveVars
<1>. QED  BY <1>1, <1>2, <1>3, <1>4, <1>5, <1>6, <1>7, <1>8, <1>9, <1>10, <1>11, <1>12
          DEF ArchiveNext

-----------------------------------------------------------------------------
(* The archive tab: searches *)

\* Searches are numbered as they are made; as long as none was made while
\* another was awaited, the one that is awaited is the last.
SearchesInOrder ==
    /\ searching \subseteq 1 .. asked /\ history.answered \subseteq 1 .. asked
    /\ ~history.crossed => searching \subseteq {asked}
    /\ ListIsLatest

LEMMA SearchesStart == ArchiveInit => SearchesInOrder
BY DEF ArchiveInit, NoHistory, SearchesInOrder, ListIsLatest

LEMMA SearchesStep ==
    ArchiveTypes /\ SearchesInOrder /\ [ArchiveNext]_archiveVars => SearchesInOrder'
<1>. SUFFICES ASSUME ArchiveTypes, SearchesInOrder, [ArchiveNext]_archiveVars
              PROVE  SearchesInOrder'
  OBVIOUS
<1>0. asked \in Nat /\ history \in HistoryFrame /\ searching \subseteq Nat
  BY DEF ArchiveTypes
<1>1. CASE Search
  <2>1. /\ asked' = asked + 1 /\ searching' = searching \cup {asked + 1}
        /\ history'.answered = history.answered
        /\ ~history'.crossed => ~history.crossed /\ searching = {}
        /\ UNCHANGED listed
    BY <1>0, <1>1 DEF Search, HistoryFrame
  <2>. QED  BY <1>0, <2>1 DEF SearchesInOrder, ListIsLatest
<1>2. ASSUME NEW n \in searching, SearchAnswered(n) PROVE SearchesInOrder'
  <2>1. /\ searching' = searching \ {n} /\ listed' = n
        /\ history'.answered = history.answered \cup {n}
        /\ history'.crossed = history.crossed
        /\ UNCHANGED asked
    BY <1>0, <1>2 DEF SearchAnswered, Listed, HistoryFrame
  <2>. QED  BY <1>0, <2>1 DEF SearchesInOrder, ListIsLatest
<1>3. ASSUME UNCHANGED <<asked, listed>>, searching' \subseteq searching,
             history'.answered = history.answered, history'.crossed = history.crossed
      PROVE  SearchesInOrder'
  BY <1>3 DEF SearchesInOrder, ListIsLatest
<1>4. CASE Close \/ Fails \/ UNCHANGED archiveVars
  BY <1>3, <1>4 DEF Close, Fails, archiveVars
<1>5. CASE Edit
  BY <1>0, <1>3, <1>5 DEF Edit, HistoryFrame
<1>6. ASSUME NEW d \in Docs, Open(d) PROVE SearchesInOrder'
  BY <1>3, <1>6 DEF Open
<1>7. ASSUME NEW o \in opening, ServeOpen(o) \/ OpenAnswered(o) PROVE SearchesInOrder'
  BY <1>0, <1>3, <1>7 DEF ServeOpen, OpenAnswered, HistoryFrame
<1>8. ASSUME NEW f \in images, ImageAnswered(f) PROVE SearchesInOrder'
  BY <1>3, <1>8 DEF ImageAnswered
<1>9. ASSUME NEW c \in patching, ServeEdit(c) \/ EditAnswered(c) PROVE SearchesInOrder'
  BY <1>0, <1>3, <1>9 DEF ServeEdit, EditAnswered, HistoryFrame
<1>. QED  BY <1>1, <1>2, <1>4, <1>5, <1>6, <1>7, <1>8, <1>9 DEF ArchiveNext

\* app.js:164-175: the list is the answer of the last search answered, short of
\* searches that cross.
THEOREM ListHolds == ArchiveSpec => []ListIsLatest
<1>1. SearchesInOrder => ListIsLatest
  BY DEF SearchesInOrder
<1>. QED  BY <1>1, ArchiveTypesStart, ArchiveTypesStep, SearchesStart, SearchesStep, PTL
          DEF ArchiveSpec

-----------------------------------------------------------------------------
(* The archive tab: the dialog *)

\* An opening whose answer is awaited is not the one the dialog shows, nor that
\* of an image or a correction under way: it was never filled in.
OpeningsDiffer ==
    /\ dialog.opening <= opened
    /\ \A o \in opening :
        /\ o.opening \in 1 .. opened
        /\ o.opening # dialog.opening
        /\ \A p \in opening : p.opening = o.opening => p = o
        /\ \A f \in images : f.opening # o.opening
        /\ \A c \in patching : c.opening # o.opening
    /\ \A f \in images : f.opening <= opened
    /\ \A c \in patching : c.opening <= opened

LEMMA OpeningsStart == ArchiveInit => OpeningsDiffer
BY DEF ArchiveInit, EmptyDialog, OpeningsDiffer

LEMMA OpeningsStep ==
    ArchiveTypes /\ OpeningsDiffer /\ [ArchiveNext]_archiveVars => OpeningsDiffer'
<1>. SUFFICES ASSUME ArchiveTypes, OpeningsDiffer, [ArchiveNext]_archiveVars
              PROVE  OpeningsDiffer'
  OBVIOUS
<1>0. opened \in Nat /\ opening \subseteq OpeningFrame /\ dialog \in DialogFrame
      /\ images \subseteq ImageFrame /\ patching \subseteq PatchFrame
  BY DEF ArchiveTypes
<1>1. ASSUME UNCHANGED <<opened, images>>, dialog'.opening = dialog.opening,
             opening' \subseteq opening,
             \A c \in patching' : c.opening = dialog.opening \/ \E b \in patching : c.opening = b.opening
      PROVE  OpeningsDiffer'
  BY <1>0, <1>1 DEF OpeningsDiffer
<1>2. CASE Search \/ Fails \/ UNCHANGED archiveVars
  BY <1>1, <1>2 DEF Search, Fails, archiveVars
<1>3. ASSUME NEW n \in searching, SearchAnswered(n) PROVE OpeningsDiffer'
  BY <1>1, <1>3 DEF SearchAnswered
<1>4. CASE Close
  BY <1>0, <1>1, <1>4 DEF Close, DialogFrame
<1>5. CASE Edit
  <2>1. dialog'.opening = dialog.opening
    BY <1>0, <1>5 DEF Edit, DialogFrame
  <2>2. \A c \in patching' : c \in patching \/ c.opening = dialog.opening
    BY <1>5 DEF Edit
  <2>. QED  BY <1>1, <1>5, <2>1, <2>2 DEF Edit
<1>6. ASSUME NEW d \in Docs, Open(d) PROVE OpeningsDiffer'
  <2>1. /\ opened' = opened + 1
        /\ \A o \in opening' : o \in opening \/ o.opening = opened + 1
        /\ \A o, p \in opening' \ opening : o = p
        /\ UNCHANGED <<dialog, images, patching>>
    BY <1>6 DEF Open
  <2>2. \A o \in opening : o.opening \in Nat /\ o.opening <= opened
    BY <1>0 DEF OpeningsDiffer
  <2>3. /\ \A f \in images : f.opening \in Nat /\ f.opening <= opened
        /\ \A c \in patching : c.opening \in Nat /\ c.opening <= opened
        /\ dialog.opening \in Nat /\ dialog.opening <= opened
    BY <1>0 DEF OpeningsDiffer, ImageFrame, PatchFrame, DialogFrame
  <2>4. ASSUME NEW o \in opening'
        PROVE  /\ o.opening \in 1 .. opened'
               /\ o.opening # dialog.opening
               /\ \A p \in opening' : p.opening = o.opening => p = o
               /\ \A f \in images : f.opening # o.opening
               /\ \A c \in patching : c.opening # o.opening
    <3>1. CASE o \in opening
      BY <1>0, <2>1, <2>2, <3>1 DEF OpeningsDiffer
    <3>2. CASE o \notin opening
      BY <1>0, <2>1, <2>2, <2>3, <3>2
    <3>. QED  BY <3>1, <3>2
  <2>. QED  BY <1>0, <2>1, <2>3, <2>4 DEF OpeningsDiffer
<1>7. ASSUME NEW o \in opening, ServeOpen(o) PROVE OpeningsDiffer'
  <2>. DEFINE x == [o EXCEPT !.pc = "answered", !.answer = summary[o.doc]]
  <2>1. x.opening = o.opening
    BY <1>0 DEF OpeningFrame
  <2>2. opening' = (opening \ {o}) \cup {x} /\ UNCHANGED <<opened, dialog, images, patching>>
    BY <1>7 DEF ServeOpen
  <2>. HIDE DEF x
  <2>. QED  BY <2>1, <2>2 DEF OpeningsDiffer
<1>8. ASSUME NEW o \in opening, OpenAnswered(o) PROVE OpeningsDiffer'
  <2>1. /\ opening' = opening \ {o} /\ dialog'.opening = o.opening
        /\ \A f \in images' : f \in images \/ f.opening = o.opening
        /\ UNCHANGED <<opened, patching>>
    BY <1>8 DEF OpenAnswered
  <2>. QED  BY <1>0, <2>1 DEF OpeningsDiffer
<1>9. ASSUME NEW f \in images, ImageAnswered(f) PROVE OpeningsDiffer'
  <2>1. dialog'.opening = dialog.opening
    BY <1>0, <1>9 DEF ImageAnswered, DialogFrame
  <2>2. images' \subseteq images /\ UNCHANGED <<opened, opening, patching>>
    BY <1>9 DEF ImageAnswered
  <2>. QED  BY <2>1, <2>2 DEF OpeningsDiffer
<1>10. ASSUME NEW c \in patching, ServeEdit(c) PROVE OpeningsDiffer'
  <2>1. \A b \in patching' : b \in patching \/ b.opening = c.opening
    BY <1>0, <1>10 DEF ServeEdit, PatchFrame
  <2>. QED  BY <1>1, <1>10, <2>1 DEF ServeEdit
<1>11. ASSUME NEW c \in patching, EditAnswered(c) PROVE OpeningsDiffer'
  <2>1. dialog'.opening = dialog.opening
    BY <1>0, <1>11 DEF EditAnswered, DialogFrame
  <2>. QED  BY <1>1, <1>11, <2>1 DEF EditAnswered
<1>. QED  BY <1>2, <1>3, <1>4, <1>5, <1>6, <1>7, <1>8, <1>9, <1>10, <1>11 DEF ArchiveNext

\* What is under way for the dialog is about the document of its title.
DialogIsOne ==
    /\ dialog.doc = dialog.title
    /\ \A f \in images : f.opening = dialog.opening => f.doc = dialog.title
    /\ ~history.reopened => \A c \in patching : c.doc = dialog.title
    /\ \A c \in patching : c.edit \in 1 .. edits /\ history.typed[c.edit] = c.doc
    /\ \A d \in Docs : summary[d] <= edits
    /\ DialogIsOfTitle

LEMMA DialogStarts == ArchiveInit => DialogIsOne
BY DEF ArchiveInit, EmptyDialog, NoHistory, Placeholder, DialogIsOne, DialogIsOfTitle

\* Steps that leave the dialog's document alone.
LEMMA DialogStays ==
    ASSUME DialogIsOne,
           dialog'.opening = dialog.opening, dialog'.title = dialog.title,
           dialog'.doc = dialog.doc, dialog'.slots = dialog.slots, dialog'.head = dialog.head,
           images' \subseteq images, edits' = edits, summary' = summary,
           history'.reopened = history.reopened, history'.typed = history.typed,
           \A c \in patching' : \E b \in patching : c.doc = b.doc /\ c.edit = b.edit
    PROVE  DialogIsOne'
<1>1. DialogIsOfTitle'
  BY DEF DialogIsOne, DialogIsOfTitle
<1>. QED  BY <1>1 DEF DialogIsOne

LEMMA DialogStep ==
    /\ ArchiveTypes /\ OpeningsDiffer
    /\ DialogIsOne /\ [ArchiveNext]_archiveVars
    => DialogIsOne'
<1>. SUFFICES ASSUME ArchiveTypes, OpeningsDiffer, DialogIsOne, [ArchiveNext]_archiveVars
              PROVE  DialogIsOne'
  OBVIOUS
<1>0. /\ opening \subseteq OpeningFrame /\ dialog \in DialogFrame /\ images \subseteq ImageFrame
      /\ patching \subseteq PatchFrame /\ history \in HistoryFrame
      /\ edits \in Nat /\ summary \in [Docs -> Nat]
  BY DEF ArchiveTypes
<1>1. CASE Fails \/ UNCHANGED archiveVars
  BY <1>1, DialogStays DEF Fails, archiveVars
<1>2. CASE Search
  BY <1>0, <1>2, DialogStays DEF Search, HistoryFrame
<1>3. ASSUME NEW n \in searching, SearchAnswered(n) PROVE DialogIsOne'
  BY <1>0, <1>3, DialogStays DEF SearchAnswered, HistoryFrame
<1>4. CASE Close
  BY <1>0, <1>4, DialogStays DEF Close, DialogFrame
<1>5. ASSUME NEW d \in Docs, Open(d) PROVE DialogIsOne'
  BY <1>5, DialogStays DEF Open
<1>6. ASSUME NEW o \in opening, ServeOpen(o) PROVE DialogIsOne'
  BY <1>6, DialogStays DEF ServeOpen
<1>7. ASSUME NEW o \in opening, OpenAnswered(o) PROVE DialogIsOne'
  <2>1. /\ dialog'.opening = o.opening /\ dialog'.title = o.doc /\ dialog'.doc = o.doc
        /\ dialog'.head = o.doc /\ dialog'.slots = [p \in PageNos |-> Placeholder]
        /\ images' = images \cup {[opening |-> o.opening, doc |-> o.doc, page |-> p] : p \in PageNos}
        /\ UNCHANGED <<edits, patching, summary>>
    BY <1>7 DEF OpenAnswered, HeadOf
  <2>2. /\ history'.typed = history.typed
        /\ ~history'.reopened => patching = {}
    BY <1>0, <1>7 DEF OpenAnswered, HistoryFrame
  <2>3. \A f \in images' : f.opening = o.opening => f.doc = o.doc
    BY <2>1 DEF OpeningsDiffer
  <2>4. \A p \in PageNos : dialog'.slots[p].pc = "waiting"
    BY <2>1 DEF Placeholder
  <2>5. DialogIsOfTitle'
    BY <2>1, <2>2, <2>4 DEF DialogIsOne, DialogIsOfTitle
  <2>. QED  BY <2>1, <2>2, <2>3, <2>5 DEF DialogIsOne
<1>8. ASSUME NEW f \in images, ImageAnswered(f) PROVE DialogIsOne'
  <2>1. images' \subseteq images /\ UNCHANGED <<edits, patching, summary, history>>
    BY <1>8 DEF ImageAnswered
  <2>2. CASE UNCHANGED dialog
    BY <2>1, <2>2, DialogStays
  <2>3. ASSUME NEW pc \in {"shown", "removed"}, f.opening = dialog.opening,
               dialog' = [dialog EXCEPT !.slots[SlotOf(f)] = [pc |-> pc, doc |-> f.doc, page |-> f.page]]
        PROVE  DialogIsOne'
    <3>1. f.page \in PageNos /\ f.doc = dialog.title
      BY <1>0, <2>3 DEF DialogIsOne, ImageFrame
    <3>2. /\ dialog'.opening = dialog.opening /\ dialog'.title = dialog.title
          /\ dialog'.doc = dialog.doc /\ dialog'.head = dialog.head
          /\ dialog'.slots[f.page].doc = f.doc /\ dialog'.slots[f.page].page = f.page
          /\ \A p \in PageNos \ {f.page} : dialog'.slots[p] = dialog.slots[p]
      BY <1>0, <2>3, <3>1 DEF DialogFrame, SlotOf
    <3>3. DialogIsOfTitle'
      BY <2>1, <3>1, <3>2 DEF DialogIsOne, DialogIsOfTitle
    <3>. QED  BY <2>1, <3>2, <3>3 DEF DialogIsOne
  <2>. QED  BY <1>8, <2>2, <2>3 DEF ImageAnswered
<1>9. CASE Edit
  <2>1. edits' = edits + 1 /\ edits + 1 \in 1 .. MaxEdits
    BY <1>0, <1>9, WebArchiveAssumption DEF Edit
  <2>2. /\ dialog'.opening = dialog.opening /\ dialog'.title = dialog.title
        /\ dialog'.doc = dialog.doc /\ dialog'.slots = dialog.slots /\ dialog'.head = dialog.head
        /\ UNCHANGED <<images, summary>>
    BY <1>0, <1>9 DEF Edit, DialogFrame
  <2>3. /\ history'.reopened = history.reopened
        /\ history'.typed = [history.typed EXCEPT ![edits + 1] = dialog.title]
    BY <1>0, <1>9, <2>1 DEF Edit, HistoryFrame
  <2>4. /\ history'.typed[edits + 1] = dialog.title
        /\ \A e \in 1 .. edits : history'.typed[e] = history.typed[e]
    <3>1. history.typed \in [1 .. MaxEdits -> DocsShown]
      BY <1>0 DEF HistoryFrame
    <3>2. \A e \in 1 .. edits : e \in 1 .. MaxEdits /\ e # edits + 1
      BY <1>0, <2>1, WebArchiveAssumption
    <3>. QED  BY <2>1, <2>3, <3>1, <3>2
  <2>5. \A c \in patching' : c \in patching \/ (c.doc = dialog.title /\ c.edit = edits + 1)
    BY <1>9, <2>1 DEF Edit, PatchedDocument, DialogIsOne
  <2>6. \A c \in patching' : c.edit \in 1 .. edits' /\ history'.typed[c.edit] = c.doc
    BY <1>0, <2>1, <2>4, <2>5 DEF DialogIsOne
  <2>7. \A e \in Docs : summary[e] \in Nat /\ summary[e] <= edits
    BY <1>0 DEF DialogIsOne
  <2>8. \A e \in Docs : summary[e] # 0 => history'.typed[summary[e]] = e
    BY <1>0, <2>4, <2>7 DEF DialogIsOne, DialogIsOfTitle
  <2>9. DialogIsOfTitle'
    BY <2>2, <2>3, <2>8 DEF DialogIsOne, DialogIsOfTitle
  <2>. QED  BY <1>0, <2>1, <2>2, <2>3, <2>5, <2>6, <2>7, <2>9 DEF DialogIsOne
<1>10. ASSUME NEW c \in patching, ServeEdit(c) PROVE DialogIsOne'
  <2>1. /\ \A b \in patching' : b \in patching \/ (b.doc = c.doc /\ b.edit = c.edit)
        /\ UNCHANGED <<dialog, images, edits>>
        /\ history'.reopened = history.reopened /\ history'.typed = history.typed
    BY <1>0, <1>10 DEF ServeEdit, PatchFrame, HistoryFrame
  <2>2. \A e \in Docs : summary'[e] = summary[e] \/ (e = c.doc /\ summary'[e] = c.edit)
    BY <1>0, <1>10 DEF ServeEdit
  <2>3. c.edit \in 1 .. edits /\ history.typed[c.edit] = c.doc
    BY DEF DialogIsOne
  <2>4. \A e \in Docs : summary'[e] <= edits /\ (summary'[e] # 0 => history.typed[summary'[e]] = e)
    BY <2>2, <2>3 DEF DialogIsOne, DialogIsOfTitle
  <2>5. DialogIsOfTitle'
    BY <2>1, <2>4 DEF DialogIsOne, DialogIsOfTitle
  <2>. QED  BY <2>1, <2>4, <2>5 DEF DialogIsOne
<1>11. ASSUME NEW c \in patching, EditAnswered(c) PROVE DialogIsOne'
  <2>1. /\ dialog'.opening = dialog.opening /\ dialog'.title = dialog.title
        /\ dialog'.doc = dialog.doc /\ dialog'.slots = dialog.slots
        /\ dialog'.head = dialog.head \/ dialog'.head = c.doc
        /\ patching' \subseteq patching /\ UNCHANGED <<images, edits, summary, history>>
    BY <1>0, <1>11 DEF EditAnswered, DialogFrame
  <2>2. DialogIsOfTitle'
    BY <2>1 DEF DialogIsOne, DialogIsOfTitle
  <2>. QED  BY <2>1, <2>2 DEF DialogIsOne
<1>. QED  BY <1>1, <1>2, <1>3, <1>4, <1>5, <1>6, <1>7, <1>8, <1>9, <1>10, <1>11 DEF ArchiveNext

\* app.js:223-293: images, summary and corrections are those of the document in
\* the title, short of a correction that is awaited when another is opened.
THEOREM DialogHolds == ArchiveSpec => []DialogIsOfTitle
<1>1. DialogIsOne => DialogIsOfTitle
  BY DEF DialogIsOne
<1>. QED  BY <1>1, ArchiveTypesStart, ArchiveTypesStep, OpeningsStart, OpeningsStep,
             DialogStarts, DialogStep, PTL DEF ArchiveSpec

\* What the client is told is stored was stored, and the corrections awaited
\* for an input are the text that it holds.
StoredIsAccepted ==
    /\ \A o \in opening : o.answer \in history.accepted \cup {0}
    /\ \A d \in Docs : summary[d] \in history.accepted \cup {0}
    /\ \A c \in patching : c.pc = "accepted" => c.edit \in history.accepted
    /\ ~history.overtyped => \A c \in patching :
         c.opening = dialog.opening => c.edit = dialog.input
    /\ CleanIsStored
LEMMA StoredStarts == ArchiveInit => StoredIsAccepted
BY DEF ArchiveInit, EmptyDialog, NoHistory, StoredIsAccepted, CleanIsStored

\* Steps that leave the input and its mark alone.
LEMMA StoredStays ==
    ASSUME StoredIsAccepted,
           dialog'.opening = dialog.opening, dialog'.input = dialog.input,
           dialog'.dirty = dialog.dirty, summary' = summary,
           history'.overtyped = history.overtyped, history'.accepted = history.accepted,
           \A o \in opening' : o.answer = 0 \/ (\E p \in opening : o.answer = p.answer)
                               \/ \E d \in Docs : o.answer = summary[d],
           patching' \subseteq patching
    PROVE  StoredIsAccepted'
<1>1. CleanIsStored'
  BY DEF StoredIsAccepted, CleanIsStored
<1>. QED  BY <1>1 DEF StoredIsAccepted

LEMMA StoredStep ==
    /\ ArchiveTypes /\ OpeningsDiffer
    /\ StoredIsAccepted /\ [ArchiveNext]_archiveVars
    => StoredIsAccepted'
<1>. SUFFICES ASSUME ArchiveTypes, OpeningsDiffer, StoredIsAccepted, [ArchiveNext]_archiveVars
              PROVE  StoredIsAccepted'
  OBVIOUS
<1>0. /\ opening \subseteq OpeningFrame /\ dialog \in DialogFrame
      /\ patching \subseteq PatchFrame /\ history \in HistoryFrame
      /\ edits \in Nat /\ summary \in [Docs -> Nat]
  BY DEF ArchiveTypes
<1>1. CASE Fails \/ UNCHANGED archiveVars
  BY <1>1, StoredStays DEF Fails, archiveVars
<1>2. CASE Search
  BY <1>0, <1>2, StoredStays DEF Search, HistoryFrame
<1>3. ASSUME NEW n \in searching, SearchAnswered(n) PROVE StoredIsAccepted'
  BY <1>0, <1>3, StoredStays DEF SearchAnswered, HistoryFrame
<1>4. CASE Close
  BY <1>0, <1>4, StoredStays DEF Close, DialogFrame
<1>5. ASSUME NEW d \in Docs, Open(d) PROVE StoredIsAccepted'
  BY <1>5, StoredStays DEF Open
<1>6. ASSUME NEW o \in opening, ServeOpen(o) PROVE StoredIsAccepted'
  <2>1. o.doc \in Docs
    BY <1>0 DEF OpeningFrame
  <2>2. \A p \in opening' : p \in opening \/ p.answer = summary[o.doc]
    BY <1>0, <1>6 DEF ServeOpen, OpeningFrame
  <2>. QED  BY <1>6, <2>1, <2>2, StoredStays DEF ServeOpen
<1>7. ASSUME NEW o \in opening, OpenAnswered(o) PROVE StoredIsAccepted'
  <2>1. /\ dialog'.opening = o.opening /\ dialog'.input = o.answer
        /\ opening' \subseteq opening /\ UNCHANGED <<patching, summary>>
        /\ history'.overtyped = history.overtyped /\ history'.accepted = history.accepted
    BY <1>0, <1>7 DEF OpenAnswered, HistoryFrame
  <2>2. \A c \in patching : c.opening # o.opening
    BY DEF OpeningsDiffer
  <2>3. CleanIsStored'
    BY <2>1 DEF StoredIsAccepted, CleanIsStored
  <2>. QED  BY <2>1, <2>2, <2>3 DEF StoredIsAccepted
<1>8. ASSUME NEW f \in images, ImageAnswered(f) PROVE StoredIsAccepted'
  <2>1. /\ dialog'.opening = dialog.opening /\ dialog'.input = dialog.input
        /\ dialog'.dirty = dialog.dirty
    BY <1>0, <1>8 DEF ImageAnswered, DialogFrame
  <2>. QED  BY <1>8, <2>1, StoredStays DEF ImageAnswered
<1>9. CASE Edit
  <2>1. /\ dialog'.opening = dialog.opening /\ dialog'.input = edits + 1 /\ dialog'.dirty
        /\ history'.accepted = history.accepted
        /\ ~history'.overtyped => /\ ~history.overtyped
                                  /\ \A c \in patching : c.opening # dialog.opening
        /\ \A c \in patching' : c \in patching
             \/ (c.opening = dialog.opening /\ c.edit = edits + 1 /\ c.pc = "sent")
        /\ UNCHANGED <<opening, summary>>
    <3>1. dialog'.opening = dialog.opening /\ dialog'.input = edits + 1 /\ dialog'.dirty
      BY <1>0, <1>9 DEF Edit, DialogFrame
    <3>2. history'.accepted = history.accepted
          /\ (~history'.overtyped => /\ ~history.overtyped
                                     /\ \A c \in patching : c.opening # dialog.opening)
      BY <1>0, <1>9 DEF Edit, HistoryFrame
    <3>. QED  BY <1>9, <3>1, <3>2 DEF Edit
  <2>2. CleanIsStored'
    BY <2>1 DEF CleanIsStored
  <2>. QED  BY <2>1, <2>2 DEF StoredIsAccepted
<1>10. ASSUME NEW c \in patching, ServeEdit(c) PROVE StoredIsAccepted'
  <2>1. /\ \A b \in patching' : b \in patching
             \/ /\ b.opening = c.opening /\ b.edit = c.edit
                /\ b.pc = "accepted" => c.edit \in history'.accepted
        /\ history.accepted \subseteq history'.accepted
        /\ history'.overtyped = history.overtyped
        /\ UNCHANGED <<dialog, opening>>
    <3>1. CASE UNCHANGED history
      BY <1>0, <1>10, <3>1 DEF ServeEdit, PatchFrame, HistoryFrame
    <3>2. CASE history' = [history EXCEPT !.accepted = @ \cup {c.edit}]
      BY <1>0, <1>10, <3>2 DEF ServeEdit, PatchFrame, HistoryFrame
    <3>. QED  BY <1>10, <3>1, <3>2 DEF ServeEdit
  <2>2. \A d \in Docs : summary'[d] = summary[d]
                        \/ (summary'[d] = c.edit /\ c.edit \in history'.accepted)
    BY <1>0, <1>10 DEF ServeEdit, HistoryFrame
  <2>3. CleanIsStored'
    BY <2>1 DEF StoredIsAccepted, CleanIsStored
  <2>. QED  BY <2>1, <2>2, <2>3 DEF StoredIsAccepted
<1>11. ASSUME NEW c \in patching, EditAnswered(c) PROVE StoredIsAccepted'
  <2>1. /\ dialog'.opening = dialog.opening /\ dialog'.input = dialog.input
        /\ dialog.dirty /\ ~(c.opening = dialog.opening /\ c.pc = "accepted") => dialog'.dirty
        /\ patching' \subseteq patching /\ UNCHANGED <<opening, summary, history>>
    BY <1>0, <1>11 DEF EditAnswered, DialogFrame, DirtyAfter
  <2>2. CleanIsStored'
    BY <2>1 DEF StoredIsAccepted, CleanIsStored
  <2>. QED  BY <2>1, <2>2 DEF StoredIsAccepted
<1>. QED  BY <1>1, <1>2, <1>3, <1>4, <1>5, <1>6, <1>7, <1>8, <1>9, <1>10, <1>11 DEF ArchiveNext

\* app.js:245-264: a field that is not marked as changed is stored, short of one
\* that is changed again while its correction is awaited.
THEOREM CleanHolds == ArchiveSpec => []CleanIsStored
<1>1. StoredIsAccepted => CleanIsStored
  BY DEF StoredIsAccepted
<1>. QED  BY <1>1, ArchiveTypesStart, ArchiveTypesStep, OpeningsStart, OpeningsStep,
             StoredStarts, StoredStep, PTL DEF ArchiveSpec
=============================================================================

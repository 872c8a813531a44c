---------------------------- MODULE IngestProofs ----------------------------
(***************************************************************************)
(* Theorems about the ingest path for every number of uploads, removals,   *)
(* pages, rowids, crashes and attempts: types, references and wake-ups;    *)
(* then who may touch a document.  Until a rowid is given out that a       *)
(* DELETE still holds, every document is in one pair of hands, jobs and    *)
(* documents tell one story, and only failed documents are deleted.        *)
(***************************************************************************)
EXTENDS IngestProperties, TLAPS

-----------------------------------------------------------------------------
(* Types *)

\* The initial tables, frames and counters have their types.
LEMMA InitTypes == Init => TypeOK
<1> SUFFICES ASSUME Init PROVE TypeOK
  OBVIOUS
<1>1. TablesOK
  BY DEF Init, TablesOK, Image, NoImage
<1>2. HandlersOK
  BY CountsAssumption DEF Init, HandlersOK, IdleUpload, UploadFrame, UploadPc,
     RemovalFrame, RemovalPc, Page, NoDoc
<1>3. WorkerOK
  BY DEF Init, WorkerOK, WorkerPc, Processing
<1>4. CountersOK
  <2>1. crashes \in 0 .. MaxCrashes
    BY CountsAssumption DEF Init
  <2>2. QED
    BY <2>1 DEF Init, CountersOK
<1>5. QED
  BY <1>1, <1>2, <1>3, <1>4 DEF TypeOK

\* What is known of the frame of a handler that is past its first step.
LEMMA FrameTypes ==
    ASSUME TypeOK, NEW u \in Uploads
    PROVE  /\ upload[u] \in UploadFrame
           /\ upload[u].pc # "idle" => upload[u].doc \in DocId
           /\ upload[u].page \in Page
           /\ \A s \in {"jpg", "heic"} : <<upload[u].page, s>> \in File
BY DEF TypeOK, HandlersOK, UploadFrame, File

\* A handler keeps the frames typed when the frame it leaves is.
LEMMA SetFrameTypes ==
    ASSUME TypeOK, NEW u \in Uploads, NEW frame \in UploadFrame,
           frame.doc # NoDoc, SetFrame(u, frame), UNCHANGED removal,
           loop' \in Uploads \cup {NoUpload}
    PROVE  HandlersOK'
BY DEF TypeOK, HandlersOK, SetFrame

\* Moving the program counter of a handler that has started.
LEMMA GotoTypes ==
    ASSUME TypeOK, NEW u \in Uploads, NEW pc \in UploadPc,
           upload[u].pc # "idle", Goto(u, pc), UNCHANGED removal,
           loop' \in Uploads \cup {NoUpload}
    PROVE  HandlersOK'
<1>1. [upload[u] EXCEPT !.pc = pc] \in UploadFrame
  BY FrameTypes DEF UploadFrame
<1>2. [upload[u] EXCEPT !.pc = pc].doc # NoDoc
  BY FrameTypes DEF UploadFrame, TypeOK, HandlersOK
<1>3. QED
  BY <1>1, <1>2, SetFrameTypes DEF Goto

\* DELETE FROM documents, with its cascades, keeps the tables typed.
LEMMA DeleteTypes ==
    ASSUME TypeOK, NEW d, DeleteDocument(d), UNCHANGED <<originals, images>>
    PROVE  TablesOK'
<1>1. /\ documents' \in [DocId -> Status \cup {"none"}] /\ pages' \in [DocId -> SUBSET Page]
      /\ jobs' \in [JobId -> Job \cup {NoJob}] /\ doc_fts' \subseteq DocId
  BY DEF TypeOK, TablesOK, DeleteDocument, Cascade, Status
<1>2. shown' \in [DocId -> SUBSET Page]
  BY DEF TypeOK, TablesOK, DeleteDocument
<1>3. letter' \in [DocId -> Uploads \cup {NoUpload}]
  BY DEF TypeOK, TablesOK, DeleteDocument
<1>4. QED
  BY <1>1, <1>2, <1>3 DEF TypeOK, TablesOK

\* Writing or unlinking images keeps them typed.
LEMMA ImagesType ==
    ASSUME TypeOK, NEW d, NEW made, \A p \in DOMAIN made : made[p] \in Image
    PROVE  WithImages(d, made) \in [DocId -> [Page -> Image]]
BY DEF TypeOK, TablesOK, WithImages

\* So do the images of a page that is made, and of several.
LEMMA MadeType ==
    ASSUME TypeOK, NEW S, Made(S)
    PROVE  /\ images' \in [DocId -> [Page -> Image]]
           /\ job.doc \in DocId => unwritten' \subseteq Uploads \cup {NoUpload}
<1> DEFINE u == letter[job.doc]
           Flawed(made) == {v \in {u} : \E p \in S : made[p] # [cleaned |-> v, thumb |-> v]}
<1>1. PICK made \in [S -> Image] :
        images' = WithImages(job.doc, made) /\ unwritten' = unwritten \cup Flawed(made)
  BY DEF Made
<1>2. images' \in [DocId -> [Page -> Image]]
  BY <1>1, ImagesType
<1>3. job.doc \in DocId => u \in Uploads \cup {NoUpload}
  BY DEF TypeOK, TablesOK
<1>4. QED
  BY <1>1, <1>2, <1>3 DEF TypeOK, CountersOK

\* So does stopping while they are written.
LEMMA SomeMadeType ==
    ASSUME TypeOK, SomeMade
    PROVE  images' \in [DocId -> [Page -> Image]]
<1>1. PICK made \in [AtHand -> Image] : images' = WithImages(job.doc, made)
  BY DEF SomeMade
<1>2. QED
  BY <1>1, ImagesType

\* What an upload handler leaves alone.
LEMMA UploadLeaves ==
    ASSUME TypeOK, NEW u \in Uploads, UploadCreate(u) \/ UploadStep(u)
    PROVE  /\ WorkerOK' /\ CountersOK' /\ UNCHANGED removal
           /\ loop' \in Uploads \cup {NoUpload}
BY DEF TypeOK, HandlersOK, WorkerOK, CountersOK, store, workerVars, past, UploadCreate,
   UploadStep, UploadOpen, UploadReceived, UploadRejected, UploadConvert,
   UploadInsert, UploadUnlink, UploadRollback, UploadEnqueue, UploadNudge,
   UploadWriteFails

\* An upload handler keeps the types.
LEMMA UploadTypes ==
    ASSUME TypeOK, NEW u \in Uploads, UploadCreate(u) \/ UploadStep(u)
    PROVE  TypeOK'
<1>1. WorkerOK' /\ CountersOK' /\ UNCHANGED removal /\ loop' \in Uploads \cup {NoUpload}
  BY UploadLeaves
<1>2. /\ upload[u] \in UploadFrame
      /\ upload[u].pc # "idle" => upload[u].doc \in DocId /\ upload[u].doc # NoDoc
      /\ upload[u].page \in Page
      /\ \A s \in {"jpg", "heic"} : <<upload[u].page, s>> \in File
  BY FrameTypes DEF TypeOK, HandlersOK
<1>3. SUFFICES TablesOK' /\ HandlersOK'
  BY <1>1 DEF TypeOK
<1>4. CASE UploadCreate(u)
  <2>1. PICK d \in DocId, n \in Page :
          /\ documents' = [documents EXCEPT ![d] = "queued"]
          /\ SetFrame(u, [IdleUpload EXCEPT !.pc = "open", !.doc = d, !.last = n])
    BY <1>4 DEF UploadCreate
  <2>2. documents' \in [DocId -> Status \cup {"none"}]
    BY <2>1 DEF TypeOK, TablesOK, Status
  <2>3. TablesOK'
    BY <1>4, <2>2 DEF UploadCreate, TypeOK, TablesOK
  <2>4. 1 \in Page /\ d # NoDoc
    BY CountsAssumption DEF Page, DocId, NoDoc
  <2>5. [IdleUpload EXCEPT !.pc = "open", !.doc = d, !.last = n] \in UploadFrame
    BY <2>4 DEF IdleUpload, UploadFrame, UploadPc
  <2>6. [IdleUpload EXCEPT !.pc = "open", !.doc = d, !.last = n].doc # NoDoc
    BY <2>4 DEF IdleUpload
  <2>7. HandlersOK'
    BY <1>1, <2>1, <2>5, <2>6, SetFrameTypes
  <2>8. QED
    BY <2>3, <2>7
<1>5. CASE UploadOpen(u)
  <2>1. PICK s \in Suffixes :
          /\ originals' = [originals EXCEPT ![upload[u].doc] = @ \cup {<<upload[u].page, s>>}]
          /\ SetFrame(u, [upload[u] EXCEPT !.pc = "reading", !.suffix = s,
                            !.written = @ \cup {<<upload[u].page, s>>}])
    BY <1>5 DEF UploadOpen
  <2>2. s \in {"jpg", "heic"} /\ <<upload[u].page, s>> \in File
    BY <1>2, SwitchesAssumption
  <2>3. originals' \in [DocId -> SUBSET File]
    BY <2>1, <2>2 DEF TypeOK, TablesOK
  <2>4. TablesOK'
    BY <1>5, <2>3 DEF UploadOpen, TypeOK, TablesOK, store
  <2>5. [upload[u] EXCEPT !.pc = "reading", !.suffix = s,
           !.written = @ \cup {<<upload[u].page, s>>}] \in UploadFrame
    BY <1>2, <2>2 DEF UploadFrame, UploadPc
  <2>6. [upload[u] EXCEPT !.pc = "reading", !.suffix = s,
           !.written = @ \cup {<<upload[u].page, s>>}].doc # NoDoc
    BY <1>2, <1>5 DEF UploadOpen, UploadFrame
  <2>7. HandlersOK'
    BY <1>1, <2>1, <2>5, <2>6, SetFrameTypes
  <2>8. QED
    BY <2>4, <2>7
<1>6. CASE UploadReceived(u)
  <2>1. TablesOK'
    BY <1>6 DEF UploadReceived, TypeOK, TablesOK, store
  <2>2. HandlersOK'
    BY <1>1, <1>6, GotoTypes DEF UploadReceived, UploadPc
  <2>3. QED
    BY <2>1, <2>2
<1>7. CASE UploadRejected(u)
  <2>1. TablesOK'
    BY <1>7 DEF UploadRejected, TypeOK, TablesOK, store
  <2>2. HandlersOK'
    BY <1>1, <1>7, GotoTypes DEF UploadRejected, UploadPc
  <2>3. QED
    BY <2>1, <2>2
<1>8. CASE UploadConvert(u)
  <2> DEFINE heic == <<upload[u].page, "heic">>
             jpeg == <<upload[u].page, "jpg">>
             left == [upload[u] EXCEPT !.pc = "insert", !.written = (@ \ {heic}) \cup {jpeg}]
  <2>1. originals' \in [DocId -> SUBSET File]
    <3>1. \E new \in SUBSET {jpeg} :
            \/ originals' = [originals EXCEPT ![upload[u].doc] = (@ \ {heic}) \cup new]
            \/ originals' = [originals EXCEPT ![upload[u].doc] = @ \cup new]
      BY <1>8 DEF UploadConvert
    <3>2. jpeg \in File
      BY <1>2
    <3>3. originals \in [DocId -> SUBSET File]
      BY DEF TypeOK, TablesOK
    <3>4. QED
      BY <3>1, <3>2, <3>3
  <2>2. TablesOK'
    BY <1>8, <2>1 DEF UploadConvert, TypeOK, TablesOK, store
  <2>3. CASE SetFrame(u, left)
    <3>1. left \in UploadFrame
      BY <1>2 DEF UploadFrame, UploadPc
    <3>2. left.doc # NoDoc
      BY <1>2, <1>8 DEF UploadConvert, UploadFrame
    <3>3. QED
      BY <1>1, <2>2, <2>3, <3>1, <3>2, SetFrameTypes
  <2>4. CASE Goto(u, "unlink")
    BY <1>1, <1>8, <2>2, <2>4, GotoTypes DEF UploadConvert, UploadPc
  <2>5. QED
    BY <1>8, <2>3, <2>4 DEF UploadConvert
<1>9. CASE UploadInsert(u)
  <2> DEFINE next == [upload[u] EXCEPT !.pc = "open", !.page = upload[u].page + 1]
  <2>1. TablesOK'
    <3>1. pages' \in [DocId -> SUBSET Page]
      BY <1>2, <1>9 DEF UploadInsert, TypeOK, TablesOK
    <3>2. QED
      BY <1>9, <3>1 DEF UploadInsert, TypeOK, TablesOK
  <2>2. CASE SetFrame(u, next) /\ upload[u].page < upload[u].last
    <3>1. upload[u].page + 1 \in Page
      BY <1>2, <2>2, CountsAssumption DEF UploadFrame, Page
    <3>2. next \in UploadFrame /\ next.doc # NoDoc
      BY <1>2, <1>9, <3>1 DEF UploadInsert, UploadFrame, UploadPc
    <3>3. QED
      BY <1>1, <2>1, <2>2, <3>2, SetFrameTypes
  <2>3. CASE Goto(u, "enqueue") \/ Goto(u, "unlink")
    BY <1>1, <1>9, <2>1, <2>3, GotoTypes DEF UploadInsert, UploadPc
  <2>4. QED
    BY <1>9, <2>2, <2>3 DEF UploadInsert
<1>10. CASE UploadUnlink(u)
  <2> DEFINE left == [upload[u] EXCEPT !.pc = "delete", !.written = {}]
  <2>1. TablesOK'
    BY <1>10 DEF UploadUnlink, TypeOK, TablesOK, store
  <2>2. left \in UploadFrame /\ left.doc # NoDoc
    BY <1>2, <1>10 DEF UploadUnlink, UploadFrame, UploadPc
  <2>3. HandlersOK'
    BY <1>1, <1>10, <2>2, SetFrameTypes DEF UploadUnlink
  <2>4. QED
    BY <2>1, <2>3
<1>11. CASE UploadRollback(u)
  <2>1. TablesOK'
    BY <1>11, DeleteTypes DEF UploadRollback
  <2>2. HandlersOK'
    BY <1>1, <1>11, GotoTypes DEF UploadRollback, UploadPc
  <2>3. QED
    BY <2>1, <2>2
<1>12. CASE UploadEnqueue(u)
  <2>1. jobs' \in [JobId -> Job \cup {NoJob}]
    <3>1. [doc |-> upload[u].doc, state |-> "queued", attempts |-> 0] \in Job
      BY <1>2, <1>12 DEF UploadEnqueue, Job, JobState
    <3>2. QED
      BY <1>12, <3>1 DEF UploadEnqueue, TypeOK, TablesOK
  <2>2. TablesOK'
    BY <1>12, <2>1 DEF UploadEnqueue, TypeOK, TablesOK
  <2>3. HandlersOK'
    BY <1>1, <1>12, GotoTypes DEF UploadEnqueue, UploadPc
  <2>4. QED
    BY <2>2, <2>3
<1>13. CASE UploadNudge(u)
  <2>1. TablesOK'
    BY <1>13 DEF UploadNudge, TypeOK, TablesOK, store
  <2>2. HandlersOK'
    BY <1>1, <1>13, GotoTypes DEF UploadNudge, UploadPc
  <2>3. QED
    BY <2>1, <2>2
<1>14. CASE UploadWriteFails(u)
  <2>1. TablesOK'
    BY <1>14 DEF UploadWriteFails, TypeOK, TablesOK, store
  <2>2. HandlersOK'
    BY <1>1, <1>14, GotoTypes DEF UploadWriteFails, UploadPc
  <2>3. QED
    BY <2>1, <2>2
<1>15. QED
  BY <1>4, <1>5, <1>6, <1>7, <1>8, <1>9, <1>10, <1>11, <1>12, <1>13, <1>14 DEF UploadStep

\* A DELETE handler keeps the types.
LEMMA RemovalTypes ==
    ASSUME TypeOK, NEW r \in Removals, RemovalCheck(r) \/ RemovalStep(r)
    PROVE  TypeOK'
<1>1. WorkerOK' /\ CountersOK' /\ UNCHANGED <<upload, loop>>
  BY DEF TypeOK, WorkerOK, CountersOK, workerVars, past, RemovalCheck, RemovalStep,
     RemovalUnlink, RemovalDelete, RemovalWriteFails
<1>2. \E pc \in RemovalPc, d \in DocId : SetRemoval(r, pc, d)
  <2>1. CASE RemovalCheck(r)
    BY <2>1 DEF RemovalCheck, RemovalPc
  <2>2. CASE RemovalStep(r)
    BY <2>2 DEF TypeOK, HandlersOK, RemovalFrame, RemovalPc, RemovalStep,
       RemovalUnlink, RemovalDelete, RemovalWriteFails
  <2>3. QED
    BY <2>1, <2>2
<1>3. HandlersOK'
  <2>1. \A d \in DocId : d # NoDoc
    BY DEF DocId, NoDoc
  <2>2. QED
    BY <1>1, <1>2, <2>1 DEF SetRemoval, TypeOK, HandlersOK, RemovalFrame
<1>4. TablesOK'
  <2>1. CASE RemovalUnlink(r)
    <3>1. originals' \in [DocId -> SUBSET File]
      BY <2>1 DEF RemovalUnlink, TypeOK, TablesOK
    <3>2. images' \in [DocId -> [Page -> Image]]
      <4>1. \A p \in DOMAIN [q \in shown[removal[r].doc] |-> NoImage] :
              [q \in shown[removal[r].doc] |-> NoImage][p] \in Image
        BY DEF Image, NoImage
      <4>2. QED
        BY <2>1, <4>1, ImagesType DEF RemovalUnlink
    <3>3. QED
      BY <2>1, <3>1, <3>2 DEF RemovalUnlink, TypeOK, TablesOK, store
  <2>2. CASE RemovalDelete(r)
    BY <2>2, DeleteTypes DEF RemovalDelete
  <2>3. CASE RemovalCheck(r) \/ RemovalWriteFails(r)
    BY <2>3 DEF RemovalCheck, RemovalWriteFails, TypeOK, TablesOK, store
  <2>4. QED
    BY <2>1, <2>2, <2>3 DEF RemovalStep
<1>5. QED
  BY <1>1, <1>3, <1>4 DEF TypeOK

\* The worker keeps the types.
LEMMA WorkerTypes ==
    ASSUME TypeOK, WorkerStep
    PROVE  TypeOK'
<1>5. worker \in {"claim"} \cup Processing => job.id \in JobId /\ job.doc \in DocId
  BY DEF TypeOK, WorkerOK, HeldJob
<1>made. WorkerOcr \/ WorkerOcrCommit =>
        /\ images' \in [DocId -> [Page -> Image]]
        /\ unwritten' \subseteq Uploads \cup {NoUpload}
  BY <1>5, MadeType DEF WorkerOcr, WorkerOcrCommit, Processing
<1>1. HandlersOK' /\ CountersOK'
  BY <1>made DEF TypeOK, HandlersOK, CountersOK, WorkerStep, WorkerRecover, WorkerPoll,
     WorkerWait, WorkerClear, WorkerClaim, WorkerPages, WorkerOcr, WorkerOcrCommit,
     WorkerExtract, WorkerFile, WorkerFinish, WorkerRaise, WorkerFail, WorkerDies,
     past
<1>2. pages' \in [DocId -> SUBSET Page] /\ originals' \in [DocId -> SUBSET File]
  BY DEF TypeOK, TablesOK, store, WorkerStep, WorkerRecover, WorkerPoll,
     WorkerWait, WorkerClear, WorkerClaim, WorkerPages, WorkerOcr, WorkerOcrCommit,
     WorkerExtract, WorkerFile, WorkerFinish, WorkerRaise, WorkerFail, WorkerDies
<1>3. ASSUME NEW s \in JobState, NEW j \in JobId
      PROVE  SetJob(j, s) \in [JobId -> Job \cup {NoJob}]
  BY DEF TypeOK, TablesOK, SetJob, Job, NoJob
<1>4. ASSUME NEW s \in Status, NEW d \in DocId
      PROVE  SetStatus(d, s) \in [DocId -> Status \cup {"none"}]
  BY DEF TypeOK, TablesOK, SetStatus
<1>letters. letter' \in [DocId -> Uploads \cup {NoUpload}]
  BY DEF TypeOK, TablesOK, store, WorkerStep, WorkerRecover, WorkerPoll,
     WorkerWait, WorkerClear, WorkerClaim, WorkerPages, WorkerOcr, WorkerOcrCommit,
     WorkerExtract, WorkerFile, WorkerFinish, WorkerRaise, WorkerFail, WorkerDies
<1>6. SUFFICES /\ WorkerOK' /\ doc_fts' \subseteq DocId
               /\ documents' \in [DocId -> Status \cup {"none"}]
               /\ jobs' \in [JobId -> Job \cup {NoJob}]
               /\ shown' \in [DocId -> SUBSET Page]
               /\ images' \in [DocId -> [Page -> Image]]
  BY <1>1, <1>2, <1>letters DEF TypeOK, TablesOK
<1>7. CASE WorkerRecover
  <2>1. documents' \in [DocId -> Status \cup {"none"}]
    BY <1>7 DEF WorkerRecover, TypeOK, TablesOK, Status
  <2>2. ASSUME NEW j \in JobId
        PROVE  [jobs[j] EXCEPT !.state = RecoveredState(j)] \in Job \cup {NoJob}
    <3>1. CASE jobs[j] \in Job
      BY <3>1 DEF RecoveredState, Stale, Spent, Job, JobState
    <3>2. CASE jobs[j] = NoJob
      BY <3>2 DEF RecoveredState, Stale, NoJob
    <3>3. QED
      BY <3>1, <3>2 DEF TypeOK, TablesOK
  <2>3. jobs' \in [JobId -> Job \cup {NoJob}]
    BY <1>7, <2>2 DEF WorkerRecover
  <2>4. QED
    BY <1>7, <2>1, <2>3 DEF WorkerRecover, TypeOK, TablesOK, WorkerOK, WorkerPc, Processing
<1>8. CASE WorkerPoll
  <2>1. CASE UNCHANGED job /\ worker' = "wait"
    BY <1>8, <2>1 DEF WorkerPoll, store, TypeOK, TablesOK, WorkerOK, WorkerPc, Processing
  <2>2. CASE worker' = "claim"
    <3>1. PICK j \in QueuedJobs :
            job' = [id |-> j, doc |-> jobs[j].doc, attempts |-> jobs[j].attempts]
      BY <1>8, <2>2 DEF WorkerPoll
    <3>2. jobs[j] \in Job /\ j \in JobId
      BY <3>1 DEF QueuedJobs, TypeOK, TablesOK, NoJob
    <3>3. job' \in HeldJob /\ job' # NoHeldJob
      BY <3>1, <3>2 DEF Job, HeldJob, NoHeldJob, JobId
    <3>4. QED
      BY <1>8, <2>2, <3>3 DEF WorkerPoll, store, TypeOK, TablesOK, WorkerOK, WorkerPc
  <2>3. QED
    BY <1>8, <2>1, <2>2 DEF WorkerPoll
<1>9. CASE WorkerClaim
  <2>1. documents' \in [DocId -> Status \cup {"none"}]
    BY <1>4, <1>5, <1>9 DEF WorkerClaim, Status
  <2>2. jobs' \in [JobId -> Job \cup {NoJob}]
    BY <1>5, <1>9 DEF WorkerClaim, Claimed, TypeOK, TablesOK, Job, NoJob, JobState
  <2>3. QED
    BY <1>9, <2>1, <2>2 DEF WorkerClaim, TypeOK, TablesOK, WorkerOK, WorkerPc
<1>10. CASE WorkerPages
  <2>1. seen' \subseteq Page
    BY <1>5, <1>10 DEF WorkerPages, TypeOK, TablesOK, Processing
  <2>2. QED
    BY <1>10, <2>1 DEF WorkerPages, store, TypeOK, TablesOK, WorkerOK, WorkerPc, Processing
<1>11. CASE WorkerFile
  <2>1. documents' \in [DocId -> Status \cup {"none"}]
    BY <1>4, <1>5, <1>11 DEF WorkerFile, Status, Processing
  <2>2. doc_fts' \subseteq DocId
    BY <1>5, <1>11 DEF WorkerFile, TypeOK, TablesOK, Processing
  <2>3. QED
    BY <1>11, <2>1, <2>2 DEF WorkerFile, TypeOK, TablesOK, WorkerOK, WorkerPc, Processing
<1>12. CASE WorkerFinish
  <2>1. jobs' \in [JobId -> Job \cup {NoJob}]
    BY <1>3, <1>5, <1>12 DEF WorkerFinish, JobState, Processing
  <2>2. QED
    BY <1>12, <2>1 DEF WorkerFinish, TypeOK, TablesOK, WorkerOK, WorkerPc, Processing
<1>13. CASE WorkerFail
  <2>1. Verdict \in JobState /\ Verdict \in Status
    BY DEF Verdict, JobState, Status
  <2>2. /\ jobs' \in [JobId -> Job \cup {NoJob}]
        /\ documents' \in [DocId -> Status \cup {"none"}]
    BY <1>3, <1>4, <1>5, <1>13, <2>1 DEF WorkerFail, Processing
  <2>3. QED
    BY <1>13, <2>2 DEF WorkerFail, TypeOK, TablesOK, WorkerOK, WorkerPc, Processing
<1>14. CASE WorkerWait \/ WorkerClear \/ WorkerExtract \/ WorkerDies
  BY <1>14 DEF WorkerWait, WorkerClear, WorkerExtract,
     WorkerDies, store, TypeOK, TablesOK, WorkerOK, WorkerPc, Processing
<1>16. CASE WorkerOcr
  <2>1. images' \in [DocId -> [Page -> Image]]
    BY <1>made, <1>16
  <2>2. QED
    BY <1>16, <2>1 DEF WorkerOcr, store, TypeOK, TablesOK, WorkerOK, WorkerPc, Processing
<1>17. CASE WorkerOcrCommit
  <2>1. images' \in [DocId -> [Page -> Image]]
    BY <1>made, <1>17
  <2>2. shown' \in [DocId -> SUBSET Page]
    BY <1>17 DEF WorkerOcrCommit, TypeOK, TablesOK, WorkerOK
  <2>3. QED
    BY <1>17, <2>1, <2>2 DEF WorkerOcrCommit, TypeOK, TablesOK, WorkerOK, WorkerPc, Processing
<1>18. CASE WorkerRaise
  <2>1. images' \in [DocId -> [Page -> Image]]
    BY <1>18, SomeMadeType DEF WorkerRaise
  <2>2. QED
    BY <1>18, <2>1 DEF WorkerRaise, MayRaise, store, TypeOK, TablesOK, WorkerOK, WorkerPc, Processing
<1>19. QED
  BY <1>7, <1>8, <1>9, <1>10, <1>11, <1>12, <1>13, <1>14, <1>16, <1>17, <1>18 DEF WorkerStep

\* A crash keeps the types.
LEMMA CrashTypes ==
    ASSUME TypeOK, Crash
    PROVE  TypeOK'
<1>1. TablesOK' /\ WorkerOK'
  <2>1. images' \in [DocId -> [Page -> Image]]
    BY SomeMadeType DEF Crash
  <2>2. QED
    BY <2>1 DEF Crash, TypeOK, TablesOK, WorkerOK, store, WorkerPc, Processing
<1>2. HandlersOK'
  BY DEF Crash, Lost, TypeOK, HandlersOK, UploadFrame, RemovalFrame, UploadPc,
     RemovalPc, Answered
<1>3. crashes' \in 0 .. MaxCrashes
  BY CountsAssumption DEF Crash, TypeOK, CountersOK
<1>4. QED
  BY <1>1, <1>2, <1>3 DEF Crash, TypeOK, CountersOK

\* The types are kept by every step.
LEMMA StepTypes == TypeOK /\ [Next]_vars => TypeOK'
<1> SUFFICES ASSUME TypeOK, [Next]_vars PROVE TypeOK'
  OBVIOUS
<1>1. CASE UNCHANGED vars
  BY <1>1 DEF vars, TypeOK, TablesOK, HandlersOK, WorkerOK, CountersOK
<1>2. CASE Next
  BY <1>2, UploadTypes, RemovalTypes, WorkerTypes, CrashTypes DEF Next
<1>3. QED
  BY <1>1, <1>2

\* Every reachable state is typed, whatever handlers race and whatever fails.
THEOREM TypeCorrect == Spec => []TypeOK
BY InitTypes, StepTypes, PTL DEF Spec
-----------------------------------------------------------------------------
(* References *)

\* While the worker holds the lock to file a document, the row is there: the
\* INSERT that took the lock found it, and nobody else can delete it since.
FilingHolds == worker = "file_tx" => documents[job.doc] # "none"
References == Referential /\ FilingHolds

\* The worker's document and job, when it has one.
LEMMA WorkerHolds ==
    ASSUME TypeOK, worker \in {"claim"} \cup Processing
    PROVE  job.id \in JobId /\ job.doc \in DocId /\ job.attempts \in Nat
BY DEF TypeOK, WorkerOK, HeldJob

\* DELETE FROM documents leaves no dangling row behind.
LEMMA DeleteRefers ==
    ASSUME TypeOK, References, NEW d \in DocId, DeleteDocument(d), UNCHANGED <<worker, job>>
    PROVE  References'
<1>1. documents \in [DocId -> Status \cup {"none"}] /\ jobs \in [JobId -> Job \cup {NoJob}]
  BY DEF TypeOK, TablesOK
<1>2. \A j \in JobRows' : j \in JobRows /\ jobs'[j] = jobs[j] /\ jobs[j].doc # d
  BY <1>1 DEF JobRows, DeleteDocument, Cascade, NoJob
<1>3. \A e \in DocId : e # d => documents'[e] = documents[e]
  BY <1>1 DEF DeleteDocument
<1>4. \A e \in DocId : pages'[e] # {} => documents'[e] # "none"
  BY <1>3 DEF TypeOK, TablesOK, References, Referential, DeleteDocument
<1>5. \A j \in JobRows : jobs[j].doc \in DocId
  BY <1>1 DEF JobRows, Job, NoJob
<1>6. \A j \in JobRows' : documents'[jobs'[j].doc] # "none"
  BY <1>2, <1>3, <1>5 DEF References, Referential
<1>7. doc_fts' \subseteq DocRows'
  BY <1>3 DEF DocRows, References, Referential, DeleteDocument
<1>8. FilingHolds'
  BY DEF DeleteDocument, WriteLocked, FilingHolds
<1>9. QED
  BY <1>4, <1>6, <1>7, <1>8 DEF References, Referential

\* Steps that leave the tables alone.
LEMMA IdleRefers ==
    ASSUME References, UNCHANGED store, worker' = "file_tx" => UNCHANGED <<worker, job>>
    PROVE  References'
BY DEF References, Referential, FilingHolds, store, JobRows, DocRows

\* An upload handler keeps the references.
LEMMA UploadRefers ==
    ASSUME TypeOK, References, NEW u \in Uploads, UploadCreate(u) \/ UploadStep(u)
    PROVE  References'
<1>1. upload[u].pc # "idle" => upload[u].doc \in DocId
  BY FrameTypes
<1>2. CASE UploadCreate(u)
  <2>1. PICK d \in DocId : documents' = [documents EXCEPT ![d] = "queued"]
    BY <1>2 DEF UploadCreate
  <2>2. \A e \in DocId : documents[e] # "none" => documents'[e] # "none"
    BY <2>1 DEF TypeOK, TablesOK
  <2>3. \A j \in JobRows : jobs[j].doc \in DocId
    BY DEF TypeOK, TablesOK, JobRows, Job, NoJob
  <2>4. worker' # "file_tx"
    BY <1>2 DEF UploadCreate, WriteLocked, workerVars
  <2>5. QED
    BY <1>2, <2>2, <2>3, <2>4 DEF UploadCreate, References, Referential, FilingHolds, JobRows, DocRows
<1>3. CASE UploadInsert(u)
  <2>1. documents[upload[u].doc] # "none" \/ pages' = pages
    BY <1>3 DEF UploadInsert
  <2>2. \A e \in DocId : pages'[e] = pages[e] \/ documents[e] # "none"
    BY <1>1, <1>3, <2>1 DEF UploadInsert, TypeOK, TablesOK
  <2>3. QED
    BY <1>3, <2>2 DEF UploadInsert, References, Referential, FilingHolds, JobRows, DocRows, workerVars
<1>4. CASE UploadRollback(u)
  BY <1>1, <1>4, DeleteRefers DEF UploadRollback, workerVars
<1>5. CASE UploadEnqueue(u)
  <2>1. CASE UNCHANGED jobs
    BY <1>5, <2>1, IdleRefers DEF UploadEnqueue, store, workerVars
  <2>2. CASE documents[upload[u].doc] # "none"
    <3>1. PICK j \in JobId : jobs' = [jobs EXCEPT ![j] =
                [doc |-> upload[u].doc, state |-> "queued", attempts |-> 0]]
      BY <1>5, <2>2 DEF UploadEnqueue
    <3>2. \A i \in JobRows' : (i \in JobRows /\ jobs'[i] = jobs[i]) \/ jobs'[i].doc = upload[u].doc
      BY <3>1 DEF TypeOK, TablesOK, JobRows
    <3>3. \A i \in JobRows' : documents[jobs'[i].doc] # "none"
      BY <2>2, <3>2 DEF References, Referential
    <3>4. QED
      BY <1>5, <3>3 DEF UploadEnqueue, References, Referential, FilingHolds, DocRows, workerVars
  <2>3. QED
    BY <1>5, <2>1, <2>2 DEF UploadEnqueue
<1>6. CASE \/ UploadOpen(u) \/ UploadReceived(u) \/ UploadRejected(u) \/ UploadConvert(u)
           \/ UploadUnlink(u) \/ UploadNudge(u) \/ UploadWriteFails(u)
  BY <1>6, IdleRefers DEF UploadOpen, UploadReceived, UploadRejected, UploadConvert,
     UploadUnlink, UploadNudge, UploadWriteFails, workerVars
<1>7. QED
  BY <1>2, <1>3, <1>4, <1>5, <1>6 DEF UploadStep

\* A DELETE handler keeps the references.
LEMMA RemovalRefers ==
    ASSUME TypeOK, References, NEW r \in Removals, RemovalCheck(r) \/ RemovalStep(r)
    PROVE  References'
<1>1. CASE RemovalDelete(r)
  <2>1. removal[r].doc \in DocId
    BY <1>1 DEF RemovalDelete, TypeOK, HandlersOK, RemovalFrame
  <2>2. QED
    BY <1>1, <2>1, DeleteRefers DEF RemovalDelete, workerVars
<1>2. CASE RemovalCheck(r) \/ RemovalUnlink(r) \/ RemovalWriteFails(r)
  BY <1>2, IdleRefers DEF RemovalCheck, RemovalUnlink, RemovalWriteFails, workerVars
<1>3. QED
  BY <1>1, <1>2 DEF RemovalStep

\* What the worker's UPDATEs do to the tables.
LEMMA SetStatusEffect ==
    ASSUME TypeOK, NEW d \in DocId, NEW s \in Status
    PROVE  /\ \A e \in DocId : SetStatus(d, s)[e] = "none" <=> documents[e] = "none"
           /\ \A e \in DocId : e # d => SetStatus(d, s)[e] = documents[e]
           /\ documents[d] # "none" => SetStatus(d, s)[d] = s
BY DEF TypeOK, TablesOK, SetStatus, Status
LEMMA SetJobEffect ==
    ASSUME TypeOK, NEW j \in JobId, NEW s \in JobState
    PROVE  /\ \A i \in JobId : i # j \/ jobs[j].state = "none" => SetJob(j, s)[i] = jobs[i]
           /\ \A i \in JobId : SetJob(j, s)[i].state = "none" <=> jobs[i].state = "none"
           /\ \A i \in JobId : SetJob(j, s)[i].doc = jobs[i].doc
           /\ \A i \in JobId : SetJob(j, s)[i].attempts = jobs[i].attempts
           /\ jobs[j].state # "none" => SetJob(j, s)[j].state = s
BY DEF TypeOK, TablesOK, SetJob, JobState, Job, NoJob
LEMMA ClaimedEffect ==
    ASSUME TypeOK, NEW j \in JobId
    PROVE  /\ \A i \in JobId : i # j \/ jobs[j].state = "none" => Claimed(j)[i] = jobs[i]
           /\ \A i \in JobId : Claimed(j)[i].state = "none" <=> jobs[i].state = "none"
           /\ \A i \in JobId : Claimed(j)[i].doc = jobs[i].doc
           /\ jobs[j].state # "none" =>
                /\ Claimed(j)[j].state = "running"
                /\ Claimed(j)[j].attempts = jobs[j].attempts + 1
<1>1. jobs \in [JobId -> Job \cup {NoJob}]
  BY DEF TypeOK, TablesOK
<1>2. CASE jobs[j].state = "none"
  BY <1>2 DEF Claimed
<1>3. CASE jobs[j].state # "none"
  <2>1. jobs[j] \in Job
    BY <1>1, <1>3 DEF NoJob
  <2>2. QED
    BY <1>1, <1>3, <2>1 DEF Claimed, Job
<1>4. QED
  BY <1>2, <1>3

\* What recovery does to the tables.
LEMMA RecoverEffect ==
    ASSUME TypeOK, WorkerRecover
    PROVE  /\ \A d \in DocId : documents'[d] \in {documents[d], "failed"}
           /\ \A j \in JobId :
                /\ jobs'[j].doc = jobs[j].doc
                /\ jobs'[j].attempts = jobs[j].attempts
                /\ jobs'[j].state = RecoveredState(j)
BY DEF TypeOK, TablesOK, WorkerRecover, Job, NoJob

\* The worker keeps the references.
LEMMA WorkerRefers ==
    ASSUME TypeOK, References, WorkerStep
    PROVE  References'
<1>1. worker \in {"claim"} \cup Processing => job.id \in JobId /\ job.doc \in DocId
  BY WorkerHolds
<1>2. SUFFICES /\ pages' = pages
               /\ \A d \in DocId : documents[d] # "none" => documents'[d] # "none"
               /\ \A j \in JobId : jobs'[j].doc = jobs[j].doc /\
                     (jobs[j].state = "none" => jobs'[j].state = "none")
               /\ doc_fts' \subseteq DocRows'
               /\ FilingHolds'
  <2>1. \A j \in JobRows : jobs[j].doc \in DocId
    BY DEF TypeOK, TablesOK, JobRows, Job, NoJob
  <2>2. QED
    BY <1>2, <2>1 DEF References, Referential, JobRows
<1>3. CASE WorkerRecover
  BY <1>3, RecoverEffect DEF WorkerRecover, RecoveredState, Stale, References, Referential,
     DocRows, FilingHolds
<1>4. CASE WorkerClaim
  <2>1. job.id \in JobId /\ job.doc \in DocId
    BY <1>1, <1>4 DEF WorkerClaim
  <2>2. \A d \in DocId : documents'[d] = "none" <=> documents[d] = "none"
    BY <1>4, <2>1, SetStatusEffect DEF WorkerClaim, Status
  <2>3. \A j \in JobId : jobs'[j].doc = jobs[j].doc /\
          (jobs[j].state = "none" <=> jobs'[j].state = "none")
    BY <1>4, <2>1, ClaimedEffect DEF WorkerClaim
  <2>4. QED
    BY <1>4, <2>2, <2>3 DEF WorkerClaim, References, Referential, DocRows, FilingHolds
<1>5. CASE WorkerFile
  <2>1. \A d \in DocId : documents'[d] = "none" <=> documents[d] = "none"
    BY <1>1, <1>5, SetStatusEffect DEF WorkerFile, Status, Processing
  <2>2. job.doc \in DocRows'
    BY <1>1, <1>5, <2>1 DEF WorkerFile, References, FilingHolds, DocRows, Processing
  <2>3. QED
    BY <1>5, <2>1, <2>2 DEF WorkerFile, References, Referential, DocRows, FilingHolds
<1>6. CASE WorkerFinish
  BY <1>1, <1>6, SetJobEffect DEF WorkerFinish, JobState, References, Referential,
     DocRows, FilingHolds, Processing
<1>7. CASE WorkerFail
  <2>1. Verdict \in JobState /\ Verdict \in Status
    BY DEF Verdict, JobState, Status
  <2>2. QED
    BY <1>1, <1>7, <2>1, SetJobEffect, SetStatusEffect DEF WorkerFail, References,
       Referential, DocRows, FilingHolds, Processing
<1>8. CASE \/ WorkerPoll \/ WorkerWait \/ WorkerClear \/ WorkerPages \/ WorkerOcr
           \/ WorkerOcrCommit \/ WorkerExtract \/ WorkerRaise \/ WorkerDies
  BY <1>8 DEF WorkerPoll, WorkerWait, WorkerClear, WorkerPages, WorkerOcr,
     WorkerOcrCommit, WorkerExtract, WorkerRaise, WorkerDies, store, References,
     Referential, DocRows, FilingHolds
<1>9. QED
  BY <1>3, <1>4, <1>5, <1>6, <1>7, <1>8 DEF WorkerStep

\* References hold at the start and are kept by every step.
LEMMA InitRefers == Init => References
BY DEF Init, References, Referential, FilingHolds, JobRows, DocRows, NoJob
LEMMA StepRefers == TypeOK /\ References /\ [Next]_vars => References'
<1> SUFFICES ASSUME TypeOK, References, [Next]_vars PROVE References'
  OBVIOUS
<1>1. CASE UNCHANGED vars
  BY <1>1, IdleRefers DEF vars, store
<1>2. CASE Crash
  BY <1>2, IdleRefers DEF Crash
<1>3. CASE Next
  BY <1>2, <1>3, UploadRefers, RemovalRefers, WorkerRefers DEF Next
<1>4. QED
  BY <1>1, <1>3

\* Pages, jobs and index rows never outlive their document, whichever requests
\* overlap and whatever fails: foreign keys cascade on every connection, and
\* a document is filed only under the lock that keeps it from being deleted.
THEOREM ReferencesHold == Spec => []Referential
<1>1. References => Referential
  BY DEF References
<1>2. QED
  BY <1>1, InitRefers, StepRefers, TypeCorrect, PTL DEF Spec

-----------------------------------------------------------------------------
(* Wake-ups *)

\* An event that is cleared is followed by another look at the queue, so the
\* worker never sleeps on a queued job nobody will nudge it for.
LEMMA StepWakes == TypeOK /\ NoLostWakeup /\ [Next]_vars => NoLostWakeup'
<1> SUFFICES ASSUME TypeOK, NoLostWakeup, [Next]_vars PROVE NoLostWakeup'
  OBVIOUS
<1> DEFINE Nudging(u, j) == upload[u].pc = "nudge" /\ upload[u].doc = jobs[j].doc
<1>1. CASE UNCHANGED vars
  BY <1>1 DEF vars, NoLostWakeup, QueuedJobs
<1>2. CASE Crash
  BY <1>2 DEF Crash, NoLostWakeup
<1>3. CASE WorkerStep
  <2>1. CASE WorkerPoll
    BY <2>1 DEF WorkerPoll, NoLostWakeup, QueuedJobs, store
  <2>2. CASE ~WorkerPoll
    BY <1>3, <2>2 DEF NoLostWakeup, WorkerStep, WorkerRecover, WorkerWait, WorkerClear,
       WorkerClaim, WorkerPages, WorkerOcr, WorkerOcrCommit, WorkerExtract, WorkerFile,
       WorkerFinish, WorkerRaise, WorkerFail, WorkerDies
  <2>3. QED
    BY <2>1, <2>2
<1>4. CASE \E r \in Removals : RemovalCheck(r) \/ RemovalStep(r)
  <2>1. PICK r \in Removals : RemovalCheck(r) \/ RemovalStep(r)
    BY <1>4
  <2>2. UNCHANGED <<worker, wake, upload>>
    BY <2>1 DEF RemovalCheck, RemovalStep, RemovalUnlink, RemovalDelete, RemovalWriteFails,
       workerVars
  <2>3. \A j \in QueuedJobs' : j \in QueuedJobs /\ jobs'[j].doc = jobs[j].doc
    BY <2>1 DEF RemovalCheck, RemovalStep, RemovalUnlink, RemovalDelete, RemovalWriteFails,
       store, DeleteDocument, Cascade, NoJob, QueuedJobs
  <2>4. QED
    BY <2>2, <2>3 DEF NoLostWakeup
<1>5. CASE \E u \in Uploads : UploadCreate(u) \/ UploadStep(u)
  <2>1. PICK u \in Uploads : UploadCreate(u) \/ UploadStep(u)
    BY <1>5
  <2>2. CASE UploadNudge(u)
    BY <2>2 DEF UploadNudge, NoLostWakeup
  <2>3. CASE ~UploadNudge(u)
    <3>1. worker' = worker /\ wake' = wake
      BY <2>1, <2>3 DEF UploadCreate, UploadStep, UploadOpen, UploadReceived, UploadRejected,
         UploadConvert, UploadInsert, UploadUnlink, UploadRollback, UploadEnqueue,
         UploadWriteFails, workerVars
    <3>2. /\ upload[u].pc # "nudge"
          /\ \A v \in Uploads : v # u => upload'[v] = upload[v]
      BY <2>1, <2>3 DEF TypeOK, HandlersOK, SetFrame, Goto,
         UploadCreate, UploadStep, UploadOpen, UploadReceived, UploadRejected,
         UploadConvert, UploadInsert, UploadUnlink, UploadRollback, UploadEnqueue,
         UploadWriteFails
    <3>3. \A j \in QueuedJobs' :
            \/ j \in QueuedJobs /\ jobs'[j].doc = jobs[j].doc
            \/ upload'[u].pc = "nudge" /\ upload'[u].doc = jobs'[j].doc
      <4>1. CASE UploadEnqueue(u)
        <5>1. upload[u] \in UploadFrame
          BY FrameTypes
        <5>2. CASE UNCHANGED jobs
          BY <5>2 DEF QueuedJobs
        <5>3. CASE Goto(u, "nudge") /\ ~UNCHANGED jobs
          <6>1. upload'[u].pc = "nudge" /\ upload'[u].doc = upload[u].doc
            BY <5>1, <5>3 DEF Goto, SetFrame, TypeOK, HandlersOK, UploadFrame
          <6>2. PICK j \in JobId : jobs' = [jobs EXCEPT ![j] =
                  [doc |-> upload[u].doc, state |-> "queued", attempts |-> 0]]
            BY <4>1, <5>3 DEF UploadEnqueue
          <6>3. QED
            BY <6>1, <6>2 DEF QueuedJobs, TypeOK, TablesOK
        <5>4. QED
          BY <4>1, <5>2, <5>3 DEF UploadEnqueue
      <4>2. CASE UploadRollback(u)
        BY <4>2 DEF UploadRollback, DeleteDocument, Cascade, NoJob, QueuedJobs
      <4>3. CASE ~UploadEnqueue(u) /\ ~UploadRollback(u)
        <5>1. jobs' = jobs
          BY <2>1, <2>3, <4>3 DEF UploadCreate, UploadStep, UploadOpen, UploadReceived,
             UploadRejected, UploadConvert, UploadInsert, UploadUnlink, UploadWriteFails, store
        <5>2. QED
          BY <5>1 DEF QueuedJobs
      <4>4. QED
        BY <4>1, <4>2, <4>3
    <3>4. QED
      BY <3>1, <3>2, <3>3 DEF NoLostWakeup
  <2>4. QED
    BY <2>2, <2>3
<1>6. QED
  BY <1>1, <1>2, <1>3, <1>4, <1>5 DEF Next

\* The wake-up protocol of Worker.nudge and Worker._run loses no nudge, with
\* any number of uploads, retries and crashes.
THEOREM WakeupsHold == Spec => []NoLostWakeup
<1>1. Init => NoLostWakeup
  BY DEF Init, NoLostWakeup
<1>2. QED
  BY <1>1, StepWakes, TypeCorrect, PTL DEF Spec

-----------------------------------------------------------------------------
(* Custody *)

\* The inductive invariant: Mirror is not inductive by itself, since a step is
\* only harmless to the rows it writes when no other handler holds them.
Hands == TypeOK /\ References /\ OneStory /\ OneHolder

\* What OneStory says of one job row, with the types of the row.
LEMMA RowTypes ==
    ASSUME TypeOK
    PROVE  /\ documents \in [DocId -> Status \cup {"none"}]
           /\ jobs \in [JobId -> Job \cup {NoJob}]
           /\ \A j \in JobRows : jobs[j] \in Job /\ j \in JobId
           /\ \A j \in JobId : jobs[j].state # "none" => j \in JobRows
           /\ \A j \in JobId : jobs[j].state \in JobState \cup {"none"}
BY DEF TypeOK, TablesOK, JobRows, NoJob, Job

\* Steps that write neither table and take nothing into their hands.
LEMMA IdleKeepsHands ==
    ASSUME Hands, UNCHANGED <<documents, jobs>>, WorkerCustody',
           \A u \in Uploads : upload'[u].pc \in Owning =>
               upload[u].pc \in Owning /\ upload'[u].doc = upload[u].doc,
           \A r \in Removals : removal'[r].pc \in Removing =>
               removal[r].pc \in Removing /\ removal'[r].doc = removal[r].doc
    PROVE  OneStory' /\ OneHolder'
<1>1. OneStory'
  BY DEF Hands, OneStory, JobRows
<1>2. UploadCustody'
  BY DEF Hands, OneHolder, UploadCustody, JobRows
<1>3. RemovalCustody'
  BY DEF Hands, OneHolder, RemovalCustody
<1>4. QED
  BY <1>1, <1>2, <1>3 DEF OneHolder

\* Deleting a document that has failed or has no job, in nobody's hands but
\* those of the handler that deletes it.
LEMMA DeleteKeepsHands ==
    ASSUME Hands, NEW d \in DocId, DeleteDocument(d), UNCHANGED <<worker, job>>,
           documents[d] \in {"queued", "failed", "none"},
           \A j \in JobRows : jobs[j].doc = d => jobs[j].state = "failed",
           \A u \in Uploads : upload'[u].pc \in Owning =>
               /\ upload[u].pc \in Owning /\ upload'[u].doc = upload[u].doc
               /\ upload[u].doc \in DocId \ {d},
           \A r \in Removals : removal'[r].pc \in Removing =>
               /\ removal[r].pc \in Removing /\ removal'[r].doc = removal[r].doc
               /\ removal[r].doc \in DocId
    PROVE  OneStory' /\ OneHolder'
<1>1. documents \in [DocId -> Status \cup {"none"}] /\ jobs \in [JobId -> Job \cup {NoJob}]
  BY RowTypes DEF Hands
<1>2. /\ \A e \in DocId : e # d => documents'[e] = documents[e]
      /\ documents'[d] = "none"
  BY <1>1 DEF DeleteDocument
<1>3. /\ \A j \in JobRows' : j \in JobRows /\ jobs'[j] = jobs[j] /\ jobs[j].doc # d
      /\ \A j \in JobRows : jobs[j].doc # d => j \in JobRows' /\ jobs'[j] = jobs[j]
  BY <1>1 DEF DeleteDocument, Cascade, NoJob, JobRows
<1>4. \A j \in JobRows : jobs[j].doc \in DocId
  BY <1>1 DEF JobRows, Job, NoJob
<1>5. OneStory'
  <2>1. \A i, j \in JobRows' : jobs'[i].doc = jobs'[j].doc => i = j
    BY <1>3 DEF Hands, OneStory
  <2>2. \A j \in JobRows' : documents'[jobs'[j].doc] = documents[jobs[j].doc]
    BY <1>2, <1>3, <1>4
  <2>3. \A e \in DocId : documents'[e] \in {"processing", "done", "failed"} =>
          \E j \in JobRows' : jobs'[j].doc = e
    BY <1>2, <1>3 DEF Hands, OneStory
  <2>4. QED
    BY <1>3, <2>1, <2>2, <2>3 DEF Hands, OneStory
<1>6. UploadCustody'
  BY <1>2, <1>3 DEF Hands, OneHolder, UploadCustody
<1>7. RemovalCustody'
  BY <1>1, <1>2 DEF Hands, OneHolder, RemovalCustody
<1>8. WorkerCustody'
  <2>1. worker \in {"claim"} \cup Processing =>
          job.id \in JobRows /\ jobs[job.id].state # "failed" /\ job.doc \in DocId
    BY WorkerHolds, RowTypes DEF Hands, OneHolder, WorkerCustody
  <2>2. worker \in {"claim"} \cup Processing =>
          /\ job.doc # d
          /\ jobs'[job.id] = jobs[job.id]
          /\ documents'[job.doc] = documents[job.doc]
    BY <1>2, <1>3, <2>1 DEF Hands, OneHolder, WorkerCustody
  <2>3. \A j \in JobId : jobs'[j].state = "running" => jobs[j].state = "running"
    BY <1>1 DEF DeleteDocument, Cascade, NoJob
  <2>4. QED
    BY <2>2, <2>3 DEF Hands, OneHolder, WorkerCustody, Processing
<1>9. QED
  BY <1>5, <1>6, <1>7, <1>8 DEF OneHolder

\* What an upload handler's steps do to its frame, apart from its first.
LEMMA UploadMoves ==
    ASSUME TypeOK, NEW u \in Uploads, UploadStep(u)
    PROVE  /\ \A v \in Uploads : v # u => upload'[v] = upload[v]
           /\ upload'[u].doc = upload[u].doc
           /\ upload'[u].pc \in Owning => upload[u].pc \in Owning
           /\ UNCHANGED <<removal, worker, job>>
<1>1. upload \in [Uploads -> UploadFrame] /\ upload[u] \in UploadFrame
  BY FrameTypes DEF TypeOK, HandlersOK
<1>2. /\ \A v \in Uploads : v # u => upload'[v] = upload[v]
      /\ upload'[u].doc = upload[u].doc
  <2> DEFINE Same == /\ \A v \in Uploads : v # u => upload'[v] = upload[v]
                     /\ upload'[u].doc = upload[u].doc
  <2>1. ASSUME NEW f, SetFrame(u, f), f.doc = upload[u].doc
        PROVE  Same
    BY <1>1, <2>1 DEF SetFrame
  <2>2. ASSUME NEW pc, Goto(u, pc)
        PROVE  Same
    <3>1. [upload[u] EXCEPT !.pc = pc].doc = upload[u].doc
      BY <1>1 DEF UploadFrame
    <3>2. QED
      BY <2>1, <2>2, <3>1 DEF Goto
  <2>3. CASE UploadOpen(u)
    <3>1. PICK s \in Suffixes :
            SetFrame(u, [upload[u] EXCEPT !.pc = "reading", !.suffix = s,
                           !.written = @ \cup {<<upload[u].page, s>>}])
      BY <2>3 DEF UploadOpen
    <3>2. [upload[u] EXCEPT !.pc = "reading", !.suffix = s,
             !.written = @ \cup {<<upload[u].page, s>>}].doc = upload[u].doc
      BY <1>1 DEF UploadFrame
    <3>3. QED
      BY <2>1, <3>1, <3>2
  <2>4. CASE UploadConvert(u)
    <3> DEFINE f == [upload[u] EXCEPT !.pc = "insert",
                       !.written = (@ \ {<<upload[u].page, "heic">>})
                                     \cup {<<upload[u].page, "jpg">>}]
    <3>1. f.doc = upload[u].doc
      BY <1>1 DEF UploadFrame
    <3>2. SetFrame(u, f) \/ Goto(u, "unlink")
      BY <2>4 DEF UploadConvert
    <3>3. QED
      BY <2>1, <2>2, <3>1, <3>2
  <2>5. CASE UploadInsert(u)
    <3> DEFINE f == [upload[u] EXCEPT !.pc = "open", !.page = upload[u].page + 1]
    <3>1. f.doc = upload[u].doc
      BY <1>1 DEF UploadFrame
    <3>2. SetFrame(u, f) \/ Goto(u, "enqueue") \/ Goto(u, "unlink")
      BY <2>5 DEF UploadInsert
    <3>3. QED
      BY <2>1, <2>2, <3>1, <3>2
  <2>6. CASE UploadUnlink(u)
    <3>1. [upload[u] EXCEPT !.pc = "delete", !.written = {}].doc = upload[u].doc
      BY <1>1 DEF UploadFrame
    <3>2. QED
      BY <2>1, <2>6, <3>1 DEF UploadUnlink
  <2>7. CASE \/ UploadReceived(u) \/ UploadRejected(u) \/ UploadRollback(u)
             \/ UploadEnqueue(u) \/ UploadNudge(u) \/ UploadWriteFails(u)
    BY <2>2, <2>7 DEF UploadReceived, UploadRejected, UploadRollback, UploadEnqueue,
       UploadNudge, UploadWriteFails
  <2>8. QED
    BY <2>3, <2>4, <2>5, <2>6, <2>7 DEF UploadStep
<1>3. upload[u].pc \notin Owning => upload[u].pc = "nudge" /\ Goto(u, "accepted")
  BY DEF UploadStep, UploadOpen, UploadReceived, UploadRejected, UploadConvert, UploadInsert,
     UploadUnlink, UploadRollback, UploadEnqueue, UploadNudge, UploadWriteFails,
     Owning, Receiving, Undoing
<1>4. upload[u].pc \notin Owning => upload'[u].pc = "accepted"
  BY <1>1, <1>3 DEF Goto, SetFrame, UploadFrame
<1>5. UNCHANGED <<removal, worker, job>>
  BY DEF UploadStep, UploadOpen, UploadReceived, UploadRejected, UploadConvert, UploadInsert,
     UploadUnlink, UploadRollback, UploadEnqueue, UploadNudge, UploadWriteFails, workerVars
<1>6. QED
  BY <1>1, <1>2, <1>4, <1>5 DEF SetFrame, Owning, Receiving, Undoing

\* The worker's custody depends on the worker and the tables only.
LEMMA SameWorker ==
    ASSUME Hands, UNCHANGED <<documents, jobs, worker, job>>
    PROVE  WorkerCustody'
BY DEF Hands, OneHolder, WorkerCustody

\* An upload handler takes a new document into its hands, and lets go of it
\* when it is enqueued or deleted.
LEMMA UploadKeepsHands ==
    ASSUME Hands, ~reissued', NEW u \in Uploads, UploadCreate(u) \/ UploadStep(u)
    PROVE  OneStory' /\ OneHolder'
<1>1. TypeOK /\ References /\ OneStory /\ OneHolder
  BY DEF Hands
<1>2. /\ documents \in [DocId -> Status \cup {"none"}]
      /\ jobs \in [JobId -> Job \cup {NoJob}]
      /\ \A j \in JobRows : jobs[j].doc \in DocId /\ j \in JobId
      /\ upload \in [Uploads -> UploadFrame]
  BY <1>1, RowTypes DEF TypeOK, HandlersOK, Job
<1>3. CASE UploadCreate(u)
  <2>1. PICK d \in DocId, n \in Page :
          /\ IsNextRowid(d, DocRows)
          /\ documents' = [documents EXCEPT ![d] = "queued"]
          /\ reissued' = (reissued \/ Reissue(d))
          /\ SetFrame(u, [IdleUpload EXCEPT !.pc = "open", !.doc = d, !.last = n])
    BY <1>3 DEF UploadCreate
  <2>2. documents[d] = "none"
    BY <2>1 DEF IsNextRowid, DocRows, DocId
  <2>3. UNCHANGED <<jobs, removal, worker, job>>
    BY <1>3 DEF UploadCreate, workerVars
  <2>4. \A j \in JobRows : jobs[j].doc # d
    BY <1>1, <2>2 DEF References, Referential
  <2>5. \A e \in DocId : e # d => documents'[e] = documents[e]
    BY <1>2, <2>1
  <2>6. documents'[d] = "queued"
    BY <1>2, <2>1
  <2>7. /\ \A v \in Uploads : v # u => upload'[v] = upload[v]
        /\ upload'[u].pc = "open" /\ upload'[u].doc = d
    BY <1>2, <2>1 DEF SetFrame, IdleUpload
  <2>8. OneStory'
    BY <1>1, <1>2, <2>3, <2>4, <2>5, <2>6 DEF OneStory, JobRows
  <2>9. UploadCustody'
    <3>1. \A v \in Uploads : upload[v].pc \in Owning =>
            upload[v].doc \in DocId /\ upload[v].doc # d
      BY <1>1, <2>2, FrameTypes DEF OneHolder, UploadCustody, Owning, Receiving, Undoing
    <3>2. QED
      BY <1>1, <2>3, <2>4, <2>5, <2>6, <2>7, <3>1 DEF OneHolder, UploadCustody, JobRows
  <2>10. RemovalCustody'
    <3>1. \A r \in Removals : removal[r].pc \in Removing =>
            removal[r].doc \in DocId /\ removal[r].doc # d
      BY <1>1, <2>1 DEF Reissue, TypeOK, HandlersOK, RemovalFrame, Removing
    <3>2. QED
      BY <1>1, <2>3, <2>5, <3>1 DEF OneHolder, RemovalCustody
  <2>11. WorkerCustody'
    <3>1. worker \in {"claim"} \cup Processing => job.id \in JobRows /\ job.doc # d /\ job.doc \in DocId
      BY <1>1, <1>2, <2>4, WorkerHolds, RowTypes DEF OneHolder, WorkerCustody
    <3>2. QED
      BY <1>1, <2>3, <2>5, <3>1 DEF OneHolder, WorkerCustody, Processing
  <2>12. QED
    BY <2>8, <2>9, <2>10, <2>11 DEF OneHolder
<1>4. CASE UploadRollback(u)
  <2>1. upload[u].pc \in Owning /\ upload[u].doc \in DocId
    BY <1>1, <1>4, FrameTypes DEF UploadRollback, Owning, Undoing
  <2>2. upload'[u].pc = "refused"
    BY <1>2, <1>4 DEF UploadRollback, Goto, SetFrame, UploadFrame
  <2>3. documents[upload[u].doc] = "queued" /\ \A j \in JobRows : jobs[j].doc # upload[u].doc
    BY <1>1, <2>1 DEF OneHolder, UploadCustody
  <2>4. \A v \in Uploads : upload'[v].pc \in Owning =>
          /\ upload[v].pc \in Owning /\ upload'[v].doc = upload[v].doc
          /\ upload[v].doc \in DocId \ {upload[u].doc}
    <3>1. \A v \in Uploads : upload[v].pc \in Owning => upload[v].doc \in DocId
      BY <1>1, FrameTypes DEF Owning, Receiving, Undoing
    <3>2. QED
      BY <1>1, <1>4, <2>1, <2>2, <3>1, UploadMoves
         DEF UploadStep, OneHolder, UploadCustody, Owning, Receiving, Undoing
  <2>5. \A r \in Removals : removal[r].pc \in Removing =>
          removal[r].doc \in DocId
    BY <1>1 DEF TypeOK, HandlersOK, RemovalFrame, Removing
  <2>6. UNCHANGED <<removal, worker, job>>
    BY <1>4 DEF UploadRollback, workerVars
  <2>7. QED
    BY <1>4, <2>1, <2>3, <2>4, <2>5, <2>6, DeleteKeepsHands DEF UploadRollback
<1>5. CASE UploadEnqueue(u)
  <2>1. upload[u].pc = "enqueue" /\ upload[u].doc \in DocId /\ upload[u].pc \in Owning
    BY <1>1, <1>5, FrameTypes DEF UploadEnqueue, Owning, Receiving
  <2>2. upload'[u].pc \notin Owning
    BY <1>2, <1>5 DEF UploadEnqueue, Goto, SetFrame, UploadFrame, Owning, Receiving, Undoing
  <2>3. documents[upload[u].doc] = "queued" /\ \A j \in JobRows : jobs[j].doc # upload[u].doc
    BY <1>1, <2>1 DEF OneHolder, UploadCustody
  <2>4. PICK j \in JobId :
          /\ IsNextRowid(j, JobRows)
          /\ jobs' = [jobs EXCEPT ![j] =
               [doc |-> upload[u].doc, state |-> "queued", attempts |-> 0]]
    BY <1>5, <2>3 DEF UploadEnqueue
  <2>5. j \notin JobRows
    BY <2>4 DEF IsNextRowid, JobRows, JobId
  <2>6. /\ \A i \in JobId : i # j => jobs'[i] = jobs[i]
        /\ jobs'[j].doc = upload[u].doc /\ jobs'[j].state = "queued" /\ jobs'[j].attempts = 0
    BY <1>2, <2>4
  <2>7. /\ \A i \in JobRows' : i = j \/ i \in JobRows
        /\ \A i \in JobRows : i \in JobRows' /\ i # j
        /\ j \in JobRows'
    BY <2>5, <2>6 DEF JobRows
  <2>8. documents' = documents
    BY <1>5 DEF UploadEnqueue
  <2>9. OneStory'
    <3>1. \A i, k \in JobRows' : jobs'[i].doc = jobs'[k].doc => i = k
      BY <1>1, <1>2, <2>3, <2>6, <2>7 DEF OneStory
    <3>2. \A e \in DocId : documents'[e] \in {"processing", "done", "failed"} =>
            \E i \in JobRows' : jobs'[i].doc = e
      BY <1>1, <1>2, <2>6, <2>7, <2>8 DEF OneStory
    <3>3. ASSUME NEW i \in JobRows'
          PROVE  LET status == documents'[jobs'[i].doc] IN
                 /\ jobs'[i].state = "done" => status = "done"
                 /\ jobs'[i].state = "failed" <=> status = "failed"
                 /\ jobs'[i].state = "queued" => jobs'[i].attempts < MaxAttempts
                 /\ jobs'[i].state = "running" => status \in {"processing", "done"}
      <4>1. CASE i = j
        BY <2>3, <2>6, <2>8, <4>1, CountsAssumption
      <4>2. CASE i # j
        BY <1>1, <1>2, <2>6, <2>7, <2>8, <4>2 DEF OneStory
      <4>3. QED
        BY <4>1, <4>2
    <3>4. QED
      BY <3>1, <3>2, <3>3 DEF OneStory
  <2>10. UploadCustody'
    <3>1. \A v \in Uploads : v # u => upload'[v] = upload[v]
      BY <1>1, <1>5, UploadMoves DEF UploadStep
    <3>2. \A v \in Uploads : v # u /\ upload[v].pc \in Owning => upload[v].doc # upload[u].doc
      BY <1>1, <2>1 DEF OneHolder, UploadCustody
    <3>3. QED
      BY <1>1, <1>2, <2>2, <2>6, <2>7, <2>8, <3>1, <3>2 DEF OneHolder, UploadCustody
  <2>11. RemovalCustody'
    BY <1>1, <1>5, <2>8 DEF UploadEnqueue, OneHolder, RemovalCustody
  <2>12. WorkerCustody'
    <3>1. UNCHANGED <<worker, job>>
      BY <1>5 DEF UploadEnqueue, workerVars
    <3>2. worker \in {"claim"} \cup Processing => job.id \in JobId /\ job.id # j
      BY <1>1, <2>5, WorkerHolds, RowTypes DEF OneHolder, WorkerCustody
    <3>3. QED
      BY <1>1, <2>6, <2>8, <3>1, <3>2 DEF OneHolder, WorkerCustody, Processing
  <2>13. QED
    BY <2>9, <2>10, <2>11, <2>12 DEF OneHolder
<1>6. CASE \/ UploadOpen(u) \/ UploadReceived(u) \/ UploadRejected(u) \/ UploadConvert(u)
           \/ UploadInsert(u) \/ UploadUnlink(u) \/ UploadNudge(u) \/ UploadWriteFails(u)
  <2>1. UploadStep(u)
    BY <1>6 DEF UploadStep
  <2>2. UNCHANGED <<documents, jobs, removal, worker, job>>
    BY <1>6 DEF UploadOpen, UploadReceived, UploadRejected, UploadConvert, UploadInsert,
       UploadUnlink, UploadNudge, UploadWriteFails, store, workerVars
  <2>3. \A v \in Uploads : upload'[v].pc \in Owning =>
          upload[v].pc \in Owning /\ upload'[v].doc = upload[v].doc
    BY <1>1, <2>1, UploadMoves
  <2>4. QED
    BY <2>2, <2>3, SameWorker, IdleKeepsHands
<1>7. QED
  BY <1>3, <1>4, <1>5, <1>6 DEF UploadStep

\* A DELETE handler takes a failed document into its hands when it checks it;
\* another one may delete it first, and then there is nothing left to delete.
LEMMA RemovalKeepsHands ==
    ASSUME Hands, NEW r \in Removals, RemovalCheck(r) \/ RemovalStep(r)
    PROVE  OneStory' /\ OneHolder'
<1>1. TypeOK /\ References /\ OneStory /\ OneHolder
  BY DEF Hands
<1>2. removal \in [Removals -> RemovalFrame] /\ UNCHANGED <<upload, worker, job>>
  BY <1>1 DEF TypeOK, HandlersOK, RemovalCheck, RemovalStep, RemovalUnlink, RemovalDelete,
     RemovalWriteFails, workerVars
<1>3. CASE RemovalCheck(r)
  <2>1. PICK d \in DocId :
          SetRemoval(r, IF Deletable(documents[d]) THEN "unlink" ELSE "answered", d)
    BY <1>3 DEF RemovalCheck
  <2>3. /\ \A q \in Removals : q # r => removal'[q] = removal[q]
        /\ removal'[r].doc = d
        /\ removal'[r].pc \in Removing => documents[d] = "failed"
    BY <1>2, <2>1 DEF SetRemoval, Deletable, Removing
  <2>4. UNCHANGED <<documents, jobs>>
    BY <1>3 DEF RemovalCheck, store
  <2>5. OneStory'
    BY <1>1, <2>4 DEF OneStory, JobRows
  <2>6. UploadCustody'
    BY <1>1, <1>2, <2>4 DEF OneHolder, UploadCustody, JobRows
  <2>7. RemovalCustody'
    BY <1>1, <2>3, <2>4 DEF OneHolder, RemovalCustody
  <2>8. WorkerCustody'
    BY <1>2, <2>4, SameWorker
  <2>9. QED
    BY <2>5, <2>6, <2>7, <2>8 DEF OneHolder
<1>4. CASE RemovalDelete(r)
  <2>1. removal[r].pc \in Removing /\ removal[r].doc \in DocId
    BY <1>2, <1>4, <1>1 DEF RemovalDelete, Removing, TypeOK, HandlersOK, RemovalFrame
  <2>2. documents[removal[r].doc] \in {"failed", "none"}
    BY <1>1, <2>1 DEF OneHolder, RemovalCustody
  <2>3. \A j \in JobRows : jobs[j].doc = removal[r].doc => jobs[j].state = "failed"
    BY <1>1, <2>2 DEF OneStory, References, Referential
  <2>4. \A u \in Uploads : upload[u].pc \in Owning =>
          upload[u].doc \in DocId \ {removal[r].doc}
    BY <1>1, <2>2, FrameTypes DEF OneHolder, UploadCustody, Owning, Receiving, Undoing
  <2>5. \A q \in Removals : removal'[q].pc \in Removing =>
          /\ removal[q].pc \in Removing /\ removal'[q].doc = removal[q].doc
          /\ removal[q].doc \in DocId
    BY <1>1, <1>2, <1>4 DEF RemovalDelete, SetRemoval, Removing, TypeOK, HandlersOK, RemovalFrame
  <2>6. QED
    BY <1>2, <1>4, <2>1, <2>2, <2>3, <2>4, <2>5, DeleteKeepsHands, <1>1 DEF RemovalDelete
<1>5. CASE RemovalUnlink(r) \/ RemovalWriteFails(r)
  <2>1. UNCHANGED <<documents, jobs>>
    BY <1>5 DEF RemovalUnlink, RemovalWriteFails, store
  <2>2. \A q \in Removals : removal'[q].pc \in Removing =>
          removal[q].pc \in Removing /\ removal'[q].doc = removal[q].doc
    BY <1>2, <1>5 DEF RemovalUnlink, RemovalWriteFails, SetRemoval, Removing
  <2>3. QED
    BY <1>2, <2>1, <2>2, SameWorker, IdleKeepsHands
<1>6. QED
  BY <1>3, <1>4, <1>5 DEF RemovalStep

\* The worker writes the job it holds and that job's document only; what the
\* other hands hold is not touched.
LEMMA HeldApart ==
    ASSUME Hands, worker \in {"claim"} \cup Processing
    PROVE  /\ job.id \in JobRows /\ job.id \in JobId /\ job.doc \in DocId
           /\ jobs[job.id].doc = job.doc
           /\ documents[job.doc] \in {"queued", "processing", "done"}
           /\ \A j \in JobRows : jobs[j].doc = job.doc => j = job.id
           /\ \A u \in Uploads : upload[u].pc \in Owning => upload[u].doc # job.doc
           /\ \A r \in Removals : removal[r].pc \in Removing => removal[r].doc # job.doc
<1>1. TypeOK /\ References /\ OneStory /\ OneHolder
  BY DEF Hands
<1>2. job.id \in JobId /\ job.doc \in DocId
  BY <1>1, WorkerHolds
<1>3. jobs[job.id].doc = job.doc /\ jobs[job.id].state \in {"queued", "running"}
  BY <1>1 DEF OneHolder, WorkerCustody
<1>4. job.id \in JobRows
  BY <1>2, <1>3 DEF JobRows
<1>5. documents[job.doc] \in {"queued", "processing", "done"}
  <2>1. documents[job.doc] # "failed" /\ documents[job.doc] # "none"
    BY <1>1, <1>3, <1>4 DEF OneStory, References, Referential
  <2>2. QED
    BY <1>1, <1>2, <2>1, RowTypes DEF Status
<1>6. QED
  BY <1>1, <1>2, <1>3, <1>4, <1>5 DEF OneStory, OneHolder, UploadCustody, RemovalCustody

\* A write of the held job's row and its document, to a pair that matches.
LEMMA WriteKeepsHands ==
    ASSUME Hands, worker \in {"claim"} \cup Processing, UNCHANGED <<upload, removal>>,
           WorkerCustody',
           \A j \in JobId : j # job.id => jobs'[j] = jobs[j],
           \A d \in DocId : d # job.doc => documents'[d] = documents[d],
           jobs'[job.id].doc = job.doc,
           jobs'[job.id].state # "none",
           jobs'[job.id].state = "done" => documents'[job.doc] = "done",
           jobs'[job.id].state = "failed" <=> documents'[job.doc] = "failed",
           jobs'[job.id].state = "queued" => jobs'[job.id].attempts < MaxAttempts,
           jobs'[job.id].state = "running" => documents'[job.doc] \in {"processing", "done"}
    PROVE  OneStory' /\ OneHolder'
<1>1. TypeOK /\ References /\ OneStory /\ OneHolder
  BY DEF Hands
<1>2. /\ job.id \in JobRows /\ job.id \in JobId /\ job.doc \in DocId
      /\ jobs[job.id].doc = job.doc
      /\ \A j \in JobRows : jobs[j].doc = job.doc => j = job.id
  BY HeldApart
<1>3. /\ JobRows' = JobRows
      /\ \A j \in JobRows : jobs[j].doc \in DocId /\ jobs'[j].doc = jobs[j].doc
  BY <1>1, <1>2, RowTypes DEF JobRows, Job
<1>4. OneStory'
  <2>1. \A i, j \in JobRows' : jobs'[i].doc = jobs'[j].doc => i = j
    BY <1>1, <1>3 DEF OneStory
  <2>2. ASSUME NEW d \in DocId, documents'[d] \in {"processing", "done", "failed"}
        PROVE  \E j \in JobRows' : jobs'[j].doc = d
    BY <1>1, <1>2, <1>3, <2>2 DEF OneStory
  <2>3. ASSUME NEW i \in JobRows'
        PROVE  LET status == documents'[jobs'[i].doc] IN
               /\ jobs'[i].state = "done" => status = "done"
               /\ jobs'[i].state = "failed" <=> status = "failed"
               /\ jobs'[i].state = "queued" => jobs'[i].attempts < MaxAttempts
               /\ jobs'[i].state = "running" => status \in {"processing", "done"}
    <3>1. CASE i = job.id
      BY <3>1
    <3>2. CASE i # job.id
      <4>1. i \in JobRows /\ jobs'[i] = jobs[i] /\ documents'[jobs[i].doc] = documents[jobs[i].doc]
        BY <1>2, <1>3, <3>2, <2>3 DEF JobRows
      <4>2. QED
        BY <1>1, <4>1 DEF OneStory
    <3>3. QED
      BY <3>1, <3>2
  <2>4. QED
    BY <2>1, <2>2, <2>3 DEF OneStory
<1>5. UploadCustody'
  <2>1. \A u \in Uploads : upload[u].pc \in Owning =>
          upload[u].doc \in DocId /\ upload[u].doc # job.doc
    BY <1>1, HeldApart, FrameTypes DEF Owning, Receiving, Undoing
  <2>2. QED
    BY <1>1, <1>3, <2>1 DEF OneHolder, UploadCustody
<1>6. RemovalCustody'
  <2>1. \A r \in Removals : removal[r].pc \in Removing =>
          removal[r].doc \in DocId /\ removal[r].doc # job.doc
    BY <1>1, HeldApart DEF TypeOK, HandlersOK, RemovalFrame, Removing
  <2>2. QED
    BY <1>1, <2>1 DEF OneHolder, RemovalCustody
<1>7. QED
  BY <1>4, <1>5, <1>6 DEF OneHolder

\* Recovery settles or requeues what was running, and document with job.
LEMMA RecoverKeepsHands ==
    ASSUME Hands, WorkerRecover
    PROVE  OneStory' /\ OneHolder'
<1>1. TypeOK /\ References /\ OneStory /\ OneHolder
  BY DEF Hands
<1>2. /\ \A j \in JobRows : jobs[j] \in Job /\ j \in JobId
      /\ UNCHANGED <<upload, removal, job>> /\ worker' = "poll"
  BY <1>1, RowTypes DEF WorkerRecover
<1>3. \A j \in JobId : /\ jobs'[j].doc = jobs[j].doc
                        /\ jobs'[j].attempts = jobs[j].attempts
                        /\ jobs'[j].state = RecoveredState(j)
  BY <1>1, RecoverEffect
<1>4. JobRows' = JobRows
  BY <1>3 DEF JobRows, RecoveredState, Stale
<1>5. \A d \in DocId : documents'[d] =
        IF \E j \in JobId : jobs[j].doc = d /\ Stale(j) /\ Spent(j)
          THEN "failed" ELSE documents[d]
  BY DEF WorkerRecover
<1>6. ASSUME NEW j \in JobRows
      PROVE  documents'[jobs[j].doc] =
               IF Stale(j) /\ Spent(j) THEN "failed" ELSE documents[jobs[j].doc]
  <2>1. \A i \in JobId : jobs[i].doc = jobs[j].doc /\ Stale(i) => i = j
    BY <1>1, <1>6 DEF OneStory, Stale, JobRows
  <2>2. jobs[j].doc \in DocId /\ j \in JobId
    BY <1>2, <1>6 DEF Job
  <2>3. QED
    BY <1>5, <2>1, <2>2
<1>7. \A d \in DocId : (\A j \in JobRows : jobs[j].doc # d) => documents'[d] = documents[d]
  BY <1>5 DEF Stale, JobRows
<1>8. OneStory'
  <2>1. \A i, j \in JobRows' : jobs'[i].doc = jobs'[j].doc => i = j
    BY <1>1, <1>2, <1>3, <1>4 DEF OneStory
  <2>2. \A d \in DocId : documents'[d] \in {"processing", "done", "failed"} =>
          \E j \in JobRows' : jobs'[j].doc = d
    BY <1>1, <1>2, <1>3, <1>4, <1>7 DEF OneStory
  <2>3. ASSUME NEW i \in JobRows'
        PROVE  LET status == documents'[jobs'[i].doc] IN
               /\ jobs'[i].state = "done" => status = "done"
               /\ jobs'[i].state = "failed" <=> status = "failed"
               /\ jobs'[i].state = "queued" => jobs'[i].attempts < MaxAttempts
               /\ jobs'[i].state = "running" => status \in {"processing", "done"}
    <3>1. /\ i \in JobRows /\ i \in JobId /\ jobs[i] \in Job
          /\ jobs'[i].doc = jobs[i].doc /\ jobs'[i].attempts = jobs[i].attempts
          /\ jobs'[i].state = RecoveredState(i)
      BY <1>2, <1>3, <1>4, <2>3
    <3>2. CASE ~Stale(i)
      BY <1>1, <1>6, <3>1, <3>2 DEF OneStory, RecoveredState, Stale
    <3>3. CASE Stale(i) /\ Spent(i)
      BY <1>6, <3>1, <3>3 DEF RecoveredState
    <3>4. CASE Stale(i) /\ ~Spent(i)
      <4>1. documents'[jobs[i].doc] = documents[jobs[i].doc] /\ jobs'[i].state = "queued"
        BY <1>6, <3>1, <3>4 DEF RecoveredState
      <4>2. documents[jobs[i].doc] # "failed"
        BY <1>1, <3>1, <3>4 DEF OneStory, Stale
      <4>3. jobs[i].attempts < MaxAttempts
        BY <3>1, <3>4, CountsAssumption DEF Spent, Job
      <4>4. QED
        BY <3>1, <4>1, <4>2, <4>3
    <3>5. QED
      BY <3>2, <3>3, <3>4
  <2>4. QED
    BY <2>1, <2>2, <2>3 DEF OneStory
<1>9. UploadCustody'
  <2>1. \A u \in Uploads : upload[u].pc \in Owning => upload[u].doc \in DocId
    BY <1>1, FrameTypes DEF Owning, Receiving, Undoing
  <2>2. QED
    BY <1>1, <1>2, <1>3, <1>4, <1>7, <2>1 DEF OneHolder, UploadCustody
<1>10. RemovalCustody'
  <2>1. \A r \in Removals : removal[r].pc \in Removing => removal[r].doc \in DocId
    BY <1>1 DEF TypeOK, HandlersOK, RemovalFrame, Removing
  <2>2. QED
    BY <1>1, <1>2, <1>5, <2>1 DEF OneHolder, RemovalCustody
<1>11. WorkerCustody'
  BY <1>2, <1>3 DEF WorkerCustody, RecoveredState, Stale, Processing
<1>12. QED
  BY <1>8, <1>9, <1>10, <1>11 DEF OneHolder

\* The worker keeps everything in its own hands.
LEMMA WorkerKeepsHands ==
    ASSUME Hands, WorkerStep
    PROVE  OneStory' /\ OneHolder'
<1>1. TypeOK /\ References /\ OneStory /\ OneHolder
  BY DEF Hands
<1>2. UNCHANGED <<upload, removal>>
  BY DEF WorkerStep, WorkerRecover, WorkerPoll, WorkerWait, WorkerClear, WorkerClaim,
     WorkerPages, WorkerOcr, WorkerOcrCommit, WorkerExtract, WorkerFile, WorkerFinish,
     WorkerRaise, WorkerFail, WorkerDies
<1>3. worker \in {"claim"} \cup Processing =>
        /\ job.id \in JobRows /\ job.id \in JobId /\ job.doc \in DocId /\ job.attempts \in Nat
        /\ jobs[job.id].doc = job.doc /\ jobs[job.id].state \in {"queued", "running"}
        /\ documents[job.doc] \in {"queued", "processing", "done"}
  BY <1>1, HeldApart, WorkerHolds DEF OneHolder, WorkerCustody
<1>4. CASE WorkerRecover
  BY <1>4, RecoverKeepsHands
<1>5. CASE WorkerPoll
  <2>1. UNCHANGED <<documents, jobs>>
    BY <1>5 DEF WorkerPoll, store
  <2>2. \A j \in JobId : jobs[j].state # "running"
    BY <1>1, <1>5 DEF WorkerPoll, OneHolder, WorkerCustody, Processing
  <2>3. ASSUME worker' = "wait" PROVE WorkerCustody'
    BY <2>1, <2>2, <2>3 DEF WorkerCustody, Processing
  <2>4. ASSUME worker' # "wait" PROVE WorkerCustody'
    <3>1. PICK j \in QueuedJobs :
            job' = [id |-> j, doc |-> jobs[j].doc, attempts |-> jobs[j].attempts]
      BY <1>5, <2>4 DEF WorkerPoll
    <3>2. worker' = "claim" /\ jobs[j].state = "queued"
      BY <1>5, <2>4, <3>1 DEF WorkerPoll, QueuedJobs
    <3>3. QED
      BY <2>1, <2>2, <3>1, <3>2 DEF WorkerCustody, Processing
  <2>5. WorkerCustody'
    BY <2>3, <2>4
  <2>6. QED
    BY <1>2, <2>1, <2>5, IdleKeepsHands
<1>6. CASE WorkerClaim
  <2>1. worker = "claim" /\ worker' = "pages" /\ job' = job
    BY <1>6 DEF WorkerClaim
  <2>2. /\ jobs'[job.id].doc = job.doc /\ jobs'[job.id].state = "running"
        /\ jobs'[job.id].attempts = job.attempts + 1
        /\ \A j \in JobId : j # job.id => jobs'[j] = jobs[j]
    BY <1>1, <1>3, <1>6, <2>1, ClaimedEffect DEF WorkerClaim, OneHolder, WorkerCustody
  <2>3. /\ documents'[job.doc] = "processing"
        /\ \A d \in DocId : d # job.doc => documents'[d] = documents[d]
    BY <1>1, <1>3, <1>6, <2>1, SetStatusEffect DEF WorkerClaim, Status
  <2>4. \A j \in JobId : j # job.id => jobs[j].state # "running"
    BY <1>1, <2>1 DEF OneHolder, WorkerCustody, Processing
  <2>5. WorkerCustody'
    BY <2>1, <2>2, <2>3, <2>4 DEF WorkerCustody, Processing
  <2>6. QED
    BY <1>2, <2>1, <2>2, <2>3, <2>5, WriteKeepsHands
<1>7. CASE WorkerFile
  <2>1. worker = "file_tx" /\ worker' = "finish" /\ job' = job /\ jobs' = jobs
    BY <1>7 DEF WorkerFile
  <2>2. /\ documents'[job.doc] = "done"
        /\ \A d \in DocId : d # job.doc => documents'[d] = documents[d]
    BY <1>1, <1>3, <1>7, <2>1, SetStatusEffect DEF WorkerFile, Status, Processing
  <2>3. worker \in Processing /\ jobs[job.id].state = "running"
    BY <1>1, <2>1 DEF OneHolder, WorkerCustody, Processing
  <2>4. WorkerCustody'
    BY <1>1, <2>1, <2>2, <2>3 DEF OneHolder, WorkerCustody, Processing
  <2>5. QED
    BY <1>2, <1>3, <2>1, <2>2, <2>3, <2>4, WriteKeepsHands
<1>8. CASE WorkerFinish
  <2>1. worker = "finish" /\ worker' = "poll" /\ documents' = documents
    BY <1>8 DEF WorkerFinish
  <2>2. worker \in Processing /\ documents[job.doc] = "done"
    BY <1>1, <2>1 DEF OneHolder, WorkerCustody, Processing
  <2>3. /\ jobs'[job.id].doc = job.doc /\ jobs'[job.id].state = "done"
        /\ \A j \in JobId : j # job.id => jobs'[j] = jobs[j]
    BY <1>1, <1>3, <1>8, <2>2, SetJobEffect DEF WorkerFinish, JobState
  <2>4. WorkerCustody'
    BY <1>1, <2>1, <2>2, <2>3 DEF OneHolder, WorkerCustody, Processing
  <2>5. QED
    BY <1>2, <2>1, <2>2, <2>3, <2>4, WriteKeepsHands
<1>9. CASE WorkerFail
  <2>1. worker = "fail" /\ worker' = "poll" /\ worker \in Processing
    BY <1>9 DEF WorkerFail, Processing
  <2>2. /\ jobs'[job.id].doc = job.doc /\ jobs'[job.id].state = Verdict
        /\ jobs'[job.id].attempts = job.attempts + 1
        /\ \A j \in JobId : j # job.id => jobs'[j] = jobs[j]
    BY <1>1, <1>3, <1>9, <2>1, SetJobEffect
       DEF WorkerFail, Verdict, JobState, OneHolder, WorkerCustody
  <2>3. /\ documents'[job.doc] = Verdict
        /\ \A d \in DocId : d # job.doc => documents'[d] = documents[d]
    BY <1>1, <1>3, <1>9, <2>1, SetStatusEffect DEF WorkerFail, Verdict, Status
  <2>4. /\ Verdict \in {"queued", "failed"}
        /\ Verdict = "queued" => job.attempts + 1 < MaxAttempts
    BY DEF Verdict, Retry
  <2>5. WorkerCustody'
    BY <1>1, <2>1, <2>2, <2>4 DEF OneHolder, WorkerCustody, Processing
  <2>6. QED
    BY <1>2, <2>1, <2>2, <2>3, <2>4, <2>5, WriteKeepsHands
<1>10. CASE \/ WorkerWait \/ WorkerClear \/ WorkerPages \/ WorkerOcr \/ WorkerOcrCommit
            \/ WorkerExtract \/ WorkerRaise \/ WorkerDies
  <2>1. UNCHANGED <<documents, jobs, job>>
    BY <1>10 DEF WorkerWait, WorkerClear, WorkerPages, WorkerOcr, WorkerOcrCommit,
       WorkerExtract, WorkerRaise, WorkerDies, store
  <2>2. \/ worker' \in Processing \ {"finish"} /\ worker \in Processing
        \/ worker' \in {"clear", "poll"} /\ worker \in {"wait", "clear"}
        \/ worker' = "dead"
    BY <1>10 DEF WorkerWait, WorkerClear, WorkerPages, WorkerOcr, WorkerOcrCommit,
       WorkerExtract, WorkerRaise, MayRaise, WorkerDies, Processing
  <2>3. WorkerCustody'
    BY <1>1, <2>1, <2>2 DEF OneHolder, WorkerCustody, Processing
  <2>4. QED
    BY <1>2, <2>1, <2>3, IdleKeepsHands
<1>11. QED
  BY <1>4, <1>5, <1>6, <1>7, <1>8, <1>9, <1>10 DEF WorkerStep

\* A crash empties every hand; the rows stay.
LEMMA CrashKeepsHands ==
    ASSUME Hands, Crash
    PROVE  OneStory' /\ OneHolder'
<1>1. UNCHANGED <<documents, jobs>> /\ worker' = "recover"
  BY DEF Crash, store
<1>2. WorkerCustody'
  BY <1>1 DEF WorkerCustody, Processing
<1>3. \A u \in Uploads : upload'[u].pc \notin Owning
  BY DEF Hands, TypeOK, HandlersOK, UploadFrame, Crash, Lost, Answered, Owning, Receiving, Undoing
<1>4. \A r \in Removals : removal'[r].pc \notin Removing
  BY DEF Hands, TypeOK, HandlersOK, RemovalFrame, Crash, Lost, Removing
<1>5. QED
  BY <1>1, <1>2, <1>3, <1>4, IdleKeepsHands

LEMMA InitHands == Init => Hands
<1> SUFFICES ASSUME Init PROVE Hands
  OBVIOUS
<1>1. OneStory
  BY DEF Init, OneStory, JobRows, NoJob
<1>2. UploadCustody /\ RemovalCustody
  BY DEF Init, UploadCustody, RemovalCustody, IdleUpload, Owning, Receiving, Undoing, Removing
<1>3. WorkerCustody
  BY DEF Init, WorkerCustody, Processing, NoJob
<1>4. QED
  BY <1>1, <1>2, <1>3, InitTypes, InitRefers DEF Hands, OneHolder

\* Once a rowid was given out under a DELETE's hands, it is never forgotten.
LEMMA ReissueStays == [Next]_vars /\ ~reissued' => ~reissued
BY DEF Next, vars, past, UploadCreate, UploadStep, UploadOpen, UploadReceived, UploadRejected,
   UploadConvert, UploadInsert, UploadUnlink, UploadRollback, UploadEnqueue, UploadNudge,
   UploadWriteFails, RemovalCheck, RemovalStep, RemovalUnlink, RemovalDelete,
   RemovalWriteFails, WorkerStep, WorkerRecover, WorkerPoll, WorkerWait, WorkerClear,
   WorkerClaim, WorkerPages, WorkerOcr, WorkerOcrCommit, WorkerExtract, WorkerFile,
   WorkerFinish, WorkerRaise, WorkerFail, WorkerDies, Crash

LEMMA StepHands == Hands /\ ~reissued' /\ [Next]_vars => Hands'
<1> SUFFICES ASSUME Hands, ~reissued', [Next]_vars PROVE Hands'
  OBVIOUS
<1>1. TypeOK' /\ References'
  BY StepTypes, StepRefers DEF Hands
<1>2. CASE UNCHANGED vars
  BY <1>2, SameWorker, IdleKeepsHands, <1>1 DEF vars, Hands
<1>3. CASE Next
  BY <1>1, <1>3, UploadKeepsHands, RemovalKeepsHands, WorkerKeepsHands, CrashKeepsHands
     DEF Next, Hands
<1>4. QED
  BY <1>2, <1>3

-----------------------------------------------------------------------------
(* Theorems for any number of DELETEs, overlapping or not *)

LEMMA HandsHold == Spec => [](~reissued => Hands)
<1>1. (~reissued => Hands) /\ [Next]_vars => (~reissued' => Hands')
  BY StepHands, ReissueStays
<1>2. QED
  BY <1>1, InitHands, PTL DEF Spec

\* jobs and documents tell one story whatever fails and whenever the process
\* dies: each document has one job at most, both settle together, and a job
\* that can still run has attempts left.
THEOREM MirrorHolds == Spec => []Mirror
<1>1. (~reissued => Hands) => Mirror
  BY DEF Hands, Mirror
<1>2. QED
  BY <1>1, HandsHold, PTL

\* Uploads in progress, removals and the worker never share a document that is
\* there; removals may share one with each other, and it has failed or is gone.
THEOREM CustodyHolds == Spec => []Custody
<1>1. (~reissued => Hands) => Custody
  BY DEF Hands, Custody
<1>2. QED
  BY <1>1, HandsHold, PTL

\* The worker never processes a document whose upload is not complete.
THEOREM NeverHalfUploadedHolds == Spec => []NeverHalfUploaded
<1>1. (~reissued => Hands) => NeverHalfUploaded
  BY HeldApart DEF NeverHalfUploaded
<1>2. QED
  BY <1>1, HandsHold, PTL

\* A job marked running is the one in the worker's hands, unless recovery is
\* still to come: without disk faults the worker thread never dies alone.
THEOREM RunningHeld ==
    ASSUME ~DiskFaults PROVE Spec => []RunningIsHeld
<1> DEFINE Alive == worker # "dead"
<1>1. Init => Alive
  BY DEF Init
<1>2. Alive /\ [Next]_vars => Alive'
  <2> SUFFICES ASSUME Alive, [Next]_vars PROVE Alive'
    OBVIOUS
  <2>1. CASE WorkerStep
    BY <2>1 DEF WorkerStep, WorkerRecover, WorkerPoll, WorkerWait, WorkerClear, WorkerClaim,
       WorkerPages, WorkerOcr, WorkerOcrCommit, WorkerExtract, WorkerFile, WorkerFinish,
       WorkerRaise, WorkerFail, WorkerDies
  <2>2. CASE \E u \in Uploads : UploadCreate(u) \/ UploadStep(u)
    BY <2>2 DEF UploadCreate, UploadStep, UploadOpen, UploadReceived, UploadRejected,
       UploadConvert, UploadInsert, UploadUnlink, UploadRollback, UploadEnqueue,
       UploadNudge, UploadWriteFails, workerVars
  <2>3. CASE \E r \in Removals : RemovalCheck(r) \/ RemovalStep(r)
    BY <2>3 DEF RemovalCheck, RemovalStep, RemovalUnlink, RemovalDelete, RemovalWriteFails,
       workerVars
  <2>4. CASE Crash \/ UNCHANGED vars
    BY <2>4 DEF Crash, vars
  <2>5. QED
    BY <2>1, <2>2, <2>3, <2>4 DEF Next
<1>3. (~reissued => Hands) /\ Alive => RunningIsHeld
  BY DEF Hands, OneHolder, WorkerCustody, RunningIsHeld
<1>4. QED
  BY <1>1, <1>2, <1>3, HandsHold, PTL DEF Spec

\* Who makes a document disappear: the only steps that do are the two deletes.
LEMMA VanishesOnlyBy ==
    ASSUME Hands, Next, NEW d \in DocId, Vanishes(d)
    PROVE  \/ \E u \in Uploads : UploadRollback(u) /\ upload[u].doc = d
           \/ \E r \in Removals : RemovalDelete(r) /\ removal[r].doc = d
<1>1. TypeOK /\ documents \in [DocId -> Status \cup {"none"}]
  BY RowTypes DEF Hands
<1>2. worker \in {"claim"} \cup Processing => job.doc \in DocId
  BY <1>1, WorkerHolds
<1>3. ASSUME NEW e \in DocId, DeleteDocument(e)
      PROVE  e = d
  BY <1>1, <1>3 DEF DeleteDocument, Vanishes
<1>4. CASE \E u \in Uploads : UploadCreate(u) \/ UploadStep(u)
  <2>1. PICK u \in Uploads : UploadCreate(u) \/ UploadStep(u)
    BY <1>4
  <2>2. CASE UploadRollback(u)
    <3>1. upload[u].doc \in DocId
      BY <1>1, <2>2, FrameTypes DEF UploadRollback
    <3>2. QED
      BY <1>3, <2>2, <3>1 DEF UploadRollback
  <2>3. CASE UploadCreate(u)
    BY <1>1, <2>3 DEF UploadCreate, Vanishes
  <2>4. CASE ~UploadRollback(u) /\ ~UploadCreate(u)
    <3>1. documents' = documents
      BY <2>1, <2>4 DEF UploadStep, UploadOpen, UploadReceived, UploadRejected,
         UploadConvert, UploadInsert, UploadUnlink, UploadEnqueue, UploadNudge,
         UploadWriteFails, store
    <3>2. QED
      BY <3>1 DEF Vanishes
  <2>5. QED
    BY <2>2, <2>3, <2>4
<1>5. CASE \E r \in Removals : RemovalCheck(r) \/ RemovalStep(r)
  <2>1. PICK r \in Removals : RemovalCheck(r) \/ RemovalStep(r)
    BY <1>5
  <2>2. CASE RemovalDelete(r)
    <3>1. removal[r].doc \in DocId
      BY <1>1, <2>2 DEF RemovalDelete, TypeOK, HandlersOK, RemovalFrame
    <3>2. QED
      BY <1>3, <2>2, <3>1 DEF RemovalDelete
  <2>3. CASE ~RemovalDelete(r)
    BY <2>1, <2>3 DEF RemovalStep, RemovalCheck, RemovalUnlink, RemovalWriteFails, store, Vanishes
  <2>4. QED
    BY <2>2, <2>3
<1>6. CASE WorkerStep
  <2>1. \A s \in Status, e \in DocId : SetStatus(e, s)[d] = "none" <=> documents[d] = "none"
    BY <1>1, SetStatusEffect
  <2>2. CASE WorkerRecover
    BY <2>2 DEF WorkerRecover, Vanishes
  <2>3. CASE WorkerClaim \/ WorkerFile \/ WorkerFail
    BY <1>2, <2>1, <2>3 DEF WorkerClaim, WorkerFile, WorkerFail, Verdict, Status, Processing, Vanishes
  <2>4. CASE ~WorkerRecover /\ ~WorkerClaim /\ ~WorkerFile /\ ~WorkerFail
    BY <1>6, <2>4 DEF WorkerStep, WorkerPoll, WorkerWait, WorkerClear, WorkerPages, WorkerOcr,
       WorkerOcrCommit, WorkerExtract, WorkerFinish, WorkerRaise, WorkerDies, store, Vanishes
  <2>5. QED
    BY <2>2, <2>3, <2>4
<1>7. CASE Crash
  BY <1>7 DEF Crash, store, Vanishes
<1>8. QED
  BY <1>4, <1>5, <1>6, <1>7 DEF Next

\* Only failed documents are deleted, and those their uploads take back, however
\* many DELETEs race for them, until a rowid that one of them holds is given out
\* again (app.py:225-239, RUNBOOK.md:132-133).
THEOREM OnlyFailedDeleted == Spec => DeletesFailedUntilReissue
<1> DEFINE Allowed == ~reissued => \A d \in DocId :
                        Vanishes(d) => documents[d] = "failed" \/ TakenBack(d)
<1>1. (~reissued => Hands) /\ [Next]_vars => [Allowed]_vars
  <2> SUFFICES ASSUME Hands, Next, NEW d \in DocId, Vanishes(d)
               PROVE  documents[d] = "failed" \/ TakenBack(d)
    OBVIOUS
  <2>1. CASE \E u \in Uploads : UploadRollback(u) /\ upload[u].doc = d
    BY <2>1 DEF UploadRollback, TakenBack
  <2>2. CASE \E r \in Removals : RemovalDelete(r) /\ removal[r].doc = d
    BY <2>2 DEF RemovalDelete, Hands, OneHolder, RemovalCustody, Removing, Vanishes
  <2>3. QED
    BY <2>1, <2>2, VanishesOnlyBy
<1>2. Spec => [][Allowed]_vars
  BY <1>1, HandsHold, PTL DEF Spec
<1>3. QED
  BY <1>2 DEF DeletesFailedUntilReissue

\* A document that failed is never processed, requeued or filed again; it is
\* deleted or stays failed.
THEOREM FailedStaysFailed == Spec => FailedIsFinal
<1> DEFINE Final == ~reissued => \A d \in DocId :
                      documents[d] = "failed" => documents'[d] \in {"failed", "none"}
<1>1. (~reissued => Hands) /\ [Next]_vars => [Final]_vars
  <2> SUFFICES ASSUME Hands, Next, NEW d \in DocId, documents[d] = "failed"
               PROVE  documents'[d] \in {"failed", "none"}
    OBVIOUS
  <2>1. TypeOK /\ documents \in [DocId -> Status \cup {"none"}]
    BY RowTypes DEF Hands
  <2>2. CASE \E u \in Uploads : UploadCreate(u) \/ UploadStep(u)
    <3>1. PICK u \in Uploads : UploadCreate(u) \/ UploadStep(u)
      BY <2>2
    <3>2. CASE UploadCreate(u)
      <4>1. PICK e \in DocId : /\ IsNextRowid(e, DocRows)
                               /\ documents' = [documents EXCEPT ![e] = "queued"]
        BY <3>2 DEF UploadCreate
      <4>2. d \in DocRows /\ e # d
        BY <4>1 DEF IsNextRowid, DocRows, DocId
      <4>3. QED
        BY <2>1, <4>1, <4>2
    <3>3. CASE UploadRollback(u)
      BY <2>1, <3>3 DEF UploadRollback, DeleteDocument
    <3>4. CASE ~UploadCreate(u) /\ ~UploadRollback(u)
      BY <3>1, <3>4 DEF UploadStep, UploadOpen, UploadReceived, UploadRejected, UploadConvert,
         UploadInsert, UploadUnlink, UploadEnqueue, UploadNudge, UploadWriteFails, store
    <3>5. QED
      BY <3>2, <3>3, <3>4
  <2>3. CASE \E r \in Removals : RemovalCheck(r) \/ RemovalStep(r)
    BY <2>1, <2>3 DEF RemovalCheck, RemovalStep, RemovalUnlink, RemovalDelete,
       RemovalWriteFails, store, DeleteDocument
  <2>4. CASE WorkerStep
    <3>1. worker \in {"claim"} \cup Processing => job.doc # d /\ job.doc \in DocId
      BY HeldApart
    <3>2. \A s \in Status, e \in DocId : e # d => SetStatus(e, s)[d] = documents[d]
      BY <2>1, SetStatusEffect
    <3>3. CASE WorkerRecover
      BY <3>3 DEF WorkerRecover
    <3>4. CASE WorkerClaim \/ WorkerFile \/ WorkerFail
      BY <3>1, <3>2, <3>4 DEF WorkerClaim, WorkerFile, WorkerFail, Verdict, Status, Processing
    <3>5. CASE ~WorkerRecover /\ ~WorkerClaim /\ ~WorkerFile /\ ~WorkerFail
      BY <2>4, <3>5 DEF WorkerStep, WorkerPoll, WorkerWait, WorkerClear, WorkerPages, WorkerOcr,
         WorkerOcrCommit, WorkerExtract, WorkerFinish, WorkerRaise, WorkerDies, store
    <3>6. QED
      BY <3>3, <3>4, <3>5
  <2>5. CASE Crash
    BY <2>5 DEF Crash, store
  <2>6. QED
    BY <2>2, <2>3, <2>4, <2>5 DEF Next
<1>2. Spec => [][Final]_vars
  BY <1>1, HandsHold, PTL DEF Spec
<1>3. QED
  BY <1>2 DEF FailedIsFinal

-----------------------------------------------------------------------------
(* Filed documents *)

\* Until the first crash, with no fault of the disk, a filed document is done
\* and its job is done or about to be marked so: nothing requeues or fails it.
\* A crash between the two commits leaves the job running: recovery requeues it.
Filed ==
    crashes = 0 =>
        /\ worker = "recover" => \A j \in JobId : jobs[j].state # "running"
        /\ \A d \in doc_fts : documents[d] = "done"
        /\ \A j \in JobRows : jobs[j].doc \in doc_fts =>
            jobs[j].state = "done" \/ (worker = "finish" /\ job.id = j)

\* A step of a handler, before the first crash: documents that are filed, and
\* their jobs, are as they were.
LEMMA HandlerKeepsFiled ==
    ASSUME TypeOK, Filed, crashes = 0, UNCHANGED <<worker, job>>, doc_fts' = doc_fts,
           \A d \in doc_fts : documents'[d] = documents[d],
           \A j \in JobRows' :
               \/ jobs'[j].doc \notin doc_fts /\ jobs'[j].state # "running"
               \/ j \in JobRows /\ jobs'[j] = jobs[j]
    PROVE  Filed'
<1>1. /\ \A j \in JobId : jobs[j].state # "running" \/ j \in JobRows
      /\ \A j \in JobId : jobs'[j].state # "running" \/ j \in JobRows'
  BY DEF JobRows
<1>2. QED
  BY <1>1 DEF Filed

LEMMA StepFiled ==
    ~DiskFaults /\ Hands /\ Filed /\ [Next]_vars =>
        Filed' /\ (crashes = 0 => doc_fts \subseteq doc_fts')
<1> SUFFICES ASSUME ~DiskFaults, Hands, Filed, [Next]_vars
             PROVE  Filed' /\ (crashes = 0 => doc_fts \subseteq doc_fts')
  OBVIOUS
<1>1. TypeOK /\ References /\ OneStory /\ OneHolder
  BY DEF Hands
<1>2. /\ upload \in [Uploads -> UploadFrame]
      /\ documents \in [DocId -> Status \cup {"none"}]
      /\ jobs \in [JobId -> Job \cup {NoJob}]
      /\ doc_fts \subseteq DocId
      /\ \A j \in JobRows : jobs[j].doc \in DocId
      /\ crashes \in Nat
  BY <1>1, RowTypes, CountsAssumption DEF TypeOK, TablesOK, HandlersOK, CountersOK, Job
<1>3. CASE UNCHANGED vars
  BY <1>3 DEF vars, Filed, JobRows
<1>4. CASE Crash
  BY <1>2, <1>4 DEF Crash, Filed, store
<1>5. CASE crashes # 0 /\ ~Crash
  <2>1. crashes' = crashes
    BY <1>5 DEF Next, vars, past, UploadCreate, UploadStep, UploadOpen, UploadReceived, UploadRejected,
       UploadConvert, UploadInsert, UploadUnlink, UploadRollback, UploadEnqueue, UploadNudge,
       UploadWriteFails, RemovalCheck, RemovalStep, RemovalUnlink, RemovalDelete, RemovalWriteFails,
       WorkerStep, WorkerRecover, WorkerPoll, WorkerWait, WorkerClear, WorkerClaim, WorkerPages,
       WorkerOcr, WorkerOcrCommit, WorkerExtract, WorkerFile, WorkerFinish, WorkerRaise,
       WorkerFail, WorkerDies
  <2>2. QED
    BY <1>5, <2>1 DEF Filed
<1>6. ASSUME crashes = 0, NEW u \in Uploads, UploadCreate(u) \/ UploadStep(u)
      PROVE  Filed' /\ doc_fts \subseteq doc_fts'
  <2>1. UNCHANGED <<worker, job>>
    BY <1>1, <1>6, UploadMoves DEF UploadCreate, workerVars
  <2>2. CASE UploadCreate(u)
    <3>1. PICK d \in DocId : /\ IsNextRowid(d, DocRows)
                             /\ documents' = [documents EXCEPT ![d] = "queued"]
      BY <2>2 DEF UploadCreate
    <3>2. documents[d] = "none"
      BY <3>1 DEF IsNextRowid, DocRows, DocId
    <3>3. \A e \in doc_fts : documents'[e] = documents[e]
      BY <1>2, <1>6, <3>1, <3>2 DEF Filed
    <3>4. UNCHANGED <<jobs, doc_fts>>
      BY <2>2 DEF UploadCreate
    <3>5. QED
      BY <1>1, <1>6, <2>1, <3>3, <3>4, HandlerKeepsFiled DEF JobRows
  <2>3. CASE UploadEnqueue(u)
    <3>1. upload[u].pc \in Owning /\ UNCHANGED <<documents, doc_fts>>
      BY <2>3 DEF UploadEnqueue, Owning, Receiving
    <3>2. upload[u].doc \in DocId /\ documents[upload[u].doc] = "queued"
      BY <1>1, <2>3, <3>1, FrameTypes DEF OneHolder, UploadCustody, UploadEnqueue
    <3>3. PICK j \in JobId :
            jobs' = [jobs EXCEPT ![j] = [doc |-> upload[u].doc, state |-> "queued", attempts |-> 0]]
      BY <2>3, <3>2 DEF UploadEnqueue
    <3>4. upload[u].doc \notin doc_fts
      BY <1>6, <3>2 DEF Filed
    <3>5. \A i \in JobRows' : \/ jobs'[i].doc \notin doc_fts /\ jobs'[i].state # "running"
                              \/ i \in JobRows /\ jobs'[i] = jobs[i]
      BY <1>2, <3>3, <3>4 DEF JobRows
    <3>6. QED
      BY <1>1, <1>6, <2>1, <3>1, <3>5, HandlerKeepsFiled
  <2>4. CASE UploadRollback(u)
    <3>1. DeleteDocument(upload[u].doc) /\ upload[u].pc \in Owning
      BY <2>4 DEF UploadRollback, Owning, Undoing
    <3>2. upload[u].doc \notin doc_fts
      BY <1>1, <1>6, <3>1 DEF OneHolder, UploadCustody, Filed
    <3>3. /\ doc_fts' = doc_fts /\ \A e \in doc_fts : documents'[e] = documents[e]
          /\ \A j \in JobRows' : j \in JobRows /\ jobs'[j] = jobs[j]
      BY <1>2, <3>1, <3>2 DEF DeleteDocument, Cascade, JobRows, NoJob
    <3>4. QED
      BY <1>1, <1>6, <2>1, <3>3, HandlerKeepsFiled
  <2>5. CASE ~UploadCreate(u) /\ ~UploadEnqueue(u) /\ ~UploadRollback(u)
    <3>1. UNCHANGED <<documents, jobs, doc_fts>>
      BY <1>6, <2>5 DEF UploadStep, UploadOpen, UploadReceived, UploadRejected, UploadConvert,
         UploadInsert, UploadUnlink, UploadNudge, UploadWriteFails, store
    <3>2. QED
      BY <1>1, <1>6, <2>1, <3>1, HandlerKeepsFiled DEF JobRows
  <2>6. QED
    BY <2>2, <2>3, <2>4, <2>5
<1>7. ASSUME crashes = 0, NEW r \in Removals, RemovalCheck(r) \/ RemovalStep(r)
      PROVE  Filed' /\ doc_fts \subseteq doc_fts'
  <2>1. UNCHANGED <<worker, job>>
    BY <1>7 DEF RemovalCheck, RemovalStep, RemovalUnlink, RemovalDelete, RemovalWriteFails, workerVars
  <2>2. CASE RemovalDelete(r)
    <3>1. DeleteDocument(removal[r].doc) /\ removal[r].pc \in Removing
      BY <2>2 DEF RemovalDelete, Removing
    <3>2. removal[r].doc \notin doc_fts
      BY <1>1, <1>7, <3>1 DEF OneHolder, RemovalCustody, Filed
    <3>3. /\ doc_fts' = doc_fts /\ \A e \in doc_fts : documents'[e] = documents[e]
          /\ \A j \in JobRows' : j \in JobRows /\ jobs'[j] = jobs[j]
      BY <1>2, <3>1, <3>2 DEF DeleteDocument, Cascade, JobRows, NoJob
    <3>4. QED
      BY <1>1, <1>7, <2>1, <3>3, HandlerKeepsFiled
  <2>3. CASE ~RemovalDelete(r)
    <3>1. UNCHANGED <<documents, jobs, doc_fts>>
      BY <1>7, <2>3 DEF RemovalCheck, RemovalStep, RemovalUnlink, RemovalWriteFails, store
    <3>2. QED
      BY <1>1, <1>7, <2>1, <3>1, HandlerKeepsFiled DEF JobRows
  <2>4. QED
    BY <2>2, <2>3
<1>8. ASSUME crashes = 0, WorkerStep
      PROVE  Filed' /\ doc_fts \subseteq doc_fts'
  <2>1. worker \in {"claim"} \cup Processing =>
          /\ job.id \in JobRows /\ job.id \in JobId /\ job.doc \in DocId
          /\ jobs[job.id].doc = job.doc /\ jobs[job.id].state \in {"queued", "running"}
          /\ documents[job.doc] # "none"
          /\ \A j \in JobRows : jobs[j].doc = job.doc => j = job.id
    BY <1>1, HeldApart DEF OneHolder, WorkerCustody
  <2>2. worker \in {"claim"} \cup Processing /\ worker # "finish" => job.doc \notin doc_fts
    BY <1>8, <2>1 DEF Filed
  <2>3. CASE WorkerRecover
    <3>1. \A j \in JobId : ~Stale(j)
      BY <1>8, <2>3 DEF WorkerRecover, Filed, Stale
    <3>2. \A j \in JobId : jobs'[j].doc = jobs[j].doc /\ jobs'[j].state = jobs[j].state
      BY <1>1, <2>3, <3>1, RecoverEffect DEF RecoveredState
    <3>3. \A d \in DocId : documents'[d] = documents[d]
      BY <2>3, <3>1 DEF WorkerRecover
    <3>4. worker = "recover" /\ worker' = "poll" /\ UNCHANGED <<doc_fts, job>>
      BY <2>3 DEF WorkerRecover
    <3>5. QED
      BY <1>2, <1>8, <3>2, <3>3, <3>4 DEF Filed, JobRows
  <2>4. CASE WorkerClaim
    <3>1. worker = "claim" /\ worker' = "pages" /\ UNCHANGED <<doc_fts, job>>
      BY <2>4 DEF WorkerClaim
    <3>2. \A d \in doc_fts : documents'[d] = documents[d]
      BY <1>1, <1>2, <2>1, <2>2, <2>4, <3>1, SetStatusEffect DEF WorkerClaim, Status
    <3>3. \A j \in JobId : /\ jobs'[j].doc = jobs[j].doc /\ (j # job.id => jobs'[j] = jobs[j])
                           /\ (jobs'[j].state = "none" <=> jobs[j].state = "none")
      BY <1>1, <2>1, <2>4, <3>1, ClaimedEffect DEF WorkerClaim
    <3>4. QED
      BY <1>8, <2>1, <2>2, <3>1, <3>2, <3>3 DEF Filed, JobRows
  <2>5. CASE WorkerFile
    <3>1. /\ worker = "file_tx" /\ worker' = "finish" /\ UNCHANGED <<jobs, job>>
          /\ doc_fts' = doc_fts \cup {job.doc}
      BY <2>5 DEF WorkerFile
    <3>2. \A d \in DocId : documents'[d] = IF d = job.doc THEN "done" ELSE documents[d]
      BY <1>1, <2>1, <2>5, <3>1, SetStatusEffect DEF WorkerFile, Status, Processing
    <3>3. QED
      BY <1>2, <1>8, <2>1, <3>1, <3>2 DEF Filed, JobRows, Processing
  <2>6. CASE WorkerFinish
    <3>1. worker = "finish" /\ worker' = "poll" /\ UNCHANGED <<documents, doc_fts>>
      BY <2>6 DEF WorkerFinish
    <3>2. /\ jobs'[job.id].state = "done"
          /\ \A j \in JobId : /\ jobs'[j].doc = jobs[j].doc /\ (j # job.id => jobs'[j] = jobs[j])
                              /\ (jobs'[j].state = "none" <=> jobs[j].state = "none")
      BY <1>1, <2>1, <2>6, <3>1, SetJobEffect DEF WorkerFinish, JobState, Processing
    <3>3. QED
      BY <1>8, <3>1, <3>2 DEF Filed, JobRows
  <2>7. CASE WorkerFail
    <3>1. worker = "fail" /\ worker' = "poll" /\ UNCHANGED doc_fts
      BY <2>7 DEF WorkerFail
    <3>2. \A d \in doc_fts : documents'[d] = documents[d]
      BY <1>1, <1>2, <2>1, <2>2, <2>7, <3>1, SetStatusEffect DEF WorkerFail, Verdict, Status, Processing
    <3>3. \A j \in JobId : /\ jobs'[j].doc = jobs[j].doc /\ (j # job.id => jobs'[j] = jobs[j])
                           /\ (jobs'[j].state = "none" <=> jobs[j].state = "none")
      BY <1>1, <2>1, <2>7, <3>1, SetJobEffect DEF WorkerFail, Verdict, JobState, Processing
    <3>4. jobs[job.id].doc \notin doc_fts
      BY <2>1, <2>2, <3>1 DEF Processing
    <3>5. QED
      BY <1>8, <2>1, <3>1, <3>2, <3>3, <3>4 DEF Filed, JobRows
  <2>8. CASE \/ WorkerPoll \/ WorkerWait \/ WorkerClear \/ WorkerPages \/ WorkerOcr
             \/ WorkerOcrCommit \/ WorkerExtract \/ WorkerRaise
    <3>1. UNCHANGED <<documents, jobs, doc_fts>> /\ worker # "finish" /\ worker' # "recover"
      BY <1>8, <2>8 DEF WorkerPoll, WorkerWait, WorkerClear, WorkerPages, WorkerOcr,
         WorkerOcrCommit, WorkerExtract, WorkerRaise, MayRaise, store
    <3>2. QED
      BY <1>8, <3>1 DEF Filed, JobRows
  <2>9. QED
    BY <1>8, <2>3, <2>4, <2>5, <2>6, <2>7, <2>8 DEF WorkerStep, WorkerDies
<1>9. QED
  BY <1>3, <1>4, <1>5, <1>6, <1>7, <1>8 DEF Next

\* Only a crash makes a filed document deletable: until one happens, no DELETE,
\* rollback or retry takes its index rows away (app.py:225-226, worker.py:81-88).
THEOREM FiledHolds == ASSUME ~DiskFaults PROVE Spec => FiledUntilCrash
<1> DEFINE Stays == crashes = 0 /\ ~reissued => doc_fts \subseteq doc_fts'
           Kept == ~reissued => Filed
<1>1. Init => Kept
  BY DEF Init, Filed, JobRows, NoJob
<1>2. Kept /\ (~reissued => Hands) /\ [Next]_vars => Kept' /\ [Stays]_vars
  BY StepFiled, ReissueStays
<1>3. Spec => [][Stays]_vars
  BY <1>1, <1>2, HandsHold, PTL DEF Spec
<1>4. QED
  BY <1>3 DEF FiledUntilCrash

-----------------------------------------------------------------------------
(* The jobs table is a queue *)

\* Custody counts the attempts of the held job only; a job that was left
\* running is settled or requeued by the recovery, alone and on its own count.
Tried ==
    /\ \A j \in JobId : jobs[j].attempts <= MaxAttempts
    /\ \A i, j \in JobId : jobs[i].state = "running" /\ jobs[j].state = "running" => i = j

\* What the queue sees of one job.
Entries ==
    \A j \in JobId :
        /\ QueueTries[j] = jobs[j].attempts /\ jobs[j].attempts \in Nat
        /\ jobs[j].state = "none" => QueueState[j] = "absent" /\ jobs[j].attempts = 0
        /\ jobs[j].state \in {"queued", "running"} => QueueState[j] = "waiting"
        /\ jobs[j].state \in {"done", "failed"} => QueueState[j] = jobs[j].state
LEMMA QueueEntries == TypeOK => Entries
<1> SUFFICES ASSUME TypeOK, NEW j \in JobId
             PROVE  /\ QueueTries[j] = jobs[j].attempts /\ jobs[j].attempts \in Nat
                    /\ jobs[j].state = "none" => QueueState[j] = "absent" /\ jobs[j].attempts = 0
                    /\ jobs[j].state \in {"queued", "running"} => QueueState[j] = "waiting"
                    /\ jobs[j].state \in {"done", "failed"} => QueueState[j] = jobs[j].state
  BY DEF Entries
<1>1. jobs[j] \in Job \cup {NoJob}
  BY DEF TypeOK, TablesOK
<1>2. jobs[j].state = "none" => jobs[j] = NoJob
  BY <1>1 DEF Job, JobState
<1>3. jobs[j].attempts \in Nat
  BY <1>1 DEF Job, NoJob
<1>4. QED
  BY <1>2, <1>3 DEF QueueTries, QueueState, NoJob

\* A step that changes one job changes one entry of the queue.
LEMMA OneEntry ==
    ASSUME NEW j \in JobId, \A i \in JobId : i # j => jobs'[i] = jobs[i]
    PROVE  /\ QueueState' = [QueueState EXCEPT ![j] = QueueState'[j]]
           /\ QueueTries' = [QueueTries EXCEPT ![j] = QueueTries'[j]]
BY DEF QueueState, QueueTries

\* A step that settles, requeues and adds no job is none of the queue's.
LEMMA NoEntry ==
    ASSUME \A j \in JobId : QueueState'[j] = QueueState[j] /\ QueueTries'[j] = QueueTries[j]
    PROVE  UNCHANGED Queue!queueVars
BY DEF QueueState, QueueTries, Queue!queueVars

\* An entry of jobs that names a document is a row.
LEMMA JobOfDocument ==
    ASSUME TypeOK, NEW j \in JobId, jobs[j].doc \in DocId
    PROVE  j \in JobRows
<1>1. jobs[j] \in Job
  BY DEF TypeOK, TablesOK, NoJob, NoDoc, DocId
<1>2. QED
  BY <1>1 DEF Job, JobState, JobRows

\* Each step of the handlers, the worker or a crash is a step of the queue, or
\* none of its business.
LEMMA StepQueue == Hands /\ Tried /\ [Next]_vars => Tried' /\ [Queue!QueueNext]_(Queue!queueVars)
<1> SUFFICES ASSUME Hands, Tried, [Next]_vars
             PROVE  Tried' /\ [Queue!QueueNext]_(Queue!queueVars)
  OBVIOUS
<1>1. TypeOK /\ References /\ OneStory /\ OneHolder /\ TypeOK'
  BY StepTypes DEF Hands
<1>2. Entries /\ Entries'
  BY <1>1, QueueEntries, PTL
<1>3. /\ jobs \in [JobId -> Job \cup {NoJob}] /\ documents \in [DocId -> Status \cup {"none"}]
      /\ MaxAttempts \in Nat
  BY <1>1, CountsAssumption DEF TypeOK, TablesOK
<1>4. CASE jobs' = jobs
  <2>1. Tried'
    BY <1>4 DEF Tried
  <2>2. UNCHANGED Queue!queueVars
    BY <1>4, NoEntry DEF QueueState, QueueTries
  <2>3. QED
    BY <2>1, <2>2
<1>5. ASSUME NEW u \in Uploads, UploadEnqueue(u), jobs' # jobs
      PROVE  Tried' /\ Queue!QueueNext
  <2>1. PICK j \in JobId :
          /\ IsNextRowid(j, JobRows)
          /\ jobs' = [jobs EXCEPT ![j] =
               [doc |-> upload[u].doc, state |-> "queued", attempts |-> 0]]
    BY <1>5 DEF UploadEnqueue
  <2>2. jobs[j].state = "none"
    BY <2>1 DEF IsNextRowid, JobRows, JobId
  <2>3. /\ \A i \in JobId : i # j => jobs'[i] = jobs[i]
        /\ jobs'[j].state = "queued" /\ jobs'[j].attempts = 0
    BY <1>3, <2>1
  <2>4. /\ QueueState[j] = "absent" /\ QueueState'[j] = "waiting"
        /\ QueueTries'[j] = QueueTries[j]
    BY <1>2, <2>2, <2>3 DEF Entries
  <2>5. QueueTries' = QueueTries
    BY <2>3, <2>4 DEF QueueTries
  <2>6. Queue!Submit(j)
    BY <2>3, <2>4, <2>5, OneEntry DEF Queue!Submit
  <2>7. Tried'
    BY <1>3, <2>3 DEF Tried
  <2>8. QED
    BY <2>6, <2>7 DEF Queue!QueueNext
<1>6. ASSUME NEW u \in Uploads, UploadRollback(u)
      PROVE  jobs' = jobs
  <2>1. upload[u].pc \in Owning /\ jobs' = Cascade(upload[u].doc)
    BY <1>6 DEF UploadRollback, Owning, Undoing, DeleteDocument
  <2>2. upload[u].doc \in DocId /\ \A j \in JobRows : jobs[j].doc # upload[u].doc
    BY <1>1, <1>6, <2>1, FrameTypes DEF OneHolder, UploadCustody, UploadRollback
  <2>3. \A j \in JobId : jobs[j].doc # upload[u].doc
    BY <2>2, JobOfDocument, <1>1
  <2>4. QED
    BY <1>3, <2>1, <2>3 DEF Cascade
<1>7. ASSUME NEW r \in Removals, RemovalDelete(r), jobs' # jobs
      PROVE  Tried' /\ Queue!QueueNext
  <2>1. /\ removal[r].pc \in Removing /\ removal[r].doc \in DocId /\ jobs' = Cascade(removal[r].doc)
    BY <1>1, <1>7 DEF RemovalDelete, Removing, DeleteDocument, TypeOK, HandlersOK, RemovalFrame
  <2>2. documents[removal[r].doc] = "failed"
    <3>1. documents[removal[r].doc] \in {"failed", "none"}
      BY <1>1, <2>1 DEF OneHolder, RemovalCustody
    <3>2. ASSUME documents[removal[r].doc] = "none" PROVE FALSE
      <4>1. \A j \in JobId : jobs[j].doc # removal[r].doc
        BY <1>1, <2>1, <3>2, JobOfDocument DEF References, Referential
      <4>2. QED
        BY <1>3, <1>7, <2>1, <4>1 DEF Cascade
    <3>3. QED
      BY <3>1, <3>2
  <2>3. PICK j \in JobRows : jobs[j].doc = removal[r].doc
    BY <1>1, <2>1, <2>2 DEF OneStory
  <2>4. j \in JobId /\ jobs[j].state = "failed"
    BY <1>1, <2>2, <2>3 DEF OneStory, JobRows
  <2>5. \A i \in JobId : jobs[i].doc = removal[r].doc => i = j
    BY <1>1, <2>1, <2>3, JobOfDocument DEF OneStory
  <2>6. jobs'[j] = NoJob /\ \A i \in JobId : i # j => jobs'[i] = jobs[i]
    BY <2>1, <2>3, <2>4, <2>5 DEF Cascade
  <2>7. QueueState[j] = "failed" /\ QueueState'[j] = "absent" /\ QueueTries'[j] = 0
    BY <1>2, <2>4, <2>6 DEF Entries, NoJob
  <2>8. Queue!Forget(j)
    BY <2>4, <2>6, <2>7, OneEntry DEF Queue!Forget
  <2>9. Tried'
    BY <1>3, <2>4, <2>6 DEF Tried, NoJob
  <2>10. QED
    BY <2>4, <2>8, <2>9 DEF Queue!QueueNext
<1>8. CASE WorkerRecover
  <2>1. \A j \in JobId : /\ jobs'[j].attempts = jobs[j].attempts
                         /\ jobs'[j].state = RecoveredState(j)
    BY <1>1, <1>8, RecoverEffect
  <2>2. Tried'
    BY <2>1 DEF Tried, RecoveredState, Stale
  <2>3. CASE \E j \in JobId : Stale(j) /\ Spent(j)
    <3>1. PICK j \in JobId : Stale(j) /\ Spent(j)
      BY <2>3
    <3>2. jobs[j].state = "running" /\ jobs[j].attempts = MaxAttempts
      BY <1>2, <1>3, <3>1 DEF Stale, Spent, Tried, Entries
    <3>3. \A i \in JobId : i # j => ~Stale(i)
      BY <3>1 DEF Tried, Stale
    <3>4. jobs' = [i \in JobId |-> [jobs[i] EXCEPT !.state = RecoveredState(i)]]
      BY <1>8 DEF WorkerRecover
    <3>5. \A i \in JobId : i # j => jobs'[i] = jobs[i]
      BY <1>3, <3>3, <3>4 DEF RecoveredState, Job, NoJob
    <3>6. jobs'[j].state = "failed" /\ jobs'[j].attempts = MaxAttempts
      BY <2>1, <3>1, <3>2 DEF RecoveredState
    <3>7. /\ QueueState[j] = "waiting" /\ QueueState'[j] = "failed"
          /\ QueueTries[j] = MaxAttempts /\ QueueTries'[j] = MaxAttempts
      BY <1>2, <3>2, <3>6 DEF Entries
    <3>8. QueueTries' = QueueTries
      BY <2>1 DEF QueueTries
    <3>9. Queue!Settle(j)
      BY <3>5, <3>7, <3>8, OneEntry DEF Queue!Settle
    <3>10. QED
      BY <2>2, <3>9 DEF Queue!QueueNext
  <2>4. CASE ~ \E j \in JobId : Stale(j) /\ Spent(j)
    <3>1. \A j \in JobId : jobs'[j].state = jobs[j].state
                           \/ (jobs'[j].state = "queued" /\ jobs[j].state = "running")
      BY <2>1, <2>4 DEF RecoveredState, Stale
    <3>2. UNCHANGED Queue!queueVars
      BY <1>2, <2>1, <3>1, NoEntry DEF QueueState, QueueTries
    <3>3. QED
      BY <2>2, <3>2
  <2>5. QED
    BY <2>3, <2>4
<1>9. CASE WorkerClaim
  <2> DEFINE j == job.id
  <2>1. /\ worker = "claim" /\ jobs' = Claimed(j) /\ j \in JobId
        /\ jobs[j].state = "queued" /\ jobs[j].attempts < MaxAttempts
    BY <1>1, <1>9, HeldApart DEF WorkerClaim, OneHolder, WorkerCustody, OneStory
  <2>2. /\ \A i \in JobId : i # j => jobs'[i] = jobs[i]
        /\ jobs'[j].state = "running" /\ jobs'[j].attempts = jobs[j].attempts + 1
    BY <1>1, <2>1, ClaimedEffect
  <2>3. /\ QueueState[j] = "waiting" /\ QueueState'[j] = "waiting"
        /\ QueueTries[j] < MaxAttempts /\ QueueTries'[j] = QueueTries[j] + 1
    BY <1>2, <2>1, <2>2 DEF Entries
  <2>4. QueueState' = QueueState
    BY <2>1, <2>2, <2>3 DEF QueueState
  <2>5. Queue!Try(j)
    BY <2>1, <2>2, <2>3, <2>4, OneEntry DEF Queue!Try
  <2>6. \A i \in JobId : jobs[i].state # "running"
    BY <1>1, <2>1 DEF OneHolder, WorkerCustody, Processing
  <2>7. Tried'
    BY <1>2, <1>3, <2>1, <2>2, <2>6 DEF Tried, Entries
  <2>8. QED
    BY <2>1, <2>5, <2>7 DEF Queue!QueueNext
<1>10. ASSUME NEW s \in {"done", "queued", "failed"}, worker \in Processing,
              jobs' = SetJob(job.id, s),
              s = "failed" => job.attempts + 1 >= MaxAttempts
       PROVE  Tried' /\ [Queue!QueueNext]_(Queue!queueVars)
  <2> DEFINE j == job.id
  <2>1. /\ j \in JobId /\ jobs[j].state = "running" /\ jobs[j].attempts = job.attempts + 1
        /\ job.attempts \in Nat
    BY <1>1, <1>10, WorkerHolds DEF OneHolder, WorkerCustody
  <2>2. /\ \A i \in JobId : i # j => jobs'[i] = jobs[i]
        /\ jobs'[j].state = s /\ \A i \in JobId : jobs'[i].attempts = jobs[i].attempts
    BY <1>1, <1>10, <2>1, SetJobEffect DEF JobState
  <2>3. Tried'
    BY <1>10, <2>1, <2>2 DEF Tried
  <2>4. QueueTries' = QueueTries /\ QueueTries[j] = job.attempts + 1 /\ QueueState[j] = "waiting"
    BY <1>2, <2>1, <2>2 DEF QueueTries, Entries
  <2>5. CASE s = "queued"
    <3>1. QueueState'[j] = QueueState[j]
      BY <1>2, <2>1, <2>2, <2>4, <2>5 DEF Entries
    <3>2. UNCHANGED Queue!queueVars
      BY <2>2, <2>4, <3>1, NoEntry DEF QueueState
    <3>3. QED
      BY <2>3, <3>2
  <2>6. CASE s # "queued"
    <3>1. QueueState'[j] = s
      BY <1>2, <1>10, <2>1, <2>2, <2>6 DEF Entries
    <3>2. s = "failed" => QueueTries[j] = MaxAttempts
      BY <1>3, <1>10, <2>1, <2>4 DEF Tried
    <3>3. QueueTries[j] > 0
      BY <2>1, <2>4
    <3>4. QueueState' = [QueueState EXCEPT ![j] = s]
      BY <2>1, <2>2, <3>1, OneEntry
    <3>5. Queue!Settle(j)
      BY <1>10, <2>4, <2>6, <3>2, <3>3, <3>4 DEF Queue!Settle
    <3>6. QED
      BY <2>1, <2>3, <3>5 DEF Queue!QueueNext
  <2>7. QED
    BY <2>5, <2>6
<1>11. CASE WorkerFinish
  BY <1>10, <1>11 DEF WorkerFinish, Processing
<1>12. CASE WorkerFail
  <2>1. Verdict \in {"done", "queued", "failed"} /\ worker \in Processing /\ jobs' = SetJob(job.id, Verdict)
    BY <1>12 DEF WorkerFail, Verdict, Processing
  <2>2. Verdict = "failed" => job.attempts + 1 >= MaxAttempts
    BY <1>1, <1>3, <2>1, WorkerHolds DEF Verdict, Retry
  <2>3. QED
    BY <1>10, <2>1, <2>2
<1>13. CASE WorkerStep
  <2>1. jobs' = jobs \/ WorkerRecover \/ WorkerClaim \/ WorkerFinish \/ WorkerFail
    BY <1>13 DEF WorkerStep, WorkerPoll, WorkerWait, WorkerClear, WorkerPages, WorkerOcr,
       WorkerOcrCommit, WorkerExtract, WorkerFile, WorkerRaise, WorkerDies, store
  <2>2. QED
    BY <1>4, <1>8, <1>9, <1>11, <1>12, <2>1
<1>14. ASSUME NEW u \in Uploads, UploadCreate(u) \/ UploadStep(u)
       PROVE  jobs' = jobs \/ UploadEnqueue(u) \/ UploadRollback(u)
  BY <1>14 DEF UploadCreate, UploadStep, UploadOpen, UploadReceived, UploadRejected, UploadConvert,
     UploadInsert, UploadUnlink, UploadNudge, UploadWriteFails, store
<1>15. ASSUME NEW r \in Removals, RemovalCheck(r) \/ RemovalStep(r)
       PROVE  jobs' = jobs \/ RemovalDelete(r)
  BY <1>15 DEF RemovalCheck, RemovalStep, RemovalUnlink, RemovalWriteFails, store
<1>16. CASE Crash \/ UNCHANGED vars
  BY <1>4, <1>16 DEF Crash, store, vars
<1>17. QED
  BY <1>4, <1>5, <1>6, <1>7, <1>13, <1>14, <1>15, <1>16 DEF Next

\* The jobs table implements the abstract queue: a submitted job is tried one
\* attempt at a time and at most MaxAttempts times, done only after a try,
\* failed only after the last, and forgotten only when failed; a requeue, a
\* recovery and a crash change nothing of that (worker.py:31-107).
THEOREM JobsAreAQueue == Spec => QueueSteps
<1> DEFINE Step == ~reissued => [Queue!QueueNext]_(Queue!queueVars)
           Counted == ~reissued => Tried
<1>1. Init => Queue!QueueInit
  BY DEF Init, Queue!QueueInit, QueueState, QueueTries, NoJob
<1>2. Init => Counted
  BY CountsAssumption DEF Init, Tried, NoJob
<1>3. Counted /\ (~reissued => Hands) /\ [Next]_vars => Counted' /\ [Step]_vars
  BY StepQueue, ReissueStays
<1>4. Spec => [][Step]_vars
  BY <1>2, <1>3, HandsHold, PTL DEF Spec
<1>5. QED
  BY <1>1, <1>4, PTL DEF Spec, QueueSteps
=============================================================================

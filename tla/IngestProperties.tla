-------------------------- MODULE IngestProperties --------------------------
(***************************************************************************)
(* What the ingest path promises.  The properties are kept apart from the  *)
(* mechanism; IngestProofs proves some of them for every instance.         *)
(***************************************************************************)
EXTENDS Ingest

\* Before its job is enqueued an upload owns the document it created.
Receiving == {"open", "reading", "convert", "insert", "enqueue"}
Undoing == {"unlink", "delete"}
Owning == Receiving \cup Undoing
\* The worker between its claim and the end of the job.
Processing == {"pages", "ocr", "ocr_tx", "extract", "file_tx", "finish", "fail"}

\* Every variable has the type the schema and the frames give it; a handler
\* past its first step has a document, and a worker with a job has the row.
TablesOK ==
    /\ documents \in [DocId -> Status \cup {"none"}]
    /\ pages \in [DocId -> SUBSET Page]
    /\ jobs \in [JobId -> Job \cup {NoJob}]
    /\ doc_fts \subseteq DocId
    /\ shown \in [DocId -> SUBSET Page]
    /\ letter \in [DocId -> Uploads \cup {NoUpload}]
    /\ originals \in [DocId -> SUBSET File]
    /\ images \in [DocId -> [Page -> Image]]
HandlersOK ==
    /\ upload \in [Uploads -> UploadFrame]
    /\ removal \in [Removals -> RemovalFrame]
    /\ loop \in Uploads \cup {NoUpload}
    /\ \A u \in Uploads : upload[u].pc # "idle" => upload[u].doc # NoDoc
    /\ \A r \in Removals : removal[r].pc # "idle" => removal[r].doc # NoDoc
WorkerOK ==
    /\ worker \in WorkerPc
    /\ job \in HeldJob \cup {NoHeldJob}
    /\ worker \in {"claim"} \cup Processing => job # NoHeldJob
    /\ seen \subseteq Page
CountersOK ==
    /\ wake \in BOOLEAN
    /\ crashes \in 0 .. MaxCrashes
    /\ reissued \in BOOLEAN
    /\ unwritten \subseteq Uploads \cup {NoUpload}
TypeOK == TablesOK /\ HandlersOK /\ WorkerOK /\ CountersOK

\* Rows of pages, jobs and doc_fts never outlive their document, whichever
\* handlers race (foreign keys are on for every connection, the index rows
\* are deleted in the same transaction).
Referential ==
    /\ \A d \in DocId : pages[d] # {} => documents[d] # "none"
    /\ \A j \in JobRows : documents[jobs[j].doc] # "none"
    /\ doc_fts \subseteq DocRows

\* The rest holds while no rowid is given out that a DELETE request still
\* holds after its check (Reissue): what happens then is DeletesOnlyFailed's.

\* A job left running is the one the live worker works on, or the worker has
\* yet to run its recovery: no job dangles as running (worker.py:38-41).
RunningIsHeld ==
    ~reissued => \A j \in JobId : jobs[j].state = "running" =>
        \/ worker = "recover"
        \/ worker \in Processing /\ job.id = j

\* The worker never waits on a cleared event while a job is queued whose
\* uploader has nothing left to signal: wait, clear, SELECT in this order.
NoLostWakeup ==
    worker = "wait" /\ ~wake =>
        \A j \in QueuedJobs : \E u \in Uploads :
            upload[u].pc = "nudge" /\ upload[u].doc = jobs[j].doc

\* A document has at most one job, and the two rows tell the same story: a
\* settled job has a settled document and the reverse; a job that can still
\* run has attempts left and a document that has not failed.
OneStory ==
    /\ \A i, j \in JobRows : jobs[i].doc = jobs[j].doc => i = j
    /\ \A j \in JobRows :
        LET status == documents[jobs[j].doc] IN
        /\ jobs[j].state = "done" => status = "done"
        /\ jobs[j].state = "failed" <=> status = "failed"
        /\ jobs[j].state = "queued" => jobs[j].attempts < MaxAttempts
        /\ jobs[j].state = "running" => status \in {"processing", "done"}
    /\ \A d \in DocId : documents[d] \in {"processing", "done", "failed"} =>
        \E j \in JobRows : jobs[j].doc = d
Mirror == ~reissued => OneStory

\* Each document is in one pair of hands: an upload that has not enqueued yet
\* is the only one of its document, which is queued and has no job; a removal
\* past its check has a document that failed, or that another DELETE has taken;
\* the worker's job is in the table as the worker remembers it, its attempt
\* counted once.
UploadCustody ==
    /\ \A u \in Uploads : upload[u].pc \in Owning =>
        /\ documents[upload[u].doc] = "queued"
        /\ \A j \in JobRows : jobs[j].doc # upload[u].doc
    /\ \A u, v \in Uploads :
        upload[u].pc \in Owning /\ upload[v].pc \in Owning /\ upload[u].doc = upload[v].doc
            => u = v
RemovalCustody ==
    \A r \in Removals :
        removal[r].pc \in Removing => documents[removal[r].doc] \in {"failed", "none"}
WorkerCustody ==
    /\ worker \in {"claim"} \cup Processing => jobs[job.id].doc = job.doc
    /\ worker = "claim" =>
        jobs[job.id].state = "queued" /\ jobs[job.id].attempts = job.attempts
    /\ worker \in Processing =>
        /\ jobs[job.id].state = "running" /\ jobs[job.id].attempts = job.attempts + 1
        /\ documents[job.doc] \in {"processing", "done"}
    /\ worker = "finish" => documents[job.doc] = "done"
    /\ \A j \in JobId : jobs[j].state = "running" =>
        worker \in {"recover", "dead"} \/ (worker \in Processing /\ job.id = j)
OneHolder == UploadCustody /\ RemovalCustody /\ WorkerCustody
Custody == ~reissued => OneHolder

\* The worker never works on a document whose upload is still adding pages to
\* it or taking it back (store.py:34-35).
NeverHalfUploaded ==
    worker \in Processing /\ ~reissued =>
        \A u \in Uploads : upload[u].pc \in Owning => upload[u].doc # job.doc

\* No handler, rollback or crash removes the original of a page whose document
\* is waiting for, in, or through processing.
OriginalsKept ==
    ~reissued => \A j \in JobRows : jobs[j].state # "failed" =>
        \A p \in pages[jobs[j].doc] : <<p, "jpg">> \in originals[jobs[j].doc]

\* The images GET /api/pages serves for a page are made of that page of that
\* document, or cannot be read (a second attempt was cut off while it wrote
\* them): never those a failed document with the same rowid left behind; and a
\* filed document has all of its images.  A lost write of one of its own images
\* is the only exception.
Own(d) == {letter[d], NoUpload}
OwnImages ==
    ~reissued => \A d \in DocRows : letter[d] \notin unwritten =>
        /\ \A p \in shown[d] :
            images[d][p].cleaned \in Own(d) /\ images[d][p].thumb \in Own(d)
        /\ documents[d] = "done" =>
            /\ shown[d] = pages[d]
            /\ \A p \in pages[d] :
                images[d][p] = [cleaned |-> letter[d], thumb |-> letter[d]]

\* The archive keeps the cleaned image of every page it has filed
\* (plan.md:256): without that exception.
CleanedArchived ==
    \A d \in DocRows : documents[d] = "done" =>
        \A p \in pages[d] : images[d][p].cleaned = letter[d]

\* Every original on disk belongs to a document: files are written after the
\* row is committed and unlinked before it is deleted, a crash in between
\* leaves the row.
NoStrayOriginals ==
    ~reissued => \A d \in DocId : originals[d] # {} => documents[d] # "none"

\* An upload that was answered with an error has left no document behind: a
\* row that is there has a job or an upload in progress, unless a crash cut
\* its upload (app.py:78-79).
NoPartialDocument ==
    ~reissued => \A d \in DocRows :
        \/ \E j \in JobRows : jobs[j].doc = d
        \/ \E u \in Uploads : upload[u].doc = d /\ upload[u].pc \in Owning \cup {"lost"}

\* A document row disappears only when its ingest failed, or when the upload
\* that created it takes it back (app.py:225, RUNBOOK.md:132).
Vanishes(d) == documents[d] # "none" /\ documents'[d] = "none"
TakenBack(d) == \E u \in Uploads : upload[u].pc = "delete" /\ upload[u].doc = d
DeletesOnlyFailed ==
    [][\A d \in DocId : Vanishes(d) => documents[d] = "failed" \/ TakenBack(d)]_vars

\* What is left of it: as many DELETEs as there are may race for a failed
\* document, each with the check of its own; only one that still holds a rowid
\* when it is given out again deletes what has not failed.
DeletesFailedUntilReissue ==
    [][~reissued => \A d \in DocId :
        Vanishes(d) => documents[d] = "failed" \/ TakenBack(d)]_vars

\* A failed document changes in one way only: it is deleted.
FailedIsFinal ==
    [][~reissued => \A d \in DocId :
        documents[d] = "failed" => documents'[d] \in {"failed", "none"}]_vars

\* A document that was filed (its metadata and index row are committed) is
\* never deleted: deleting archived documents is not exposed (app.py:225-226).
FiledStays == [][doc_fts \subseteq doc_fts']_vars

\* What is left of it, until a DELETE holds a rowid that is given out again:
\* only a crash, between the commit that files a document and the one that
\* closes its job, makes a filed document deletable.
FiledUntilCrash == [][crashes = 0 /\ ~reissued => doc_fts \subseteq doc_fts']_vars

\* The jobs table with its handlers, worker, crashes and recovery implements
\* the abstract queue: a requeued or recovered job is still waiting, and no
\* job is failed before its last attempt.
QueueState == [j \in JobId |->
    CASE jobs[j].state = "none" -> "absent"
      [] jobs[j].state \in {"queued", "running"} -> "waiting"
      [] OTHER -> jobs[j].state]
QueueTries == [j \in JobId |-> jobs[j].attempts]
Queue == INSTANCE JobQueue WITH
    Task <- JobId,
    MaxTries <- MaxAttempts,
    state <- QueueState,
    tries <- QueueTries
QueueSteps ==
    Queue!QueueInit /\ [][~reissued => [Queue!QueueNext]_(Queue!queueVars)]_vars
ImplementsQueue == Queue!QueueSpec

\* No document stays in processing for ever, whatever crashes (worker.py:39-41).
ProcessingEnds ==
    \A d \in DocId : documents[d] = "processing" ~> documents[d] # "processing"
=============================================================================

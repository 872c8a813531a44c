------------------------------- MODULE Ingest -------------------------------
(***************************************************************************)
(* The ingest path of the archive: upload requests (server/app.py), the    *)
(* SQLite tables and the originals directory they write (server/store.py), *)
(* the background worker thread with its job queue (server/worker.py,      *)
(* server/pipeline_runner.py), DELETE requests, and process crashes.       *)
(*                                                                         *)
(* One action is one transaction, one file-system step or one in-memory    *)
(* step of a thread.  Upload handlers are coroutines of one event loop and *)
(* only interleave with each other where they await; DELETE handlers and   *)
(* the worker are threads and interleave everywhere.                       *)
(***************************************************************************)
EXTENDS Integers, FiniteSets

CONSTANTS
    Uploads,        \* upload requests; each is made at most once
    NoUpload,       \* the event loop is free
    Removals,       \* DELETE requests; each is made at most once
    MaxPages,       \* bound: pages of one upload
    MaxDocs,        \* bound: largest documents rowid
    MaxJobs,        \* bound: largest jobs rowid
    MaxCrashes,     \* bound: process crashes
    MaxAttempts,    \* worker._MAX_ATTEMPTS
    Suffixes,       \* image types uploads may carry: "jpg", "heic"
    PollTimer,      \* TRUE when the worker's wait(2 s) may time out
    BusyTimeout,    \* TRUE when an API write may give up on the write lock
    DiskFaults      \* TRUE when a statement or an image write may fail

ASSUME CountsAssumption ==
    /\ MaxPages \in Nat \ {0}
    /\ MaxDocs \in Nat
    /\ MaxJobs \in Nat
    /\ MaxCrashes \in Nat
    /\ MaxAttempts \in Nat \ {0}

ASSUME NoUploadAssumption == NoUpload \notin Uploads

ASSUME SwitchesAssumption ==
    /\ Suffixes \subseteq {"jpg", "heic"}
    /\ {PollTimer, BusyTimeout, DiskFaults} \subseteq BOOLEAN

VARIABLES
    documents,  \* rowid -> documents.status, "none" when there is no row
    pages,      \* rowid -> page numbers with a row in pages
    jobs,       \* job rowid -> [doc, state, attempts]
    doc_fts,    \* document rowids that have a full-text row
    shown,      \* rowid -> pages whose row names a cleaned image and a thumbnail
    letter,     \* rowid -> the upload it was last given to
    originals,  \* rowid -> files <<page, suffix>> named after it on disk
    images,     \* rowid, page -> the uploads whose page is on the cleaned image
                \* and on the thumbnail of that name
    upload,     \* the frame of each upload handler
    removal,    \* the frame of each DELETE handler
    loop,       \* the upload that holds the event loop, or NoUpload
    worker,     \* program counter of the worker thread
    job,        \* the jobs row the worker read: [id, doc, attempts]
    seen,       \* page numbers process_document read
    wake,       \* the worker's wake event
    crashes,    \* crashes so far
    reissued,   \* history: a rowid was given out that a DELETE still held
    unwritten   \* history: uploads of which an image write was lost

store == <<documents, pages, jobs, doc_fts, shown, letter>>
workerVars == <<worker, job, seen>>
past == <<crashes, reissued, unwritten>>
vars == <<documents, pages, jobs, doc_fts, shown, letter, originals, images, upload,
          removal, loop, worker, job, seen, wake, crashes, reissued, unwritten>>

DocId == 1 .. MaxDocs
JobId == 1 .. MaxJobs
Page == 1 .. MaxPages
NoDoc == 0
File == Page \X {"jpg", "heic"}

Status == {"queued", "processing", "done", "failed"}
JobState == {"queued", "running", "done", "failed"}
Job == [doc : DocId, state : JobState, attempts : Nat]
NoJob == [doc |-> NoDoc, state |-> "none", attempts |-> 0]

\* Where an upload handler is; "accepted", "refused" and "lost" are answers.
UploadPc == {"idle", "open", "reading", "convert", "insert", "enqueue",
             "nudge", "unlink", "delete", "accepted", "refused", "lost"}
Answered == {"accepted", "refused", "lost"}
UploadFrame == [pc : UploadPc, doc : DocId \cup {NoDoc}, page : Page,
                last : Page, suffix : {"jpg", "heic"}, written : SUBSET File]
IdleUpload == [pc |-> "idle", doc |-> NoDoc, page |-> 1, last |-> 1,
               suffix |-> "jpg", written |-> {}]

RemovalPc == {"idle", "unlink", "delete", "answered", "lost"}
Removing == {"unlink", "delete"}
RemovalFrame == [pc : RemovalPc, doc : DocId \cup {NoDoc}]

WorkerPc == {"recover", "poll", "wait", "clear", "claim", "pages", "ocr",
             "ocr_tx", "extract", "file_tx", "finish", "fail", "dead"}
HeldJob == [id : JobId, doc : DocId, attempts : Nat]
NoHeldJob == [id |-> 0, doc |-> NoDoc, attempts |-> 0]

\* The cleaned image and the thumbnail of a page: whose page is on them,
\* NoUpload when there is no file or one that cannot be read.
Image == [cleaned : Uploads \cup {NoUpload}, thumb : Uploads \cup {NoUpload}]
NoImage == [cleaned |-> NoUpload, thumb |-> NoUpload]

-----------------------------------------------------------------------------
(* Tables *)

DocRows == {d \in DocId : documents[d] # "none"}
JobRows == {j \in JobId : jobs[j].state # "none"}
QueuedJobs == {j \in JobId : jobs[j].state = "queued"}

\* SQLite gives an INTEGER PRIMARY KEY the largest rowid plus one, so the id
\* of a deleted last row is handed out again.
IsNextRowid(i, rows) ==
    /\ \A r \in rows : r < i
    /\ i = 1 \/ i - 1 \in rows
Reissue(d) == \E r \in Removals : removal[r].pc \in Removing /\ removal[r].doc = d

\* The worker's connection holds SQLite's only write lock between its first
\* UPDATE and the commit: while later pages are recognised, and while the
\* embedding is computed.
WriteLocked == worker \in {"ocr_tx", "file_tx"}
LockedForLong ==
    \/ worker = "file_tx"
    \/ worker = "ocr_tx" /\ Cardinality(seen) > 1

\* An API write raises: "database is locked" after the 30 s busy timeout, or
\* a fault of the disk.
WriteMayFail == DiskFaults \/ (BusyTimeout /\ LockedForLong)

\* store.delete_document: the row, its index entries, and by ON DELETE CASCADE
\* its pages and jobs.
Cascade(d) == [j \in JobId |-> IF jobs[j].doc = d THEN NoJob ELSE jobs[j]]
DeleteDocument(d) ==
    /\ ~WriteLocked
    /\ documents' = [documents EXCEPT ![d] = "none"]
    /\ pages' = [pages EXCEPT ![d] = {}]
    /\ jobs' = Cascade(d)
    /\ doc_fts' = doc_fts \ {d}
    /\ shown' = [shown EXCEPT ![d] = {}]
    /\ UNCHANGED letter

-----------------------------------------------------------------------------
(* POST /api/documents *)

HasLoop(u) == loop \in {u, NoUpload}

SetFrame(u, frame) == upload' = [upload EXCEPT ![u] = frame]
Goto(u, pc) == SetFrame(u, [upload[u] EXCEPT !.pc = pc])

\* (broken) the job is enqueued when the document is created.
UploadCreateEnqueues(u) ==
    /\ upload[u].pc = "idle"
    /\ loop = NoUpload
    /\ ~WriteLocked
    /\ \E d \in DocId, n \in Page, j \in JobId :
        /\ IsNextRowid(d, DocRows)
        /\ IsNextRowid(j, JobRows)
        /\ documents' = [documents EXCEPT ![d] = "queued"]
        /\ jobs' = [jobs EXCEPT ![j] = [doc |-> d, state |-> "queued", attempts |-> 0]]
        /\ letter' = [letter EXCEPT ![d] = u]
        /\ reissued' = (reissued \/ Reissue(d))
        /\ SetFrame(u, [IdleUpload EXCEPT !.pc = "open", !.doc = d, !.last = n])
    /\ loop' = u
    /\ UNCHANGED <<pages, doc_fts, shown, originals, images, removal, workerVars,
                   wake, crashes, unwritten>>

\* Validation has passed; create_document commits the row as "queued".
UploadCreate(u) ==
    /\ upload[u].pc = "idle"
    /\ loop = NoUpload
    /\ ~WriteLocked
    /\ \E d \in DocId, n \in Page :
        /\ IsNextRowid(d, DocRows)
        /\ documents' = [documents EXCEPT ![d] = "queued"]
        /\ letter' = [letter EXCEPT ![d] = u]
        /\ reissued' = (reissued \/ Reissue(d))
        /\ SetFrame(u, [IdleUpload EXCEPT !.pc = "open", !.doc = d, !.last = n])
    /\ loop' = u
    /\ UNCHANGED <<pages, jobs, doc_fts, shown, originals, images, removal,
                   workerVars, wake, crashes, unwritten>>

\* The page's file is opened for writing; the handler then awaits its bytes.
UploadOpen(u) ==
    /\ upload[u].pc = "open"
    /\ HasLoop(u)
    /\ \E s \in Suffixes :
        LET f == <<upload[u].page, s>> IN
        /\ originals' = [originals EXCEPT ![upload[u].doc] = @ \cup {f}]
        /\ SetFrame(u, [upload[u] EXCEPT !.pc = "reading", !.suffix = s,
                                         !.written = @ \cup {f}])
    /\ loop' = NoUpload
    /\ UNCHANGED <<store, images, removal, workerVars, wake, past>>

\* All bytes of the page are written.
UploadReceived(u) ==
    /\ upload[u].pc = "reading"
    /\ HasLoop(u)
    /\ loop' = u
    /\ Goto(u, IF upload[u].suffix = "heic" THEN "convert" ELSE "insert")
    /\ UNCHANGED <<store, originals, images, removal, workerVars, wake, past>>

\* (broken) the except branch is missing.
UploadRejectedBare(u) ==
    /\ upload[u].pc \in {"reading", "insert"}
    /\ HasLoop(u)
    /\ loop' = NoUpload
    /\ Goto(u, "refused")
    /\ UNCHANGED <<store, originals, images, removal, workerVars, wake, past>>

\* Too large, empty or unreadable: the handler's except branch.
UploadRejected(u) ==
    /\ upload[u].pc \in {"reading", "insert"}
    /\ HasLoop(u)
    /\ loop' = u
    /\ Goto(u, "unlink")
    /\ UNCHANGED <<store, originals, images, removal, workerVars, wake, past>>

\* _convert_heic: the JPEG is saved, then the HEIC file is unlinked.  When it
\* raises, the JPEG may already be there and `written` still names the HEIC.
UploadConvert(u) ==
    LET d == upload[u].doc
        heic == <<upload[u].page, "heic">>
        jpeg == <<upload[u].page, "jpg">>
    IN
    /\ upload[u].pc = "convert"
    /\ \/ /\ originals' = [originals EXCEPT ![d] = (@ \ {heic}) \cup {jpeg}]
          /\ SetFrame(u, [upload[u] EXCEPT !.pc = "insert",
                                           !.written = (@ \ {heic}) \cup {jpeg}])
       \/ /\ \E left \in SUBSET {jpeg} :
                originals' = [originals EXCEPT ![d] = @ \cup left]
          /\ Goto(u, "unlink")
    /\ UNCHANGED <<store, images, removal, loop, workerVars, wake, past>>

\* store.add_page: fails on a missing parent row (foreign key) and on a page
\* number that is already there (UNIQUE).
UploadInsert(u) ==
    LET d == upload[u].doc
        p == upload[u].page
    IN
    /\ upload[u].pc = "insert"
    /\ ~WriteLocked
    /\ \/ /\ documents[d] # "none"
          /\ p \notin pages[d]
          /\ pages' = [pages EXCEPT ![d] = @ \cup {p}]
          /\ IF p < upload[u].last
               THEN SetFrame(u, [upload[u] EXCEPT !.pc = "open", !.page = p + 1])
               ELSE Goto(u, "enqueue")
       \/ /\ documents[d] = "none" \/ p \in pages[d]
          /\ Goto(u, "unlink")
          /\ UNCHANGED pages
    /\ UNCHANGED <<documents, jobs, doc_fts, shown, letter, originals, images,
                   removal, loop, workerVars, wake, past>>

\* The except branch unlinks every file it wrote ...
UploadUnlink(u) ==
    /\ upload[u].pc = "unlink"
    /\ originals' = [originals EXCEPT ![upload[u].doc] = @ \ upload[u].written]
    /\ SetFrame(u, [upload[u] EXCEPT !.pc = "delete", !.written = {}])
    /\ UNCHANGED <<store, images, removal, loop, workerVars, wake, past>>

\* ... and then deletes the document.
UploadRollback(u) ==
    /\ upload[u].pc = "delete"
    /\ DeleteDocument(upload[u].doc)
    /\ Goto(u, "refused")
    /\ loop' = NoUpload
    /\ UNCHANGED <<originals, images, removal, workerVars, wake, past>>

\* store.enqueue, outside the try block: a failed INSERT is not rolled back.
UploadEnqueue(u) ==
    /\ upload[u].pc = "enqueue"
    /\ ~WriteLocked
    /\ \/ /\ documents[upload[u].doc] # "none"
          /\ \E j \in JobId :
               /\ IsNextRowid(j, JobRows)
               /\ jobs' = [jobs EXCEPT ![j] =
                    [doc |-> upload[u].doc, state |-> "queued", attempts |-> 0]]
          /\ Goto(u, "nudge")
          /\ UNCHANGED loop
       \/ /\ documents[upload[u].doc] = "none"
          /\ Goto(u, "refused")
          /\ loop' = NoUpload
          /\ UNCHANGED jobs
    /\ UNCHANGED <<documents, pages, doc_fts, shown, letter, originals, images,
                   removal, workerVars, wake, past>>

\* worker.nudge, then the 202 answer.
UploadNudge(u) ==
    /\ upload[u].pc = "nudge"
    /\ wake' = TRUE
    /\ Goto(u, "accepted")
    /\ loop' = NoUpload
    /\ UNCHANGED <<store, originals, images, removal, workerVars, past>>

\* One of its writes raises: add_page is rolled back, but the rollback's own
\* delete and the enqueue are not.
UploadWriteFails(u) ==
    /\ WriteMayFail
    /\ \/ /\ upload[u].pc = "insert"
          /\ Goto(u, "unlink")
          /\ UNCHANGED loop
       \/ /\ upload[u].pc \in {"delete", "enqueue"}
          /\ Goto(u, "refused")
          /\ loop' = NoUpload
    /\ UNCHANGED <<store, originals, images, removal, workerVars, wake, past>>

\* The steps a handler takes once its request is being served.
UploadStep(u) ==
    \/ UploadOpen(u) \/ UploadReceived(u) \/ UploadRejected(u)
    \/ UploadConvert(u) \/ UploadInsert(u) \/ UploadUnlink(u)
    \/ UploadRollback(u) \/ UploadEnqueue(u) \/ UploadNudge(u) \/ UploadWriteFails(u)

-----------------------------------------------------------------------------
(* Derived images: a cleaned page and its thumbnail, named after rowid and   *)
(* page number, whatever document had that rowid before.                     *)

\* Images `made` of some pages of document d.
WithImages(d, made) ==
    [e \in DocId |-> [p \in Page |->
        IF e = d /\ p \in DOMAIN made THEN made[p] ELSE images[e][p]]]

\* A write replaces the file.  The result of cv2.imwrite is not looked at: one
\* that fails leaves the old file, or an unreadable one.
Replaced(old, new) == IF DiskFaults THEN {new, old, NoUpload} ELSE {new}
\* preprocess writes the cleaned page ...
Cleaned(old, u) == {[old EXCEPT !.cleaned = c] : c \in Replaced(old.cleaned, u)}
\* ... and _thumbnail shrinks the cleaned image that is there, if it can be read.
Thumbed(i) ==
    IF i.cleaned = NoUpload THEN {i}
    ELSE {[i EXCEPT !.thumb = t] : t \in Replaced(i.thumb, i.cleaned)}
Written(old, u) == UNION {Thumbed(i) : i \in Cleaned(old, u)}
\* What is there when the page is cut off: either file may be torn.
CutOff(old, u) ==
    {old, [old EXCEPT !.cleaned = NoUpload]} \cup Cleaned(old, u)
        \cup {[i EXCEPT !.thumb = NoUpload] : i \in Cleaned(old, u)}

\* The pages S are preprocessed and recognised; recognise raises on an image
\* it cannot read, and takes an old one for the page's.
Made(S) ==
    LET u == letter[job.doc] IN
    \E made \in [S -> Image] :
        /\ \A p \in S : made[p] \in Written(images[job.doc][p], u)
                       /\ made[p].cleaned # NoUpload
        /\ images' = WithImages(job.doc, made)
        /\ unwritten' = unwritten \cup
             {v \in {u} : \E p \in S : made[p] # [cleaned |-> v, thumb |-> v]}

FirstPage == {p \in seen : \A q \in seen : p <= q}
\* The pages whose images are written before the worker's next commit.
AtHand ==
    CASE worker = "ocr" -> FirstPage
      [] worker = "ocr_tx" -> seen \ FirstPage
      [] OTHER -> {}
\* Stopped at page p among them, the pages before it have been made.
SomeMade ==
    \E p \in 1 .. MaxPages + 1 : \E made \in [AtHand -> Image] :
        /\ \A q \in AtHand :
            LET old == images[job.doc][q] IN
            made[q] \in IF q < p THEN Written(old, letter[job.doc])
                        ELSE IF q = p THEN CutOff(old, letter[job.doc]) ELSE {old}
        /\ images' = WithImages(job.doc, made)

-----------------------------------------------------------------------------
(* DELETE /api/documents/{id} *)

\* (broken) settled documents may be deleted.
DeletableSettled(status) == status \in {"done", "failed"}

Deletable(status) == status = "failed"

SetRemoval(r, pc, d) == removal' = [removal EXCEPT ![r] = [pc |-> pc, doc |-> d]]

\* The status is read in one statement; nothing is locked until the delete.
RemovalCheck(r) ==
    /\ removal[r].pc = "idle"
    /\ \E d \in DocId :
        SetRemoval(r, IF Deletable(documents[d]) THEN "unlink" ELSE "answered", d)
    /\ UNCHANGED <<store, originals, images, upload, loop, workerVars, wake, past>>

\* (broken) the row is deleted before its files are listed.
RemovalUnlinkNothing(r) ==
    /\ removal[r].pc = "unlink"
    /\ SetRemoval(r, "delete", removal[r].doc)
    /\ UNCHANGED <<store, originals, images, upload, loop, workerVars, wake, past>>

\* The files its page rows name are unlinked; a page row always names the
\* JPEG, WebP or PNG that was stored, never a HEIC, and images once the page
\* texts were committed.
RemovalUnlink(r) ==
    LET d == removal[r].doc IN
    /\ removal[r].pc = "unlink"
    /\ originals' = [originals EXCEPT ![d] = @ \ {<<p, "jpg">> : p \in pages[d]}]
    /\ images' = WithImages(d, [p \in shown[d] |-> NoImage])
    /\ SetRemoval(r, "delete", removal[r].doc)
    /\ UNCHANGED <<store, upload, loop, workerVars, wake, past>>

RemovalDelete(r) ==
    /\ removal[r].pc = "delete"
    /\ DeleteDocument(removal[r].doc)
    /\ SetRemoval(r, "answered", removal[r].doc)
    /\ UNCHANGED <<originals, images, upload, loop, workerVars, wake, past>>

\* The delete raises: the files are gone, the failed row stays.
RemovalWriteFails(r) ==
    /\ WriteMayFail
    /\ removal[r].pc = "delete"
    /\ SetRemoval(r, "answered", removal[r].doc)
    /\ UNCHANGED <<store, originals, images, upload, loop, workerVars, wake, past>>

RemovalStep(r) == RemovalUnlink(r) \/ RemovalDelete(r) \/ RemovalWriteFails(r)

-----------------------------------------------------------------------------
(* The worker thread *)

\* recover_stale_jobs, one transaction at thread start: a job left running is
\* requeued while it has attempts left, and failed with its document otherwise.
Stale(j) == jobs[j].state = "running"
Spent(j) == jobs[j].attempts >= MaxAttempts
\* (broken) jobs with attempts left are forgotten.
RecoveredSpentOnly(j) == IF Stale(j) /\ Spent(j) THEN "failed" ELSE jobs[j].state
RecoveredState(j) ==
    IF ~Stale(j) THEN jobs[j].state ELSE IF Spent(j) THEN "failed" ELSE "queued"
WorkerRecover ==
    /\ worker = "recover"
    /\ documents' = [d \in DocId |->
         IF \E j \in JobId : jobs[j].doc = d /\ Stale(j) /\ Spent(j)
           THEN "failed" ELSE documents[d]]
    /\ jobs' = [j \in JobId |-> [jobs[j] EXCEPT !.state = RecoveredState(j)]]
    /\ worker' = "poll"
    /\ UNCHANGED <<pages, doc_fts, shown, letter, originals, images, upload, removal,
                   loop, job, seen, wake, past>>

\* The SELECT of the lowest queued job.
WorkerPoll ==
    /\ worker = "poll"
    /\ \/ /\ QueuedJobs = {}
          /\ worker' = "wait"
          /\ UNCHANGED job
       \/ \E j \in QueuedJobs :
          /\ \A k \in QueuedJobs : j <= k
          /\ job' = [id |-> j, doc |-> jobs[j].doc, attempts |-> jobs[j].attempts]
          /\ worker' = "claim"
    /\ UNCHANGED <<store, originals, images, upload, removal, loop, seen, wake,
                   past>>

\* wake.wait(poll) returns on a nudge, or when the poll interval is over ...
WorkerWait ==
    /\ worker = "wait"
    /\ wake \/ PollTimer
    /\ worker' = "clear"
    /\ UNCHANGED <<store, originals, images, upload, removal, loop, job, seen, wake,
                   past>>

\* (broken) the queue is not read again after the event is cleared.
WorkerClearWaits ==
    /\ worker = "clear"
    /\ wake' = FALSE
    /\ worker' = "wait"
    /\ UNCHANGED <<store, originals, images, upload, removal, loop, job, seen,
                   past>>

\* ... and the event is cleared before the queue is read again.
WorkerClear ==
    /\ worker = "clear"
    /\ wake' = FALSE
    /\ worker' = "poll"
    /\ UNCHANGED <<store, originals, images, upload, removal, loop, job, seen,
                   past>>

\* An UPDATE of a row that is no longer there changes nothing.
SetJob(j, state) ==
    IF jobs[j].state = "none" THEN jobs ELSE [jobs EXCEPT ![j].state = state]
SetStatus(d, status) ==
    IF documents[d] = "none" THEN documents ELSE [documents EXCEPT ![d] = status]

Claimed(j) ==
    IF jobs[j].state = "none" THEN jobs
    ELSE [jobs EXCEPT ![j].state = "running", ![j].attempts = @ + 1]

\* The claim: both rows are marked and the attempt is counted before any work.
WorkerClaim ==
    /\ worker = "claim"
    /\ jobs' = Claimed(job.id)
    /\ documents' = SetStatus(job.doc, "processing")
    /\ worker' = "pages"
    /\ UNCHANGED <<pages, doc_fts, shown, letter, originals, images, upload, removal,
                   loop, job, seen, wake, past>>

\* process_document reads the page rows; none is an error.
WorkerPages ==
    /\ worker = "pages"
    /\ seen' = pages[job.doc]
    /\ worker' = IF pages[job.doc] = {} THEN "fail" ELSE "ocr"
    /\ UNCHANGED <<store, originals, images, upload, removal, loop, job, wake,
                   past>>

HasOriginal(p) == <<p, "jpg">> \in originals[job.doc]

\* (broken) an image that is already there is not made again.
WorkerOcrIfAbsent ==
    /\ worker = "ocr"
    /\ \A p \in FirstPage : HasOriginal(p)
    /\ Made({p \in FirstPage : images[job.doc][p].cleaned = NoUpload})
    /\ worker' = "ocr_tx"
    /\ UNCHANGED <<store, originals, upload, removal, loop, job, seen, wake, crashes,
                   reissued>>

\* The first page is preprocessed and recognised outside a transaction; its
\* UPDATE opens one that stays open for the pages after it.
WorkerOcr ==
    /\ worker = "ocr"
    /\ \A p \in FirstPage : HasOriginal(p)
    /\ Made(FirstPage)
    /\ worker' = "ocr_tx"
    /\ UNCHANGED <<store, originals, upload, removal, loop, job, seen, wake, crashes,
                   reissued>>

\* The last page is recognised; the texts of the pages and the names of their
\* images are committed.
WorkerOcrCommit ==
    /\ worker = "ocr_tx"
    /\ \A p \in seen : HasOriginal(p)
    /\ Made(seen \ FirstPage)
    /\ shown' = [d \in DocId |->
                    IF d = job.doc THEN shown[d] \cup (seen \cap pages[d]) ELSE shown[d]]
    /\ worker' = "extract"
    /\ UNCHANGED <<documents, pages, jobs, doc_fts, letter, originals, upload,
                   removal, loop, job, seen, wake, crashes, reissued>>

\* The VLM call has answered; the INSERT into extracted_fields opens the
\* filing transaction and fails when the document row is gone.
WorkerExtract ==
    /\ worker = "extract"
    /\ documents[job.doc] # "none"
    /\ worker' = "file_tx"
    /\ UNCHANGED <<store, originals, images, upload, removal, loop, job, seen, wake,
                   past>>

\* Metadata, status "done" and the index rows are committed together.
WorkerFile ==
    /\ worker = "file_tx"
    /\ documents' = SetStatus(job.doc, "done")
    /\ doc_fts' = doc_fts \cup {job.doc}
    /\ worker' = "finish"
    /\ UNCHANGED <<pages, jobs, shown, letter, originals, images, upload, removal,
                   loop, job, seen, wake, past>>

\* The job is marked done by a transaction of its own.
WorkerFinish ==
    /\ worker = "finish"
    /\ jobs' = SetJob(job.id, "done")
    /\ worker' = "poll"
    /\ job' = NoHeldJob
    /\ seen' = {}
    /\ UNCHANGED <<documents, pages, doc_fts, shown, letter, originals, images,
                   upload, removal, loop, wake, past>>

\* (broken) work that can fail follows the filing transaction.
MayRaiseAfterFiling(pc) == pc \in {"ocr", "ocr_tx", "extract", "file_tx", "finish"}
\* Anything the try block calls may raise; the open transaction is rolled
\* back.  Marking the job done only raises on a fault of the disk.
MayRaise(pc) ==
    \/ pc \in {"ocr", "ocr_tx", "extract", "file_tx"}
    \/ pc = "finish" /\ DiskFaults
WorkerRaise ==
    /\ MayRaise(worker)
    /\ SomeMade
    /\ worker' = "fail"
    /\ UNCHANGED <<store, originals, upload, removal, loop, job, seen, wake, past>>

\* (broken) off by one.
RetryOnceMore(attempts) == attempts + 1 <= MaxAttempts

\* The except branch: job and document are requeued together, or failed
\* together, from the attempts the job had when it was read.
Retry(attempts) == attempts + 1 < MaxAttempts
Verdict == IF Retry(job.attempts) THEN "queued" ELSE "failed"
WorkerFail ==
    /\ worker = "fail"
    /\ jobs' = SetJob(job.id, Verdict)
    /\ documents' = SetStatus(job.doc, Verdict)
    /\ worker' = "poll"
    /\ job' = NoHeldJob
    /\ seen' = {}
    /\ UNCHANGED <<pages, doc_fts, shown, letter, originals, images, upload, removal,
                   loop, wake, past>>

\* Recovery, poll, claim and the except branch itself are outside the try
\* block: a statement that fails there ends the thread, and nothing restarts it.
WorkerDies ==
    /\ DiskFaults
    /\ worker \in {"recover", "poll", "claim", "fail"}
    /\ worker' = "dead"
    /\ UNCHANGED <<store, originals, images, upload, removal, loop, job, seen, wake,
                   past>>

WorkerStep ==
    \/ WorkerRecover \/ WorkerPoll \/ WorkerWait \/ WorkerClear \/ WorkerClaim
    \/ WorkerPages \/ WorkerOcr \/ WorkerOcrCommit \/ WorkerExtract
    \/ WorkerFile \/ WorkerFinish \/ WorkerRaise \/ WorkerFail \/ WorkerDies

-----------------------------------------------------------------------------
(* The process dies and is started again.  Open transactions are rolled   *)
(* back by SQLite, frames and the wake event are lost, files and committed *)
(* rows stay.  A stop that outlasts worker.stop's 10 s join ends the same. *)

Lost(frame, kept) == IF frame.pc \in kept THEN frame ELSE [frame EXCEPT !.pc = "lost"]
Crash ==
    /\ crashes < MaxCrashes
    /\ crashes' = crashes + 1
    /\ upload' = [u \in Uploads |-> Lost(upload[u], {"idle"} \cup Answered)]
    /\ removal' = [r \in Removals |-> Lost(removal[r], {"idle", "answered", "lost"})]
    /\ loop' = NoUpload
    /\ wake' = FALSE
    /\ worker' = "recover"
    /\ job' = NoHeldJob
    /\ seen' = {}
    /\ SomeMade
    /\ UNCHANGED <<store, originals, reissued, unwritten>>

-----------------------------------------------------------------------------
Init ==
    /\ documents = [d \in DocId |-> "none"]
    /\ pages = [d \in DocId |-> {}]
    /\ jobs = [j \in JobId |-> NoJob]
    /\ doc_fts = {}
    /\ shown = [d \in DocId |-> {}]
    /\ letter = [d \in DocId |-> NoUpload]
    /\ originals = [d \in DocId |-> {}]
    /\ images = [d \in DocId |-> [p \in Page |-> NoImage]]
    /\ upload = [u \in Uploads |-> IdleUpload]
    /\ removal = [r \in Removals |-> [pc |-> "idle", doc |-> NoDoc]]
    /\ loop = NoUpload
    /\ worker = "recover"
    /\ job = NoHeldJob
    /\ seen = {}
    /\ wake = FALSE
    /\ crashes = 0
    /\ reissued = FALSE
    /\ unwritten = {}

Next ==
    \/ \E u \in Uploads : UploadCreate(u) \/ UploadStep(u)
    \/ \E r \in Removals : RemovalCheck(r) \/ RemovalStep(r)
    \/ WorkerStep
    \/ Crash

\* Threads and the event loop keep running; new requests and crashes need not
\* happen.
Fairness ==
    /\ WF_vars(WorkerStep)
    /\ \A u \in Uploads : WF_vars(UploadStep(u))
    /\ \A r \in Removals : WF_vars(RemovalStep(r))

Spec == Init /\ [][Next]_vars /\ Fairness
=============================================================================

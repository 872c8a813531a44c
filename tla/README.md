# Briefkist in TLA+

Briefkist is a self-hosted archive for paper mail: a phone uploads photos of a
letter, a FastAPI server stores them, one background worker thread reads them
(OCR, a vision model, an embedding model) and files the document in SQLite,
where it can be searched and corrected. This directory models the parts of it
where threads, requests, files, transactions and crashes interact, checks them
with TLC and proves the safety of each with TLAPS. The tools beside the
archive (the synthetic letters, the benchmark and the merge gate) are modelled as
well. Line numbers refer to the repository
(`src/server/app.py:115` is written `app.py:115`).

Run a check with `tlc -config <run>.cfg <module>.tla`, a proof with
`tlapm <module>.tla`. `PROJECT.json` lists every run, every mutant that shows
a property can fail, the source lines behind every definition, the hazards and
the theorems.

## Inventory

| Component | State | Operations | Modelled |
|---|---|---|---|
| Upload handler (`app.py:74-117`) | `documents`, `pages`, files of the originals directory | create the row, stream each page to a file, convert HEIC, insert the page row, roll back, enqueue, nudge | `Ingest` |
| Worker and job queue (`worker.py`, `pipeline_runner.py:47-149`) | `jobs`, the thread's memory of its job, the wake event, cleaned images and thumbnails | recover, poll, wait, clear, claim, process, file, finish, retry or fail | `Ingest`, `JobQueue` |
| Deletion (`app.py:223-240`, `store.py:47-52`) | the tables and files above | check the status, unlink the files, delete the row | `Ingest` |
| Corrections and index (`app.py:167-202`, `store.py:77-192`) | the document row, `corrections`, `extracted_fields.verified`, `doc_fts`, `doc_vec` | read, audit and update each field, re-read, embed, re-index | `Corrections` |
| Device tokens (`auth.py`, `tokens_cli.py`, `app.py:250-285`) | `tokens.json`, its temporary file, a lock | authenticate, pair, revoke | `TokenStore` |
| Schema and migration (`db.py:109-201`) | `user_version`, the schema | connect, create statement by statement, migrate in one transaction | `Migration` |
| Search (`app.py:120-151`, `store.py:223-358`) | none of its own | filter, keyword leg, semantic leg, fusion, cuts, fetch | `Search` |
| Web client, capture tab (`app.js:56-158`) | chosen pages, tracked uploads, polling chains | choose, clear, upload, poll, remove | `WebCapture` |
| Web client, archive tab (`app.js:160-293`) | the list, the dialog, its images and inputs | search, open, close, correct | `WebArchive` |
| Validation (`spike/validate.py`, `pipeline_runner.py:97-135`) | none | normalise dates and places, curate keywords | `Validate` |
| OCR and extraction (`spike/ocr_engines.py`, `extract.py`, `preprocess.py`) | none | image processing and model calls | as steps that succeed or raise |
| Test set generator (`testset/`) | files | draw entities, compose a letter and its truth, render, degrade | `TestSet` (not the images) |
| Benchmark (`spike/benchmark.py`) | results, the monitor's thread and its egress set | read and score each letter, sample, report | `Benchmark` |
| Merge gate (`scripts/merge-when-green.sh`) | none of its own | poll checks, refuse, give up, merge | `MergeGate` |
| Configuration, embeddings client, deployment | none that interacts | start-up checks, one HTTP call | no |

How they interact:

* Upload handlers are coroutines of one event loop: they interleave with each
  other only where they await the bytes of a page, and with everything else
  everywhere. Blocking calls (SQLite, HEIC conversion) hold the loop.
* DELETE, PATCH and device handlers run in a thread pool; the worker is a
  thread of its own. Each request and the worker have their own SQLite
  connection in WAL mode, so they meet in the tables, under one write lock
  that a writer waits at most 30 s for (`db.py:170-173`).
* The worker holds that lock while pages after the first are recognised
  (`pipeline_runner.py:83-88`) and while the embedding is computed (99-149).
* Uploads wake the worker through a `threading.Event` (`worker.py:33-34`).
* A crash (or a stop that outlasts the 10 s join, `worker.py:28-31`) loses
  threads, frames, open transactions and the event; rows and files stay.
  The next start requeues or fails jobs left running (`worker.py:37-58`).
* The worker files what the model answers after `validate.py` has normalised it.
  The benchmark scores the same normalisers against letters of the test set.

What is hard, and what makes each part correct:

* *Ingest.* A document must be processed after its upload is complete, at most
  `_MAX_ATTEMPTS` times, and end done or failed; its files and rows must stay
  until then and go together; job and document rows must agree after any crash;
  only failed documents may be deleted, and no document may be shown with the
  images of another; the worker must not sleep on work.
* *Corrections.* The row, its audit trail and its search entry are written by
  several transactions of several writers and must agree.
* *Tokens.* Threads share a lock and a temporary file, command line processes
  share neither; the file must be whole and acknowledged changes must stand.
* *Migration.* Connections race on `user_version`, any statement may raise and the
  process may die: what is committed must be a whole version, and the documents
  it requeues must be given one job each.
* *Search.* Each statement sees the database of its own moment; thresholds,
  margins, cuts and filters must not lose a better document for a worse one.
* *Web client.* Every handler awaits its requests while the user goes on; each
  answer must land on what it belongs to, and pages must be filed once.
* *Validation.* What a letter prints must be read back as what was meant, in
  three languages and whatever stands around it.
* *Benchmark.* The monitor is a thread that starts, samples and ends beside the
  loop it watches; the report must account for every letter.
* *Merge gate.* Checks register late, end, and are run again between two polls.

## Modules

| Module | What it is |
|---|---|
| `Ingest` | uploads, deletion, worker, crash; one action per transaction, file-system step or in-memory step |
| `IngestProperties` | its properties, and the refinement mapping to `JobQueue` |
| `JobQueue` | what the jobs table promises, without handlers, worker and crashes |
| `MCIngest` | instances of `IngestProperties` |
| `IngestProofs` | type correctness, references and wake-ups; custody of documents and what follows from it, `JobQueue` among it |
| `IngestFilesProofs` | originals and images, from custody |
| `Corrections`, `MCCorrections` | PATCH handlers against the worker's filing, on one document |
| `TokenStore` | pairing and revocation by threads and processes |
| `TokenStoreProofs` | the file is whole, acknowledged changes stand, no device revokes itself |
| `Migration` | `connect()` by racing connections |
| `MigrationProofs` | the safety of `connect()` |
| `MCStores` | an instance in which a behaviour is one of the token store or one of `connect()` |
| `Search`, `MCSearch` | one list request among writers |
| `MCArchive` | an instance in which a behaviour is one of the corrections or one of a search |
| `ArchiveProofs` | the row, its audit trail and its index entry agree; answers of searches pass, keep the top hits and are in order |
| `Orders` | lists as Python and SQL make them: sorted, filtered, cut |
| `OrdersProofs` | what sorting, filtering and cutting return |
| `WebCapture` | the capture tab against an external server |
| `WebArchive` | the archive tab against an external server |
| `MCWeb` | an instance in which a behaviour is one of either tab |
| `WebProofs` | the safety of both tabs |
| `Validate` | the normalisers and what is filed of an answer, as operators |
| `TestSet` | the letters: axes, senders, dates, check digits, page and truth |
| `Benchmark` | the main thread and the monitor, over `TestSet` and `Validate` |
| `MergeGate` | the poll loop against GitHub |
| `ToolsProofs` | what is merged was green; dates, places and scores are read back; curation; the report accounts for letters and connections; check digits, axes |
| `MCTools` | an instance in which a behaviour runs one of the two tools |

### Ingest

`documents`, `pages`, `jobs`, `doc_fts` are the tables: functions from rowid to
the columns the control flow reads (`"none"`, the empty set or `NoJob` where
there is no row). Rowids are SQLite's: the largest plus one, so the id of a
deleted last row is handed out again (`IsNextRowid`; the schema has no
AUTOINCREMENT, `db.py:26`). `originals` holds the files of the originals
directory under the document whose number is in their name, as page and suffix.
`letter` says which upload a rowid was last given to, `shown` which of its pages
name a cleaned image and a thumbnail, and `images` whose page is on the two files
of that name: they are named after rowid and page (`pipeline_runner.py:76-77`), are
written before the page row that names them is committed, and no DELETE finds
those of an attempt that did not get that far. The worker reads the originals of
the row it holds, so that it writes images of the row's own upload, if it writes
them: the results of `cv2.imwrite` are ignored (`preprocess.py:97`,
`pipeline_runner.py:56`) and `_thumbnail` returns silently when it cannot read the
cleaned image (49-50). With disk faults each write may therefore replace the file,
leave what was there, or leave it torn (`Replaced`, `Cleaned`, `Thumbed`), and the
page is filed in each case; `unwritten` is the history of uploads that lost one.
`upload`, `removal`, and `worker`/`job`/`seen` are the frames of the handlers
and of the thread; `loop` says which upload holds the event loop.

* `UploadCreate` is `create_document` after validation; `UploadOpen` opens the
  page's file and gives the loop away (`await file.read`), `UploadReceived`
  gets it back with all bytes written; `UploadRejected` is a page that is too
  large, empty or unreadable; `UploadConvert` is `_convert_heic`, which may
  raise after the JPEG was saved; `UploadInsert` is `add_page` with its foreign
  key and UNIQUE constraints; `UploadUnlink` and `UploadRollback` are the
  except branch, `UploadEnqueue` and `UploadNudge` the lines after it.
* `RemovalCheck`, `RemovalUnlink`, `RemovalDelete` are the three steps of
  `delete_failed_document`; nothing is locked between them.
* `WorkerRecover` to `WorkerDies` are the statements of `Worker._run` and the
  transactions of `process_document`. Reads and model calls between two
  transactions are part of the step that follows them. `WorkerRaise` stands
  for anything in the try block that raises; `WorkerDies` for a statement
  outside it. `WorkerOcr` and `WorkerOcrCommit` also write the images of their
  pages; a step that raises or a crash leaves some of them made and one torn.
* A transaction that waits for the write lock is an action that is not enabled
  while `WriteLocked`; giving up after 30 s is `UploadWriteFails` and
  `RemovalWriteFails`, enabled by `BusyTimeout` only where the code can hold
  the lock that long.
* `Crash` is the end of the process and its restart.

Three switches choose the environment: `PollTimer` (the 2 s poll), `BusyTimeout`,
and `DiskFaults` (any statement may raise, any image write may be lost). DELETEs
may always overlap. `reissued` is a history variable: a rowid was given out that a
DELETE still held after its check. From then on that DELETE may take away whatever
has the rowid, which is the disagreement `removals_race`; most properties speak of
the time before.

### Corrections

One document; every statement is keyed by its id. A stored value is represented
by who wrote it (a PATCH, the model, nobody), which is all the properties tell
apart. `PatchRead`/`PatchWrite` are one round of `apply_correction`: the old
value is read before the transaction that audits it. `PatchReread`,
`PatchEmbed`, `PatchSelect`, `PatchIndex` are the rest of `correct_document`;
`index_document` reads the row before its first write takes the lock.
`overlapped` is a history variable: some PATCH started before the worker or
another PATCH was through.

### TokenStore

`file` is `tokens.json`; `tmp` the temporary file of each process, shared by the
API's threads. A request authenticates without the lock, takes it, loads,
opens, writes, renames. `mixed` is a history variable: two *processes* were
inside read-modify-write at once, which the code accepts as last-writer-wins
(`auth.py:23-25`).

### Migration

`db` is the committed database, `draft` what the connection that holds the write
lock sees. A table is represented by its shape: not there, as in version 1,
without the dropped columns, as in version 2. `Connect` reads `user_version`
outside any transaction (`db.py:183`); `Create` is one statement of the
creation, each committed by itself; `Migrate` one statement of the script, under
the lock from its first write; `TooLate` is DROP COLUMN on a table that another
connection has migrated; `Fail` any statement that raises, the 30 s wait for the
lock included; `Commit`, `Crash`, and `File` for the worker that processes a
requeued document. `writer` is the lock (`Unlocked` when nobody has it), `wasDone` a
history variable.

### Search

One request (`SearchSpec`). `Filter`, `Keyword`, `Vector`, `Newest` and one `Fetch` per row are the
statements of `list_documents`; the writers between them are `Correct` (the row
changes, and with it what the filters say of it), `Rebuild` (`index_document`: the
document may gain, lose or move its place in the keyword order and its distance) and
`Delete`. BM25 order and distances are arbitrary inputs around the thresholds; the
scores of the fusion are exact fractions. `written` is a history variable: documents
about which the properties then promise less. A document that passes the filters
and has the query's words may be left out although the answer is not full: the legs
are cut at 100 before the filters are applied (`NothingLost`, violated in
`filter_cut`). `TopHitsKept` is what holds: it speaks of the documents within the
keyword leg's cut, and of all when there is no query. What Python sorts (`InOrder`),
filters (`Sift`) and slices (`Cut`) is defined in `Orders` without recursion: the
k-th of a sorted set is the element that k - 1 others precede.

### WebCapture and WebArchive

The server is external to both. In `WebCapture` it keeps the status of each
document, as `Ingest` says it moves, and hands out rowids again; in `WebArchive`
it keeps one corrected field. An action is a handler up to its next `await`, an
answer, or a step of the server; every request may fail with or without having
been served. The user is taken to send one DELETE per id at a time. Where the
client makes no promise the properties say so by history variables: pages chosen
while an upload is awaited (`late`: `app.js:89` drops them), searches that cross
(`crossed`), a document opened while a correction is awaited (`reopened`), an
input changed twice before the first answer (`overtyped`), and by `OwnsId` two
uploads of one page under one rowid.

### Validate, TestSet and Benchmark

A printed text is a sequence of pieces told apart by the pattern of `validate.py`
that finds them: a numeric date, a written one, an ISO date, a word with digits,
a short word in capitals, any other. A keyword is its spelling and its characters,
as runs of one kind (letters, capitals, digits, white space, punctuation that a date
may have, a currency sign, any other); a run of digits says how many years its
words are. The filters are computed from the runs: the length, the years that are
cut out before the share of digits is taken (`InYears`, `BaseOf`, `DigitsOf`), and
the patterns of IBANs, dates and postcodes, which see the years (`Ibanish`,
`Dateish`, `Postcodeish`), translated from `validate.py:35-39`. `CurateKeywords` takes the positions of
keywords that pass and are not seen yet, in order, and cuts. `TestSet` prints letters from the same
pieces, so that `Benchmark` can ask whether what is printed is read back. The page prints
street and city as lines of their own (`templates.py:222-223`); an answer that has
both joins them with a comma, which is what `normalize_place` splits at, and answers
that join them otherwise are left out.

`bench` is the main thread of `run_benchmark`, `monitor` the thread of
`ResourceMonitor`. `BenchStart` makes the engines and only then starts the
monitor; `BenchOcr`, `BenchExtract` and `BenchScore` are the stages of a letter,
each of which may raise; `BenchLeave` and `BenchJoin` are the end of the `with`
block, whose join gives up after 5 s. An answer of the model is either blank or
copied from the page, in any case, with or without its surroundings.
`Connect` and `Disconnect` are connections of the pipeline's processes; `lasting`
and `joined` are history variables.

### MergeGate

`checks` is the bucket of each check of the pull request's head. `GateAsk` counts
them, or nothing when `gh` fails; `GateRefuse`, `GateGreen`, `GateGiveUp` and
`GateSleep` are the branches of the loop in their order. A push empties `checks`.

## Runs

| Run | Question | Bounds |
|---|---|---|
| `ingest_safety` | Are uploads in progress left alone, is no original left without a row, is no wake-up lost, and does nothing reach a filed document before the first crash, with lock timeouts, overlapping DELETEs and a crash at any point? | 2 uploads of 2 pages, 2 DELETEs, 2 attempts, 1 crash |
| `ingest_faults` | When statements raise and image writes are lost: do job and document rows agree, do originals survive HEIC conversion and rollback, is a document that lost no image of its own never shown with another's, and until a DELETE's rowid is reissued, do only failed documents go? | 2 uploads of one HEIC page, 2 DELETEs, 2 attempts, 1 crash |
| `ingest_live` | Without failing writes and without the poll timer: does the whole implement `JobQueue` with its progress, does processing end, does a refused upload leave nothing? | 2 uploads of one page, 1 DELETE, 2 attempts, 1 crash |
| `archive` | Is every column explained by the audit trail under every interleaving; without overlap, does the index follow the row and do audit entries chain? Do filters, cuts, fusion and admission rules lose or misplace a document of the first cut, with a write between two statements? | 2 PATCHes of 1-2 fields, 2 attempts, 1 crash; 3 documents, every keyword order, distances of 50, 55, 59 and beyond the cap; cuts of 2 and 3 for 100 and 200; 1 write |
| `stores` | Is `tokens.json` always whole, do acknowledged changes stand, is every request answered? Is the database always a whole version, are documents requeued once, does every `connect()` end? | 2 API requests, 1 CLI process, 2 names, 1 kill; 3 connections, 2 documents, 1 failing statement, 1 crash, from each version |
| `web` | Are pages filed once and kept until they are; does what is shown end right? Does each answer of the archive tab land on what it belongs to? | 2 pages, 2 uploads, 1 miss, 1 retry; 2 documents of 2 pages, 2 searches, 2 openings, 2 corrections |
| `tools` | Is what letters print read back and filed as meant, is curation stable, do years cost no term its place, does the report account for every letter and for lasting connections; does the gate merge only what was green, and end? | a letter of each language and type over the tiers, and a run of 2 letters; 3 dates, 2 keyword lists, 1 connection, 2 engines; 2 checks, 2 reruns or pushes |

Components that share no state are checked in one run (`archive`, `stores`, `web`,
`tools`): a behaviour is one of the one or of the other, while the rest stays in an
initial state. With two workers `ingest_safety` has 5.1 million states (100 s),
`ingest_faults` 4.6 million (90 s), `ingest_live` 0.26 million (40 s), `archive` 6.0
million (150 s), `stores` 0.23 million (45 s), `web` 1.7 million (130 s) and `tools`
1.1 million (160 s).

Each property of these runs fails under a mutant of a mapped definition (the
operators marked *(broken)* in the modules).

The bounds contain the interesting cases: two documents let a rowid be reused
while another handler still names it, two DELETEs let one take what the other has
checked, two pages let a rollback, a partial receipt and the lock held between
pages happen (with failing statements and image writes two pages are out of TLC's
reach: what `ingest_faults` checks of originals and images rests on `OriginalsStay`
and `OwnImagesHold` there), two attempts give a retry and a final failure, one crash (with recovery at the start as well) reaches every
step of every handler. A second crash or a third upload meets the same handlers
again; for the theorems below no bound is needed. Three documents are what a
margin needs (the best candidate, one within it and one beyond), three
connections let one migrate, one come too late and one begin after both, and two
of everything on a page lets two answers cross. The letters of `tools` meet every
sender, every month table and every printed form; the two dates in range are the
first one and one of a month of 31 days, whose German name has an umlaut. The
answers have two keyword lists: one has nine that pass, a repetition in another case,
and terms with figures at the edges of the filters; the other has one of each kind
that the filters drop, with two that pass. A connection and a letter more repeat the
same steps.

`CHECK_DEADLOCK FALSE` is set where the system really stops: without the poll
timer an idle worker waits for ever, with disk faults it may be dead (and the
uploads, DELETEs and rowids of an instance are used up), and PATCH, pairing, search
and browser requests are finite.

### Runs that disagree with the code's own words

| Run | Words | What happens |
|---|---|---|
| `filed_removed` | deleting archived documents is "deliberately not exposed" (`app.py:225-226`) | the document is committed as done before its job is; a crash between the two makes recovery run or fail the job again, the filed document becomes failed, and DELETE removes it with its images |
| `patch_race` | "corrected metadata must be findable" (`app.py:180`) | `index_document` overwrites the entry of a newer row with an older one |
| `removals_race` | "Cleanup for failed ingests only" (`app.py:225`), "only failed documents can be deleted" (`RUNBOOK.md:132-133`) | the status is checked at `app.py:227-231` and the row deleted by rowid at 239: of two overlapping DELETEs of a failed document the slower one deletes the upload that has been given the rowid since |
| `image_lost` | "Archive storage with original image, cleaned image, OCR text, and metadata" (`plan.md:256`) | a cleaned image that cannot be written is not noticed (`preprocess.py:97`): where a failed document with the same rowid left its own, the page is recognised from that one and filed with it |
| `filter_cut` | "Pre-filter by structured criteria" (`store.py:231`) | the filter is applied after the keyword leg was cut at 100 (`store.py:300`, 341-342): a hit that passes but ranks past the cut is left out of an answer that is not full |

`FiledUntilCrash`, `FindableAlone`, `DeletesFailedUntilReissue`, `OwnImages` and
`TopHitsKept` say what is left of these claims.

Some limits were met while modelling and shape the properties. The rollback of
an upload is a write too, and may fail for the same reason as the write it
undoes (`app.py:112`): `NoPartialDocument` is checked without busy timeouts. The claim
of a job and the except branch are not inside the worker's try block (`worker.py:72-80, 92-99`), so a
failing statement there ends the thread: `ProcessingEnds` is checked without
disk faults. A job that runs again after a correction overwrites the value but
not `verified` (`pipeline_runner.py:118`): `RowIsExplained` asks of that flag only
that some correction set it. A second attempt that is cut off while it rewrites an
image leaves a torn one in view: `OwnImages` allows it, as long as it is not
another letter's. A year stands for itself in the share of digits but not in the
patterns, so that "2024 EK voetbal" reads as a Dutch postcode and is dropped:
`YearsDoNotCount` speaks of terms in which no pattern is found. A truth file may hold
"any subset of the truth fields", "absent fields are simply skipped in scoring"
(`testset/README.md:33-34`), but an absent one is a `KeyError` (`benchmark.py:117-126`,
174) that ends the run without a report: `BenchOcr` and `BenchScore` have that step,
and `ReportAccounts` speaks of reports that are made. British Gas is an energy
supplier, whose truth says telecom
(`entities.py:176`, `benchmark.py:109`) where the prompt says utility
(`extract.py:60`): `ReadBack` leaves its category out. The egress monitor ends
without a word when `ps` or `lsof` is missing, is not waited for longer than 5 s,
and does not see what the engines do when they are made (`benchmark.py:57, 76,
149`): `EgressSeen` speaks of connections that last from its start on, and of
monitors that ended by themselves. The merge gate asks `gh` to merge the pull
request, not the commit it looked at (`merge-when-green.sh:77`): a push after the
last poll is merged unseen, and `MergesOnlyGreen` speaks of the last answer.

## Fairness

`Ingest!Fairness` is weak fairness of the worker's steps together, of each
started upload and of each started removal: threads are scheduled, the event
loop serves its tasks, the bytes of an upload arrive or the connection fails
(`UploadRejected`). New requests, crashes and the poll timer are not forced. A
step that waits for the write lock is enabled again when the worker commits,
and the worker does not wait for the same lock for ever because API
transactions are single steps. The model call is assumed to answer or to raise;
the code gives it a timeout. In `TokenStore` each request past its
authentication has weak fairness: a lock of CPython is not fair, but only
finitely many requests compete. In `Migration` each connection that has begun
goes on, and whoever holds the lock ends its transaction. In `WebCapture` the
timers fire, each poll is answered or fails, and the worker goes on, which is
what `ProcessingEnds` says of the server; nothing makes the user act.
In `MergeGate` the script runs and its deadline passes; no check need ever end.
`Corrections`, `Search`, `WebArchive` and `Benchmark` have only safety properties.

## Proofs

The theorems hold for all values of the constants that satisfy the named
assumption of their module.

*Ingest*: any sets of uploads and removals, and any numbers of pages, rowids,
crashes and attempts (counts are naturals, at least one page and one attempt,
`NoUpload` is no upload, suffixes are `jpg` and `heic`).

* `TypeCorrect`: `Spec => []TypeOK`. One lemma per actor; frames are updated
  through `SetFrame` and `Goto`, and each has a lemma of its own.
* `ReferencesHold`: `Spec => []Referential`. Inductive with `FilingHolds`: while
  the worker is in its filing transaction the row is there, since nobody else
  gets the write lock. It needs no assumption on DELETEs.
* `WakeupsHold`: `Spec => []NoLostWakeup`, which is inductive by itself.
* The inductive invariant `Hands`: types and references, and `~reissued` implies
  `Mirror` and `Custody`. `Mirror` (job and document rows agree) is not inductive
  alone: a rollback, a removal or the worker only keeps it if the row it writes is in
  nobody else's hands, and that is `Custody`. DELETEs may overlap: past its check a
  removal holds a rowid whose document has failed or is gone, so that a second DELETE
  takes a failed document or nothing, as long as the rowid is not given out again; and
  the step that gives it out sets `reissued`. The lemmas follow the effects of steps:
  steps that write neither table (`IdleKeepsHands`), deletes (`DeleteKeepsHands`),
  writes of the held job (`WriteKeepsHands`), and then one case per action. From
  `Hands`: `MirrorHolds`, `CustodyHolds`, `NeverHalfUploadedHolds`, `OnlyFailedDeleted`
  (`DeletesFailedUntilReissue`), `FailedStaysFailed` (`FailedIsFinal`), and with
  `~DiskFaults` `RunningHeld` (`RunningIsHeld`). `DeletesOnlyFailed` itself is false
  (`removals_race`).
* `FiledHolds` (`FiledUntilCrash`), with `~DiskFaults`: until a crash, recovery
  finds no job running and a filed document has a job that is done or held by
  the worker's last commit (`Filed`), so that no retry and no DELETE reaches it.
* `JobsAreAQueue`: `Spec => QueueSteps`, the safety part of `ImplementsQueue`.
  Initial states map to initial states and every step to a step of `JobQueue` or
  a stutter. `Tried` is what `Hands` lacks for it: attempts of every job are
  bounded, and two jobs are never running, since recovery settles them all in one
  transaction and the queue takes one step at a time.
* `OwnImagesHold` (`OwnImages`): an invariant of what the worker has made so far
  (`Progress`) at each place of its run, since filing is only right when every
  image of the document is there and of this upload. A write that is lost puts the
  upload among `unwritten`, and the invariant speaks of the others; `image_lost` shows
  that the exception is needed.
* `OriginalsStay` (`OriginalsKept`): `Received` says that an upload in progress has
  the JPEG of every row it made, and of the one it is about to make.
* `NoStrays` (`NoStrayOriginals`), without HEIC pages: `Tidy` says that everyone
  who is about to delete a row knew of every file of it. With HEIC it is false:
  a conversion that raises after the JPEG was saved leaves a file that the
  rollback does not know of (`app.py:106`).
* `NoPartials` (`NoPartialDocument`), with `~DiskFaults` and `~BusyTimeout`: it is
  inductive beside `Hands`. A rollback whose own DELETE raises leaves the row.

*Corrections*: any PATCH requests with any non-empty bodies over any fields, any
numbers of attempts and crashes, and with the busy timeout.

* `RowHolds` (`RowIsExplained`) is inductive with the types, whatever overlaps: audit
  entry and column are written in one transaction.
* `FindableHolds` (`FindableAlone`) and `AuditHolds` (`AuditChain`) rest on `Alone`:
  until two writers overlap, what the one PATCH has read, as old value or to index
  it, is still in the row.

*Search*: any finite set of documents, any distances, thresholds and limits (`Far` is
beyond the cap), any number of writes.

* `AnswersPassHolds`, `TopHitsHold` and `BetterFirstHolds`, from one invariant,
  `SearchInv`. The properties speak of the answer at the end; the invariant says the
  same of `Listed`, what is answered and what is still to be fetched, from the
  statement that ranks on (`AllAreAllowed`, `NoneIsMissing`, `CloserAhead`). Before that it
  says that the filter was right about every document that was not written since
  (`Untouched`). A fetch that finds no row shortens the list by a document that was
  written, which `NoneIsMissing` counts against the limit.
* The ranking itself is `FusedIsBetter`: each leg, cut and admitted by whichever rule,
  has with a document every closer one that is not behind in the keyword leg
  (`CandidatesAreClosest`, `AdmittedIsLeg`); reciprocal ranks fall and sums of fractions
  grow (`CloserScoresBetter`); so the fused list keeps that order, and filter and cut
  do (`FilteredThenCut`).

*TokenStore*: any names, API and command line requests, kills and disk faults.

* `TokenTypes` and `WholeHolds` (`NeverHalfWritten`): the temporary file of the API
  is shared, so that what is renamed is whole depends on `Locking` (only the
  holder of the lock is inside read-modify-write) and `Written` (what is about to
  be renamed is what its request wrote).
* `PairingHolds` (`PairingStands`) and `RevokedHolds` (`RevokedStays`): neither is
  inductive. `OneSaves` says that, short of processes that mix, one request
  saves at a time and what it loaded is still what the file holds; `Placed` that a
  token stands only at the name it was minted for, so that removing one entry
  removes the token; `Spent` that revoked tokens are old, so that a minted one is
  not among them.
* `NotItselfHolds` (`NotItself`): the check that a request does not revoke its own
  token is made on another read of the file than the one it saves. `Selfless`
  carries it over: the token stood at another name then, and tokens do not move.

*Migration*: any numbers of connections, documents, faults and crashes.

* `NeverBrickedHolds`, `RequeuedOnceHolds`: the invariant `VersionInv` says exactly
  what the draft of the lock's holder looks like after each statement
  (`Drafted(n)`), that the lock is held from the first write on, and that
  creation and migration never run beside each other.
* `FailureMeansDoneHolds`, from `VersionInv` and from versions only growing.

*WebCapture*: any numbers of pages, uploads, misses and retries.

* `FiledOnceHolds` and `PagesKeptHolds`: one upload is under way at a time, it has
  every page that is pending and not late, and acknowledged pages are neither
  pending nor under way (`Pages`).
* `ShownHolds` (`ShownIsFinal`) and `RemovedHolds` (`RemovedIsGone`): rowids are
  reused, so that `Tracking` follows whose document a row is (`Belonging`). An upload
  that has its id to itself is shown as failed, or being removed, only when its
  polling is over (`FailedIsOver`), and an answer that ends the polling is still
  true when it arrives (`AnswersStand`), since nothing leaves done or failed.

*WebArchive*: any documents, pages, searches, openings and corrections.

* `ListHolds` (`ListIsLatest`): short of crossing searches the awaited one is the last.
* `DialogHolds` (`DialogIsOfTitle`): an opening that is awaited is not the one of the
  dialog, of an image or of a correction (`OpeningsDiffer`), so that an answer that
  names the dialog's opening is about its document (`DialogIsOne`).
* `CleanHolds` (`CleanIsStored`): what the client was told is stored was accepted by the
  server, and a correction that is awaited for the dialog is the text of its input
  (`StoredIsAccepted`).

*MergeGate*: any finite set of checks, any numbers of reruns and pushes.

* `MergesGreen` (`MergesOnlyGreen`): the counts are those of the last answer, and
  counts of zero are empty sets (`Cardinality` of finite sets).

*Benchmark*: any letters, engines and connections that its assumption allows.

* `EgressHolds` (`EgressSeen`): once the monitor waits it has seen what lasts, and it
  ends by itself only from there (`Seen`).
* `AccountsHold` (`ReportAccounts`): the rows are those of the letters read so far, one
  each and in their order (`Rows`), and only a letter that all engines read is scored.

* `ReadBackHolds` (`ReadBack`) and `CuratedHolds` (`Curated`): `Copied` says that the
  letter in hand is one the generator composes, that what was answered was copied
  from it or is blank, and that the scores are those of that answer. The rest is
  about the operators. Dates: `DateReadBack`. Places: `PlaceReadBack` rests on where
  the town stands in a printed line (`TownsStand`), so that dropping digits and
  short capitals leaves it (`TownIsLeft`). Keywords: each different word that passes is
  new at one position (`EachWordIsNewOnce`), so there are as many new positions as
  words (`WordsAreCounted`); curation keeps the first eight of them
  (`CurationKeeps`), and of its own result all (`CurationIsStable`). The assumption on
  the constants is that dates are dates of the calendar and keywords are records
  of `KeywordText`.

*TestSet* and *Validate*: no assumption.

* `DateReadBack`: each date of the calendar, in each language and form, with or
  without the town before it, is normalised to itself. `PlaceReadBack`: so is the
  town of each city line, with or without the street. `IbanChecks`: the computed
  check digits make the number valid. `AxesIndependent`: of nine letters in a row
  no two have the same language and tier.

*Orders*: any finite set, any strict total order, any sequence.

* `InOrderSorts`: the elements of the set, each once, and in order. It rests on counting:
  the numbers of elements that precede each are different and below the size of
  the set, so each number occurs (`CountsNumber`).
* `SiftKeeps`, `CutKeeps`, `JoinKeeps` and `DropKeeps`: which elements filtering, slicing,
  concatenation and removing one element leave, and that those keep their order.
  `IntervalIncreases` and `PickInterval`: picking an interval of positions is slicing.

Proved and not checked by a run of their own: `TypeOK` and the other type
invariants, `Referential`, `Custody`, `RunningIsHeld`, `FailedIsFinal`, `ListIsLatest`.

Only model-checked: `YearsDoNotCount`, which sums over the runs of a keyword with a
fold (the induction is out of the prover's reach), and `ProcessingEnds`, `Answers`, `ConnectEnds`, `TrackingEnds`,
`GateEnds` and the progress part of `ImplementsQueue`. These rest on fairness,
which the prover does not handle.

## Not modelled

* The content of pages, texts and embeddings: the model calls answer or raise.
  Image processing (`preprocess.py`, `degrade.py`, `render.py`) is arithmetic on
  pixels without control of its own; validation of requests happens before any
  state changes.
* A document that is deleted while it is corrected (`app.py:201`): its index row
  comes back without it. No document speaks of this.
* A second server process on the same data directory (`app.py:33`): its recovery
  would requeue the running job of the first.
* Search: the parsing of the query, `list_correspondents`.
* Web client: thumbnails of the list, toasts, the token dialog.
* The worker's own `connect()` losing the race for the migration, which ends its
  thread (`worker.py:61`): `FailureMeansDone` says only this race can do so.
* Two simultaneous mutual revocations may leave no device paired; the code makes
  no promise about it.
* Test set and benchmark: amounts, due dates, the sentences of the templates, the
  wording of the report, memory use; character accuracy is only a number that a
  letter contributes.
* Configuration (constants and one check of an address), the embeddings client
  (one call), deployment and the status script: no state that interacts.

## Plan

Done: the modules above with their runs, and a theorem for each safety property
that a passing run checks.

What could follow: a second document in `Corrections`, so that a document may be
deleted while it is corrected (`app.py:201`); the parsing of the query and
`list_correspondents` in `Search`; amounts and due dates of the letters.

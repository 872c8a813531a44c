------------------------- MODULE IngestFilesProofs --------------------------
(***************************************************************************)
(* What the files of a document hold, for every number of uploads,         *)
(* removals, pages, rowids, crashes and attempts, until a rowid is given   *)
(* out that a DELETE still holds: the images it shows are its own unless   *)
(* one of their writes was lost, originals stay until the document has     *)
(* failed, and none is left without a document.                            *)
(***************************************************************************)
EXTENDS IngestProofs

-----------------------------------------------------------------------------
(* Derived images *)

\* The worker between its claim and the commit that files the document.
Reading == {"pages", "ocr", "ocr_tx", "extract", "file_tx"}

\* A page of d whose two images were made of it, the images that d shows, and
\* all of them.
OwnImage(d) == [cleaned |-> letter[d], thumb |-> letter[d]]
ShowsOwn(d) ==
    \A p \in shown[d] : images[d][p].cleaned \in Own(d) /\ images[d][p].thumb \in Own(d)
Illustrated(d) == shown[d] = pages[d] /\ \A p \in pages[d] : images[d][p] = OwnImage(d)
\* No write of an image of d was lost.
AllWritten(d) == letter[d] \notin unwritten
OwnPictures ==
    \A d \in DocId : documents[d] # "none" /\ AllWritten(d) =>
        ShowsOwn(d) /\ (documents[d] = "done" => Illustrated(d))

\* What the worker has made so far: the images of the first page when it opens
\* its transaction, those of every page once their names are committed.
Progress ==
    /\ worker \in Reading => documents[job.doc] = "processing"
    /\ worker \in {"ocr", "ocr_tx"} => seen = pages[job.doc]
    /\ worker = "ocr_tx" /\ AllWritten(job.doc) =>
        \A p \in FirstPage : images[job.doc][p] = OwnImage(job.doc)
    /\ worker \in {"extract", "file_tx"} /\ AllWritten(job.doc) => Illustrated(job.doc)
ShownPages == \A d \in DocId : shown[d] \subseteq pages[d]
\* OwnPictures is not inductive: filing a document is only right when the
\* worker has made all of its images, and they were made of this upload's pages.
Pictures == ShownPages /\ OwnPictures /\ Progress

\* The types of what the images depend on.
LEMMA PictureTypes ==
    ASSUME TypeOK
    PROVE  /\ pages \in [DocId -> SUBSET Page] /\ shown \in [DocId -> SUBSET Page]
           /\ letter \in [DocId -> Uploads \cup {NoUpload}]
           /\ images \in [DocId -> [Page -> Image]]
           /\ documents \in [DocId -> Status \cup {"none"}]
           /\ seen \subseteq Page
BY DEF TypeOK, TablesOK, WorkerOK

\* What a document shows is not touched when its rows and images are not.
LEMMA SamePictures ==
    ASSUME NEW d \in DocId, pages'[d] = pages[d], shown'[d] = shown[d],
           letter'[d] = letter[d], images'[d] = images[d], unwritten \subseteq unwritten'
    PROVE  /\ ShowsOwn(d) => ShowsOwn(d)'
           /\ Illustrated(d) => Illustrated(d)'
           /\ AllWritten(d)' => AllWritten(d)
           /\ OwnImage(d)' = OwnImage(d)
BY DEF ShowsOwn, Illustrated, AllWritten, OwnImage, Own

\* Steps that leave every document as it is, and the worker.
LEMMA IdleKeepsPictures ==
    ASSUME Pictures, UNCHANGED <<documents, pages, shown, letter, images, unwritten, workerVars>>
    PROVE  Pictures'
<1>1. ShownPages'
  BY DEF Pictures, ShownPages
<1>2. OwnPictures'
  BY DEF Pictures, OwnPictures, ShowsOwn, Illustrated, AllWritten, OwnImage, Own
<1>3. Progress'
  BY DEF Pictures, Progress, FirstPage, Illustrated, AllWritten, OwnImage, workerVars
<1>4. QED
  BY <1>1, <1>2, <1>3 DEF Pictures

\* Steps that touch one document only.
LEMMA OnePicture ==
    ASSUME Pictures, NEW d \in DocId, unwritten \subseteq unwritten',
           \A e \in DocId \ {d} :
               /\ documents'[e] = documents[e] /\ pages'[e] = pages[e]
               /\ shown'[e] = shown[e] /\ letter'[e] = letter[e] /\ images'[e] = images[e],
           shown'[d] \subseteq pages'[d],
           documents'[d] # "none" /\ AllWritten(d)' =>
               ShowsOwn(d)' /\ (documents'[d] = "done" => Illustrated(d)')
    PROVE  ShownPages' /\ OwnPictures'
<1>1. ShownPages'
  BY DEF Pictures, ShownPages
<1>2. OwnPictures'
  <2> SUFFICES ASSUME NEW e \in DocId, documents'[e] # "none", AllWritten(e)'
               PROVE  ShowsOwn(e)' /\ (documents'[e] = "done" => Illustrated(e)')
    BY DEF OwnPictures
  <2>1. CASE e = d
    BY <2>1
  <2>2. CASE e # d
    <3>1. AllWritten(e) /\ documents[e] # "none"
      BY <2>2, SamePictures
    <3>2. ShowsOwn(e) /\ (documents[e] = "done" => Illustrated(e))
      BY <3>1 DEF Pictures, OwnPictures
    <3>3. QED
      BY <2>2, <3>2, SamePictures
  <2>3. QED
    BY <2>1, <2>2
<1>3. QED
  BY <1>1, <1>2

\* Steps of other handlers touch one document, which the worker does not read
\* and which is not filed.
LEMMA TouchKeepsPictures ==
    ASSUME Pictures, NEW d \in DocId, UNCHANGED <<workerVars, unwritten>>,
           worker \in Reading => job.doc \in DocId \ {d},
           \A e \in DocId \ {d} :
               /\ documents'[e] = documents[e] /\ pages'[e] = pages[e]
               /\ shown'[e] = shown[e] /\ letter'[e] = letter[e] /\ images'[e] = images[e],
           documents'[d] # "done", shown'[d] \subseteq pages'[d],
           documents'[d] # "none" /\ AllWritten(d)' => ShowsOwn(d)'
    PROVE  Pictures'
<1>1. ShownPages' /\ OwnPictures'
  BY OnePicture
<1>2. Progress'
  <2>1. worker' = worker /\ job' = job /\ seen' = seen /\ FirstPage' = FirstPage
    BY DEF workerVars, FirstPage
  <2>2. worker \in Reading =>
          /\ documents'[job.doc] = documents[job.doc] /\ pages'[job.doc] = pages[job.doc]
          /\ shown'[job.doc] = shown[job.doc] /\ letter'[job.doc] = letter[job.doc]
          /\ images'[job.doc] = images[job.doc]
    OBVIOUS
  <2>3. QED
    BY <2>1, <2>2 DEF Pictures, Progress, Reading, AllWritten, Illustrated, OwnImage
<1>3. QED
  BY <1>1, <1>2 DEF Pictures

\* An upload touches the new document, or the one it owns.
LEMMA UploadKeepsPictures ==
    ASSUME Hands, Pictures, NEW u \in Uploads, UploadCreate(u) \/ UploadStep(u)
    PROVE  Pictures'
<1>1. TypeOK /\ References /\ OneHolder
  BY DEF Hands
<1>2. worker \in Reading =>
        /\ job.doc \in DocId /\ documents[job.doc] # "none"
        /\ \A v \in Uploads : upload[v].pc \in Owning => upload[v].doc # job.doc
  BY HeldApart DEF Reading, Processing
<1>3. CASE UploadCreate(u)
  <2>1. PICK d \in DocId : /\ IsNextRowid(d, DocRows)
                           /\ documents' = [documents EXCEPT ![d] = "queued"]
                           /\ letter' = [letter EXCEPT ![d] = u]
    BY <1>3 DEF UploadCreate
  <2>2. documents[d] = "none"
    BY <2>1 DEF IsNextRowid, DocRows, DocId
  <2>3. pages[d] = {} /\ shown[d] = {}
    BY <1>1, <2>2 DEF References, Referential, Pictures, ShownPages
  <2>4. UNCHANGED <<workerVars, unwritten, pages, shown, images>>
    BY <1>3 DEF UploadCreate
  <2>5. documents'[d] = "queued" /\ \A e \in DocId \ {d} :
          documents'[e] = documents[e] /\ letter'[e] = letter[e]
    BY <1>1, <2>1, PictureTypes
  <2>6. ShowsOwn(d)'
    BY <2>3, <2>4 DEF ShowsOwn
  <2>7. QED
    BY <1>2, <2>2, <2>3, <2>4, <2>5, <2>6, TouchKeepsPictures
<1>4. CASE UploadInsert(u)
  <2>1. upload[u].pc \in Owning /\ upload[u].doc \in DocId
    BY <1>1, <1>4, FrameTypes DEF UploadInsert, Owning, Receiving
  <2>2. PICK d \in DocId : d = upload[u].doc
    BY <2>1
  <2>3. documents[d] = "queued"
    BY <1>1, <2>1, <2>2 DEF OneHolder, UploadCustody
  <2>4. pages[d] \subseteq pages'[d] /\ \A e \in DocId \ {d} : pages'[e] = pages[e]
    BY <1>1, <1>4, <2>2, PictureTypes DEF UploadInsert
  <2>5. UNCHANGED <<documents, shown, letter, images, workerVars, unwritten>>
    BY <1>4 DEF UploadInsert, past
  <2>6. AllWritten(d)' => ShowsOwn(d)'
    BY <2>3, <2>5 DEF Pictures, OwnPictures, AllWritten, ShowsOwn, Own
  <2>7. shown'[d] \subseteq pages'[d]
    BY <2>4, <2>5 DEF Pictures, ShownPages
  <2>8. QED
    BY <1>2, <2>1, <2>2, <2>3, <2>4, <2>5, <2>6, <2>7, TouchKeepsPictures
<1>5. CASE UploadRollback(u)
  <2>1. upload[u].doc \in DocId /\ upload[u].pc \in Owning
    BY <1>1, <1>5, FrameTypes DEF UploadRollback, Owning, Undoing
  <2>2. QED
    BY <1>1, <1>2, <1>5, <2>1, PictureTypes, TouchKeepsPictures
       DEF UploadRollback, DeleteDocument, past
<1>6. CASE \/ UploadOpen(u) \/ UploadReceived(u) \/ UploadRejected(u) \/ UploadConvert(u)
           \/ UploadUnlink(u) \/ UploadEnqueue(u) \/ UploadNudge(u) \/ UploadWriteFails(u)
  <2>1. UNCHANGED <<documents, pages, shown, letter, images, workerVars, unwritten>>
    BY <1>6 DEF UploadOpen, UploadReceived, UploadRejected, UploadConvert, UploadUnlink,
       UploadEnqueue, UploadNudge, UploadWriteFails, store, past
  <2>2. QED
    BY <2>1, IdleKeepsPictures
<1>7. QED
  BY <1>3, <1>4, <1>5, <1>6 DEF UploadStep

\* A removal touches a document that failed, or that is gone and has no pages.
LEMMA RemovalKeepsPictures ==
    ASSUME Hands, Pictures, NEW r \in Removals, RemovalCheck(r) \/ RemovalStep(r)
    PROVE  Pictures'
<1>1. TypeOK /\ OneHolder
  BY DEF Hands
<1>2. ASSUME removal[r].pc \in Removing
      PROVE  /\ removal[r].doc \in DocId /\ documents[removal[r].doc] \in {"failed", "none"}
             /\ worker \in Reading => job.doc \in DocId \ {removal[r].doc}
  BY <1>1, <1>2, HeldApart
     DEF TypeOK, HandlersOK, RemovalFrame, Removing, OneHolder, RemovalCustody, Reading, Processing
<1>3. CASE RemovalUnlink(r)
  <2>1. UNCHANGED <<documents, pages, shown, letter, workerVars, unwritten>>
    BY <1>3 DEF RemovalUnlink, store, past
  <2>2. removal[r].pc \in Removing
    BY <1>3 DEF RemovalUnlink, Removing
  <2>3. PICK d \in DocId : d = removal[r].doc
    BY <1>2, <2>2
  <2>4. shown[d] \subseteq Page /\ images' = WithImages(d, [p \in shown[d] |-> NoImage])
    BY <1>1, <1>3, <2>3, PictureTypes DEF RemovalUnlink
  <2>5. \A e \in DocId \ {d} : images'[e] = images[e]
    BY <1>1, <2>4, PictureTypes DEF WithImages
  <2>6. \A p \in shown[d] : images'[d][p] = NoImage
    BY <2>4 DEF WithImages
  <2>7. ShowsOwn(d)'
    BY <2>1, <2>6 DEF ShowsOwn, Own, NoImage
  <2>8. QED
    BY <1>2, <2>1, <2>2, <2>3, <2>5, <2>7, TouchKeepsPictures DEF Pictures, ShownPages
<1>4. CASE RemovalDelete(r)
  <2>1. removal[r].pc \in Removing
    BY <1>4 DEF RemovalDelete, Removing
  <2>2. QED
    BY <1>1, <1>2, <1>4, <2>1, PictureTypes, TouchKeepsPictures
       DEF RemovalDelete, DeleteDocument, past
<1>5. CASE RemovalCheck(r) \/ RemovalWriteFails(r)
  BY <1>5, IdleKeepsPictures DEF RemovalCheck, RemovalWriteFails, store, past
<1>6. QED
  BY <1>3, <1>4, <1>5 DEF RemovalStep

\* What a write may leave of an image of the worker's document stays one of its
\* own images, and is the page's when no write is lost.
LEMMA WrittenEffect ==
    ASSUME NEW u \in Uploads \cup {NoUpload}, NEW old \in Image,
           old.cleaned \in {u, NoUpload}, old.thumb \in {u, NoUpload},
           NEW new \in Written(old, u) \cup CutOff(old, u)
    PROVE  new.cleaned \in {u, NoUpload} /\ new.thumb \in {u, NoUpload}
<1>1. \A a, b : Replaced(a, b) \subseteq {a, b, NoUpload}
  BY DEF Replaced
<1>2. \A i \in Cleaned(old, u) :
        i \in Image /\ i.cleaned \in {u, NoUpload} /\ i.thumb \in {u, NoUpload}
  BY <1>1 DEF Cleaned, Image
<1>3. \A i \in Cleaned(old, u) : \A n \in Thumbed(i) :
        n.cleaned \in {u, NoUpload} /\ n.thumb \in {u, NoUpload}
  BY <1>1, <1>2 DEF Thumbed, Image
<1>4. CASE new \in Written(old, u)
  BY <1>3, <1>4 DEF Written
<1>5. CASE new \in CutOff(old, u)
  BY <1>2, <1>5 DEF CutOff, Image
<1>6. QED
  BY <1>4, <1>5

\* What preprocessing and the thumbnails do to the images of the worker's
\* document, and to all of them when no write is lost.
LEMMA MadeEffect ==
    ASSUME TypeOK, NEW S, Made(S), NEW d \in DocId, job.doc = d
    PROVE  /\ unwritten \subseteq unwritten'
           /\ \A e \in DocId \ {d} : images'[e] = images[e]
           /\ \A p \in Page \ S : images'[d][p] = images[d][p]
           /\ letter[d] \notin unwritten' =>
                \A p \in S \cap Page : images'[d][p] = OwnImage(d)
<1>1. PICK made \in [S -> Image] :
        /\ images' = WithImages(d, made)
        /\ unwritten' = unwritten \cup
             {v \in {letter[d]} : \E p \in S : made[p] # [cleaned |-> v, thumb |-> v]}
  BY DEF Made
<1>2. \A e \in DocId \ {d} : images'[e] = images[e]
  BY <1>1, PictureTypes DEF WithImages
<1>3. \A p \in Page : images'[d][p] = IF p \in S THEN made[p] ELSE images[d][p]
  BY <1>1 DEF WithImages
<1>4. letter[d] \notin unwritten' => \A p \in S : made[p] = OwnImage(d)
  BY <1>1 DEF OwnImage
<1>5. QED
  BY <1>1, <1>2, <1>3, <1>4

\* Stopped half-way, they leave the document its own images.
LEMMA SomeMadeEffect ==
    ASSUME TypeOK, SomeMade, NEW d \in DocId
    PROVE  /\ d # job.doc \/ worker \notin {"ocr", "ocr_tx"} => images'[d] = images[d]
           /\ \A p \in Page :
                images[d][p].cleaned \in Own(d) /\ images[d][p].thumb \in Own(d) =>
                    images'[d][p].cleaned \in Own(d) /\ images'[d][p].thumb \in Own(d)
<1>1. PICK p \in 1 .. MaxPages + 1, made \in [AtHand -> Image] :
        /\ \A q \in AtHand : made[q] \in
             IF q < p THEN Written(images[job.doc][q], letter[job.doc])
             ELSE IF q = p THEN CutOff(images[job.doc][q], letter[job.doc])
             ELSE {images[job.doc][q]}
        /\ images' = WithImages(job.doc, made)
  BY DEF SomeMade
<1>2. worker \notin {"ocr", "ocr_tx"} => AtHand = {}
  BY DEF AtHand
<1>3. \A q \in Page : images'[d][q] =
        IF d = job.doc /\ q \in AtHand THEN made[q] ELSE images[d][q]
  BY <1>1 DEF WithImages
<1>4. images \in [DocId -> [Page -> Image]] /\ letter \in [DocId -> Uploads \cup {NoUpload}]
  BY PictureTypes
<1>5. d # job.doc \/ worker \notin {"ocr", "ocr_tx"} => images'[d] = images[d]
  BY <1>1, <1>2, <1>4 DEF WithImages
<1>6. ASSUME NEW q \in Page, images[d][q].cleaned \in Own(d), images[d][q].thumb \in Own(d)
      PROVE  images'[d][q].cleaned \in Own(d) /\ images'[d][q].thumb \in Own(d)
  <2>1. CASE d = job.doc /\ q \in AtHand
    <3>1. /\ made[q] = images[d][q] \/ made[q] \in Written(images[d][q], letter[d])
                                    \/ made[q] \in CutOff(images[d][q], letter[d])
          /\ images'[d][q] = made[q]
      BY <1>1, <1>3, <2>1
    <3>2. images[d][q] \in Image /\ letter[d] \in Uploads \cup {NoUpload}
      BY <1>4
    <3>3. QED
      BY <1>6, <3>1, <3>2, WrittenEffect DEF Own
  <2>2. CASE ~(d = job.doc /\ q \in AtHand)
    BY <1>3, <1>6, <2>2
  <2>3. QED
    BY <2>1, <2>2
<1>7. QED
  BY <1>5, <1>6

\* Work that is cut off leaves images of this document or none.
LEMMA CutKeepsPictures ==
    ASSUME Hands, Pictures, SomeMade, UNCHANGED <<store, unwritten>>, worker' \notin Reading
    PROVE  Pictures'
<1>1. Progress'
  BY DEF Progress, Reading
<1>2. TypeOK /\ pages \in [DocId -> SUBSET Page] /\ shown \in [DocId -> SUBSET Page]
  BY PictureTypes DEF Hands
<1>3. UNCHANGED <<documents, pages, shown, letter, unwritten>>
  BY DEF store
<1>4. worker \in {"ocr", "ocr_tx"} => documents[job.doc] = "processing"
  BY DEF Pictures, Progress, Reading
<1>5. OwnPictures'
  <2> SUFFICES ASSUME NEW d \in DocId, documents[d] # "none", AllWritten(d)
               PROVE  ShowsOwn(d)' /\ (documents[d] = "done" => Illustrated(d)')
    BY <1>3 DEF OwnPictures, AllWritten
  <2>1. ShowsOwn(d) /\ (documents[d] = "done" => Illustrated(d))
    BY DEF Pictures, OwnPictures
  <2>2. ShowsOwn(d)'
    BY <1>2, <1>3, <2>1, SomeMadeEffect DEF ShowsOwn, Own
  <2>3. ASSUME documents[d] = "done" PROVE Illustrated(d)'
    <3>1. images'[d] = images[d]
      BY <1>2, <1>4, <2>3, SomeMadeEffect
    <3>2. QED
      BY <1>3, <2>1, <2>3, <3>1 DEF Illustrated, OwnImage
  <2>4. QED
    BY <2>2, <2>3
<1>6. ShownPages'
  BY <1>3 DEF Pictures, ShownPages
<1>7. QED
  BY <1>1, <1>5, <1>6 DEF Pictures

\* The worker makes the images of the document it reads, and files it with all
\* of them.
LEMMA WorkerKeepsPictures ==
    ASSUME Hands, Pictures, WorkerStep
    PROVE  Pictures'
<1>1. TypeOK /\ References /\ OneHolder
  BY DEF Hands
<1>2. /\ pages \in [DocId -> SUBSET Page] /\ shown \in [DocId -> SUBSET Page] /\ seen \subseteq Page
      /\ worker \in {"claim"} \cup Processing =>
           job.doc \in DocId /\ documents[job.doc] # "none"
  BY <1>1, PictureTypes, HeldApart
<1>3. ShownPages /\ OwnPictures /\ Progress
  BY DEF Pictures
<1>4. FirstPage \subseteq seen
  BY DEF FirstPage
<1>5. CASE WorkerRecover
  <2>1. UNCHANGED <<pages, shown, letter, images, unwritten>> /\ worker' \notin Reading
    BY <1>5 DEF WorkerRecover, Reading, past
  <2>2. \A d \in DocId : documents'[d] = documents[d] \/
          (documents'[d] = "failed" /\ documents[d] # "none")
    <3>1. \A d \in DocId : documents'[d] =
            IF \E j \in JobId : jobs[j].doc = d /\ Stale(j) /\ Spent(j)
              THEN "failed" ELSE documents[d]
      BY <1>5 DEF WorkerRecover
    <3>2. QED
      BY <1>1, <3>1 DEF References, Referential, Stale, JobRows
  <2>3. OwnPictures'
    BY <1>3, <2>1, <2>2 DEF OwnPictures, ShowsOwn, Illustrated, AllWritten, OwnImage, Own
  <2>4. QED
    BY <1>3, <2>1, <2>3 DEF Pictures, ShownPages, Progress, Reading
<1>6. CASE WorkerPoll \/ WorkerWait \/ WorkerClear \/ WorkerFinish \/ WorkerDies
  <2>1. /\ UNCHANGED <<documents, pages, shown, letter, images, unwritten>>
        /\ worker' \notin Reading
    BY <1>6 DEF WorkerPoll, WorkerWait, WorkerClear, WorkerFinish, WorkerDies, store, past, Reading
  <2>2. OwnPictures'
    BY <1>3, <2>1 DEF OwnPictures, ShowsOwn, Illustrated, AllWritten, OwnImage, Own
  <2>3. QED
    BY <1>3, <2>1, <2>2 DEF Pictures, ShownPages, Progress, Reading
<1>7. CASE WorkerClaim
  <2>1. /\ UNCHANGED <<pages, shown, letter, images, unwritten, job>>
        /\ worker = "claim" /\ worker' = "pages"
    BY <1>7 DEF WorkerClaim, past
  <2>2. PICK d \in DocId : d = job.doc
    BY <1>2, <2>1
  <2>3. documents'[d] = "processing" /\ \A e \in DocId \ {d} : documents'[e] = documents[e]
    BY <1>1, <1>2, <1>7, <2>1, <2>2, SetStatusEffect DEF WorkerClaim, Status
  <2>4. AllWritten(d)' => ShowsOwn(d)'
    BY <1>2, <1>3, <2>1, <2>2 DEF OwnPictures, AllWritten, ShowsOwn, Own
  <2>5. ShownPages' /\ OwnPictures'
    BY <1>3, <2>1, <2>3, <2>4, OnePicture DEF ShownPages
  <2>6. Progress'
    BY <2>1, <2>2, <2>3 DEF Progress
  <2>7. QED
    BY <2>5, <2>6 DEF Pictures
<1>8. CASE WorkerPages
  <2>1. /\ UNCHANGED <<documents, pages, shown, letter, images, unwritten, job>>
        /\ worker = "pages" /\ worker' \in {"ocr", "fail"} /\ seen' = pages[job.doc]
    BY <1>8 DEF WorkerPages, store, past
  <2>2. OwnPictures'
    BY <1>3, <2>1 DEF OwnPictures, ShowsOwn, Illustrated, AllWritten, OwnImage, Own
  <2>3. QED
    BY <1>3, <2>1, <2>2 DEF Pictures, ShownPages, Progress, Reading
<1>9. CASE WorkerOcr
  <2>1. /\ UNCHANGED <<documents, pages, shown, letter, job, seen>>
        /\ worker = "ocr" /\ worker' = "ocr_tx" /\ Made(FirstPage)
    BY <1>9 DEF WorkerOcr, store
  <2>2. PICK d \in DocId : d = job.doc
    BY <1>2, <2>1 DEF Processing
  <2>3. documents[d] = "processing" /\ seen = pages[d] /\ shown[d] \subseteq pages[d]
    BY <1>3, <2>1, <2>2 DEF Progress, Reading, ShownPages
  <2>4. /\ unwritten \subseteq unwritten'
        /\ \A e \in DocId \ {d} : images'[e] = images[e]
        /\ \A p \in Page \ FirstPage : images'[d][p] = images[d][p]
        /\ letter[d] \notin unwritten' =>
             \A p \in FirstPage \cap Page : images'[d][p] = OwnImage(d)
    BY <1>1, <2>1, <2>2, MadeEffect
  <2>5. AllWritten(d)' => ShowsOwn(d)'
    BY <1>2, <1>3, <2>1, <2>3, <2>4 DEF OwnPictures, AllWritten, ShowsOwn, Own, OwnImage
  <2>6. ShownPages' /\ OwnPictures'
    BY <1>3, <2>1, <2>3, <2>4, <2>5, OnePicture DEF ShownPages
  <2>7. Progress'
    <3>1. FirstPage' = FirstPage
      BY <2>1 DEF FirstPage
    <3>2. letter[d] \notin unwritten' => \A p \in FirstPage : images'[d][p] = OwnImage(d)
      BY <1>2, <1>4, <2>4
    <3>3. QED
      BY <2>1, <2>2, <2>3, <3>1, <3>2 DEF Progress, AllWritten, OwnImage
  <2>8. QED
    BY <2>6, <2>7 DEF Pictures
<1>10. CASE WorkerOcrCommit
  <2>1. /\ UNCHANGED <<documents, pages, letter, job>>
        /\ worker = "ocr_tx" /\ worker' = "extract" /\ Made(seen \ FirstPage)
        /\ shown' = [d \in DocId |-> IF d = job.doc THEN shown[d] \cup (seen \cap pages[d]) ELSE shown[d]]
    BY <1>10 DEF WorkerOcrCommit
  <2>2. PICK d \in DocId : d = job.doc
    BY <1>2, <2>1 DEF Processing
  <2>3. /\ documents[d] = "processing" /\ seen = pages[d] /\ pages[d] \subseteq Page
        /\ AllWritten(d) => \A p \in FirstPage : images[d][p] = OwnImage(d)
    BY <1>2, <1>3, <2>1, <2>2 DEF Progress, Reading
  <2>4. /\ unwritten \subseteq unwritten'
        /\ \A e \in DocId \ {d} : images'[e] = images[e]
        /\ \A p \in Page \ (seen \ FirstPage) : images'[d][p] = images[d][p]
        /\ letter[d] \notin unwritten' =>
             \A p \in (seen \ FirstPage) \cap Page : images'[d][p] = OwnImage(d)
    BY <1>1, <2>1, <2>2, MadeEffect
  <2>5. letter[d] \notin unwritten' => \A p \in pages[d] : images'[d][p] = OwnImage(d)
    BY <1>4, <2>3, <2>4 DEF AllWritten
  <2>6. shown'[d] = pages[d] /\ \A e \in DocId \ {d} : shown'[e] = shown[e]
    BY <1>3, <2>1, <2>2, <2>3 DEF ShownPages
  <2>7. AllWritten(d)' => Illustrated(d)' /\ ShowsOwn(d)'
    BY <2>1, <2>5, <2>6 DEF AllWritten, Illustrated, ShowsOwn, Own, OwnImage
  <2>8. ShownPages' /\ OwnPictures'
    BY <2>1, <2>4, <2>6, <2>7, OnePicture
  <2>9. Progress'
    BY <2>1, <2>2, <2>3, <2>7 DEF Progress, AllWritten, Illustrated, OwnImage
  <2>10. QED
    BY <2>8, <2>9 DEF Pictures
<1>11. CASE WorkerExtract
  <2>1. /\ UNCHANGED <<documents, pages, shown, letter, images, unwritten, job>>
        /\ worker = "extract" /\ worker' = "file_tx"
    BY <1>11 DEF WorkerExtract, store, past
  <2>2. OwnPictures'
    BY <1>3, <2>1 DEF OwnPictures, ShowsOwn, Illustrated, AllWritten, OwnImage, Own
  <2>3. Progress'
    BY <1>3, <2>1 DEF Progress, Reading, Illustrated, AllWritten, OwnImage
  <2>4. QED
    BY <1>3, <2>1, <2>2, <2>3 DEF Pictures, ShownPages
<1>12. CASE WorkerFile
  <2>1. /\ UNCHANGED <<pages, shown, letter, images, unwritten, job>>
        /\ worker = "file_tx" /\ worker' = "finish"
    BY <1>12 DEF WorkerFile, past
  <2>2. PICK d \in DocId : d = job.doc
    BY <1>2, <2>1 DEF Processing
  <2>3. documents'[d] = "done" /\ \A e \in DocId \ {d} : documents'[e] = documents[e]
    BY <1>1, <1>2, <1>12, <2>1, <2>2, SetStatusEffect DEF WorkerFile, Status, Processing
  <2>4. AllWritten(d)' => Illustrated(d)' /\ ShowsOwn(d)'
    BY <1>3, <2>1, <2>2 DEF Progress, AllWritten, Illustrated, ShowsOwn, Own, OwnImage
  <2>5. ShownPages' /\ OwnPictures'
    BY <1>3, <2>1, <2>3, <2>4, OnePicture DEF ShownPages
  <2>6. Progress'
    BY <2>1 DEF Progress, Reading
  <2>7. QED
    BY <2>5, <2>6 DEF Pictures
<1>13. CASE WorkerRaise
  BY <1>13, CutKeepsPictures DEF WorkerRaise, Reading, past
<1>14. CASE WorkerFail
  <2>1. UNCHANGED <<pages, shown, letter, images, unwritten>> /\ worker = "fail" /\ worker' = "poll"
    BY <1>14 DEF WorkerFail, past
  <2>2. PICK d \in DocId : d = job.doc
    BY <1>2, <2>1 DEF Processing
  <2>3. /\ documents'[d] = Verdict /\ Verdict \in {"queued", "failed"}
        /\ \A e \in DocId \ {d} : documents'[e] = documents[e]
    BY <1>1, <1>2, <1>14, <2>1, <2>2, SetStatusEffect DEF WorkerFail, Verdict, Status, Processing
  <2>4. AllWritten(d)' => ShowsOwn(d)'
    BY <1>2, <1>3, <2>1, <2>2 DEF OwnPictures, AllWritten, ShowsOwn, Own, Processing
  <2>5. ShownPages' /\ OwnPictures'
    BY <1>3, <2>1, <2>3, <2>4, OnePicture DEF ShownPages
  <2>6. Progress'
    BY <2>1 DEF Progress, Reading
  <2>7. QED
    BY <2>5, <2>6 DEF Pictures
<1>15. QED
  BY <1>5, <1>6, <1>7, <1>8, <1>9, <1>10, <1>11, <1>12, <1>13, <1>14 DEF WorkerStep

LEMMA InitPictures == Init => Pictures
BY DEF Init, Pictures, ShownPages, OwnPictures, Progress, Reading

LEMMA StepPictures == Hands /\ Pictures /\ [Next]_vars => Pictures'
<1> SUFFICES ASSUME Hands, Pictures, [Next]_vars PROVE Pictures'
  OBVIOUS
<1>1. CASE UNCHANGED vars
  BY <1>1, IdleKeepsPictures DEF vars, workerVars
<1>2. CASE Crash
  BY <1>2, CutKeepsPictures DEF Crash, Reading
<1>3. CASE Next
  BY <1>2, <1>3, UploadKeepsPictures, RemovalKeepsPictures, WorkerKeepsPictures DEF Next
<1>4. QED
  BY <1>1, <1>3

\* The images a page shows are made of that page of that document or of
\* nothing, and a filed document has them all: whatever a failed document with
\* the same rowid left on disk, wherever an attempt was cut off, and whichever
\* other document's image write was lost (pipeline_runner.py:47-88).
THEOREM OwnImagesHold == Spec => []OwnImages
<1> DEFINE Kept == ~reissued => Pictures
<1>1. Kept => OwnImages
  BY DEF Pictures, OwnPictures, ShowsOwn, Illustrated, AllWritten, OwnImage, OwnImages, DocRows
<1>2. Init => Kept
  BY InitPictures
<1>3. Kept /\ (~reissued => Hands) /\ [Next]_vars => Kept'
  BY StepPictures, ReissueStays
<1>4. QED
  BY <1>1, <1>2, <1>3, HandsHold, PTL DEF Spec

-----------------------------------------------------------------------------
(* Originals *)

\* The documents whose pages' JPEGs are all on disk.
Whole == {d \in DocId : \A p \in pages[d] : <<p, "jpg">> \in originals[d]}
\* The JPEG an upload has on disk, or is receiving, for its next row.
Storing(frame) == frame.pc = "insert" \/ (frame.pc = "reading" /\ frame.suffix = "jpg")
\* OriginalsKept is not inductive: an upload must have stored a page before its
\* row, and every page before its job.
Received ==
    \A u \in Uploads : upload[u].pc \in Receiving =>
        /\ upload[u].doc \in Whole
        /\ Storing(upload[u]) => <<upload[u].page, "jpg">> \in originals[upload[u].doc]
PagesStored ==
    \A j \in JobRows : jobs[j].state # "failed" =>
        \A p \in pages[jobs[j].doc] : <<p, "jpg">> \in originals[jobs[j].doc]
Stored == PagesStored /\ Received

\* The documents that get no page and lose no JPEG in a step.
Lasting == {d \in DocId :
    /\ pages'[d] \subseteq pages[d]
    /\ \A p \in Page : <<p, "jpg">> \in originals[d] => <<p, "jpg">> \in originals'[d]}

LEMMA LastingStaysWhole ==
    ASSUME TypeOK, NEW d \in Lasting, d \in Whole
    PROVE  d \in Whole'
BY PictureTypes DEF Lasting, Whole

\* A step keeps what is stored if every job that can still run, and every upload
\* that goes on, finds its document as it was or whole.
LEMMA StoredStep ==
    ASSUME Hands, Stored,
           \A j \in JobRows' : jobs'[j].state # "failed" =>
               \/ /\ j \in JobRows /\ jobs[j].state # "failed" /\ jobs'[j].doc = jobs[j].doc
                  /\ jobs[j].doc \in Lasting
               \/ jobs'[j].doc \in Whole',
           \A u \in Uploads : upload'[u].pc \in Receiving =>
               \/ upload'[u] = upload[u] /\ upload[u].doc \in Lasting
               \/ /\ upload'[u].doc \in Whole'
                  /\ Storing(upload'[u]) => <<upload'[u].page, "jpg">> \in originals'[upload'[u].doc]
    PROVE  Stored'
<1>1. TypeOK /\ \A j \in JobRows : jobs[j].doc \in DocId
  BY RowTypes DEF Hands, Job
<1>2. \A u \in Uploads : upload[u].pc \in Receiving =>
           upload[u].doc \in DocId /\ upload[u].page \in Page
  BY <1>1, FrameTypes DEF Receiving
<1>3. PagesStored'
  <2> SUFFICES ASSUME NEW j \in JobRows', jobs'[j].state # "failed"
               PROVE  jobs'[j].doc \in Whole'
    BY DEF PagesStored, Whole
  <2>1. CASE /\ j \in JobRows /\ jobs[j].state # "failed" /\ jobs'[j].doc = jobs[j].doc
             /\ jobs[j].doc \in Lasting
    <3>1. jobs[j].doc \in Whole
      BY <1>1, <2>1 DEF Stored, PagesStored, Whole
    <3>2. QED
      BY <1>1, <2>1, <3>1, LastingStaysWhole
  <2>2. QED
    BY <2>1
<1>4. Received'
  <2> SUFFICES ASSUME NEW u \in Uploads, upload'[u].pc \in Receiving
               PROVE  /\ upload'[u].doc \in Whole'
                      /\ Storing(upload'[u]) => <<upload'[u].page, "jpg">> \in originals'[upload'[u].doc]
    BY DEF Received, Storing
  <2>1. CASE upload'[u] = upload[u] /\ upload[u].doc \in Lasting
    <3>1. upload[u].doc \in Whole'
      BY <1>1, <2>1, LastingStaysWhole DEF Stored, Received
    <3>2. Storing(upload[u]) => <<upload[u].page, "jpg">> \in originals'[upload[u].doc]
      BY <1>2, <2>1 DEF Stored, Received, Lasting
    <3>3. QED
      BY <2>1, <3>1, <3>2
  <2>2. QED
    BY <2>1
<1>5. QED
  BY <1>3, <1>4 DEF Stored

\* An upload writes files of the document it owns, and enqueues it when every
\* page is stored.
LEMMA UploadKeepsStored ==
    ASSUME Hands, Stored, NEW u \in Uploads, UploadCreate(u) \/ UploadStep(u)
    PROVE  Stored'
<1>1. TypeOK /\ References /\ OneHolder
  BY DEF Hands
<1>2. /\ upload \in [Uploads -> UploadFrame]
      /\ pages \in [DocId -> SUBSET Page] /\ originals \in [DocId -> SUBSET File]
      /\ jobs \in [JobId -> Job \cup {NoJob}]
      /\ \A j \in JobRows : jobs[j].doc \in DocId
      /\ \A v \in Uploads : upload[v].pc \in Receiving =>
           /\ upload[v].pc \in Owning /\ upload[v].doc \in DocId /\ upload[v].page \in Page
           /\ upload[v].doc \in Whole
           /\ Storing(upload[v]) => <<upload[v].page, "jpg">> \in originals[upload[v].doc]
  BY <1>1, RowTypes, FrameTypes DEF TypeOK, TablesOK, HandlersOK, Owning, Receiving, Job, Stored, Received
<1>3. upload[u].pc \in Owning =>
        /\ upload[u].doc \in DocId
        /\ \A j \in JobRows : jobs[j].doc # upload[u].doc
        /\ \A v \in Uploads : v # u /\ upload[v].pc \in Owning => upload[v].doc # upload[u].doc
  BY <1>1, FrameTypes DEF OneHolder, UploadCustody, Owning, Receiving, Undoing
<1>4. \A d \in DocId : pages'[d] = pages[d] /\ originals'[d] = originals[d] => d \in Lasting
  BY DEF Lasting
<1>5. CASE UploadCreate(u)
  <2>1. PICK d \in DocId, n \in Page :
          /\ IsNextRowid(d, DocRows)
          /\ SetFrame(u, [IdleUpload EXCEPT !.pc = "open", !.doc = d, !.last = n])
    BY <1>5 DEF UploadCreate
  <2>2. UNCHANGED <<pages, originals, jobs>>
    BY <1>5 DEF UploadCreate
  <2>3. pages[d] = {}
    BY <1>1, <2>1 DEF References, Referential, IsNextRowid, DocRows, DocId
  <2>4. d \in Whole'
    BY <2>2, <2>3 DEF Whole
  <2>5. /\ upload'[u].pc = "open" /\ upload'[u].doc = d
        /\ \A v \in Uploads : v # u => upload'[v] = upload[v]
    BY <1>2, <2>1 DEF SetFrame, IdleUpload
  <2>6. QED
    BY <1>2, <1>4, <2>2, <2>4, <2>5, StoredStep DEF Storing, JobRows
<1>6. CASE UploadStep(u) /\ upload'[u].pc \in Receiving
  <2>1. /\ upload[u].pc \in Owning /\ upload'[u].doc = upload[u].doc
        /\ \A v \in Uploads : v # u => upload'[v] = upload[v]
    BY <1>1, <1>6, UploadMoves DEF Owning
  <2>2. CASE UploadOpen(u)
    <3>1. PICK s \in Suffixes :
            /\ originals' = [originals EXCEPT ![upload[u].doc] = @ \cup {<<upload[u].page, s>>}]
            /\ SetFrame(u, [upload[u] EXCEPT !.pc = "reading", !.suffix = s,
                              !.written = @ \cup {<<upload[u].page, s>>}])
      BY <2>2 DEF UploadOpen
    <3>2. upload[u].pc \in Receiving /\ UNCHANGED <<pages, jobs>>
      BY <2>2 DEF UploadOpen, Receiving, store
    <3>3. upload'[u].pc = "reading" /\ upload'[u].suffix = s /\ upload'[u].page = upload[u].page
      BY <1>2, <3>1 DEF SetFrame, UploadFrame
    <3>4. /\ originals'[upload[u].doc] = originals[upload[u].doc] \cup {<<upload[u].page, s>>}
          /\ \A e \in DocId \ {upload[u].doc} : originals'[e] = originals[e]
      BY <1>2, <1>3, <2>1, <3>1
    <3>5. upload[u].doc \in Whole'
      BY <1>2, <3>2, <3>4 DEF Whole
    <3>6. QED
      BY <1>2, <1>3, <1>4, <2>1, <3>2, <3>3, <3>4, <3>5, StoredStep DEF Storing, JobRows
  <2>3. CASE UploadReceived(u)
    <3>1. /\ upload[u].pc = "reading" /\ UNCHANGED <<pages, jobs, originals>>
          /\ upload'[u].page = upload[u].page
          /\ upload'[u].pc = IF upload[u].suffix = "heic" THEN "convert" ELSE "insert"
      BY <1>2, <2>3 DEF UploadReceived, Goto, SetFrame, UploadFrame, store
    <3>2. upload[u].suffix \in {"jpg", "heic"} /\ upload[u].pc \in Receiving
      BY <1>2, <3>1 DEF UploadFrame, Receiving
    <3>3. upload[u].doc \in Whole'
      BY <1>2, <3>1, <3>2 DEF Whole
    <3>4. Storing(upload'[u]) => <<upload[u].page, "jpg">> \in originals[upload[u].doc]
      BY <1>2, <3>1, <3>2 DEF Storing
    <3>5. QED
      BY <1>2, <1>4, <2>1, <3>1, <3>3, <3>4, StoredStep DEF JobRows
  <2>4. CASE UploadConvert(u)
    <3>1. upload[u].pc = "convert" /\ UNCHANGED <<pages, jobs>>
      BY <2>4 DEF UploadConvert, store
    <3>2. /\ originals' = [originals EXCEPT ![upload[u].doc] =
               (@ \ {<<upload[u].page, "heic">>}) \cup {<<upload[u].page, "jpg">>}]
          /\ SetFrame(u, [upload[u] EXCEPT !.pc = "insert",
               !.written = (@ \ {<<upload[u].page, "heic">>}) \cup {<<upload[u].page, "jpg">>}])
      <4>1. ~Goto(u, "unlink")
        BY <1>2, <1>6 DEF Goto, SetFrame, UploadFrame, Receiving
      <4>2. QED
        BY <2>4, <4>1 DEF UploadConvert
    <3>3. /\ originals'[upload[u].doc] =
               (originals[upload[u].doc] \ {<<upload[u].page, "heic">>}) \cup {<<upload[u].page, "jpg">>}
          /\ \A e \in DocId \ {upload[u].doc} : originals'[e] = originals[e]
      BY <1>2, <1>3, <2>1, <3>2
    <3>4. upload'[u].page = upload[u].page
      BY <1>2, <3>2 DEF SetFrame, UploadFrame
    <3>5. upload[u].doc \in Whole'
      BY <1>2, <3>1, <3>3 DEF Whole, Receiving
    <3>6. QED
      BY <1>2, <1>3, <1>4, <2>1, <3>1, <3>3, <3>4, <3>5, StoredStep DEF JobRows
  <2>5. CASE UploadInsert(u)
    <3>1. upload[u].pc = "insert" /\ UNCHANGED <<originals, jobs>>
      BY <2>5 DEF UploadInsert
    <3>2. /\ pages' = [pages EXCEPT ![upload[u].doc] = @ \cup {upload[u].page}]
          /\ \/ SetFrame(u, [upload[u] EXCEPT !.pc = "open", !.page = upload[u].page + 1])
             \/ Goto(u, "enqueue")
      <4>1. ~Goto(u, "unlink")
        BY <1>2, <1>6 DEF Goto, SetFrame, UploadFrame, Receiving
      <4>2. QED
        BY <2>5, <4>1 DEF UploadInsert
    <3>3. ~Storing(upload'[u])
      BY <1>2, <3>2 DEF Goto, SetFrame, UploadFrame, Storing
    <3>4. /\ pages'[upload[u].doc] = pages[upload[u].doc] \cup {upload[u].page}
          /\ \A e \in DocId \ {upload[u].doc} : pages'[e] = pages[e]
      BY <1>2, <1>3, <2>1, <3>2
    <3>5. upload[u].doc \in Whole'
      BY <1>2, <3>1, <3>4 DEF Whole, Receiving, Storing
    <3>6. QED
      BY <1>2, <1>3, <1>4, <2>1, <3>1, <3>3, <3>4, <3>5, StoredStep DEF JobRows
  <2>6. QED
    <3>1. \A pc : Goto(u, pc) => upload'[u].pc = pc
      BY <1>2 DEF Goto, SetFrame, UploadFrame
    <3>2. UploadUnlink(u) => upload'[u].pc = "delete"
      BY <1>2 DEF UploadUnlink, SetFrame, UploadFrame
    <3>3. ~UploadUnlink(u)
      BY <1>6, <3>2 DEF Receiving
    <3>4. ~UploadRejected(u) /\ ~UploadRollback(u) /\ ~UploadEnqueue(u) /\ ~UploadNudge(u)
          /\ ~UploadWriteFails(u)
      BY <1>6, <3>1 DEF UploadRejected, UploadRollback, UploadEnqueue, UploadNudge,
         UploadWriteFails, Receiving
    <3>5. QED
      BY <1>6, <2>2, <2>3, <2>4, <2>5, <3>2, <3>3, <3>4 DEF UploadStep
<1>7. CASE UploadStep(u) /\ upload'[u].pc \notin Receiving
  <2>1. \A v \in Uploads : v # u => upload'[v] = upload[v]
    BY <1>1, <1>7, UploadMoves
  <2>2. CASE UploadEnqueue(u)
    <3>1. /\ upload[u].pc \in Receiving /\ UNCHANGED <<pages, originals>>
      BY <2>2 DEF UploadEnqueue, Receiving
    <3>2. \A j \in JobRows' : jobs'[j].doc = upload[u].doc \/
            (j \in JobRows /\ jobs'[j] = jobs[j])
      <4>1. CASE jobs' = jobs
        BY <4>1 DEF JobRows
      <4>2. CASE jobs' # jobs
        <5>1. PICK j \in JobId : jobs' = [jobs EXCEPT ![j] =
                [doc |-> upload[u].doc, state |-> "queued", attempts |-> 0]]
          BY <2>2, <4>2 DEF UploadEnqueue
        <5>2. QED
          BY <1>2, <5>1 DEF JobRows
      <4>3. QED
        BY <4>1, <4>2
    <3>3. upload[u].doc \in Whole'
      BY <1>2, <3>1 DEF Whole
    <3>4. QED
      BY <1>2, <1>4, <1>7, <2>1, <3>1, <3>2, <3>3, StoredStep
  <2>3. CASE UploadRollback(u)
    <3>1. UNCHANGED originals /\ DeleteDocument(upload[u].doc)
      BY <2>3 DEF UploadRollback
    <3>2. \A j \in JobRows' : j \in JobRows /\ jobs'[j] = jobs[j]
      BY <1>2, <3>1 DEF DeleteDocument, Cascade, JobRows, NoJob
    <3>3. \A e \in DocId : e \in Lasting
      BY <1>2, <3>1 DEF DeleteDocument, Lasting
    <3>4. QED
      BY <1>2, <1>7, <2>1, <3>2, <3>3, StoredStep
  <2>4. CASE ~UploadEnqueue(u) /\ ~UploadRollback(u)
    <3>1. upload[u].pc \in Owning => \A e \in DocId \ {upload[u].doc} : originals'[e] = originals[e]
      BY <1>2, <1>3, <1>7, <2>4 DEF UploadStep, UploadOpen, UploadReceived, UploadRejected, UploadConvert,
         UploadInsert, UploadUnlink, UploadNudge, UploadWriteFails
    <3>2. upload[u].pc \notin Owning => originals' = originals
      BY <1>7, <2>4 DEF UploadStep, UploadOpen, UploadReceived, UploadRejected, UploadConvert,
         UploadInsert, UploadUnlink, UploadNudge, UploadWriteFails, Owning, Receiving, Undoing
    <3>3. jobs' = jobs
      BY <1>7, <2>4 DEF UploadStep, UploadOpen, UploadReceived, UploadRejected, UploadConvert,
         UploadInsert, UploadUnlink, UploadNudge, UploadWriteFails, store
    <3>4. pages' = pages \/ (upload[u].pc \in Owning /\ \A e \in DocId \ {upload[u].doc} : pages'[e] = pages[e])
      BY <1>2, <1>3, <1>7, <2>4 DEF UploadStep, UploadOpen, UploadReceived, UploadRejected, UploadConvert,
         UploadInsert, UploadUnlink, UploadNudge, UploadWriteFails, store, Owning, Receiving
    <3>5. QED
      BY <1>2, <1>3, <1>4, <1>7, <2>1, <3>1, <3>2, <3>3, <3>4, StoredStep DEF JobRows
  <2>5. QED
    BY <2>2, <2>3, <2>4
<1>8. QED
  BY <1>5, <1>6, <1>7

\* A removal unlinks the files of a failed document, or of none.
LEMMA RemovalKeepsStored ==
    ASSUME Hands, Stored, NEW r \in Removals, RemovalCheck(r) \/ RemovalStep(r)
    PROVE  Stored'
<1>1. TypeOK /\ References /\ OneHolder /\ OneStory
  BY DEF Hands
<1>2. /\ pages \in [DocId -> SUBSET Page] /\ originals \in [DocId -> SUBSET File]
      /\ jobs \in [JobId -> Job \cup {NoJob}]
      /\ \A j \in JobRows : jobs[j].doc \in DocId
      /\ \A v \in Uploads : upload[v].pc \in Receiving =>
           upload[v].pc \in Owning /\ upload[v].doc \in DocId
      /\ UNCHANGED upload
  BY <1>1, RowTypes, FrameTypes
     DEF TypeOK, TablesOK, Owning, Receiving, Job, RemovalCheck, RemovalStep, RemovalUnlink,
         RemovalDelete, RemovalWriteFails
<1>3. CASE RemovalUnlink(r)
  <2>1. removal[r].pc \in Removing /\ removal[r].doc \in DocId
    BY <1>1, <1>3 DEF RemovalUnlink, Removing, TypeOK, HandlersOK, RemovalFrame
  <2>2. documents[removal[r].doc] \in {"failed", "none"} /\ UNCHANGED <<pages, jobs>>
    BY <1>1, <1>3, <2>1 DEF OneHolder, RemovalCustody, RemovalUnlink, store
  <2>3. \A e \in DocId \ {removal[r].doc} : e \in Lasting
    BY <1>2, <1>3, <2>1, <2>2 DEF RemovalUnlink, Lasting
  <2>4. \A j \in JobRows : jobs[j].state # "failed" => jobs[j].doc # removal[r].doc
    BY <1>1, <2>2 DEF OneStory, References, Referential
  <2>5. \A v \in Uploads : upload[v].pc \in Receiving => upload[v].doc # removal[r].doc
    BY <1>1, <1>2, <2>2 DEF OneHolder, UploadCustody
  <2>6. QED
    BY <1>2, <2>2, <2>3, <2>4, <2>5, StoredStep DEF JobRows
<1>4. CASE RemovalDelete(r)
  <2>1. UNCHANGED originals /\ DeleteDocument(removal[r].doc)
    BY <1>4 DEF RemovalDelete
  <2>2. \A j \in JobRows' : j \in JobRows /\ jobs'[j] = jobs[j]
    BY <1>2, <2>1 DEF DeleteDocument, Cascade, JobRows, NoJob
  <2>3. \A e \in DocId : e \in Lasting
    BY <1>2, <2>1 DEF DeleteDocument, Lasting
  <2>4. QED
    BY <1>2, <2>2, <2>3, StoredStep
<1>5. CASE RemovalCheck(r) \/ RemovalWriteFails(r)
  BY <1>2, <1>5, StoredStep DEF RemovalCheck, RemovalWriteFails, store, Lasting, JobRows
<1>6. QED
  BY <1>3, <1>4, <1>5 DEF RemovalStep

\* The worker neither adds pages nor touches originals, adds no job and never
\* takes a failed one up again.
LEMMA WorkerLeavesFiles ==
    ASSUME Hands, WorkerStep
    PROVE  /\ UNCHANGED <<upload, removal, pages, originals>>
           /\ \A j \in JobRows' :
                /\ j \in JobRows /\ jobs'[j].doc = jobs[j].doc
                /\ jobs'[j].state # "failed" => jobs[j].state # "failed"
<1>1. TypeOK /\ OneHolder
  BY DEF Hands
<1>2. UNCHANGED <<upload, removal, pages, originals>>
  BY DEF WorkerStep, WorkerRecover, WorkerPoll, WorkerWait, WorkerClear, WorkerClaim,
     WorkerPages, WorkerOcr, WorkerOcrCommit, WorkerExtract, WorkerFile, WorkerFinish,
     WorkerRaise, WorkerFail, WorkerDies, store
<1>3. worker \in {"claim"} \cup Processing =>
        job.id \in JobId /\ jobs[job.id].state \in {"queued", "running"}
  BY <1>1, HeldApart DEF OneHolder, WorkerCustody
<1>4. \A j \in JobRows' :
        /\ j \in JobRows /\ jobs'[j].doc = jobs[j].doc
        /\ jobs'[j].state # "failed" => jobs[j].state # "failed"
  <2>1. CASE WorkerRecover
    BY <1>1, <2>1, RecoverEffect DEF JobRows, RecoveredState, Stale
  <2>2. CASE WorkerClaim
    BY <1>1, <1>3, <2>2, ClaimedEffect DEF WorkerClaim, JobRows
  <2>3. CASE WorkerFinish \/ WorkerFail
    BY <1>1, <1>3, <2>3, SetJobEffect DEF WorkerFinish, WorkerFail, Verdict, JobState, JobRows, Processing
  <2>4. CASE jobs' = jobs
    BY <2>4 DEF JobRows
  <2>5. QED
    BY <2>1, <2>2, <2>3, <2>4 DEF WorkerStep, WorkerPoll, WorkerWait, WorkerClear, WorkerPages,
       WorkerOcr, WorkerOcrCommit, WorkerExtract, WorkerFile, WorkerRaise, WorkerDies, store
<1>5. QED
  BY <1>2, <1>4

\* The worker adds and removes no row of jobs or documents.
LEMMA WorkerKeepsRows ==
    ASSUME Hands, WorkerStep
    PROVE  /\ \A j \in JobRows : j \in JobRows' /\ jobs'[j].doc = jobs[j].doc
           /\ \A d \in DocId : documents'[d] = "none" <=> documents[d] = "none"
<1>1. TypeOK /\ References
  BY DEF Hands
<1>2. worker \in {"claim"} \cup Processing => job.id \in JobId /\ job.doc \in DocId
  BY <1>1, WorkerHolds
<1>3. \A j \in JobRows : j \in JobRows' /\ jobs'[j].doc = jobs[j].doc
  <2>1. CASE WorkerRecover
    BY <1>1, <2>1, RecoverEffect DEF JobRows, RecoveredState
  <2>2. CASE WorkerClaim
    BY <1>1, <1>2, <2>2, ClaimedEffect DEF WorkerClaim, JobRows
  <2>3. CASE WorkerFinish \/ WorkerFail
    BY <1>1, <1>2, <2>3, SetJobEffect DEF WorkerFinish, WorkerFail, Verdict, JobState, JobRows, Processing
  <2>4. CASE jobs' = jobs
    BY <2>4 DEF JobRows
  <2>5. QED
    BY <2>1, <2>2, <2>3, <2>4 DEF WorkerStep, WorkerPoll, WorkerWait, WorkerClear, WorkerPages,
       WorkerOcr, WorkerOcrCommit, WorkerExtract, WorkerFile, WorkerRaise, WorkerDies, store
<1>4. \A d \in DocId : documents'[d] = "none" <=> documents[d] = "none"
  <2>1. CASE WorkerRecover
    <3>1. \A d \in DocId : documents'[d] =
            IF \E j \in JobId : jobs[j].doc = d /\ Stale(j) /\ Spent(j)
              THEN "failed" ELSE documents[d]
      BY <2>1 DEF WorkerRecover
    <3>2. QED
      BY <1>1, <3>1 DEF References, Referential, Stale, JobRows
  <2>2. CASE WorkerClaim \/ WorkerFile \/ WorkerFail
    BY <1>1, <1>2, <2>2, SetStatusEffect
       DEF WorkerClaim, WorkerFile, WorkerFail, Verdict, Status, Processing
  <2>3. CASE documents' = documents
    BY <2>3
  <2>4. QED
    BY <2>1, <2>2, <2>3 DEF WorkerStep, WorkerPoll, WorkerWait, WorkerClear, WorkerPages,
       WorkerOcr, WorkerOcrCommit, WorkerExtract, WorkerFinish, WorkerRaise, WorkerDies, store
<1>5. QED
  BY <1>3, <1>4

LEMMA WorkerKeepsStored ==
    ASSUME Hands, Stored, WorkerStep
    PROVE  Stored'
<1>1. \A j \in JobRows : jobs[j].doc \in DocId
  BY RowTypes DEF Hands, Job
<1>2. \A u \in Uploads : upload[u].pc \in Receiving => upload[u].doc \in DocId
  BY FrameTypes DEF Hands, Receiving
<1>3. QED
  BY <1>1, <1>2, WorkerLeavesFiles, StoredStep DEF Lasting

LEMMA InitStored == Init => Stored
BY DEF Init, Stored, PagesStored, Received, JobRows, NoJob, IdleUpload, Receiving

LEMMA StepStored == Hands /\ Stored /\ [Next]_vars => Stored'
<1> SUFFICES ASSUME Hands, Stored, [Next]_vars PROVE Stored'
  OBVIOUS
<1>1. CASE UNCHANGED vars
  BY <1>1 DEF vars, Stored, PagesStored, Received, Whole, Storing, JobRows
<1>2. CASE Crash
  <2>1. UNCHANGED <<jobs, pages, originals>>
    BY <1>2 DEF Crash, store
  <2>2. \A u \in Uploads : upload'[u].pc \notin Receiving
    BY <1>2 DEF Hands, TypeOK, HandlersOK, UploadFrame, Crash, Lost, Answered, Receiving
  <2>3. QED
    BY <2>1, <2>2 DEF Stored, PagesStored, Received, JobRows
<1>3. CASE Next
  BY <1>2, <1>3, UploadKeepsStored, RemovalKeepsStored, WorkerKeepsStored DEF Next
<1>4. QED
  BY <1>1, <1>3

\* The original of every page whose document is waiting for, in or through
\* processing is on disk: no rollback, removal or crash takes it away, and a
\* page gets its row after its file (app.py:89-113).
THEOREM OriginalsStay == Spec => []OriginalsKept
<1> DEFINE Kept == ~reissued => Stored
<1>1. Kept => OriginalsKept
  BY DEF Stored, PagesStored, OriginalsKept
<1>2. Init => Kept
  BY InitStored
<1>3. Kept /\ (~reissued => Hands) /\ [Next]_vars => Kept'
  BY StepStored, ReissueStays
<1>4. QED
  BY <1>1, <1>2, <1>3, HandsHold, PTL DEF Spec

-----------------------------------------------------------------------------
(* No stray originals *)

\* The files the page rows of a document name.
Named == [d \in DocId |-> {<<p, "jpg">> : p \in pages[d]}]
\* The file an upload has opened and not registered.
Coming(frame) == IF frame.pc \in {"reading", "insert"} THEN {<<frame.page, "jpg">>} ELSE {}
\* Uploads that know of every file of their document: it is among those they
\* will unlink, and has a row unless it is the one they are about to register.
Tidied == {u \in Uploads :
    /\ upload[u].suffix = "jpg" /\ upload[u].pc # "convert"
    /\ upload[u].pc \in Owning => originals[upload[u].doc] \subseteq upload[u].written
    /\ upload[u].pc = "delete" => upload[u].written = {}
    /\ upload[u].pc \in Receiving =>
         originals[upload[u].doc] \subseteq Named[upload[u].doc] \cup Coming(upload[u])}
\* NoStrayOriginals is not inductive: a deletion leaves nothing behind because
\* whoever deletes knew of every file and has unlinked it.
NoneStray == \A d \in DocId : originals[d] # {} => documents[d] # "none"
Tidy ==
    /\ NoneStray
    /\ Uploads \subseteq Tidied
    /\ \A j \in JobRows : originals[jobs[j].doc] \subseteq Named[jobs[j].doc]
    /\ \A r \in Removals : removal[r].pc = "delete" => originals[removal[r].doc] = {}

\* The documents whose pages and files a step leaves alone.
Untouched == {d \in DocId : pages'[d] = pages[d] /\ originals'[d] = originals[d]}

LEMMA UntouchedNamed == ASSUME NEW d \in Untouched PROVE Named'[d] = Named[d]
BY DEF Untouched, Named

LEMMA TidyStep ==
    ASSUME TypeOK, Tidy,
           \A d \in DocId : originals'[d] # {} => documents'[d] # "none",
           \A u \in Uploads :
               \/ upload'[u] = upload[u] /\ (upload[u].pc \in Owning => upload[u].doc \in Untouched)
               \/ u \in Tidied',
           \A j \in JobRows' :
               \/ j \in JobRows /\ jobs'[j].doc = jobs[j].doc /\ jobs[j].doc \in Untouched
               \/ originals'[jobs'[j].doc] \subseteq Named'[jobs'[j].doc],
           \A r \in Removals : removal'[r].pc = "delete" =>
               \/ removal'[r] = removal[r] /\ removal[r].doc \in Untouched
               \/ originals'[removal'[r].doc] = {}
    PROVE  Tidy'
<1>1. NoneStray'
  BY DEF NoneStray
<1>2. ASSUME NEW u \in Uploads, upload'[u] = upload[u],
             upload[u].pc \in Owning => upload[u].doc \in Untouched
      PROVE  u \in Tidied'
  <2>1. upload[u].pc \in Owning =>
          /\ originals'[upload[u].doc] = originals[upload[u].doc]
          /\ Named'[upload[u].doc] = Named[upload[u].doc]
    BY <1>2, UntouchedNamed DEF Untouched
  <2>2. u \in Tidied
    BY DEF Tidy
  <2>3. QED
    BY <1>2, <2>1, <2>2 DEF Tidied, Coming, Owning
<1>3. ASSUME NEW j \in JobRows'
      PROVE  originals'[jobs'[j].doc] \subseteq Named'[jobs'[j].doc]
  BY <1>3, UntouchedNamed DEF Tidy, Untouched
<1>4. \A r \in Removals : removal'[r].pc = "delete" => originals'[removal'[r].doc] = {}
  BY DEF Tidy, Untouched
<1>5. QED
  BY <1>1, <1>2, <1>3, <1>4 DEF Tidy

\* An upload keeps account of what it writes.  A HEIC upload does not: when the
\* conversion raises, the JPEG may be there and `written` names the HEIC.
LEMMA UploadKeepsTidy ==
    ASSUME Hands, Tidy, "heic" \notin Suffixes, NEW u \in Uploads, UploadCreate(u) \/ UploadStep(u)
    PROVE  Tidy'
<1>1. TypeOK /\ References /\ OneHolder
  BY DEF Hands
<1>2. /\ upload \in [Uploads -> UploadFrame]
      /\ pages \in [DocId -> SUBSET Page] /\ originals \in [DocId -> SUBSET File]
      /\ documents \in [DocId -> Status \cup {"none"}]
      /\ jobs \in [JobId -> Job \cup {NoJob}]
      /\ \A j \in JobRows : jobs[j].doc \in DocId
      /\ \A v \in Uploads : upload[v].pc \in Owning => upload[v].doc \in DocId
      /\ \A r \in Removals : removal[r].pc = "delete" =>
           removal[r].doc \in DocId /\ documents[removal[r].doc] \in {"failed", "none"}
  BY <1>1, RowTypes, FrameTypes DEF TypeOK, TablesOK, HandlersOK, Owning, Receiving, Undoing, Job,
     RemovalFrame, OneHolder, RemovalCustody, Removing
<1>3. upload[u].pc \in Owning =>
        /\ upload[u].doc \in DocId /\ documents[upload[u].doc] = "queued"
        /\ \A j \in JobRows : jobs[j].doc # upload[u].doc
        /\ \A v \in Uploads : v # u /\ upload[v].pc \in Owning => upload[v].doc # upload[u].doc
        /\ \A r \in Removals : removal[r].pc = "delete" => removal[r].doc # upload[u].doc
  BY <1>1, <1>2 DEF OneHolder, UploadCustody
<1>4. /\ upload[u] \in UploadFrame /\ u \in Tidied
      /\ \A d \in DocId : originals[d] # {} => documents[d] # "none"
  BY <1>2 DEF Tidy, NoneStray
<1>5. UNCHANGED removal
  BY UploadLeaves, <1>1
<1>6. CASE UploadCreate(u)
  <2>1. PICK d \in DocId, n \in Page :
          /\ IsNextRowid(d, DocRows)
          /\ documents' = [documents EXCEPT ![d] = "queued"]
          /\ SetFrame(u, [IdleUpload EXCEPT !.pc = "open", !.doc = d, !.last = n])
    BY <1>6 DEF UploadCreate
  <2>2. UNCHANGED <<pages, originals, jobs>>
    BY <1>6 DEF UploadCreate
  <2>3. documents[d] = "none"
    BY <2>1 DEF IsNextRowid, DocRows, DocId
  <2>4. originals'[d] = {}
    BY <1>4, <2>2, <2>3
  <2>5. /\ upload'[u].pc = "open" /\ upload'[u].doc = d /\ upload'[u].suffix = "jpg"
        /\ \A v \in Uploads : v # u => upload'[v] = upload[v]
    BY <1>2, <2>1 DEF SetFrame, IdleUpload
  <2>6. u \in Tidied'
    BY <2>4, <2>5 DEF Tidied
  <2>7. \A e \in DocId : e \in Untouched
    BY <2>2 DEF Untouched
  <2>8. \A e \in DocId : originals'[e] # {} => documents'[e] # "none"
    BY <1>2, <1>4, <2>1, <2>2
  <2>9. QED
    BY <1>1, <1>2, <1>5, <2>2, <2>5, <2>6, <2>7, <2>8, TidyStep DEF JobRows
<1>7. CASE UploadStep(u)
  <2> DEFINE d == upload[u].doc
             p == upload[u].page
             jpeg == <<p, "jpg">>
  <2>1. /\ upload'[u].doc = d
        /\ \A v \in Uploads : v # u => upload'[v] = upload[v]
    BY <1>1, <1>7, UploadMoves
  <2>2. SUFFICES /\ u \in Tidied'
                 /\ \A e \in DocId : originals'[e] # {} => documents'[e] # "none"
                 /\ \A e \in DocId : e \in Untouched \/ (upload[u].pc \in Owning /\ e = d)
                 /\ \A j \in JobRows' :
                      \/ j \in JobRows /\ jobs'[j].doc = jobs[j].doc
                      \/ originals'[jobs'[j].doc] \subseteq Named'[jobs'[j].doc]
    BY <1>1, <1>2, <1>3, <1>5, <2>1, TidyStep
  <2>3. \A pc : Goto(u, pc) =>
          /\ upload'[u].pc = pc /\ upload'[u].page = p
          /\ upload'[u].suffix = upload[u].suffix /\ upload'[u].written = upload[u].written
    BY <1>2 DEF Goto, SetFrame, UploadFrame
  <2>4. CASE UploadOpen(u)
    <3>1. /\ originals' = [originals EXCEPT ![d] = @ \cup {jpeg}]
          /\ SetFrame(u, [upload[u] EXCEPT !.pc = "reading", !.suffix = "jpg",
                            !.written = @ \cup {jpeg}])
      BY <2>4, SwitchesAssumption DEF UploadOpen
    <3>2. upload[u].pc = "open" /\ upload[u].pc \in Receiving /\ upload[u].pc \in Owning
      BY <2>4 DEF UploadOpen, Receiving, Owning
    <3>3. UNCHANGED <<pages, jobs, documents>>
      BY <2>4 DEF UploadOpen, store
    <3>4. /\ originals'[d] = originals[d] \cup {jpeg}
          /\ \A e \in DocId \ {d} : originals'[e] = originals[e]
      BY <1>2, <1>3, <3>1, <3>2
    <3>5. /\ upload'[u].pc = "reading" /\ upload'[u].suffix = "jpg" /\ upload'[u].page = p
          /\ upload'[u].written = upload[u].written \cup {jpeg}
      BY <1>2, <3>1 DEF SetFrame, UploadFrame
    <3>6. originals[d] \subseteq upload[u].written /\ originals[d] \subseteq Named[d]
      BY <1>4, <3>2 DEF Tidied, Coming
    <3>7. u \in Tidied'
      BY <2>1, <3>3, <3>4, <3>5, <3>6 DEF Tidied, Coming, Named
    <3>8. QED
      BY <1>3, <1>4, <3>2, <3>3, <3>4, <3>7 DEF Untouched, JobRows
  <2>5. CASE UploadReceived(u) \/ UploadRejected(u) \/ UploadNudge(u) \/ UploadWriteFails(u)
    <3>1. UNCHANGED <<originals, pages, jobs, documents>>
      BY <2>5 DEF UploadReceived, UploadRejected, UploadNudge, UploadWriteFails, store
    <3>2. upload[u].suffix = "jpg"
      BY <1>4 DEF Tidied
    <3>3. \/ upload[u].pc = "reading" /\ Goto(u, "insert")
          \/ upload[u].pc \in {"reading", "insert"} /\ Goto(u, "unlink")
          \/ \E pc \in Answered : Goto(u, pc)
      BY <2>5, <3>2 DEF UploadReceived, UploadRejected, UploadNudge, UploadWriteFails, Answered
    <3>4. u \in Tidied'
      BY <1>4, <2>1, <2>3, <3>1, <3>3 DEF Tidied, Coming, Named, Owning, Receiving, Undoing, Answered
    <3>5. QED
      BY <1>4, <3>1, <3>4 DEF Untouched, JobRows
  <2>6. CASE UploadConvert(u)
    BY <1>4, <2>6 DEF UploadConvert, Tidied
  <2>7. CASE UploadInsert(u)
    <3>1. upload[u].pc = "insert" /\ UNCHANGED <<originals, jobs, documents>>
      BY <2>7 DEF UploadInsert
    <3>2. upload[u].pc \in Receiving /\ upload[u].pc \in Owning
      BY <3>1 DEF Receiving, Owning
    <3>3. /\ originals[d] \subseteq upload[u].written /\ upload[u].suffix = "jpg"
          /\ originals[d] \subseteq Named[d] \cup {jpeg}
      BY <1>4, <3>1, <3>2 DEF Tidied, Coming
    <3>4. CASE /\ pages' = [pages EXCEPT ![d] = @ \cup {p}]
               /\ \/ SetFrame(u, [upload[u] EXCEPT !.pc = "open", !.page = p + 1])
                  \/ Goto(u, "enqueue")
      <4>1. /\ pages'[d] = pages[d] \cup {p}
            /\ \A e \in DocId \ {d} : pages'[e] = pages[e]
        BY <1>2, <1>3, <3>2, <3>4
      <4>2. /\ upload'[u].pc \in {"open", "enqueue"} /\ upload'[u].suffix = "jpg"
            /\ upload'[u].written = upload[u].written
        BY <1>2, <2>3, <3>3, <3>4 DEF SetFrame, UploadFrame
      <4>3. originals'[d] \subseteq Named'[d]
        BY <1>3, <3>1, <3>2, <3>3, <4>1 DEF Named
      <4>4. u \in Tidied'
        BY <2>1, <3>1, <3>3, <4>2, <4>3 DEF Tidied
      <4>5. QED
        BY <1>4, <3>1, <3>2, <4>1, <4>4 DEF Untouched, JobRows
    <3>5. CASE pages' = pages /\ Goto(u, "unlink")
      <4>1. u \in Tidied'
        BY <2>1, <2>3, <3>1, <3>3, <3>5 DEF Tidied, Receiving
      <4>2. QED
        BY <1>4, <3>1, <3>5, <4>1 DEF Untouched, JobRows
    <3>6. QED
      BY <2>7, <3>4, <3>5 DEF UploadInsert
  <2>8. CASE UploadUnlink(u)
    <3>1. /\ upload[u].pc = "unlink" /\ upload[u].pc \in Owning
          /\ UNCHANGED <<pages, jobs, documents>>
      BY <2>8 DEF UploadUnlink, store, Owning, Undoing
    <3>2. /\ originals'[d] = originals[d] \ upload[u].written
          /\ \A e \in DocId \ {d} : originals'[e] = originals[e]
      BY <1>2, <1>3, <2>8, <3>1 DEF UploadUnlink
    <3>3. upload'[u].pc = "delete" /\ upload'[u].written = {} /\ upload'[u].suffix = upload[u].suffix
      BY <1>2, <2>8 DEF UploadUnlink, SetFrame, UploadFrame
    <3>4. originals'[d] = {} /\ upload[u].suffix = "jpg"
      BY <1>4, <3>1, <3>2 DEF Tidied
    <3>5. u \in Tidied'
      BY <2>1, <3>3, <3>4 DEF Tidied, Receiving
    <3>6. QED
      BY <1>3, <1>4, <3>1, <3>2, <3>5 DEF Untouched, JobRows
  <2>9. CASE UploadRollback(u)
    <3>1. /\ upload[u].pc = "delete" /\ upload[u].pc \in Owning
          /\ UNCHANGED originals /\ DeleteDocument(d) /\ Goto(u, "refused")
      BY <2>9 DEF UploadRollback, Owning, Undoing
    <3>2. originals[d] = {} /\ upload[u].suffix = "jpg"
      BY <1>4, <3>1 DEF Tidied
    <3>3. u \in Tidied'
      BY <2>3, <3>1, <3>2 DEF Tidied, Owning, Receiving, Undoing
    <3>4. \A e \in DocId \ {d} : documents'[e] = documents[e] /\ pages'[e] = pages[e]
      BY <1>2, <3>1 DEF DeleteDocument
    <3>5. \A j \in JobRows' : j \in JobRows /\ jobs'[j] = jobs[j]
      BY <1>2, <3>1 DEF DeleteDocument, Cascade, JobRows, NoJob
    <3>6. QED
      BY <1>4, <3>1, <3>2, <3>3, <3>4, <3>5 DEF Untouched
  <2>10. CASE UploadEnqueue(u)
    <3>1. /\ upload[u].pc = "enqueue" /\ upload[u].pc \in Receiving /\ upload[u].pc \in Owning
          /\ UNCHANGED <<originals, pages, documents>>
      BY <2>10 DEF UploadEnqueue, Receiving, Owning
    <3>2. originals[d] \subseteq Named[d] /\ upload[u].suffix = "jpg"
      BY <1>4, <3>1 DEF Tidied, Coming
    <3>3. PICK j \in JobId :
            jobs' = [jobs EXCEPT ![j] = [doc |-> d, state |-> "queued", attempts |-> 0]]
      BY <1>3, <2>10, <3>1 DEF UploadEnqueue
    <3>4. \A i \in JobRows' : jobs'[i].doc = d \/ (i \in JobRows /\ jobs'[i] = jobs[i])
      BY <1>2, <3>3 DEF JobRows
    <3>5. Goto(u, "nudge") \/ Goto(u, "refused")
      BY <2>10 DEF UploadEnqueue
    <3>6. u \in Tidied'
      BY <2>3, <3>2, <3>5 DEF Tidied, Owning, Receiving, Undoing
    <3>7. QED
      BY <1>4, <3>1, <3>2, <3>4, <3>6 DEF Untouched, Named
  <2>11. QED
    BY <1>7, <2>4, <2>5, <2>6, <2>7, <2>8, <2>9, <2>10 DEF UploadStep
<1>8. QED
  BY <1>6, <1>7

\* A removal unlinks what the page rows of the failed document name, which is
\* all there is, before it deletes the rows; of a document that another DELETE
\* has taken there is nothing left.
LEMMA RemovalKeepsTidy ==
    ASSUME Hands, Tidy, NEW r \in Removals, RemovalCheck(r) \/ RemovalStep(r)
    PROVE  Tidy'
<1>1. TypeOK /\ OneHolder /\ OneStory
  BY DEF Hands
<1>2. /\ pages \in [DocId -> SUBSET Page] /\ originals \in [DocId -> SUBSET File]
      /\ documents \in [DocId -> Status \cup {"none"}]
      /\ jobs \in [JobId -> Job \cup {NoJob}]
      /\ removal \in [Removals -> RemovalFrame]
      /\ \A j \in JobRows : jobs[j].doc \in DocId
      /\ \A v \in Uploads : upload[v].pc \in Owning =>
           upload[v].doc \in DocId /\ documents[upload[v].doc] = "queued"
      /\ \A d \in DocId : originals[d] # {} => documents[d] # "none"
      /\ UNCHANGED upload
  BY <1>1, RowTypes, FrameTypes
     DEF TypeOK, TablesOK, HandlersOK, Owning, Receiving, Undoing, Job, OneHolder, UploadCustody, Tidy,
         NoneStray, RemovalCheck, RemovalStep, RemovalUnlink, RemovalDelete, RemovalWriteFails
<1>3. removal[r].pc \in Removing =>
        removal[r].doc \in DocId /\ documents[removal[r].doc] \in {"failed", "none"}
  BY <1>1, <1>2 DEF TypeOK, HandlersOK, RemovalFrame, Removing, OneHolder, RemovalCustody
<1>4. CASE RemovalUnlink(r)
  <2> DEFINE d == removal[r].doc
  <2>1. removal[r].pc \in Removing /\ UNCHANGED <<pages, jobs, documents>>
    BY <1>4 DEF RemovalUnlink, Removing, store
  <2>2. /\ originals'[d] = originals[d] \ {<<p, "jpg">> : p \in pages[d]}
        /\ \A e \in DocId \ {d} : originals'[e] = originals[e]
    BY <1>2, <1>3, <1>4, <2>1 DEF RemovalUnlink
  <2>3. ASSUME documents[d] = "failed" PROVE originals'[d] = {}
    <3>1. PICK j \in JobRows : jobs[j].doc = d
      BY <1>1, <1>3, <2>1, <2>3 DEF OneStory
    <3>2. QED
      BY <1>3, <2>1, <2>2, <3>1 DEF Tidy, Named
  <2>4. originals'[d] = {}
    BY <1>2, <1>3, <2>1, <2>2, <2>3
  <2>5. \A e \in DocId \ {d} : e \in Untouched
    BY <2>1, <2>2 DEF Untouched
  <2>6. ASSUME NEW q \in Removals, removal'[q].pc = "delete"
        PROVE  \/ removal'[q] = removal[q] /\ removal[q].doc \in Untouched
               \/ originals'[removal'[q].doc] = {}
    <3>1. removal'[q].doc = d \/ removal'[q] = removal[q]
      BY <1>2, <1>4, <2>6 DEF RemovalUnlink, SetRemoval
    <3>2. removal[q].doc \in DocId \/ removal'[q] # removal[q]
      BY <1>1, <2>6 DEF TypeOK, HandlersOK, RemovalFrame
    <3>3. QED
      BY <2>4, <2>5, <3>1, <3>2
  <2>7. \A i \in JobRows' : i \in JobRows /\ jobs'[i].doc = jobs[i].doc
    BY <2>1 DEF JobRows
  <2>8. \A i \in JobRows' : i \in JobRows /\ jobs'[i].doc = jobs[i].doc /\
          (jobs[i].doc \in Untouched \/ originals'[jobs'[i].doc] \subseteq Named'[jobs'[i].doc])
    BY <1>2, <2>4, <2>5, <2>7
  <2>9. \A v \in Uploads : upload'[v] = upload[v] /\
          (upload[v].pc \in Owning => upload[v].doc \in Untouched)
    BY <1>2, <1>3, <2>1, <2>5
  <2>10. QED
    BY <1>1, <1>2, <2>1, <2>2, <2>4, <2>6, <2>8, <2>9, TidyStep
<1>5. CASE RemovalDelete(r)
  <2> DEFINE d == removal[r].doc
  <2>1. /\ removal[r].pc = "delete" /\ removal[r].pc \in Removing
        /\ UNCHANGED originals /\ DeleteDocument(d)
    BY <1>5 DEF RemovalDelete, Removing
  <2>2. originals[d] = {}
    BY <2>1 DEF Tidy
  <2>3. \A e \in DocId \ {d} : e \in Untouched /\ documents'[e] = documents[e]
    BY <1>2, <2>1 DEF DeleteDocument, Untouched
  <2>4. \A j \in JobRows' : j \in JobRows /\ jobs'[j] = jobs[j] /\ jobs[j].doc # d
    BY <1>2, <2>1 DEF DeleteDocument, Cascade, JobRows, NoJob
  <2>5. \A q \in Removals : removal'[q].pc = "delete" => originals'[removal'[q].doc] = {}
    BY <1>2, <1>5, <2>1 DEF Tidy, RemovalDelete, SetRemoval
  <2>6. \A v \in Uploads : upload[v].pc \in Owning => upload[v].doc \in Untouched
    BY <1>2, <1>3, <2>1, <2>3
  <2>7. QED
    BY <1>1, <1>2, <2>1, <2>2, <2>3, <2>4, <2>5, <2>6, TidyStep
<1>6. CASE RemovalCheck(r) \/ RemovalWriteFails(r)
  <2>1. UNCHANGED <<pages, originals, jobs, documents>>
    BY <1>6 DEF RemovalCheck, RemovalWriteFails, store
  <2>2. \A q \in Removals : removal'[q].pc = "delete" => removal'[q] = removal[q]
    BY <1>2, <1>6 DEF RemovalCheck, RemovalWriteFails, SetRemoval
  <2>3. \A e \in DocId : e \in Untouched
    BY <2>1 DEF Untouched
  <2>4. \A q \in Removals : removal[q].pc = "delete" => removal[q].doc \in DocId
    BY <1>1 DEF TypeOK, HandlersOK, RemovalFrame
  <2>5. QED
    BY <1>1, <1>2, <2>1, <2>2, <2>3, <2>4, TidyStep DEF JobRows
<1>7. QED
  BY <1>4, <1>5, <1>6 DEF RemovalStep

LEMMA WorkerKeepsTidy ==
    ASSUME Hands, Tidy, WorkerStep
    PROVE  Tidy'
<1>1. TypeOK
  BY DEF Hands
<1>2. \A d \in DocId : documents'[d] = "none" <=> documents[d] = "none"
  BY WorkerKeepsRows
<1>3. /\ \A j \in JobRows : jobs[j].doc \in DocId
      /\ \A u \in Uploads : upload[u].pc \in Owning => upload[u].doc \in DocId
      /\ \A r \in Removals : removal[r].pc = "delete" => removal[r].doc \in DocId
  BY <1>1, RowTypes, FrameTypes
     DEF Job, Owning, Receiving, Undoing, TypeOK, HandlersOK, RemovalFrame
<1>4. /\ UNCHANGED <<upload, removal, pages, originals>>
      /\ \A j \in JobRows' : j \in JobRows /\ jobs'[j].doc = jobs[j].doc
  BY WorkerLeavesFiles
<1>5. \A d \in DocId : d \in Untouched
  BY <1>4 DEF Untouched
<1>6. \A d \in DocId : originals'[d] # {} => documents'[d] # "none"
  BY <1>2, <1>4 DEF Tidy, NoneStray
<1>7. QED
  BY <1>1, <1>3, <1>4, <1>5, <1>6, TidyStep

LEMMA InitTidy == Init => Tidy
BY DEF Init, Tidy, NoneStray, Tidied, JobRows, NoJob, IdleUpload, Owning, Receiving, Undoing

LEMMA StepTidy == "heic" \notin Suffixes /\ Hands /\ Tidy /\ [Next]_vars => Tidy'
<1> SUFFICES ASSUME "heic" \notin Suffixes, Hands, Tidy, [Next]_vars PROVE Tidy'
  OBVIOUS
<1>1. CASE UNCHANGED vars
  BY <1>1 DEF vars, Tidy, NoneStray, Tidied, Named, Coming, JobRows
<1>2. CASE Crash
  <2>1. UNCHANGED <<documents, jobs, pages, originals>>
    BY <1>2 DEF Crash, store
  <2>2. \A u \in Uploads : /\ upload'[u].pc \notin Owning /\ upload'[u].pc # "convert"
                           /\ upload'[u].suffix = upload[u].suffix
    BY <1>2 DEF Hands, TypeOK, HandlersOK, UploadFrame, Crash, Lost, Answered, Owning, Receiving,
       Undoing
  <2>3. \A r \in Removals : removal'[r].pc # "delete"
    BY <1>2 DEF Hands, TypeOK, HandlersOK, RemovalFrame, Crash, Lost
  <2>4. Uploads \subseteq Tidied'
    <3>1. \A u \in Uploads : upload'[u].pc # "delete" /\ upload'[u].pc \notin Receiving
      BY <2>2 DEF Owning, Undoing
    <3>2. QED
      BY <2>2, <3>1 DEF Tidy, Tidied
  <2>5. QED
    BY <2>1, <2>3, <2>4 DEF Tidy, NoneStray, Named, JobRows
<1>3. CASE Next
  BY <1>2, <1>3, UploadKeepsTidy, RemovalKeepsTidy, WorkerKeepsTidy DEF Next
<1>4. QED
  BY <1>1, <1>3

\* Every original on disk belongs to a document, even when a write fails or the
\* process dies, as long as nobody uploads HEIC: a conversion that raises may
\* leave a JPEG its rollback does not know of (app.py:106-113).
THEOREM NoStrays == ASSUME "heic" \notin Suffixes PROVE Spec => []NoStrayOriginals
<1> DEFINE Kept == ~reissued => Tidy
<1>1. Kept => NoStrayOriginals
  BY DEF Tidy, NoneStray, NoStrayOriginals
<1>2. Init => Kept
  BY InitTidy
<1>3. Kept /\ (~reissued => Hands) /\ [Next]_vars => Kept'
  BY StepTidy, ReissueStays
<1>4. QED
  BY <1>1, <1>2, <1>3, HandsHold, PTL DEF Spec

-----------------------------------------------------------------------------
(* No partial documents *)

NonePartial ==
    \A d \in DocRows :
        \/ \E j \in JobRows : jobs[j].doc = d
        \/ \E u \in Uploads : upload[u].doc = d /\ upload[u].pc \in Owning \cup {"lost"}

\* Without faults of the disk and without a busy timeout an API write does not
\* raise, so an upload that is answered has enqueued its document or deleted it.
LEMMA StepPartial ==
    ~DiskFaults /\ ~BusyTimeout /\ Hands /\ NonePartial /\ [Next]_vars => NonePartial'
<1> SUFFICES ASSUME ~DiskFaults, ~BusyTimeout, Hands, NonePartial, [Next]_vars
             PROVE  NonePartial'
  OBVIOUS
<1> DEFINE Claims(u, d) == upload[u].doc = d /\ upload[u].pc \in Owning \cup {"lost"}
<1>1. TypeOK /\ OneHolder /\ References /\ ~WriteMayFail
  BY DEF Hands, WriteMayFail
<1>2. /\ upload \in [Uploads -> UploadFrame]
      /\ documents \in [DocId -> Status \cup {"none"}]
      /\ jobs \in [JobId -> Job \cup {NoJob}]
  BY <1>1, RowTypes DEF TypeOK, HandlersOK
<1>3. CASE UNCHANGED vars
  BY <1>3 DEF vars, NonePartial, DocRows, JobRows
<1>4. CASE Crash
  <2>1. UNCHANGED <<documents, jobs>>
    BY <1>4 DEF Crash, store
  <2>2. \A u \in Uploads : upload[u].pc \in Owning \cup {"lost"} =>
          upload'[u].pc = "lost" /\ upload'[u].doc = upload[u].doc
    BY <1>2, <1>4 DEF UploadFrame, Crash, Lost, Answered, Owning, Receiving, Undoing
  <2>3. QED
    BY <2>1, <2>2 DEF NonePartial, DocRows, JobRows
<1>5. CASE WorkerStep
  <2>1. UNCHANGED upload
    BY <1>5, WorkerLeavesFiles
  <2>2. QED
    BY <1>5, <2>1, WorkerKeepsRows DEF NonePartial, DocRows
<1>6. CASE \E r \in Removals : RemovalCheck(r) \/ RemovalStep(r)
  <2>1. PICK r \in Removals : RemovalCheck(r) \/ RemovalStep(r)
    BY <1>6
  <2>2. UNCHANGED upload
    BY <2>1 DEF RemovalCheck, RemovalStep, RemovalUnlink, RemovalDelete, RemovalWriteFails
  <2>3. CASE RemovalDelete(r)
    <3>1. DeleteDocument(removal[r].doc)
      BY <2>3 DEF RemovalDelete
    <3>2. \A d \in DocRows' : d \in DocRows /\ d # removal[r].doc
      BY <1>2, <3>1 DEF DeleteDocument, DocRows
    <3>3. \A j \in JobRows : jobs[j].doc # removal[r].doc => j \in JobRows' /\ jobs'[j] = jobs[j]
      BY <1>2, <3>1 DEF DeleteDocument, Cascade, JobRows
    <3>4. QED
      BY <2>2, <3>2, <3>3 DEF NonePartial
  <2>4. CASE ~RemovalDelete(r)
    <3>1. UNCHANGED <<documents, jobs>>
      BY <2>1, <2>4 DEF RemovalCheck, RemovalStep, RemovalUnlink, RemovalWriteFails, store
    <3>2. QED
      BY <2>2, <3>1 DEF NonePartial, DocRows, JobRows
  <2>5. QED
    BY <2>3, <2>4
<1>7. CASE \E u \in Uploads : UploadCreate(u) \/ UploadStep(u)
  <2>1. PICK u \in Uploads : UploadCreate(u) \/ UploadStep(u)
    BY <1>7
  <2>2. CASE UploadCreate(u)
    <3>1. PICK d \in DocId, n \in Page :
            /\ documents' = [documents EXCEPT ![d] = "queued"]
            /\ SetFrame(u, [IdleUpload EXCEPT !.pc = "open", !.doc = d, !.last = n])
      BY <2>2 DEF UploadCreate
    <3>2. /\ jobs' = jobs /\ upload[u].pc = "idle"
          /\ upload'[u].pc \in Owning /\ upload'[u].doc = d
          /\ \A v \in Uploads : v # u => upload'[v] = upload[v]
      BY <1>2, <2>2, <3>1 DEF UploadCreate, SetFrame, IdleUpload, Owning, Receiving
    <3>3. \A e \in DocRows' : e = d \/ e \in DocRows
      BY <1>2, <3>1 DEF DocRows
    <3>4. "idle" \notin Owning \cup {"lost"}
      BY DEF Owning, Receiving, Undoing
    <3>5. QED
      BY <3>2, <3>3, <3>4 DEF NonePartial, JobRows
  <2>3. CASE UploadStep(u)
    <3>1. /\ \A v \in Uploads : v # u => upload'[v] = upload[v]
          /\ upload'[u].doc = upload[u].doc
      BY <1>1, <2>3, UploadMoves
    <3>2. /\ \A pc : Goto(u, pc) => upload'[u].pc = pc
          /\ "lost" \notin Owning
      BY <1>2 DEF Goto, SetFrame, UploadFrame, Owning, Receiving, Undoing
    <3>3. CASE UploadEnqueue(u)
      <4>1. upload[u].pc \in Owning /\ upload[u].doc \in DocId
        BY <1>1, <3>3, FrameTypes DEF UploadEnqueue, Owning, Receiving
      <4>2. documents[upload[u].doc] = "queued"
        BY <1>1, <4>1 DEF OneHolder, UploadCustody
      <4>3. PICK j \in JobId :
              /\ IsNextRowid(j, JobRows)
              /\ jobs' = [jobs EXCEPT ![j] =
                   [doc |-> upload[u].doc, state |-> "queued", attempts |-> 0]]
        BY <3>3, <4>2 DEF UploadEnqueue
      <4>4. j \in JobRows' /\ jobs'[j].doc = upload[u].doc
        BY <1>2, <4>3 DEF JobRows
      <4>5. j \notin JobRows
        BY <4>3 DEF IsNextRowid, JobRows, JobId
      <4>6. \A i \in JobRows : i \in JobRows' /\ jobs'[i].doc = jobs[i].doc
        BY <1>2, <4>3, <4>5 DEF JobRows
      <4>7. documents' = documents
        BY <3>3 DEF UploadEnqueue
      <4>8. QED
        BY <3>1, <4>4, <4>6, <4>7 DEF NonePartial, DocRows
    <3>4. CASE UploadRollback(u)
      <4>1. DeleteDocument(upload[u].doc)
        BY <3>4 DEF UploadRollback
      <4>2. \A d \in DocRows' : d \in DocRows /\ d # upload[u].doc
        BY <1>2, <4>1 DEF DeleteDocument, DocRows
      <4>3. \A j \in JobRows : jobs[j].doc # upload[u].doc => j \in JobRows' /\ jobs'[j] = jobs[j]
        BY <1>2, <4>1 DEF DeleteDocument, Cascade, JobRows
      <4>4. QED
        BY <3>1, <4>2, <4>3 DEF NonePartial
    <3>5. CASE ~UploadEnqueue(u) /\ ~UploadRollback(u)
      <4>1. UNCHANGED <<documents, jobs>>
        BY <2>3, <3>5 DEF UploadStep, UploadOpen, UploadReceived, UploadRejected, UploadConvert,
           UploadInsert, UploadUnlink, UploadNudge, UploadWriteFails, store
      <4>2. upload[u].pc \in Owning \cup {"lost"} => upload'[u].pc \in Owning
        <5>1. CASE UploadOpen(u) \/ UploadUnlink(u)
          BY <1>2, <5>1 DEF UploadOpen, UploadUnlink, SetFrame, UploadFrame, Owning, Receiving, Undoing
        <5>2. CASE UploadConvert(u) \/ UploadInsert(u)
          BY <1>2, <3>2, <5>2 DEF UploadConvert, UploadInsert, SetFrame, UploadFrame, Owning, Receiving, Undoing
        <5>3. CASE UploadReceived(u) \/ UploadRejected(u)
          BY <3>2, <5>3 DEF UploadReceived, UploadRejected, Owning, Receiving, Undoing
        <5>4. CASE UploadNudge(u)
          BY <5>4 DEF UploadNudge, Owning, Receiving, Undoing
        <5>5. ~UploadWriteFails(u)
          BY <1>1 DEF UploadWriteFails
        <5>6. QED
          BY <2>3, <3>5, <5>1, <5>2, <5>3, <5>4, <5>5 DEF UploadStep
      <4>3. QED
        BY <3>1, <4>1, <4>2 DEF NonePartial, DocRows, JobRows
    <3>6. QED
      BY <3>3, <3>4, <3>5
  <2>4. QED
    BY <2>1, <2>2, <2>3
<1>8. QED
  BY <1>3, <1>4, <1>5, <1>6, <1>7 DEF Next

\* An upload answered with an error has left no document behind, if API writes
\* do not raise: the rollback's own delete and the enqueue are not undone
\* (app.py:112-114).
THEOREM NoPartials ==
    ASSUME ~DiskFaults, ~BusyTimeout PROVE Spec => []NoPartialDocument
<1> DEFINE Kept == ~reissued => NonePartial
<1>1. Kept => NoPartialDocument
  BY DEF NonePartial, NoPartialDocument
<1>2. Init => Kept
  BY DEF Init, NonePartial, DocRows
<1>3. Kept /\ (~reissued => Hands) /\ [Next]_vars => Kept'
  BY StepPartial, ReissueStays
<1>4. QED
  BY <1>1, <1>2, <1>3, HandsHold, PTL DEF Spec
=============================================================================

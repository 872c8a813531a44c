---------------------------- MODULE Corrections ----------------------------
(***************************************************************************)
(* Corrections to one document and its search index: concurrent PATCH      *)
(* handlers (server/app.py correct_document, server/store.py               *)
(* apply_correction and index_document) against the worker that files the  *)
(* document (server/pipeline_runner.py).  Every statement is keyed by the  *)
(* document id, so one document shows every interaction but waiting for    *)
(* the write lock on behalf of another.  A stored value is represented by  *)
(* who wrote it: a PATCH, the model, or nobody.                            *)
(***************************************************************************)
EXTENDS Naturals, Sequences

CONSTANTS
    Patches,      \* PATCH requests; each is made at most once
    Fields,       \* correctable columns of documents
    Extracted,    \* the columns that also have an extracted_fields row
    Bodies,       \* request bodies; an empty one changes nothing
    MaxAttempts,  \* worker._MAX_ATTEMPTS
    MaxCrashes,   \* bound: process crashes
    BusyTimeout   \* TRUE when a PATCH may give up waiting for the write lock

Item == [field : Fields, valid : BOOLEAN]

ASSUME CorrectionsAssumption ==
    /\ {"model", "nobody"} \cap Patches = {}
    /\ Extracted \subseteq Fields
    /\ Fields # {}
    /\ Bodies \subseteq Seq(Item) \ {<<>>}
    /\ MaxAttempts \in Nat \ {0}
    /\ MaxCrashes \in Nat
    /\ BusyTimeout \in BOOLEAN

VARIABLES
    row,          \* documents: field -> who wrote its value
    status,       \* documents.status
    verified,     \* fields whose extracted_fields row has verified = 1
    extracted,    \* fields that have an extracted_fields row
    corrections,  \* the audit table, in insertion order
    doc_fts,      \* the row the full-text entry was built from, or NoIndex
    doc_vec,      \* the row the vector was computed from, or NoIndex
    patch,        \* the frame of each PATCH handler
    worker,       \* where the worker is with this document's job
    attempts,     \* jobs.attempts
    filed,        \* who filed the row last, and how long the audit table was then
    crashes,      \* crashes so far
    overlapped    \* history: a PATCH started before the worker or another
                  \* PATCH was through with the document

table == <<row, status, verified, extracted, corrections>>
index == <<doc_fts, doc_vec>>
job == <<worker, attempts, filed>>
vars == <<row, status, verified, extracted, corrections, doc_fts, doc_vec,
          patch, worker, attempts, filed, crashes, overlapped>>

Writers == Patches \cup {"model", "nobody"}
Row == [Fields -> Writers]
NoIndex == [f \in {} |-> "nobody"]
Unwritten == [f \in Fields |-> "nobody"]
FromModel == [f \in Fields |-> "model"]

PatchPc == {"idle", "read", "write", "reread", "embed", "select", "index",
            "ok", "invalid", "error", "lost"}
Idle == [pc |-> "idle", todo |-> <<>>, old |-> "nobody", doc |-> NoIndex,
         embedding |-> NoIndex, selected |-> NoIndex]

\* The worker's connection holds the write lock while it files, which
\* includes the embedding call.
WriteLocked == worker = "filing"

Goto(p, pc) == patch' = [patch EXCEPT ![p].pc = pc]
InFlight(p) == patch[p].pc \in {"read", "write", "reread", "embed", "select", "index"}

-----------------------------------------------------------------------------
(* PATCH /api/documents/{id} *)

PatchStart(p) ==
    /\ patch[p].pc = "idle"
    /\ \E b \in Bodies :
        patch' = [patch EXCEPT ![p] = [Idle EXCEPT !.pc = "read", !.todo = b]]
    /\ overlapped' = (overlapped \/ worker # "settled" \/ \E q \in Patches : InFlight(q))
    /\ UNCHANGED <<table, index, job, crashes>>

\* (broken) the old value of the first field is audited for every field.
PatchReadOnce(p) ==
    LET item == Head(patch[p].todo) IN
    /\ patch[p].pc = "read"
    /\ IF item.valid
         THEN patch' = [patch EXCEPT ![p].pc = "write",
                ![p].old = IF @ = "nobody" THEN row[item.field] ELSE @]
         ELSE Goto(p, "invalid")
    /\ UNCHANGED <<table, index, job, crashes, overlapped>>

\* apply_correction validates the value, then reads the old one; the SELECT
\* is not part of the transaction its INSERT opens.  A bad value answers 422
\* at once: fields before it are committed.
PatchRead(p) ==
    LET item == Head(patch[p].todo) IN
    /\ patch[p].pc = "read"
    /\ IF item.valid
         THEN patch' = [patch EXCEPT ![p].pc = "write", ![p].old = row[item.field]]
         ELSE Goto(p, "invalid")
    /\ UNCHANGED <<table, index, job, crashes, overlapped>>

\* (broken) the audit row is written but the column is not.
PatchWriteAuditOnly(p) ==
    LET f == Head(patch[p].todo).field
        rest == Tail(patch[p].todo)
    IN
    /\ patch[p].pc = "write"
    /\ ~WriteLocked
    /\ corrections' = Append(corrections, [field |-> f, model |-> patch[p].old, user |-> p])
    /\ patch' = [patch EXCEPT ![p].pc = IF rest = <<>> THEN "reread" ELSE "read",
                              ![p].todo = rest]
    /\ UNCHANGED <<row, status, verified, extracted, index, job, crashes, overlapped>>

\* Audit row, column and verified flag are committed together; the next field
\* starts over.
PatchWrite(p) ==
    LET f == Head(patch[p].todo).field
        rest == Tail(patch[p].todo)
    IN
    /\ patch[p].pc = "write"
    /\ ~WriteLocked
    /\ corrections' = Append(corrections, [field |-> f, model |-> patch[p].old, user |-> p])
    /\ row' = [row EXCEPT ![f] = p]
    /\ verified' = verified \cup ({f} \cap extracted)
    /\ patch' = [patch EXCEPT ![p].pc = IF rest = <<>> THEN "reread" ELSE "read",
                              ![p].todo = rest]
    /\ UNCHANGED <<status, extracted, index, job, crashes, overlapped>>

\* get_document: what the answer and the new embedding are made of.
PatchReread(p) ==
    /\ patch[p].pc = "reread"
    /\ patch' = [patch EXCEPT ![p].pc = "embed", ![p].doc = row]
    /\ UNCHANGED <<table, index, job, crashes, overlapped>>

\* The embedding call may take two minutes, or fail and leave the old vector.
PatchEmbed(p) ==
    /\ patch[p].pc = "embed"
    /\ \E e \in {patch[p].doc, NoIndex} :
        patch' = [patch EXCEPT ![p].pc = "select", ![p].embedding = e]
    /\ UNCHANGED <<table, index, job, crashes, overlapped>>

\* (broken) the entry is not rebuilt.
PatchSelectNothing(p) ==
    /\ patch[p].pc = "select"
    /\ patch' = [patch EXCEPT ![p].pc = "index", ![p].selected = doc_fts]
    /\ UNCHANGED <<table, index, job, crashes, overlapped>>

\* index_document reads the row outside the transaction ...
PatchSelect(p) ==
    /\ patch[p].pc = "select"
    /\ patch' = [patch EXCEPT ![p].pc = "index", ![p].selected = row]
    /\ UNCHANGED <<table, index, job, crashes, overlapped>>

Reindex(text, embedding) ==
    /\ doc_fts' = text
    /\ doc_vec' = IF embedding = NoIndex THEN doc_vec ELSE embedding

\* ... and writes the index rows once it has the lock.
PatchIndex(p) ==
    /\ patch[p].pc = "index"
    /\ ~WriteLocked
    /\ Reindex(patch[p].selected, patch[p].embedding)
    /\ Goto(p, "ok")
    /\ UNCHANGED <<table, job, crashes, overlapped>>

\* "database is locked": the worker has the lock for too long, for this
\* document or for another, and the request fails where it is.
PatchBusy(p) ==
    /\ BusyTimeout
    /\ patch[p].pc \in {"write", "index"}
    /\ Goto(p, "error")
    /\ UNCHANGED <<table, index, job, crashes, overlapped>>

PatchStep(p) ==
    \/ PatchRead(p) \/ PatchWrite(p) \/ PatchReread(p) \/ PatchEmbed(p)
    \/ PatchSelect(p) \/ PatchIndex(p) \/ PatchBusy(p)

-----------------------------------------------------------------------------
(* The worker on this document's job *)

WorkerClaim ==
    /\ worker = "queued"
    /\ worker' = "extract"
    /\ attempts' = attempts + 1
    /\ status' = "processing"
    /\ UNCHANGED <<row, verified, extracted, corrections, index, patch, filed, crashes, overlapped>>

\* The VLM has answered; the first INSERT takes the write lock.
WorkerLock ==
    /\ worker = "extract"
    /\ worker' = "filing"
    /\ UNCHANGED <<table, index, patch, attempts, filed, crashes, overlapped>>

\* One transaction: every metadata column is overwritten, the extracted_fields
\* row is inserted or updated (its verified flag stays), status and index.
WorkerFile ==
    /\ worker = "filing"
    /\ row' = FromModel
    /\ status' = "done"
    /\ extracted' = extracted \cup Extracted
    /\ filed' = [by |-> "model", at |-> Len(corrections)]
    /\ \E e \in {FromModel, NoIndex} : Reindex(FromModel, e)
    /\ worker' = "finish"
    /\ UNCHANGED <<verified, corrections, patch, attempts, crashes, overlapped>>

WorkerFinish ==
    /\ worker = "finish"
    /\ worker' = "settled"
    /\ UNCHANGED <<table, index, patch, attempts, filed, crashes, overlapped>>

\* The except branch requeues or fails job and document.
WorkerFail ==
    /\ worker \in {"extract", "filing"}
    /\ worker' = IF attempts < MaxAttempts THEN "queued" ELSE "settled"
    /\ status' = IF attempts < MaxAttempts THEN "queued" ELSE "failed"
    /\ UNCHANGED <<row, verified, extracted, corrections, index, patch, attempts,
                   filed, crashes, overlapped>>

WorkerStep == WorkerClaim \/ WorkerLock \/ WorkerFile \/ WorkerFinish \/ WorkerFail

\* The process dies and restarts; recover_stale_jobs requeues or fails the job.
Crash ==
    /\ crashes < MaxCrashes
    /\ crashes' = crashes + 1
    /\ patch' = [p \in Patches |->
         IF InFlight(p) THEN [patch[p] EXCEPT !.pc = "lost"] ELSE patch[p]]
    /\ \/ /\ worker \in {"queued", "settled"}
          /\ UNCHANGED <<worker, status>>
       \/ /\ worker \in {"extract", "filing", "finish"}
          /\ attempts < MaxAttempts
          /\ worker' = "queued"
          /\ UNCHANGED status
       \/ /\ worker \in {"extract", "filing", "finish"}
          /\ attempts >= MaxAttempts
          /\ worker' = "settled"
          /\ status' = "failed"
    /\ UNCHANGED <<row, verified, extracted, corrections, index, attempts, filed, overlapped>>

-----------------------------------------------------------------------------
Init ==
    /\ row = Unwritten
    /\ status = "queued"
    /\ verified = {}
    /\ extracted = {}
    /\ corrections = <<>>
    /\ doc_fts = NoIndex
    /\ doc_vec = NoIndex
    /\ patch = [p \in Patches |-> Idle]
    /\ worker = "queued"
    /\ attempts = 0
    /\ filed = [by |-> "nobody", at |-> 0]
    /\ crashes = 0
    /\ overlapped = FALSE

Next ==
    \/ \E p \in Patches : PatchStart(p) \/ PatchStep(p)
    \/ WorkerStep
    \/ Crash

Spec == Init /\ [][Next]_vars

-----------------------------------------------------------------------------
(* Properties *)

Corrected == {corrections[i].field : i \in DOMAIN corrections}
SinceFiled(f) == {i \in DOMAIN corrections : i > filed.at /\ corrections[i].field = f}

\* The row and the audit table agree under every interleaving: a field holds
\* its last correction since the worker last filed, or what was filed then;
\* and an extracted field is only marked verified if it was corrected.
RowIsExplained ==
    /\ verified \subseteq extracted \cap Corrected
    /\ \A f \in Fields :
        /\ SinceFiled(f) = {} => row[f] = filed.by
        /\ \A i \in SinceFiled(f) :
             (\A j \in SinceFiled(f) : j <= i) => row[f] = corrections[i].user

Quiet == worker \notin {"filing"} /\ \A p \in Patches : ~InFlight(p)

\* When no PATCH is in flight, the full-text entry is the one of the document
\* row: corrected metadata is findable (app.py:180-182, docs/RUNBOOK.md:130-131).
Findable == Quiet /\ doc_fts # NoIndex => doc_fts = row

\* What is left of it: PATCH requests made one at a time on a settled document,
\* each answered with its result, leave the entry equal to the row, whether
\* embeddings are available or not.
FindableAlone ==
    ~overlapped /\ (\A p \in Patches : patch[p].pc \in {"idle", "ok"}) => Findable

\* Of PATCH requests made one at a time, each audit entry names the value its
\* correction replaced: of two successive entries of a field, both since the
\* last filing, the later one names the user value of the earlier
\* (store.py:169-170).
AuditChain ==
    ~overlapped => \A i, j \in DOMAIN corrections :
        /\ filed.at < i
        /\ i < j
        /\ corrections[i].field = corrections[j].field
        /\ \A k \in i + 1 .. j - 1 : corrections[k].field # corrections[j].field
        => corrections[j].model = corrections[i].user

=============================================================================

---------------------------- MODULE ArchiveProofs ----------------------------
(***************************************************************************)
(* The archive of filed documents, for any number of documents, requests,  *)
(* fields, bodies, attempts and crashes.  Corrections: the row, its audit  *)
(* table and its search entry stay in step.  Searches: an answer satisfies *)
(* its filters, leaves nothing out that it has room for, and is ordered.   *)
(***************************************************************************)
EXTENDS Corrections, Search, OrdersProofs

(***************************************************************************)
(* Corrections                                                             *)
(***************************************************************************)

Index == Row \cup {NoIndex}
Entry == [field : Fields, model : Writers, user : Patches]
Frame == [pc : PatchPc, todo : Seq(Item), old : Writers, doc : Index,
          embedding : Index, selected : Index]

\* A PATCH that reads or writes a field has one to go.
TypeInv ==
    /\ row \in Row
    /\ status \in {"queued", "processing", "done", "failed"}
    /\ verified \subseteq Fields /\ extracted \subseteq Fields
    /\ corrections \in Seq(Entry)
    /\ doc_fts \in Index /\ doc_vec \in Index
    /\ patch \in [Patches -> Frame]
    /\ \A p \in Patches : patch[p].pc \in {"read", "write"} => patch[p].todo # <<>>
    /\ worker \in {"queued", "extract", "filing", "finish", "settled"}
    /\ attempts \in Nat /\ crashes \in Nat
    /\ filed \in [by : Writers, at : Nat]
    /\ filed.at <= Len(corrections)
    /\ overlapped \in BOOLEAN

\* As long as PATCH requests are made one at a time on a settled document,
\* what one of them has read is still in the row.
Alone ==
    ~overlapped =>
        /\ \A p \in Patches : patch[p].pc # "idle" => worker = "settled"
        /\ \A p, q \in Patches : InFlight(p) /\ InFlight(q) => p = q
        /\ \A p \in Patches :
             patch[p].pc = "write" => patch[p].old = row[Head(patch[p].todo).field]
        /\ \A p \in Patches : patch[p].pc = "index" => patch[p].selected = row
        /\ (\A p \in Patches : patch[p].pc \in {"idle", "ok"}) => doc_fts \in {NoIndex, row}
-----------------------------------------------------------------------------
(* Types *)

LEMMA ValuesAreRows ==
    /\ Unwritten \in Row /\ FromModel \in Row /\ NoIndex \in Index
    /\ Row \subseteq Index /\ Idle \in Frame
BY DEF Unwritten, FromModel, Row, Index, Writers, Idle, Frame, PatchPc

LEMMA TypeStarts == Init => TypeInv
<1>. SUFFICES ASSUME Init PROVE TypeInv
  OBVIOUS
<1>1. patch \in [Patches -> Frame] /\ \A p \in Patches : patch[p].pc = "idle"
  BY ValuesAreRows DEF Init, Idle
<1>2. filed \in [by : Writers, at : Nat] /\ corrections = <<>> /\ filed.at = 0
  BY DEF Init, Writers
<1>3. corrections \in Seq(Entry) /\ filed.at <= Len(corrections)
  BY <1>2
<1>. QED  BY <1>1, <1>2, <1>3, ValuesAreRows DEF Init, TypeInv

\* The frames of the handlers.
LEMMA FramesStep ==
    ASSUME TypeInv, NEW p \in Patches, PatchStart(p) \/ PatchStep(p)
    PROVE  /\ patch' \in [Patches -> Frame]
           /\ \A q \in Patches : patch'[q].pc \in {"read", "write"} => patch'[q].todo # <<>>
<1>. USE DEF TypeInv
<1>0. patch[p] \in Frame /\ row \in Index /\ NoIndex \in Index /\ doc_fts \in Index
  BY ValuesAreRows DEF Frame
<1>1. CASE PatchStart(p)
  <2>1. PICK b \in Bodies :
          patch' = [patch EXCEPT ![p] = [Idle EXCEPT !.pc = "read", !.todo = b]]
    BY <1>1 DEF PatchStart
  <2>2. b \in Seq(Item) /\ b # <<>>
    BY CorrectionsAssumption
  <2>3. [Idle EXCEPT !.pc = "read", !.todo = b] \in Frame
    BY <2>2, ValuesAreRows DEF Frame, PatchPc
  <2>4. [Idle EXCEPT !.pc = "read", !.todo = b].todo = b
    BY DEF Idle
  <2>. QED  BY <2>1, <2>2, <2>3, <2>4
<1>2. CASE PatchRead(p)
  <2>1. patch[p].todo \in Seq(Item) /\ patch[p].todo # <<>> /\ patch[p].pc = "read"
    BY <1>2, <1>0 DEF PatchRead, Frame
  <2>2. Head(patch[p].todo) \in Item
    BY <2>1
  <2>3. row[Head(patch[p].todo).field] \in Writers
    BY <2>2 DEF Item, Row
  <2>. DEFINE next == [patch[p] EXCEPT !.pc = "write", !.old = row[Head(patch[p].todo).field]]
              bad == [patch[p] EXCEPT !.pc = "invalid"]
  <2>4. /\ next \in Frame /\ next.todo = patch[p].todo
        /\ bad \in Frame /\ bad.pc = "invalid"
    BY <2>3, <1>0 DEF Frame, PatchPc
  <2>5. patch' = [patch EXCEPT ![p] = next] \/ patch' = [patch EXCEPT ![p] = bad]
    BY <1>2 DEF PatchRead, Goto
  <2>. HIDE DEF next, bad
  <2>. QED  BY <2>1, <2>4, <2>5
<1>3. CASE PatchWrite(p)
  <2>1. patch[p].todo \in Seq(Item) /\ patch[p].todo # <<>>
    BY <1>3, <1>0 DEF PatchWrite, Frame
  <2>2. Tail(patch[p].todo) \in Seq(Item)
    BY <2>1
  <2>. DEFINE rest == Tail(patch[p].todo)
              next == [patch[p] EXCEPT !.pc = IF rest = <<>> THEN "reread" ELSE "read", !.todo = rest]
  <2>3. next \in Frame /\ next.todo = rest /\ (next.pc = "read" => rest # <<>>) /\ next.pc # "write"
    <3>. HIDE DEF rest
    <3>. QED  BY <2>2, <1>0 DEF Frame, PatchPc, rest
  <2>4. patch' = [patch EXCEPT ![p] = next]
    BY <1>3 DEF PatchWrite
  <2>. HIDE DEF next, rest
  <2>. QED  BY <2>3, <2>4
<1>4. CASE PatchReread(p)
  BY <1>4, <1>0 DEF PatchReread, Frame, PatchPc
<1>5. CASE PatchEmbed(p)
  <2>1. PICK e \in {patch[p].doc, NoIndex} :
          patch' = [patch EXCEPT ![p].pc = "select", ![p].embedding = e]
    BY <1>5 DEF PatchEmbed
  <2>2. e \in Index
    BY <1>0 DEF Frame
  <2>. QED  BY <2>1, <2>2, <1>0 DEF Frame, PatchPc
<1>6. CASE PatchSelect(p)
  BY <1>6, <1>0 DEF PatchSelect, Frame, PatchPc
<1>7. CASE PatchIndex(p) \/ PatchBusy(p)
  <2>1. PICK pc \in {"ok", "error"} : patch' = [patch EXCEPT ![p].pc = pc]
    BY <1>7 DEF PatchIndex, PatchBusy, Goto
  <2>. QED  BY <2>1, <1>0 DEF Frame, PatchPc
<1>. QED  BY <1>1, <1>2, <1>3, <1>4, <1>5, <1>6, <1>7 DEF PatchStep

LEMMA TypeSteps == TypeInv /\ [Next]_vars => TypeInv'
<1>. SUFFICES ASSUME TypeInv, [Next]_vars PROVE TypeInv'
  OBVIOUS
<1>. USE DEF TypeInv
<1>1. ASSUME NEW p \in Patches, PatchStart(p) \/ PatchStep(p) PROVE TypeInv'
  <2>1. /\ patch' \in [Patches -> Frame]
        /\ \A q \in Patches : patch'[q].pc \in {"read", "write"} => patch'[q].todo # <<>>
    BY <1>1, FramesStep
  <2>2. CASE PatchStart(p)
    BY <2>1, <2>2 DEF PatchStart, table, index, job
  <2>3. CASE PatchWrite(p)
    <3>1. patch[p].todo \in Seq(Item) /\ patch[p].todo # <<>> /\ patch[p].old \in Writers
      BY <2>3 DEF PatchWrite, Frame
    <3>2. Head(patch[p].todo).field \in Fields
      <4>1. Head(patch[p].todo) \in Item
        BY <3>1
      <4>. QED  BY <4>1 DEF Item
    <3>3. row' \in Row /\ verified' \subseteq Fields
      BY <2>3, <3>2 DEF PatchWrite, Row, Writers
    <3>4. corrections' \in Seq(Entry) /\ Len(corrections') = Len(corrections) + 1
      BY <2>3, <3>1, <3>2 DEF PatchWrite, Entry
    <3>. QED  BY <2>1, <2>3, <3>3, <3>4 DEF PatchWrite, index, job
  <2>4. CASE PatchRead(p) \/ PatchReread(p) \/ PatchEmbed(p) \/ PatchSelect(p) \/ PatchBusy(p)
    BY <2>1, <2>4 DEF PatchRead, PatchReread, PatchEmbed, PatchSelect, PatchBusy, table, index, job
  <2>5. CASE PatchIndex(p)
    <3>1. patch[p].selected \in Index /\ patch[p].embedding \in Index
      BY DEF Frame
    <3>. QED  BY <2>1, <2>5, <3>1 DEF PatchIndex, Reindex, table, job
  <2>. QED  BY <1>1, <2>2, <2>3, <2>4, <2>5 DEF PatchStep
<1>2. CASE WorkerClaim \/ WorkerLock \/ WorkerFinish \/ WorkerFail
  BY <1>2 DEF WorkerClaim, WorkerLock, WorkerFinish, WorkerFail, table, index
<1>3. CASE WorkerFile
  <2>1. FromModel \in Row /\ FromModel \in Index /\ NoIndex \in Index /\ Extracted \subseteq Fields
    BY ValuesAreRows, CorrectionsAssumption
  <2>2. filed' \in [by : Writers, at : Nat] /\ filed'.at = Len(corrections)
    BY <1>3 DEF WorkerFile, Writers
  <2>3. doc_fts' \in Index /\ doc_vec' \in Index
    BY <1>3, <2>1 DEF WorkerFile, Reindex
  <2>. QED  BY <1>3, <2>1, <2>2, <2>3 DEF WorkerFile
<1>4. CASE Crash
  <2>1. patch' \in [Patches -> Frame]
    BY <1>4 DEF Crash, Frame, PatchPc
  <2>2. \A q \in Patches : patch'[q].pc \in {"read", "write"} => patch'[q] = patch[q]
    BY <1>4 DEF Crash
  <2>3. \A q \in Patches : patch'[q].pc \in {"read", "write"} => patch'[q].todo # <<>>
    BY <2>2
  <2>. QED  BY <1>4, <2>1, <2>3 DEF Crash, index
<1>5. CASE UNCHANGED vars
  BY <1>5 DEF vars
<1>. QED  BY <1>1, <1>2, <1>3, <1>4, <1>5 DEF Next, WorkerStep

\* Every table, index entry and handler frame keeps its type.
THEOREM TypeCorrect == Spec => []TypeInv
BY TypeStarts, TypeSteps, PTL DEF Spec
-----------------------------------------------------------------------------
(* The row and the audit table *)

LEMMA RowStarts == Init => RowIsExplained
BY DEF Init, RowIsExplained, Unwritten, SinceFiled, Corrected

\* A step that writes neither the row, the audit table nor the filing.
LEMMA RowStays ==
    ASSUME RowIsExplained, UNCHANGED <<row, verified, extracted, corrections, filed>>
    PROVE  RowIsExplained'
BY DEF RowIsExplained, SinceFiled, Corrected

\* The entry that a PATCH adds to the audit table.
LEMMA OneMoreEntry ==
    ASSUME TypeInv, NEW p \in Patches, PatchWrite(p)
    PROVE  LET f == Head(patch[p].todo).field
               last == Len(corrections) + 1
           IN  /\ f \in Fields
               /\ filed.at < last
               /\ DOMAIN corrections = 1 .. Len(corrections)
               /\ DOMAIN corrections' = DOMAIN corrections \cup {last}
               /\ \A i \in DOMAIN corrections : i < last /\ corrections'[i] = corrections[i]
               /\ corrections'[last].field = f
               /\ corrections'[last].model = patch[p].old
               /\ corrections'[last].user = p
               /\ last \in Nat
<1>. DEFINE f == Head(patch[p].todo).field
            entry == [field |-> f, model |-> patch[p].old, user |-> p]
<1>1. patch[p].todo \in Seq(Item) /\ patch[p].todo # <<>> /\ patch[p].old \in Writers
  BY DEF PatchWrite, Frame, TypeInv
<1>2. f \in Fields
  <2>1. Head(patch[p].todo) \in Item
    BY <1>1
  <2>. QED  BY <2>1 DEF Item
<1>3. corrections \in Seq(Entry) /\ entry \in Entry /\ corrections' = Append(corrections, entry)
  BY <1>1, <1>2 DEF TypeInv, PatchWrite, Entry
<1>4. filed.at \in Nat /\ filed.at <= Len(corrections)
  BY DEF TypeInv
<1>5. entry.field = f /\ entry.model = patch[p].old /\ entry.user = p
  OBVIOUS
<1>. HIDE DEF entry, f
<1>6. /\ f \in Fields
      /\ filed.at < Len(corrections) + 1
      /\ DOMAIN corrections = 1 .. Len(corrections)
      /\ DOMAIN corrections' = DOMAIN corrections \cup {Len(corrections) + 1}
      /\ \A i \in DOMAIN corrections : i < Len(corrections) + 1 /\ corrections'[i] = corrections[i]
      /\ corrections'[Len(corrections) + 1] = entry
      /\ Len(corrections) + 1 \in Nat
  BY <1>2, <1>3, <1>4
<1>. QED  BY <1>5, <1>6 DEF f

LEMMA RowSteps == TypeInv /\ RowIsExplained /\ [Next]_vars => RowIsExplained'
<1>. SUFFICES ASSUME TypeInv, RowIsExplained, [Next]_vars PROVE RowIsExplained'
  OBVIOUS
<1>1. ASSUME NEW p \in Patches, PatchStart(p) \/ PatchStep(p) PROVE RowIsExplained'
  <2>1. CASE PatchWrite(p)
    <3>1. PICK f, last : f = Head(patch[p].todo).field /\ last = Len(corrections) + 1
      OBVIOUS
    <3>2. /\ row' = [row EXCEPT ![f] = p] /\ verified' = verified \cup ({f} \cap extracted)
          /\ filed' = filed /\ extracted' = extracted
      BY <3>1, <2>1 DEF PatchWrite, job
    <3>3. /\ f \in Fields
          /\ filed.at < last /\ last \in Nat
          /\ DOMAIN corrections' = DOMAIN corrections \cup {last}
          /\ \A i \in DOMAIN corrections : i < last /\ corrections'[i] = corrections[i]
          /\ corrections'[last].field = f /\ corrections'[last].user = p
          /\ \A i \in DOMAIN corrections' : i \in Nat
      <4>1. \A i \in DOMAIN corrections : i \in Nat
        BY DEF TypeInv
      <4>. QED  BY <3>1, <2>1, <4>1, OneMoreEntry
    <3>4. verified' \subseteq extracted' \cap Corrected'
      <4>1. Corrected' = Corrected \cup {f}
        BY <3>3 DEF Corrected
      <4>. QED  BY <3>2, <4>1 DEF RowIsExplained
    <3>5. row'[f] = p /\ \A g \in Fields \ {f} : row'[g] = row[g]
      BY <3>3, <3>2 DEF TypeInv, Row
    <3>6. last \in SinceFiled(f)'
      BY <3>3, <3>2 DEF SinceFiled
    <3>7. ASSUME NEW i \in SinceFiled(f)', \A j \in SinceFiled(f)' : j <= i
          PROVE  i = last
      BY <3>3, <3>2, <3>6, <3>7 DEF SinceFiled
    <3>8. ASSUME NEW g \in Fields \ {f}
          PROVE  SinceFiled(g)' = SinceFiled(g) /\ \A i \in SinceFiled(g) : corrections'[i] = corrections[i]
      BY <3>3, <3>2 DEF SinceFiled
    <3>9. ASSUME NEW g \in Fields
          PROVE  /\ SinceFiled(g)' = {} => row'[g] = filed'.by
                 /\ \A i \in SinceFiled(g)' :
                      (\A j \in SinceFiled(g)' : j <= i) => row'[g] = corrections'[i].user
      <4>1. CASE g = f
        BY <4>1, <3>3, <3>2, <3>5, <3>6, <3>7
      <4>2. CASE g # f
        BY <4>2, <3>3, <3>2, <3>5, <3>8 DEF RowIsExplained
      <4>. QED  BY <4>1, <4>2
    <3>. QED  BY <3>4, <3>9 DEF RowIsExplained
  <2>2. CASE PatchStart(p) \/ PatchRead(p) \/ PatchReread(p) \/ PatchEmbed(p) \/ PatchSelect(p)
             \/ PatchIndex(p) \/ PatchBusy(p)
    BY <2>2, RowStays DEF PatchStart, PatchRead, PatchReread, PatchEmbed, PatchSelect, PatchIndex,
       PatchBusy, table, job
  <2>. QED  BY <1>1, <2>1, <2>2 DEF PatchStep
<1>2. CASE WorkerFile
  <2>1. row' = FromModel /\ filed'.by = "model" /\ filed'.at = Len(corrections)
        /\ extracted \subseteq extracted' /\ UNCHANGED <<verified, corrections>>
    BY <1>2 DEF WorkerFile
  <2>2. corrections \in Seq(Entry)
    BY DEF TypeInv
  <2>3. \A f \in Fields : SinceFiled(f)' = {} /\ row'[f] = "model"
    BY <2>1, <2>2 DEF SinceFiled, FromModel
  <2>. QED  BY <2>1, <2>3 DEF RowIsExplained, Corrected
<1>3. CASE WorkerClaim \/ WorkerLock \/ WorkerFinish \/ WorkerFail \/ Crash \/ UNCHANGED vars
  BY <1>3, RowStays DEF WorkerClaim, WorkerLock, WorkerFinish, WorkerFail, Crash, vars, table
<1>. QED  BY <1>1, <1>2, <1>3 DEF Next, WorkerStep

\* store.py:166-192, pipeline_runner.py:97-149: however PATCH requests and the
\* worker overlap, a field holds its last correction since the last filing, or
\* what was filed.
THEOREM RowHolds == Spec => []RowIsExplained
BY TypeStarts, TypeSteps, RowStarts, RowSteps, PTL DEF Spec
-----------------------------------------------------------------------------
(* PATCH requests made one at a time *)

LEMMA AloneStarts == Init => Alone
BY DEF Init, Alone, Idle, InFlight

\* What a request in flight may assume.
LEMMA OnlyOne ==
    ASSUME TypeInv, Alone, ~overlapped, NEW p \in Patches, InFlight(p)
    PROVE  /\ worker = "settled"
           /\ \A q \in Patches \ {p} : ~InFlight(q)
BY DEF Alone, InFlight

\* A step of a request leaves the frames of the others, none in flight, alone.
LEMMA AloneSteps == TypeInv /\ Alone /\ [Next]_vars => Alone'
<1>. SUFFICES ASSUME TypeInv, Alone, [Next]_vars, ~overlapped' PROVE Alone'
  BY DEF Alone
<1>1. ASSUME NEW p \in Patches, PatchStart(p) \/ PatchStep(p) PROVE Alone'
  <2>1. ~overlapped
    BY <1>1 DEF PatchStart, PatchStep, PatchRead, PatchWrite, PatchReread, PatchEmbed, PatchSelect,
       PatchIndex, PatchBusy
  <2>2. worker' = worker /\ worker = "settled"
    <3>1. CASE PatchStart(p)
      BY <3>1 DEF PatchStart, job
    <3>2. CASE PatchStep(p)
      <4>1. InFlight(p)
        BY <3>2 DEF PatchStep, PatchRead, PatchWrite, PatchReread, PatchEmbed, PatchSelect,
           PatchIndex, PatchBusy, InFlight
      <4>2. worker' = worker
        BY <3>2 DEF PatchStep, PatchRead, PatchWrite, PatchReread, PatchEmbed, PatchSelect,
           PatchIndex, PatchBusy, job
      <4>. QED  BY <4>1, <4>2, <2>1, OnlyOne
    <3>. QED  BY <1>1, <3>1, <3>2
  <2>3. \A q \in Patches \ {p} : patch'[q] = patch[q] /\ ~InFlight(q)
    <3>1. CASE PatchStart(p)
      BY <3>1 DEF PatchStart, TypeInv
    <3>2. CASE PatchStep(p)
      <4>1. InFlight(p)
        BY <3>2 DEF PatchStep, PatchRead, PatchWrite, PatchReread, PatchEmbed, PatchSelect,
           PatchIndex, PatchBusy, InFlight
      <4>2. \A q \in Patches \ {p} : patch'[q] = patch[q]
        BY <3>2 DEF PatchStep, PatchRead, PatchWrite, PatchReread, PatchEmbed, PatchSelect,
           PatchIndex, PatchBusy, Goto, TypeInv
      <4>. QED  BY <4>1, <4>2, <2>1, OnlyOne
    <3>. QED  BY <1>1, <3>1, <3>2
  <2>4. /\ patch'[p].pc = "write" => patch'[p].old = row'[Head(patch'[p].todo).field]
        /\ patch'[p].pc = "index" => patch'[p].selected = row'
        /\ patch'[p].pc \in {"idle", "ok"} => doc_fts' \in {NoIndex, row'}
    <3>. patch \in [Patches -> Frame]
      BY DEF TypeInv
    <3>1. CASE PatchStart(p)
      <4>1. patch'[p].pc = "read"
        BY <3>1 DEF PatchStart, Idle
      <4>. QED  BY <4>1
    <3>2. CASE PatchRead(p)
      <4>1. /\ patch'[p].pc \in {"write", "invalid"}
            /\ patch'[p].pc = "write" => patch'[p].old = row[Head(patch[p].todo).field]
            /\ patch'[p].todo = patch[p].todo /\ row' = row
        BY <3>2 DEF PatchRead, Goto, table, Frame
      <4>. QED  BY <4>1
    <3>3. CASE PatchWrite(p)
      <4>1. patch'[p].pc \in {"read", "reread"}
        BY <3>3 DEF PatchWrite, Frame
      <4>. QED  BY <4>1
    <3>4. CASE PatchReread(p) \/ PatchEmbed(p)
      <4>1. patch'[p].pc \in {"embed", "select"}
        BY <3>4 DEF PatchReread, PatchEmbed, Frame
      <4>. QED  BY <4>1
    <3>5. CASE PatchSelect(p)
      <4>1. patch'[p].pc = "index" /\ patch'[p].selected = row /\ row' = row
        BY <3>5 DEF PatchSelect, table, Frame
      <4>. QED  BY <4>1
    <3>6. CASE PatchIndex(p)
      <4>1. patch'[p].pc = "ok" /\ doc_fts' = patch[p].selected /\ row' = row
        BY <3>6 DEF PatchIndex, Goto, Reindex, table, Frame
      <4>2. patch[p].selected = row
        BY <3>6, <2>1 DEF PatchIndex, Alone
      <4>. QED  BY <4>1, <4>2
    <3>7. CASE PatchBusy(p)
      <4>1. patch'[p].pc = "error"
        BY <3>7 DEF PatchBusy, Goto, Frame
      <4>. QED  BY <4>1
    <3>. QED  BY <1>1, <3>1, <3>2, <3>3, <3>4, <3>5, <3>6, <3>7 DEF PatchStep
  <2>5. \A q \in Patches \ {p} : ~InFlight(q)' /\ patch'[q].pc \notin {"write", "index"}
    BY <2>3 DEF InFlight
  <2>. QED  BY <2>2, <2>4, <2>5 DEF Alone
<1>2. CASE WorkerStep
  <2>1. ~overlapped /\ patch' = patch /\ worker # "settled"
    BY <1>2 DEF WorkerStep, WorkerClaim, WorkerLock, WorkerFile, WorkerFinish, WorkerFail
  <2>2. \A p \in Patches : patch'[p].pc = "idle"
    BY <2>1 DEF Alone
  <2>3. doc_fts \in {NoIndex, row}
    BY <2>1, <2>2 DEF Alone
  <2>4. doc_fts' \in {NoIndex, row'}
    BY <1>2, <2>3 DEF WorkerStep, WorkerClaim, WorkerLock, WorkerFile, WorkerFinish, WorkerFail,
       Reindex, table, index
  <2>. QED  BY <2>2, <2>4 DEF Alone, InFlight
<1>3. CASE Crash
  <2>. patch \in [Patches -> Frame]
    BY DEF TypeInv
  <2>1. ~overlapped /\ UNCHANGED <<row, doc_fts>>
    BY <1>3 DEF Crash, index
  <2>2. worker = "settled" => worker' = "settled"
    BY <1>3 DEF Crash
  <2>3. \A p \in Patches : \/ InFlight(p) /\ patch'[p].pc = "lost"
                           \/ ~InFlight(p) /\ patch'[p] = patch[p]
    BY <1>3 DEF Crash, Frame
  <2>4. \A p \in Patches : ~InFlight(p)'
    BY <2>3 DEF InFlight
  <2>5. \A p \in Patches : patch'[p].pc \notin {"write", "index"}
    BY <2>4 DEF InFlight
  <2>6. \A p \in Patches : patch'[p].pc # "idle" => patch[p].pc # "idle"
    BY <2>3 DEF InFlight
  <2>7. (\A p \in Patches : patch'[p].pc \in {"idle", "ok"}) =>
          \A p \in Patches : patch[p].pc \in {"idle", "ok"}
    BY <2>3
  <2>. QED  BY <2>1, <2>2, <2>4, <2>5, <2>6, <2>7 DEF Alone
<1>4. CASE UNCHANGED vars
  BY <1>4 DEF vars, Alone, InFlight
<1>. QED  BY <1>1, <1>2, <1>3, <1>4 DEF Next

\* app.py:180-202: a document corrected by one PATCH after the other is found
\* by what its row says, crashes and missing embeddings included.
THEOREM FindableHolds == Spec => []FindableAlone
<1>1. Alone => FindableAlone
  BY DEF Alone, FindableAlone, Findable
<1>. QED  BY <1>1, TypeStarts, TypeSteps, AloneStarts, AloneSteps, PTL DEF Spec

LEMMA AuditStarts == Init => AuditChain
BY DEF Init, AuditChain

\* By RowIsExplained the value a PATCH replaces is that of the last entry of
\* its field; by Alone it is the one the PATCH has read.
LEMMA AuditSteps ==
    TypeInv /\ RowIsExplained /\ Alone /\ AuditChain /\ [Next]_vars => AuditChain'
<1>. SUFFICES ASSUME TypeInv, RowIsExplained, Alone, AuditChain, [Next]_vars, ~overlapped'
              PROVE  AuditChain'
  BY DEF AuditChain
<1>1. ASSUME NEW p \in Patches, PatchWrite(p) PROVE AuditChain'
  <2>1. PICK f, last : f = Head(patch[p].todo).field /\ last = Len(corrections) + 1
    OBVIOUS
  <2>2. /\ f \in Fields /\ last \in Nat /\ Len(corrections) \in Nat
        /\ DOMAIN corrections = 1 .. Len(corrections)
        /\ DOMAIN corrections' = DOMAIN corrections \cup {last}
        /\ \A i \in DOMAIN corrections : i < last /\ corrections'[i] = corrections[i]
        /\ corrections'[last].field = f /\ corrections'[last].model = patch[p].old
        /\ filed' = filed /\ ~overlapped
    <3>1. filed' = filed /\ ~overlapped
      BY <1>1 DEF PatchWrite, job
    <3>2. Len(corrections) \in Nat
      BY DEF TypeInv
    <3>. QED  BY <1>1, <2>1, <3>1, <3>2, OneMoreEntry
  <2>3. patch[p].old = row[f]
    BY <1>1, <2>1, <2>2 DEF PatchWrite, Alone
  <2>4. SUFFICES ASSUME NEW i \in DOMAIN corrections', NEW j \in DOMAIN corrections',
                        filed.at < i, i < j, corrections'[i].field = corrections'[j].field,
                        \A k \in i + 1 .. j - 1 : corrections'[k].field # corrections'[j].field
                 PROVE  corrections'[j].model = corrections'[i].user
    BY <2>2 DEF AuditChain
  <2>5. i \in DOMAIN corrections
    BY <2>2, <2>4
  <2>6. CASE j \in DOMAIN corrections
    <3>1. \A k \in i + 1 .. j - 1 : k \in DOMAIN corrections
      BY <2>2, <2>5, <2>6
    <3>. QED  BY <2>2, <2>4, <2>5, <2>6, <3>1 DEF AuditChain
  <2>7. CASE j = last
    <3>1. i \in SinceFiled(f)
      BY <2>2, <2>4, <2>5, <2>7 DEF SinceFiled
    <3>2. \A k \in SinceFiled(f) : k <= i
      BY <2>2, <2>4, <2>5, <2>7 DEF SinceFiled
    <3>3. row[f] = corrections[i].user
      BY <2>2, <3>1, <3>2 DEF RowIsExplained
    <3>. QED  BY <2>2, <2>3, <2>5, <2>7, <3>3
  <2>. QED  BY <2>2, <2>6, <2>7
<1>2. CASE WorkerFile
  <2>1. corrections \in Seq(Entry) /\ corrections' = corrections /\ filed'.at = Len(corrections)
    BY <1>2 DEF TypeInv, WorkerFile
  <2>2. \A i \in DOMAIN corrections' : ~(filed'.at < i)
    BY <2>1
  <2>. QED  BY <2>2 DEF AuditChain
<1>3. CASE UNCHANGED <<corrections, filed>> /\ ~overlapped
  BY <1>3 DEF AuditChain
<1>4. CASE \/ \E p \in Patches : PatchStart(p) \/ PatchRead(p) \/ PatchReread(p) \/ PatchEmbed(p)
                                 \/ PatchSelect(p) \/ PatchIndex(p) \/ PatchBusy(p)
           \/ WorkerClaim \/ WorkerLock \/ WorkerFinish \/ WorkerFail \/ Crash \/ UNCHANGED vars
  <2>1. UNCHANGED corrections
    BY <1>4 DEF PatchStart, PatchRead, PatchReread, PatchEmbed, PatchSelect, PatchIndex, PatchBusy,
       WorkerClaim, WorkerLock, WorkerFinish, WorkerFail, Crash, vars, table
  <2>2. UNCHANGED filed
    BY <1>4 DEF PatchStart, PatchRead, PatchReread, PatchEmbed, PatchSelect, PatchIndex, PatchBusy,
       WorkerClaim, WorkerLock, WorkerFinish, WorkerFail, Crash, vars, job
  <2>3. ~overlapped
    BY <1>4 DEF PatchStart, PatchRead, PatchReread, PatchEmbed, PatchSelect, PatchIndex, PatchBusy,
       WorkerClaim, WorkerLock, WorkerFinish, WorkerFail, Crash, vars
  <2>. QED  BY <2>1, <2>2, <2>3, <1>3
<1>. QED  BY <1>1, <1>2, <1>4 DEF Next, PatchStep, WorkerStep

\* store.py:169-190: of PATCH requests made one at a time, each audit entry
\* since the last filing names the value its correction replaced.
THEOREM AuditHolds == Spec => []AuditChain
BY TypeStarts, TypeSteps, RowStarts, RowSteps, AloneStarts, AloneSteps, AuditStarts, AuditSteps,
   PTL DEF Spec

(***************************************************************************)
(* The document list                                                       *)
(***************************************************************************)

\* What is answered and what is still to be fetched.
Listed == answer \o ids
Fetching == step \in {"fetch", "end"}

SearchTypes ==
    /\ matches \in [Docs -> {"yes", "no", "absent"}]
    /\ Lists(hits, Docs)
    /\ distance \in [Docs -> Nat]
    /\ request \in Request
    /\ step \in {"filter", "keyword", "vector", "newest", "fetch", "end"}
    /\ allowed \in [all : BOOLEAN, ids : SUBSET Docs]
    /\ Lists(keyword, Docs) /\ Len(keyword) <= KeywordTop
    /\ answer \in Seq(Docs) /\ ids \in Seq(Docs) /\ Lists(Listed, Docs)
    /\ written \subseteq Docs

\* The request takes its statements in their order.
InTurn ==
    /\ ~Fetching => answer = <<>>
    /\ step = "end" => ids = <<>>
    /\ step = "newest" => ~request.query
    /\ step \in {"keyword", "vector"} => request.query

\* What was not written is still there, and passes if it did when the filters
\* were evaluated.
Untouched ==
    /\ \A d \in Undisturbed : matches[d] # "absent"
    /\ step # "filter" =>
         /\ allowed.all = ~request.filter
         /\ request.filter => \A d \in Undisturbed : d \in allowed.ids <=> matches[d] = "yes"

\* The three properties, of the list while it is fetched.
AllAreAllowed == Fetching => \A d \in Elements(Listed) : Allowed(d)

Wanted(d) == d \in Undisturbed /\ Allowed(d) /\ (request.query => Confirmed(d))
NoneIsMissing ==
    Fetching =>
        \/ \A d \in Docs : Wanted(d) => d \in Elements(Listed)
        \/ Len(Listed) + Cardinality(written \ Elements(Listed)) >= Clamped(request.limit)

CloserAhead ==
    Fetching /\ request.query =>
        \A d, e \in Undisturbed :
            /\ Allowed(d) /\ e \in Elements(Listed)
            /\ KeywordRank(d) <= KeywordRank(e)
            /\ distance[d] < distance[e]
            => d \in Elements(Listed) /\ Rank(Listed, d) < Rank(Listed, e)

SearchInv == SearchTypes /\ InTurn /\ Untouched /\ AllAreAllowed /\ NoneIsMissing /\ CloserAhead
-----------------------------------------------------------------------------
(* Fractions *)

Fractions == [n : Nat \ {0}, d : Nat \ {0}]

\* Not being smaller is transitive, strictly so if it is strict once.
LEMMA NotSmallerIsTransitive ==
    ASSUME NEW x \in Fractions, NEW y \in Fractions, NEW z \in Fractions,
           ~Greater(y, x), ~Greater(z, y)
    PROVE  /\ ~Greater(z, x)
           /\ Greater(x, y) \/ Greater(y, z) => Greater(x, z)
<1>1. /\ x.n \in Nat \ {0} /\ x.d \in Nat \ {0}
      /\ y.n \in Nat \ {0} /\ y.d \in Nat \ {0}
      /\ z.n \in Nat \ {0} /\ z.d \in Nat \ {0}
  BY DEF Fractions
<1> QED
  BY <1>1 DEF Greater

\* A sum is larger than each of its terms, and grows with them.
LEMMA SumsAreFractions ==
    ASSUME NEW x \in Fractions, NEW y \in Fractions
    PROVE  Plus(x, y) \in Fractions /\ Greater(Plus(x, y), x) /\ Greater(Plus(x, y), y)
  BY DEF Fractions, Plus, Greater

LEMMA SumsGrow ==
    ASSUME NEW x \in Fractions, NEW y \in Fractions, NEW v \in Fractions, NEW w \in Fractions,
           Greater(x, v), Greater(y, w)
    PROVE  Greater(Plus(x, y), Plus(v, w))
  BY DEF Fractions, Plus, Greater

-----------------------------------------------------------------------------
(* Legs *)

\* Whatever is closer than a member, and confirmed if the member is, comes
\* before it.
Leg(seq) ==
    /\ Lists(seq, Docs)
    /\ \A e \in Elements(seq), d \in Docs :
          distance[d] < distance[e] /\ (Confirmed(e) => Confirmed(d))
          => d \in Elements(seq) /\ Rank(seq, d) < Rank(seq, e)

LEMMA NearerOrders ==
    ASSUME SearchTypes
    PROVE  /\ IsFiniteSet(Docs)
           /\ Orders(Nearer, Docs)
           /\ \A d, e \in Docs : distance[d] < distance[e] => <<d, e>> \in Nearer
<1>1. Docs \subseteq Nat /\ IsFiniteSet(Docs) /\ distance \in [Docs -> Nat]
  BY SearchAssumption DEF SearchTypes
<1>2. \A d \in Docs : d \in Nat /\ distance[d] \in Nat
  BY <1>1
<1>3. ASSUME NEW d \in Docs, NEW e \in Docs
      PROVE  <<d, e>> \in Nearer
             <=> (distance[d] < distance[e] \/ (distance[d] = distance[e] /\ d < e))
  BY <1>2 DEF Nearer
<1>4. Orders(Nearer, Docs)
  <2>1. \A d \in Docs : <<d, d>> \notin Nearer
    BY <1>2, <1>3
  <2>2. \A d, e \in Docs : d # e => <<d, e>> \in Nearer \/ <<e, d>> \in Nearer
    BY <1>2, <1>3
  <2>3. ASSUME NEW d \in Docs, NEW e \in Docs, NEW f \in Docs,
               <<d, e>> \in Nearer, <<e, f>> \in Nearer
        PROVE  <<d, f>> \in Nearer
    BY <1>2, <1>3, <2>3
  <2> QED
    BY <2>1, <2>2, <2>3 DEF Orders
<1> QED
  BY <1>1, <1>3, <1>4

\* The candidates are the closest documents, all of them up to the cap.
LEMMA CandidatesAreClosest ==
    ASSUME SearchTypes
    PROVE  /\ Lists(Candidates, Docs)
           /\ \A e \in Elements(Candidates), d \in Docs :
                 distance[d] < distance[e]
                 => d \in Elements(Candidates) /\ Rank(Candidates, d) < Rank(Candidates, e)
<1> DEFINE S == {d \in Docs : distance[d] # Far}
           sorted == InOrder(S, Nearer)
           near == Cut(sorted, VectorTop)
           T == {d \in Docs : distance[d] <= MaxDistance}
<1>1. /\ IsFiniteSet(Docs) /\ Orders(Nearer, Docs)
      /\ \A d, e \in Docs : distance[d] < distance[e] => <<d, e>> \in Nearer
  BY NearerOrders
<1>2. /\ VectorTop \in Nat /\ MaxDistance \in Nat /\ Far \in Nat /\ Far > MaxDistance
      /\ \A d \in Docs : distance[d] \in Nat
  BY SearchAssumption DEF SearchTypes
<1>3. IsFiniteSet(S) /\ Orders(Nearer, S)
  <2>1. IsFiniteSet(S)
    BY <1>1, FS_Subset
  <2>2. Orders(Nearer, S)
    BY <1>1 DEF Orders
  <2> QED
    BY <2>1, <2>2
<1>4. Candidates = Sift(near, T)
  BY DEF Candidates
<1>5. \A d \in Docs : (d \in S <=> distance[d] # Far) /\ (d \in T <=> distance[d] <= MaxDistance)
  OBVIOUS
<1>6. S \subseteq Docs
  OBVIOUS
<1> HIDE DEF S, T
<1>7. Lists(sorted, S) /\ Elements(sorted) = S
  BY <1>3, InOrderSorts
<1>8. \A d, e \in S : Rank(sorted, d) < Rank(sorted, e) <=> <<d, e>> \in Nearer
  BY <1>3, RanksAreOrder
<1> HIDE DEF sorted
<1>9. Lists(sorted, Docs)
  BY <1>6, <1>7 DEF Lists
<1>10. /\ Lists(near, Docs) /\ Elements(near) = {d \in S : Rank(sorted, d) <= VectorTop}
       /\ \A d \in Elements(near) : Rank(near, d) = Rank(sorted, d)
  BY <1>2, <1>7, <1>9, CutKeeps
<1>11. \A d \in S : Rank(sorted, d) \in Nat
  BY <1>7, <1>9, RankStands
<1> HIDE DEF near
<1>12. /\ Lists(Candidates, Docs)
       /\ Elements(Candidates) = Elements(near) \cap T
       /\ \A d, e \in Elements(Candidates) :
             Rank(Candidates, d) < Rank(Candidates, e) <=> Rank(near, d) < Rank(near, e)
  BY <1>4, <1>10, SiftKeeps
<1>13. ASSUME NEW e \in Elements(Candidates), NEW d \in Docs, distance[d] < distance[e]
       PROVE  d \in Elements(Candidates) /\ Rank(Candidates, d) < Rank(Candidates, e)
  <2>1. e \in Docs /\ e \in S /\ e \in T /\ Rank(sorted, e) <= VectorTop
    BY <1>6, <1>10, <1>12
  <2>2. d \in T /\ d \in S
    BY <1>2, <1>5, <1>13, <2>1
  <2>3. Rank(sorted, d) < Rank(sorted, e)
    BY <1>1, <1>8, <1>13, <2>1, <2>2
  <2>4. Rank(sorted, d) <= VectorTop
    BY <1>2, <1>11, <2>1, <2>2, <2>3
  <2>5. d \in Elements(near)
    BY <1>10, <2>2, <2>4
  <2>6. d \in Elements(Candidates)
    BY <1>12, <2>2, <2>5
  <2> QED
    BY <1>10, <1>12, <1>13, <2>3, <2>5, <2>6
<1> QED
  BY <1>12, <1>13

\* The rules on evidence and margins admit the closer one of two.
LEMMA AdmittedIsLeg ==
    ASSUME SearchTypes, Candidates # <<>>
    PROVE  Leg(Admitted(Candidates))
<1> DEFINE C == Candidates
           T == {d \in Docs : \/ Confirmed(d) \/ distance[d] <= SoloMaxDistance
                              \/ WithinMargin(C, d)}
           A == Admitted(C)
<1>1. /\ Lists(C, Docs)
      /\ \A e \in Elements(C), d \in Docs :
            distance[d] < distance[e] => d \in Elements(C) /\ Rank(C, d) < Rank(C, e)
  BY CandidatesAreClosest
<1>2. /\ \A d \in Docs : distance[d] \in Nat
      /\ SoloMaxDistance \in Nat /\ SoloMargin \in Nat
  BY SearchAssumption DEF SearchTypes
<1>3. C[1] \in Docs
  <2>1. C \in Seq(Docs) /\ C # <<>>
    BY <1>1 DEF Lists
  <2> HIDE DEF C
  <2> QED
    BY <2>1
<1>4. A = Sift(C, T)
  BY DEF Admitted
<1>5. ASSUME NEW d \in Docs, NEW e \in Docs, e \in T, distance[d] < distance[e],
             Confirmed(e) => Confirmed(d)
      PROVE  d \in T
  BY <1>2, <1>3, <1>5 DEF WithinMargin
<1> HIDE DEF C, T, A
<1>6. /\ Lists(A, Docs) /\ Elements(A) = Elements(C) \cap T
      /\ \A d, e \in Elements(A) : Rank(A, d) < Rank(A, e) <=> Rank(C, d) < Rank(C, e)
  BY <1>1, <1>4, SiftKeeps
<1>7. Elements(C) \subseteq Docs
  BY <1>1, RankStands
<1>8. ASSUME NEW e \in Elements(A), NEW d \in Docs, distance[d] < distance[e],
             Confirmed(e) => Confirmed(d)
      PROVE  d \in Elements(A) /\ Rank(A, d) < Rank(A, e)
  <2>1. d \in T /\ d \in Elements(C) /\ Rank(C, d) < Rank(C, e)
    BY <1>1, <1>5, <1>6, <1>7, <1>8
  <2> QED
    BY <1>6, <2>1
<1>9. Leg(A)
  BY <1>6, <1>8 DEF Leg
<1> QED
  BY <1>9 DEF A, C

\* No semantic leg at all.
LEMMA EmptyIsLeg == Leg(<<>>)
  BY DEF Leg, Lists, Distinct, Elements

-----------------------------------------------------------------------------
(* Fusion *)

\* Each document is entered once, by whichever leg found it.
LEMMA EnteredOnce ==
    ASSUME SearchTypes, NEW semantic, Leg(semantic)
    PROVE  /\ Lists(Entered(semantic), Docs)
           /\ Elements(Entered(semantic)) = Elements(keyword) \cup Elements(semantic)
           /\ Elements(Entered(semantic)) \subseteq Docs
<1> DEFINE T == Docs \ Elements(keyword)
           rest == Sift(semantic, T)
<1>1. Lists(keyword, Docs) /\ Lists(semantic, Docs)
  BY DEF SearchTypes, Leg
<1>2. Lists(rest, Docs) /\ Elements(rest) = Elements(semantic) \cap T
  BY <1>1, SiftKeeps
<1>3. Elements(semantic) \subseteq Docs /\ Elements(keyword) \subseteq Docs
  BY <1>1, RankStands
<1>4. /\ Elements(keyword) \cap Elements(rest) = {}
      /\ Elements(keyword) \cup Elements(rest) = Elements(keyword) \cup Elements(semantic)
  BY <1>2, <1>3
<1>5. Entered(semantic) = keyword \o rest
  BY DEF Entered
<1> HIDE DEF rest
<1>6. /\ Lists(keyword \o rest, Docs)
      /\ Elements(keyword \o rest) = Elements(keyword) \cup Elements(rest)
  BY <1>1, <1>2, <1>4, JoinKeeps
<1> QED
  BY <1>3, <1>4, <1>5, <1>6

\* A reciprocal rank is a fraction, and larger for an earlier rank.
LEMMA ReciprocalsFall ==
    ASSUME NEW seq, Lists(seq, Docs), NEW d \in Elements(seq)
    PROVE  /\ Reciprocal(seq, d) \in Fractions
           /\ \A e \in Elements(seq) :
                 Rank(seq, d) < Rank(seq, e) => Greater(Reciprocal(seq, d), Reciprocal(seq, e))
<1>1. RrfK \in Nat /\ \A e \in Elements(seq) : Rank(seq, e) \in Nat \ {0}
  BY RankStands, SearchAssumption
<1> QED
  BY <1>1 DEF Reciprocal, Fractions, Greater

LEMMA ScoresAreFractions ==
    ASSUME SearchTypes, NEW semantic, Leg(semantic), NEW d \in Elements(Entered(semantic))
    PROVE  Score(d, semantic) \in Fractions
<1>1. Lists(keyword, Docs) /\ Lists(semantic, Docs)
  BY DEF SearchTypes, Leg
<1>2. d \in Elements(keyword) \/ d \in Elements(semantic)
  BY EnteredOnce
<1>3. d \in Elements(keyword) => Reciprocal(keyword, d) \in Fractions
  BY <1>1, ReciprocalsFall
<1>4. d \in Elements(semantic) => Reciprocal(semantic, d) \in Fractions
  BY <1>1, ReciprocalsFall
<1>5. d \in Elements(keyword) /\ d \in Elements(semantic)
      => Plus(Reciprocal(keyword, d), Reciprocal(semantic, d)) \in Fractions
  BY <1>3, <1>4, SumsAreFractions
<1> QED
  BY <1>2, <1>3, <1>4, <1>5 DEF Score, Confirmed

\* By score, then in the order they were entered: a strict order.
LEMMA BetterOrders ==
    ASSUME SearchTypes, NEW semantic, Leg(semantic)
    PROVE  Orders(Better(semantic), Elements(Entered(semantic)))
<1> DEFINE E == Entered(semantic)
           sc(d) == Score(d, semantic)
           R == Better(semantic)
<1>1. Lists(E, Docs)
  BY EnteredOnce
<1>2. \A d \in Elements(E) : sc(d) \in Fractions
  BY ScoresAreFractions
<1>3. /\ \A d \in Elements(E) : Rank(E, d) \in Nat
      /\ \A d, e \in Elements(E) : Rank(E, d) = Rank(E, e) => d = e
  BY <1>1, RankStands
<1>4. \A d, e \in Elements(E) :
        <<d, e>> \in R
        <=> (Greater(sc(d), sc(e))
             \/ (~Greater(sc(e), sc(d)) /\ Rank(E, d) < Rank(E, e)))
  BY DEF Better
<1> HIDE DEF E, sc, R
<1>5. ASSUME NEW x \in Fractions, NEW y \in Fractions
      PROVE  /\ ~Greater(x, x)
             /\ ~(Greater(x, y) /\ Greater(y, x))
  BY DEF Fractions, Greater
<1>6. \A d \in Elements(E) : <<d, d>> \notin R
  BY <1>2, <1>3, <1>4, <1>5
<1>7. ASSUME NEW d \in Elements(E), NEW e \in Elements(E), d # e
      PROVE  <<d, e>> \in R \/ <<e, d>> \in R
  <2>1. Rank(E, d) < Rank(E, e) \/ Rank(E, e) < Rank(E, d)
    BY <1>3, <1>7
  <2> QED
    BY <1>4, <2>1
<1>8. ASSUME NEW d \in Elements(E), NEW e \in Elements(E), NEW f \in Elements(E),
             <<d, e>> \in R, <<e, f>> \in R
      PROVE  <<d, f>> \in R
  <2>1. ~Greater(sc(e), sc(d)) /\ ~Greater(sc(f), sc(e))
    BY <1>2, <1>4, <1>5, <1>8
  <2>2. /\ ~Greater(sc(f), sc(d))
        /\ Greater(sc(d), sc(e)) \/ Greater(sc(e), sc(f)) => Greater(sc(d), sc(f))
    BY <1>2, <2>1, NotSmallerIsTransitive
  <2>3. CASE Greater(sc(d), sc(e)) \/ Greater(sc(e), sc(f))
    BY <1>4, <2>2, <2>3
  <2>4. CASE Rank(E, d) < Rank(E, e) /\ Rank(E, e) < Rank(E, f)
    <3>1. Rank(E, d) < Rank(E, f)
      BY <1>3, <2>4
    <3> QED
      BY <1>4, <2>2, <3>1
  <2> QED
    BY <1>4, <1>8, <2>3, <2>4
<1>9. Orders(R, Elements(E))
  BY <1>6, <1>7, <1>8 DEF Orders
<1> QED
  BY <1>9 DEF E, R

\* The ranks of the keyword leg, with that of what it did not find.
LEMMA KeywordRanks ==
    ASSUME SearchTypes, NEW d, NEW e, KeywordRank(d) <= KeywordRank(e), Confirmed(e), d # e
    PROVE  Confirmed(d) /\ Rank(keyword, d) < Rank(keyword, e)
<1>1. /\ Lists(keyword, Docs) /\ Len(keyword) <= KeywordTop /\ KeywordTop \in Nat
  BY SearchAssumption DEF SearchTypes
<1>2. Len(keyword) \in Nat
  BY <1>1, RankStands
<1>3. Rank(keyword, e) \in 1 .. Len(keyword) /\ keyword[Rank(keyword, e)] = e
  BY <1>1, RankStands DEF Confirmed
<1>4. KeywordRank(e) = Rank(keyword, e)
  BY DEF KeywordRank
<1>5. Confirmed(d)
  BY <1>1, <1>2, <1>3, <1>4 DEF KeywordRank
<1>6. Rank(keyword, d) \in 1 .. Len(keyword) /\ keyword[Rank(keyword, d)] = d
  BY <1>1, <1>5, RankStands DEF Confirmed
<1>7. Rank(keyword, d) <= Rank(keyword, e)
  BY <1>4, <1>5 DEF KeywordRank
<1> QED
  BY <1>2, <1>3, <1>5, <1>6, <1>7

\* Closer and not behind by keyword: found as well, and with a better score.
LEMMA CloserScoresBetter ==
    ASSUME SearchTypes, NEW semantic, Leg(semantic), NEW d \in Docs,
           NEW e \in Elements(Entered(semantic)),
           KeywordRank(d) <= KeywordRank(e), distance[d] < distance[e]
    PROVE  /\ d \in Elements(Entered(semantic))
           /\ Greater(Score(d, semantic), Score(e, semantic))
<1> DEFINE kd == Reciprocal(keyword, d)
           ke == Reciprocal(keyword, e)
           sd == Reciprocal(semantic, d)
           se == Reciprocal(semantic, e)
<1>1. Lists(keyword, Docs) /\ Lists(semantic, Docs)
  BY DEF SearchTypes, Leg
<1>2. Elements(Entered(semantic)) = Elements(keyword) \cup Elements(semantic) /\ e \in Docs
  BY EnteredOnce
<1>3. d # e
  BY <1>2 DEF SearchTypes
<1>4. Confirmed(e) => Confirmed(d) /\ Rank(keyword, d) < Rank(keyword, e)
  BY <1>3, KeywordRanks
<1>5. e \in Elements(semantic)
      => d \in Elements(semantic) /\ Rank(semantic, d) < Rank(semantic, e)
  BY <1>4 DEF Leg
<1>6. d \in Elements(Entered(semantic))
  BY <1>2, <1>4, <1>5 DEF Confirmed
<1>7. /\ Confirmed(d) => kd \in Fractions
      /\ Confirmed(e) => ke \in Fractions /\ Greater(kd, ke)
      /\ d \in Elements(semantic) => sd \in Fractions
      /\ e \in Elements(semantic) => se \in Fractions /\ Greater(sd, se)
  BY <1>1, <1>4, <1>5, ReciprocalsFall DEF Confirmed
<1>8. Score(d, semantic) = IF ~Confirmed(d) THEN sd
                           ELSE IF d \in Elements(semantic) THEN Plus(kd, sd) ELSE kd
  BY DEF Score
<1>9. Score(e, semantic) = IF ~Confirmed(e) THEN se
                           ELSE IF e \in Elements(semantic) THEN Plus(ke, se) ELSE ke
  BY DEF Score
<1> HIDE DEF kd, ke, sd, se
<1>10. ASSUME NEW x \in Fractions, NEW y \in Fractions, NEW z \in Fractions,
              Greater(x, y), Greater(y, z)
       PROVE  Greater(x, z)
  <2>1. ~Greater(y, x) /\ ~Greater(z, y)
    BY <1>10 DEF Fractions, Greater
  <2> QED
    BY <1>10, <2>1, NotSmallerIsTransitive
<1>11. CASE Confirmed(e) /\ e \in Elements(semantic)
  BY <1>4, <1>5, <1>7, <1>8, <1>9, <1>11, SumsGrow, <1>6
<1>12. CASE Confirmed(e) /\ e \notin Elements(semantic)
  <2>1. CASE d \in Elements(semantic)
    <3>1. Plus(kd, sd) \in Fractions /\ Greater(Plus(kd, sd), kd)
      BY <1>4, <1>7, <1>12, <2>1, SumsAreFractions
    <3>2. Greater(Plus(kd, sd), ke)
      BY <1>4, <1>7, <1>10, <1>12, <3>1
    <3> QED
      BY <1>4, <1>6, <1>8, <1>9, <1>12, <2>1, <3>2
  <2>2. CASE d \notin Elements(semantic)
    BY <1>4, <1>6, <1>7, <1>8, <1>9, <1>12, <2>2
  <2> QED
    BY <2>1, <2>2
<1>13. CASE ~Confirmed(e)
  <2>1. e \in Elements(semantic)
    BY <1>2, <1>13 DEF Confirmed
  <2>2. CASE Confirmed(d)
    <3>1. Plus(kd, sd) \in Fractions /\ Greater(Plus(kd, sd), sd)
      BY <1>5, <1>7, <2>1, <2>2, SumsAreFractions
    <3>2. Greater(Plus(kd, sd), se)
      BY <1>5, <1>7, <1>10, <2>1, <3>1
    <3> QED
      BY <1>5, <1>6, <1>8, <1>9, <1>13, <2>1, <2>2, <3>2
  <2>3. CASE ~Confirmed(d)
    BY <1>5, <1>6, <1>7, <1>8, <1>9, <1>13, <2>1, <2>3
  <2> QED
    BY <2>2, <2>3
<1> QED
  BY <1>11, <1>12, <1>13

\* The fused list is what the legs found, each document once, a closer one that
\* is not behind by keyword before the other.
LEMMA FusedIsBetter ==
    ASSUME SearchTypes, NEW semantic, Leg(semantic)
    PROVE  /\ Lists(Fused(semantic), Docs)
           /\ Elements(Fused(semantic)) = Elements(keyword) \cup Elements(semantic)
           /\ \A d \in Docs, e \in Elements(Fused(semantic)) :
                 KeywordRank(d) <= KeywordRank(e) /\ distance[d] < distance[e]
                 => /\ d \in Elements(Fused(semantic))
                    /\ Rank(Fused(semantic), d) < Rank(Fused(semantic), e)
<1> DEFINE S == Elements(Entered(semantic))
           R == Better(semantic)
           F == Fused(semantic)
<1>1. S \subseteq Docs /\ S = Elements(keyword) \cup Elements(semantic)
  BY EnteredOnce
<1>2. IsFiniteSet(S)
  BY <1>1, FS_Subset, SearchAssumption
<1>3. Orders(R, S)
  BY BetterOrders
<1>4. F = InOrder(S, R)
  BY DEF Fused
<1>5. ASSUME NEW d \in Docs, NEW e \in S,
             KeywordRank(d) <= KeywordRank(e), distance[d] < distance[e]
      PROVE  d \in S /\ <<d, e>> \in R
  <2>1. d \in S /\ Greater(Score(d, semantic), Score(e, semantic))
    BY <1>5, CloserScoresBetter
  <2> QED
    BY <2>1 DEF Better
<1> HIDE DEF S, R, F
<1>6. Lists(F, S) /\ Elements(F) = S
  BY <1>2, <1>3, <1>4, InOrderSorts
<1>7. \A d, e \in S : Rank(F, d) < Rank(F, e) <=> <<d, e>> \in R
  BY <1>2, <1>3, <1>4, RanksAreOrder
<1>8. Lists(F, Docs)
  BY <1>1, <1>6 DEF Lists
<1> QED
  BY <1>1, <1>5, <1>6, <1>7, <1>8 DEF F

-----------------------------------------------------------------------------
(* Cuts *)

LEMMA ClampedIsPositive ==
    ASSUME SearchTypes PROVE Clamped(request.limit) \in Nat \ {0}
<1>1. request.limit \in Int /\ MaxLimit \in Nat
  BY SearchAssumption DEF SearchTypes, Request
<1> QED
  BY <1>1 DEF Clamped

\* A cut leaves nothing out or returns as much as was asked for.
LEMMA CutIsFull ==
    ASSUME NEW seq, Lists(seq, Docs), NEW n \in Nat
    PROVE  Elements(Cut(seq, n)) = Elements(seq) \/ Len(Cut(seq, n)) = n
<1>1. /\ Len(seq) \in Nat
      /\ \A d \in Elements(seq) : Rank(seq, d) \in 1 .. Len(seq)
  BY RankStands
<1>2. /\ Elements(Cut(seq, n)) = {d \in Elements(seq) : Rank(seq, d) <= n}
      /\ Len(Cut(seq, n)) = IF n < Len(seq) THEN n ELSE Len(seq)
  BY CutKeeps
<1>3. CASE n < Len(seq)
  BY <1>2, <1>3
<1>4. CASE ~(n < Len(seq))
  BY <1>1, <1>2, <1>4
<1> QED
  BY <1>3, <1>4

\* Filtered first, then cut: what is allowed is lost only to a full answer, and
\* never for what stands behind it.
LEMMA FilteredThenCut ==
    ASSUME SearchTypes, NEW ranked, Lists(ranked, Docs)
    PROVE  LET list == FilterThenCut(ranked) IN
           /\ Lists(list, Docs)
           /\ \A d \in Elements(list) : Allowed(d) /\ d \in Elements(ranked)
           /\ \/ \A d \in Elements(ranked) : Allowed(d) => d \in Elements(list)
              \/ Len(list) = Clamped(request.limit)
           /\ \A d \in Elements(ranked), e \in Elements(list) :
                 Allowed(d) /\ Rank(ranked, d) < Rank(ranked, e)
                 => d \in Elements(list) /\ Rank(list, d) < Rank(list, e)
<1> DEFINE n == Clamped(request.limit)
           sifted == Sift(ranked, AllAllowed)
           list == Cut(sifted, n)
<1>1. n \in Nat
  BY ClampedIsPositive
<1>2. Elements(ranked) \subseteq Docs
  BY RankStands
<1>3. \A d \in Elements(ranked) : d \in AllAllowed <=> Allowed(d)
  BY <1>2 DEF AllAllowed
<1>4. FilterThenCut(ranked) = list
  BY DEF FilterThenCut
<1> HIDE DEF n
<1>5. /\ Lists(sifted, Docs)
      /\ Elements(sifted) = Elements(ranked) \cap AllAllowed
      /\ \A d, e \in Elements(sifted) :
            Rank(sifted, d) < Rank(sifted, e) <=> Rank(ranked, d) < Rank(ranked, e)
  BY SiftKeeps
<1> HIDE DEF sifted
<1>6. /\ Lists(list, Docs)
      /\ Elements(list) = {d \in Elements(sifted) : Rank(sifted, d) <= n}
      /\ \A d \in Elements(list) : Rank(list, d) = Rank(sifted, d)
  BY <1>1, <1>5, CutKeeps
<1>7. Elements(list) = Elements(sifted) \/ Len(list) = n
  BY <1>1, <1>5, CutIsFull
<1>8. \A d \in Elements(sifted) : Rank(sifted, d) \in Nat
  BY <1>5, RankStands
<1> HIDE DEF list
<1>9. ASSUME NEW d \in Elements(ranked), NEW e \in Elements(list),
             Allowed(d), Rank(ranked, d) < Rank(ranked, e)
      PROVE  d \in Elements(list) /\ Rank(list, d) < Rank(list, e)
  <2>1. d \in Elements(sifted) /\ e \in Elements(sifted)
    BY <1>3, <1>5, <1>6, <1>9
  <2>2. Rank(sifted, d) < Rank(sifted, e) /\ Rank(sifted, e) <= n
    BY <1>5, <1>6, <1>9, <2>1
  <2>3. Rank(sifted, d) <= n
    BY <1>1, <1>8, <2>1, <2>2
  <2> QED
    BY <1>6, <2>1, <2>2, <2>3
<1>10. \A d \in Elements(list) : Allowed(d) /\ d \in Elements(ranked)
  BY <1>3, <1>5, <1>6
<1>11. \/ \A d \in Elements(ranked) : Allowed(d) => d \in Elements(list)
       \/ Len(list) = n
  BY <1>3, <1>5, <1>7
<1>12. /\ Lists(list, Docs)
       /\ \A d \in Elements(list) : Allowed(d) /\ d \in Elements(ranked)
       /\ \/ \A d \in Elements(ranked) : Allowed(d) => d \in Elements(list)
          \/ Len(list) = n
       /\ \A d \in Elements(ranked), e \in Elements(list) :
             Allowed(d) /\ Rank(ranked, d) < Rank(ranked, e)
             => d \in Elements(list) /\ Rank(list, d) < Rank(list, e)
  BY <1>6, <1>9, <1>10, <1>11
<1> QED
  BY <1>4, <1>12 DEF n
-----------------------------------------------------------------------------
(* Steps *)

\* Every ranking the index may hold is a list.
LEMMA RankingsList == ASSUME NEW seq \in Rankings PROVE Lists(seq, Docs)
<1>1. PICK n \in 0 .. Cardinality(Docs) : seq \in [1 .. n -> Docs] /\ Distinct(seq)
  BY DEF Rankings
<1>2. Cardinality(Docs) \in Nat
  BY SearchAssumption, FS_CardinalityType
<1>3. seq \in Seq(Docs)
  BY <1>1, <1>2
<1> QED
  BY <1>1, <1>3 DEF Lists

LEMMA SearchInitInv == SearchInit => SearchInv
<1> SUFFICES ASSUME SearchInit PROVE SearchInv
  OBVIOUS
<1>1. IsFiniteSet(Docs) /\ Cardinality(Docs) \in Nat /\ Distances \cup {Far} \subseteq Nat
      /\ KeywordTop \in Nat
  BY SearchAssumption, FS_CardinalityType
<1>2. Lists(<<>>, Docs) /\ Listed = <<>> /\ Len(<<>>) = 0
  BY DEF SearchInit, Lists, Distinct, Listed
<1>3. Lists(hits, Docs)
  BY <1>2, RankingsList DEF SearchInit
<1>4. matches \in [Docs -> {"yes", "no", "absent"}] /\ distance \in [Docs -> Nat]
  BY <1>1 DEF SearchInit, Verdicts
<1>5. SearchTypes
  BY <1>1, <1>2, <1>3, <1>4 DEF SearchInit, SearchTypes, NoFilter, Lists
<1>6. InTurn /\ Untouched /\ AllAreAllowed /\ NoneIsMissing /\ CloserAhead
  BY <1>4 DEF SearchInit, InTurn, Untouched, AllAreAllowed, NoneIsMissing, CloserAhead,
     Fetching, Undisturbed, Verdicts
<1> QED
  BY <1>5, <1>6 DEF SearchInv

LEMMA FilterKeepsInv ==
    ASSUME SearchInv, Filter PROVE SearchInv'
<1> USE DEF Filter, store
<1>1. allowed' \in [all : BOOLEAN, ids : SUBSET Docs]
  BY DEF Filtered, NoFilter
<1>2. Listed' = Listed /\ request.query \in BOOLEAN /\ request.filter \in BOOLEAN
  BY DEF Listed, SearchInv, SearchTypes, Request
<1>3. SearchTypes'
  BY <1>1, <1>2 DEF SearchInv, SearchTypes
<1>4. InTurn'
  BY <1>2 DEF SearchInv, InTurn, Fetching
<1>5. Untouched'
  BY <1>2 DEF SearchInv, SearchTypes, Untouched, Undisturbed, Filtered, NoFilter
<1>6. ~Fetching'
  BY <1>2 DEF Fetching
<1> QED
  BY <1>3, <1>4, <1>5, <1>6 DEF SearchInv, AllAreAllowed, NoneIsMissing, CloserAhead

LEMMA KeywordKeepsInv ==
    ASSUME SearchInv, Keyword PROVE SearchInv'
<1> USE DEF Keyword, store
<1>1. Lists(keyword', Docs) /\ Len(keyword') <= KeywordTop
  <2>1. KeywordTop \in Nat /\ Lists(hits, Docs) /\ Len(hits) \in Nat
    BY SearchAssumption, RankStands DEF SearchInv, SearchTypes
  <2>2. /\ Lists(Cut(hits, KeywordTop), Docs)
        /\ Len(Cut(hits, KeywordTop)) = IF KeywordTop < Len(hits) THEN KeywordTop ELSE Len(hits)
    BY <2>1, CutKeeps
  <2> QED
    BY <2>1, <2>2
<1>2. Listed' = Listed
  BY DEF Listed
<1>3. SearchTypes'
  BY <1>1, <1>2 DEF SearchInv, SearchTypes
<1>4. InTurn' /\ Untouched'
  BY DEF SearchInv, InTurn, Fetching, Untouched, Undisturbed
<1>5. ~Fetching'
  BY DEF Fetching
<1> QED
  BY <1>3, <1>4, <1>5 DEF SearchInv, AllAreAllowed, NoneIsMissing, CloserAhead

\* A list that is about to be fetched.
LEMMA ListingKeepsInv ==
    ASSUME SearchInv, ~Fetching, step' = "fetch",
           UNCHANGED <<store, request, allowed, keyword, answer, written>>,
           step # "filter", Lists(ids', Docs),
           \A d \in Elements(ids') : Allowed(d),
           \/ \A d \in Docs : Wanted(d) => d \in Elements(ids')
           \/ Len(ids') = Clamped(request.limit),
           request.query =>
             \A d \in Docs, e \in Elements(ids') :
                 /\ Allowed(d)
                 /\ KeywordRank(d) <= KeywordRank(e)
                 /\ distance[d] < distance[e]
                 => d \in Elements(ids') /\ Rank(ids', d) < Rank(ids', e)
    PROVE  SearchInv'
<1>1. answer = <<>> /\ answer' = <<>> /\ ids' \in Seq(Docs)
  BY DEF SearchInv, InTurn, Lists
<1>2. Listed' = ids'
  BY <1>1 DEF Listed
<1>3. SearchTypes'
  BY <1>1, <1>2 DEF SearchInv, SearchTypes, store
<1>4. InTurn' /\ Untouched'
  BY <1>1 DEF SearchInv, InTurn, Fetching, Untouched, Undisturbed, store
<1>5. AllAreAllowed'
  BY <1>2 DEF AllAreAllowed, Allowed
<1>6. NoneIsMissing'
  <2>1. Clamped(request.limit)' = Clamped(request.limit)
    BY DEF Clamped
  <2>2. \A d \in Docs : Wanted(d)' <=> Wanted(d)
    BY DEF Wanted, Undisturbed, Allowed, Confirmed, store
  <2>3. CASE \A d \in Docs : Wanted(d) => d \in Elements(ids')
    BY <1>2, <2>2, <2>3 DEF NoneIsMissing
  <2>4. CASE Len(ids') = Clamped(request.limit)
    <3>1. IsFiniteSet((written \ Elements(Listed))')
      BY FS_Subset, SearchAssumption DEF SearchInv, SearchTypes
    <3>2. Cardinality((written \ Elements(Listed))') \in Nat /\ Clamped(request.limit) \in Nat
      BY <3>1, FS_CardinalityType, ClampedIsPositive DEF SearchInv
    <3> QED
      BY <1>2, <2>1, <2>4, <3>2 DEF NoneIsMissing
  <2> QED
    BY <2>3, <2>4
<1>7. CloserAhead'
  <2>1. \A d : KeywordRank(d)' = KeywordRank(d) /\ (Allowed(d)' <=> Allowed(d))
    BY DEF KeywordRank, Confirmed, Allowed
  <2>2. distance' = distance /\ request' = request /\ Undisturbed' \subseteq Docs
    BY DEF store, Undisturbed
  <2> QED
    BY <1>2, <2>1, <2>2 DEF CloserAhead
<1> QED
  BY <1>3, <1>4, <1>5, <1>6, <1>7 DEF SearchInv

LEMMA NewestKeepsInv ==
    ASSUME SearchInv, Newest PROVE SearchInv'
<1> DEFINE S == {d \in Docs : matches[d] # "absent" /\ Allowed(d)}
           sorted == InOrder(S, Newer)
           n == Clamped(request.limit)
<1>1. Docs \subseteq Nat /\ IsFiniteSet(Docs)
  BY SearchAssumption
<1>2. IsFiniteSet(S) /\ S \subseteq Docs
  BY <1>1, FS_Subset
<1>3. Orders(Newer, S)
  BY <1>1 DEF Newer, Orders
<1>4. \A d \in S : Allowed(d)
  OBVIOUS
<1>5. \A d \in Docs : Wanted(d) => d \in S
  BY DEF SearchInv, Untouched, Wanted
<1>6. n \in Nat /\ ids' = Cut(sorted, n)
  BY ClampedIsPositive DEF SearchInv, Newest
<1> HIDE DEF S, n
<1>7. Lists(sorted, S) /\ Elements(sorted) = S
  BY <1>2, <1>3, InOrderSorts
<1>8. Lists(sorted, Docs)
  BY <1>2, <1>7 DEF Lists
<1> HIDE DEF sorted
<1>9. Lists(ids', Docs) /\ Elements(ids') \subseteq S
  BY <1>6, <1>7, <1>8, CutKeeps
<1>10. Elements(ids') = S \/ Len(ids') = n
  BY <1>6, <1>7, <1>8, CutIsFull
<1>11. /\ ~Fetching /\ step' = "fetch" /\ step # "filter" /\ ~request.query
       /\ UNCHANGED <<store, request, allowed, keyword, answer, written>>
  BY DEF SearchInv, InTurn, Newest, Fetching
<1> QED
  BY <1>4, <1>5, <1>9, <1>10, <1>11, ListingKeepsInv DEF n

LEMMA VectorKeepsInv ==
    ASSUME SearchInv, Vector PROVE SearchInv'
<1>1. SearchTypes
  BY DEF SearchInv
<1>2. PICK semantic : Leg(semantic) /\ ids' = FilterThenCut(Fused(semantic))
  <2>1. PICK embedded \in BOOLEAN :
          ids' = FilterThenCut(Fused(IF embedded /\ Candidates # <<>> THEN Admitted(Candidates)
                                     ELSE <<>>))
    BY DEF Vector
  <2>2. Leg(IF embedded /\ Candidates # <<>> THEN Admitted(Candidates) ELSE <<>>)
    BY <1>1, AdmittedIsLeg, EmptyIsLeg
  <2> QED
    BY <2>1, <2>2
<1> DEFINE F == Fused(semantic)
<1>3. /\ Lists(F, Docs) /\ Elements(F) = Elements(keyword) \cup Elements(semantic)
      /\ \A d \in Docs, e \in Elements(F) :
            KeywordRank(d) <= KeywordRank(e) /\ distance[d] < distance[e]
            => d \in Elements(F) /\ Rank(F, d) < Rank(F, e)
  BY <1>1, <1>2, FusedIsBetter
<1> HIDE DEF F
<1>4. /\ Lists(ids', Docs)
      /\ \A d \in Elements(ids') : Allowed(d) /\ d \in Elements(F)
      /\ \/ \A d \in Elements(F) : Allowed(d) => d \in Elements(ids')
         \/ Len(ids') = Clamped(request.limit)
      /\ \A d \in Elements(F), e \in Elements(ids') :
            Allowed(d) /\ Rank(F, d) < Rank(F, e)
            => d \in Elements(ids') /\ Rank(ids', d) < Rank(ids', e)
  <2>1. ids' = FilterThenCut(F)
    BY <1>2 DEF F
  <2> QED
    BY <1>1, <1>3, <2>1, FilteredThenCut
<1>5. /\ ~Fetching /\ step' = "fetch" /\ step # "filter" /\ request.query
      /\ UNCHANGED <<store, request, allowed, keyword, answer, written>>
  BY DEF SearchInv, InTurn, Vector, Fetching
<1>6. \A d \in Docs : Wanted(d) => Allowed(d) /\ d \in Elements(F)
  BY <1>3, <1>5 DEF Wanted, Confirmed
<1>7. ASSUME NEW d \in Docs, NEW e \in Elements(ids'), Allowed(d),
             KeywordRank(d) <= KeywordRank(e), distance[d] < distance[e]
      PROVE  d \in Elements(ids') /\ Rank(ids', d) < Rank(ids', e)
  <2>1. e \in Elements(F)
    BY <1>4
  <2>2. d \in Elements(F) /\ Rank(F, d) < Rank(F, e)
    BY <1>3, <1>7, <2>1
  <2> QED
    BY <1>4, <1>7, <2>2
<1> QED
  BY <1>4, <1>5, <1>6, <1>7, ListingKeepsInv

\* Taking a document out of the list that was absent: it was written.
LEMMA FetchKeepsInv ==
    ASSUME SearchInv, Fetch PROVE SearchInv'
<1>1. /\ SearchTypes /\ InTurn /\ Untouched /\ AllAreAllowed /\ NoneIsMissing /\ CloserAhead
      /\ answer \in Seq(Docs) /\ ids \in Seq(Docs) /\ Lists(Listed, Docs)
  BY DEF SearchInv, SearchTypes
<1>2. /\ step = "fetch" /\ Fetching
      /\ UNCHANGED <<matches, hits, distance, request, allowed, keyword, written>>
  BY DEF Fetch, store, Fetching
<1>3. /\ Untouched'
      /\ \A d : (Allowed(d)' <=> Allowed(d)) /\ (Wanted(d)' <=> Wanted(d))
      /\ \A d : KeywordRank(d)' = KeywordRank(d)
      /\ Clamped(request.limit)' = Clamped(request.limit)
      /\ Undisturbed' = Undisturbed
  <2>1. step' \in {"fetch", "end"}
    BY <1>2 DEF Fetch
  <2> QED
    BY <1>1, <1>2, <2>1 DEF Untouched, Undisturbed, Allowed, Wanted, Confirmed, KeywordRank,
       Clamped
<1>4. CASE ids = <<>>
  <2>1. step' = "end" /\ ids' = ids /\ answer' = answer /\ Listed' = Listed
    BY <1>4 DEF Fetch, Listed
  <2>2. SearchTypes' /\ InTurn'
    BY <1>1, <1>2, <1>4, <2>1 DEF SearchTypes, InTurn, Fetching
  <2>3. AllAreAllowed' /\ NoneIsMissing'
    BY <1>1, <1>2, <1>3, <2>1 DEF AllAreAllowed, NoneIsMissing
  <2>4. CloserAhead'
    BY <1>1, <1>2, <1>3, <2>1 DEF CloserAhead
  <2> QED
    BY <1>3, <2>2, <2>3, <2>4 DEF SearchInv
<1>5. CASE ids # <<>> /\ matches[Head(ids)] # "absent"
  <2>1. step' = step /\ ids' = Tail(ids) /\ answer' = Append(answer, Head(ids))
    BY <1>5 DEF Fetch
  <2>2. Head(ids) \in Docs /\ Tail(ids) \in Seq(Docs) /\ answer' \in Seq(Docs)
    BY <1>1, <1>5, <2>1
  <2>3. Listed' = Listed
    BY <1>1, <1>5, <2>1, <2>2 DEF Listed
  <2>4. SearchTypes' /\ InTurn'
    BY <1>1, <1>2, <2>1, <2>2, <2>3 DEF SearchTypes, InTurn, Fetching
  <2>5. AllAreAllowed' /\ NoneIsMissing'
    BY <1>1, <1>2, <1>3, <2>3 DEF AllAreAllowed, NoneIsMissing
  <2>6. CloserAhead'
    BY <1>1, <1>2, <1>3, <2>3 DEF CloserAhead
  <2> QED
    BY <1>3, <2>4, <2>5, <2>6 DEF SearchInv
<1>6. CASE ids # <<>> /\ matches[Head(ids)] = "absent"
  <2> DEFINE h == Head(ids)
             L == answer \o ids
             M == answer \o Tail(ids)
  <2>1. step' = step /\ ids' = Tail(ids) /\ answer' = answer
    BY <1>6 DEF Fetch
  <2>2. Tail(ids) \in Seq(Docs) /\ Listed = L /\ Listed' = M
    BY <1>1, <1>6, <2>1 DEF Listed
  <2>3. /\ Lists(M, Docs) /\ Elements(M) = Elements(L) \ {h} /\ h \in Elements(L)
        /\ Len(L) = Len(M) + 1
        /\ \A d, e \in Elements(M) : Rank(L, d) < Rank(L, e) => Rank(M, d) < Rank(M, e)
    <3>1. Lists(L, Docs) /\ answer \in Seq(Docs) /\ ids \in Seq(Docs) /\ ids # <<>>
      BY <1>1, <1>6, <2>2
    <3>2. L = answer \o ids /\ M = answer \o Tail(ids)
      OBVIOUS
    <3> HIDE DEF L, M, h
    <3>3. Lists(M, Docs) /\ Len(L) = Len(M) + 1 /\ Head(ids) \in Elements(L)
      BY <3>1, <3>2, DropKeeps
    <3>4. \A d : d \in Elements(M) <=> d \in Elements(L) /\ d # Head(ids)
      BY <3>1, <3>2, DropKeeps
    <3>5. \A d, e \in Elements(M) : Rank(L, d) < Rank(L, e) => Rank(M, d) < Rank(M, e)
      BY <3>1, <3>2, DropKeeps
    <3> QED
      BY <3>3, <3>4, <3>5 DEF h
  <2> HIDE DEF h, L, M
  <2>4. h \in Docs /\ h \notin Undisturbed /\ h \in written
    <3>1. h \in Docs
      BY <1>1, <1>6 DEF h
    <3>2. matches[h] = "absent"
      BY <1>6 DEF h
    <3> QED
      BY <1>1, <3>1, <3>2 DEF Untouched, Undisturbed
  <2>5. SearchTypes' /\ InTurn'
    BY <1>1, <1>2, <2>1, <2>2, <2>3 DEF SearchTypes, InTurn, Fetching
  <2>6. AllAreAllowed'
    BY <1>1, <1>2, <1>3, <2>2, <2>3 DEF AllAreAllowed
  <2>7. NoneIsMissing'
    <3>1. CASE \A d \in Docs : Wanted(d) => d \in Elements(L)
      BY <1>3, <2>2, <2>3, <2>4, <3>1 DEF NoneIsMissing, Wanted
    <3>2. CASE Len(L) + Cardinality(written \ Elements(L)) >= Clamped(request.limit)
      <4> DEFINE W == written \ Elements(L)
      <4>1. IsFiniteSet(W)
        BY <1>1, FS_Subset, SearchAssumption DEF SearchTypes
      <4>2. written \ Elements(M) = W \cup {h} /\ h \notin W
        BY <2>3, <2>4
      <4> HIDE DEF W
      <4>3. Cardinality(W \cup {h}) = Cardinality(W) + 1 /\ Cardinality(W) \in Nat
        BY <4>1, <4>2, FS_AddElement, FS_CardinalityType
      <4>4. Len(M) \in Nat /\ Clamped(request.limit) \in Nat
        BY <1>1, <2>3, RankStands, ClampedIsPositive
      <4>5. Len(M) + Cardinality(W \cup {h}) >= Clamped(request.limit)
        BY <2>3, <3>2, <4>3, <4>4 DEF W
      <4> QED
        BY <1>2, <1>3, <2>2, <4>2, <4>5 DEF NoneIsMissing
    <3> QED
      BY <1>1, <1>2, <2>2, <3>1, <3>2 DEF NoneIsMissing
  <2>8. CloserAhead'
    BY <1>1, <1>2, <1>3, <2>2, <2>3, <2>4 DEF CloserAhead
  <2> QED
    BY <1>3, <2>5, <2>6, <2>7, <2>8 DEF SearchInv
<1> QED
  BY <1>4, <1>5, <1>6

\* A write takes its document from what the properties speak of.
LEMMA WriteKeepsInv ==
    ASSUME SearchInv, NEW d \in Docs, UNCHANGED frame, written' = written \cup {d},
           matches' \in [Docs -> {"yes", "no", "absent"}],
           distance' \in [Docs -> Nat],
           \A e \in Docs \ {d} : matches'[e] = matches[e] /\ distance'[e] = distance[e],
           Lists(hits', Docs)
    PROVE  SearchInv'
<1>1. /\ SearchTypes /\ InTurn /\ Untouched /\ AllAreAllowed /\ NoneIsMissing /\ CloserAhead
      /\ Lists(Listed, Docs)
  BY DEF SearchInv, SearchTypes
<1>2. /\ UNCHANGED <<request, step, allowed, keyword, ids, answer>>
      /\ Listed' = Listed /\ (Fetching' <=> Fetching)
      /\ Undisturbed' = Undisturbed \ {d}
  BY DEF frame, Listed, Fetching, Undisturbed
<1>3. /\ \A e : (Allowed(e)' <=> Allowed(e)) /\ KeywordRank(e)' = KeywordRank(e)
      /\ \A e : Wanted(e)' => Wanted(e)
      /\ Clamped(request.limit)' = Clamped(request.limit)
  BY <1>2 DEF Allowed, KeywordRank, Confirmed, Wanted, Clamped
<1>4. SearchTypes' /\ InTurn'
  BY <1>1, <1>2 DEF SearchTypes, InTurn, Fetching
<1>5. Untouched'
  BY <1>1, <1>2 DEF Untouched, Undisturbed
<1>6. AllAreAllowed'
  BY <1>1, <1>2, <1>3 DEF AllAreAllowed
<1>7. NoneIsMissing'
  <2>1. CASE \A e \in Docs : Wanted(e) => e \in Elements(Listed)
    BY <1>2, <1>3, <2>1 DEF NoneIsMissing
  <2>2. CASE Len(Listed) + Cardinality(written \ Elements(Listed)) >= Clamped(request.limit)
    <3>1. IsFiniteSet(written' \ Elements(Listed))
      BY <1>4, FS_Subset, SearchAssumption DEF SearchTypes
    <3>2. /\ Cardinality(written \ Elements(Listed)) \in Nat
          /\ Cardinality(written' \ Elements(Listed)) \in Nat
          /\ Cardinality(written \ Elements(Listed)) <= Cardinality(written' \ Elements(Listed))
      BY <3>1, FS_Subset, FS_CardinalityType
    <3>3. Len(Listed) \in Nat /\ Clamped(request.limit) \in Nat
      BY <1>1, RankStands, ClampedIsPositive
    <3> QED
      BY <1>2, <1>3, <2>2, <3>2, <3>3 DEF NoneIsMissing
  <2> QED
    BY <1>1, <1>2, <2>1, <2>2 DEF NoneIsMissing
<1>8. CloserAhead'
  BY <1>1, <1>2, <1>3 DEF CloserAhead, Undisturbed
<1> QED
  BY <1>4, <1>5, <1>6, <1>7, <1>8 DEF SearchInv

LEMMA CorrectKeepsInv ==
    ASSUME SearchInv, NEW d \in Docs, Correct(d) PROVE SearchInv'
<1>1. /\ matches \in [Docs -> {"yes", "no", "absent"}] /\ distance \in [Docs -> Nat]
      /\ Lists(hits, Docs)
  BY DEF SearchInv, SearchTypes
<1>2. Verdicts \subseteq {"yes", "no", "absent"}
  BY DEF Verdicts
<1> QED
  BY <1>1, <1>2, WriteKeepsInv DEF Correct

LEMMA RebuildKeepsInv ==
    ASSUME SearchInv, NEW d \in Docs, Rebuild(d) PROVE SearchInv'
<1>1. /\ matches \in [Docs -> {"yes", "no", "absent"}] /\ distance \in [Docs -> Nat]
      /\ Distances \cup {Far} \subseteq Nat
  BY SearchAssumption DEF SearchInv, SearchTypes
<1>2. Lists(hits', Docs)
  BY RankingsList DEF Rebuild
<1>3. distance' \in [Docs -> Nat] /\ \A e \in Docs \ {d} : distance'[e] = distance[e]
  BY <1>1 DEF Rebuild
<1>4. written' = written \cup {d} /\ UNCHANGED <<matches, frame>>
  BY DEF Rebuild
<1> QED
  BY <1>1, <1>2, <1>3, <1>4, WriteKeepsInv

LEMMA DeleteKeepsInv ==
    ASSUME SearchInv, NEW d \in Docs, Delete(d) PROVE SearchInv'
<1>1. /\ matches \in [Docs -> {"yes", "no", "absent"}] /\ distance \in [Docs -> Nat]
      /\ Lists(hits, Docs) /\ Far \in Nat
  BY SearchAssumption DEF SearchInv, SearchTypes
<1>2. Lists(hits', Docs)
  BY <1>1, SiftKeeps DEF Delete
<1> QED
  BY <1>1, <1>2, WriteKeepsInv DEF Delete

LEMMA SearchKeepsInv == SearchInv /\ [SearchNext]_searchVars => SearchInv'
<1> SUFFICES ASSUME SearchInv, [SearchNext]_searchVars PROVE SearchInv'
  OBVIOUS
<1>1. CASE Filter
  BY <1>1, FilterKeepsInv
<1>2. CASE Newest
  BY <1>2, NewestKeepsInv
<1>3. CASE Keyword
  BY <1>3, KeywordKeepsInv
<1>4. CASE Vector
  BY <1>4, VectorKeepsInv
<1>5. CASE Fetch
  BY <1>5, FetchKeepsInv
<1>6. CASE \E d \in Docs : Correct(d) \/ Rebuild(d) \/ Delete(d)
  BY <1>6, CorrectKeepsInv, RebuildKeepsInv, DeleteKeepsInv
<1>7. CASE UNCHANGED searchVars
  BY <1>7 DEF searchVars, store, frame, SearchInv, SearchTypes, InTurn, Untouched, AllAreAllowed,
     NoneIsMissing, CloserAhead, Fetching, Listed, Undisturbed, Allowed, Wanted, Confirmed,
     KeywordRank, Clamped
<1> QED
  BY <1>1, <1>2, <1>3, <1>4, <1>5, <1>6, <1>7 DEF SearchNext

\* The invariant: what is answered and still to be fetched is, at every step of
\* the fetch, allowed, complete or full, and ordered by closeness.
THEOREM SearchInvHolds == SearchSpec => []SearchInv
  BY SearchInitInv, SearchKeepsInv, PTL DEF SearchSpec

\* What passes was allowed.
LEMMA PassingIsAllowed ==
    ASSUME SearchInv, Answered
    PROVE  /\ Listed = answer /\ Fetching
           /\ \A d \in Undisturbed : Passes(d) <=> Allowed(d)
<1>1. step = "end" /\ ids = <<>> /\ answer \in Seq(Docs) /\ request.filter \in BOOLEAN
  BY DEF Answered, SearchInv, SearchTypes, InTurn, Request
<1>2. Listed = answer /\ Fetching
  BY <1>1 DEF Listed, Fetching
<1>3. \A d \in Undisturbed : Passes(d) <=> Allowed(d)
  <2>1. CASE request.filter
    BY <1>1, <2>1 DEF SearchInv, Untouched, Passes, Allowed
  <2>2. CASE ~request.filter
    BY <1>1, <2>2 DEF SearchInv, Untouched, Passes, Allowed
  <2> QED
    BY <2>1, <2>2
<1> QED
  BY <1>2, <1>3

\* A document in an answer satisfies the request's filters, or was corrected or
\* removed after the filters were evaluated: neither leg, nor the fusion, nor
\* the fetch of the rows brings in what the filters excluded, whatever the
\* distances, the limits and the ranks.
THEOREM AnswersPassHolds == SearchSpec => []AnswersPass
<1>1. SearchInv => AnswersPass
  <2> SUFFICES ASSUME SearchInv, Answered, NEW d \in Elements(answer), d \notin written
               PROVE  Passes(d)
    BY DEF AnswersPass
  <2>1. Listed = answer /\ Fetching /\ Lists(answer, Docs)
    BY PassingIsAllowed DEF SearchInv, SearchTypes
  <2>2. d \in Undisturbed /\ Allowed(d)
    BY <2>1, RankStands DEF SearchInv, AllAreAllowed, Undisturbed
  <2> QED
    BY <2>2, PassingIsAllowed
<1> QED
  BY <1>1, SearchInvHolds, PTL

\* Of the keyword hits within the leg's cut, and of all documents when there is
\* no query, one that passes is in the answer, unless the answer is full: the
\* semantic leg does not displace it, and the last cut comes after the filter.
\* Of the hits past the leg's cut nothing is said: NothingLost is false of them.
THEOREM TopHitsHold == SearchSpec => []TopHitsKept
<1>1. SearchInv => TopHitsKept
  <2> SUFFICES ASSUME SearchInv, Answered, NEW d \in Docs, Passes(d), ~Shown(d),
                      request.query => Confirmed(d)
               PROVE  Full
    BY DEF TopHitsKept
  <2>1. Listed = answer /\ Fetching /\ Lists(answer, Docs) /\ written \subseteq Docs
    BY PassingIsAllowed DEF SearchInv, SearchTypes
  <2>2. d \in Undisturbed /\ Allowed(d)
    BY PassingIsAllowed DEF Passes
  <2>3. Len(answer) + Cardinality(written \ Elements(answer)) >= Clamped(request.limit)
    BY <2>1, <2>2 DEF SearchInv, NoneIsMissing, Wanted, Shown
  <2>4. IsFiniteSet(written) /\ IsFiniteSet(written \ Elements(answer))
    BY <2>1, FS_Subset, SearchAssumption
  <2>5. /\ Cardinality(written \ Elements(answer)) <= Cardinality(written)
        /\ Cardinality(written \ Elements(answer)) \in Nat /\ Cardinality(written) \in Nat
    BY <2>4, FS_Subset, FS_CardinalityType
  <2>6. Len(answer) \in Nat /\ Clamped(request.limit) \in Nat
    BY <2>1, RankStands, ClampedIsPositive DEF SearchInv
  <2> QED
    BY <2>3, <2>5, <2>6 DEF Full
<1> QED
  BY <1>1, SearchInvHolds, PTL

\* A document that is closer to the query than another, and not behind it by
\* keyword, comes before it and is not left out for it, for every setting of
\* the cap, the margin, the evidence threshold and k: the fused scores are
\* compared as exact fractions.
THEOREM BetterFirstHolds == SearchSpec => []BetterFirst
<1>1. SearchInv => BetterFirst
  <2> SUFFICES ASSUME SearchInv, Answered, request.query, NEW d \in Undisturbed,
                      NEW e \in Undisturbed, Passes(d), Shown(e),
                      KeywordRank(d) <= KeywordRank(e), distance[d] < distance[e]
               PROVE  Shown(d) /\ Rank(answer, d) < Rank(answer, e)
    BY DEF BetterFirst
  <2>1. Listed = answer /\ Fetching /\ Allowed(d)
    BY PassingIsAllowed
  <2> QED
    BY <2>1 DEF SearchInv, CloserAhead, Shown
<1> QED
  BY <1>1, SearchInvHolds, PTL
==============================================================================

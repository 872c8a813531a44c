-------------------------- MODULE TokenStoreProofs --------------------------
(***************************************************************************)
(* Safety of the device tokens, for all sets of requests, processes and    *)
(* names: tokens.json is always whole, and unless two processes were       *)
(* saving at once, pairings stand and revoked tokens stay revoked.         *)
(***************************************************************************)
EXTENDS TokenStore, TLAPS

\* API requests are in the critical section only with the lock, which the
\* command line tool does not wait for.
Locking ==
    /\ \A r \in Requests \ Clis : request[r].pc \in {"load"} \cup Saving => lock = r
    /\ \A r \in Clis : request[r].pc # "lock"

\* What is about to be renamed is what its request wrote, and whole.
Written ==
    \A r \in Requests : request[r].pc = "replace" =>
        tmp[Proc(r)] = [whole |-> TRUE, tokens |-> Modified(r)]

WholeInv == TypeOK /\ Locking /\ Written /\ NeverHalfWritten

\* Short of processes that save at once, at most one request saves, and what it
\* loaded is what the file holds.
OneSaves ==
    ~mixed =>
        /\ \A r, q \in Requests : request[r].pc \in Saving /\ request[q].pc \in Saving => r = q
        /\ \A r \in Requests : request[r].pc \in Saving => request[r].tokens = file.tokens

\* A token stands at the name it was minted for, by a request that is through.
Minted(t, n) ==
    t \in Requests /\ request[t].pc = "ok" /\ request[t].op = "add" /\ request[t].name = n
Placed ==
    /\ \A n \in Names : file.tokens[n] \in {NoToken, n} \/ Minted(file.tokens[n], n)
    /\ \A r \in Requests : request[r].pc \in Saving =>
         \A n \in Names : request[r].tokens[n] \in {NoToken, n} \/ Minted(request[r].tokens[n], n)

\* The name to revoke was paired when it was loaded.
Revocable ==
    \A r \in Requests : request[r].pc \in Saving =>
        (request[r].op = "add") = (request[r].tokens[request[r].name] = NoToken)

\* Revoked tokens were paired before or have been minted.
Spent == \A t \in revoked : t \in Names \/ (t \in Requests /\ request[t].pc = "ok")

History == OneSaves /\ Placed /\ Spent /\ Revocable /\ RevokedStays /\ PairingStands

-----------------------------------------------------------------------------
(* Types *)

LEMMA ProcFacts ==
    /\ Api \in Process
    /\ \A r \in Requests : Proc(r) \in Process
    /\ \A r, q \in Requests : Proc(r) = Proc(q) => r = q \/ (r \notin Clis /\ q \notin Clis)
  BY TokenStoreAssumption DEF Proc, Process

\* What a frame may become: a new place, and new columns of their types.
LEMMA FrameChange ==
    ASSUME request \in [Requests -> Frame], NEW r \in Requests, NEW pc \in RequestPc,
           Goto(r, pc)
    PROVE  /\ request' \in [Requests -> Frame]
           /\ request'[r] = [request[r] EXCEPT !.pc = pc]
           /\ request'[r].pc = pc /\ request'[r].op = request[r].op
           /\ request'[r].name = request[r].name /\ request'[r].tokens = request[r].tokens
           /\ request'[r].credential = request[r].credential
           /\ \A q \in Requests \ {r} : request'[q] = request[q]
  BY DEF Goto, Frame

LEMMA InitTypes == Init => TypeOK
  <1> SUFFICES ASSUME Init PROVE TypeOK
    OBVIOUS
  <1>1. file \in Content
    BY DEF Init, Content, Devices, Token
  <1>2. NoDevices \in Devices
    BY DEF NoDevices, Devices
  <1>3. tmp \in [Process -> Content]
    BY <1>2 DEF Init, Truncated, Content
  <1>4. Unmade \in Frame
    BY <1>2, TokenStoreAssumption DEF Unmade, Frame, RequestPc, Token
  <1>5. request \in [Requests -> Frame]
    BY <1>4 DEF Init
  <1>6. lock = Free /\ revoked \subseteq Token \cup {NoToken} /\ mixed \in BOOLEAN
    BY DEF Init
  <1>7. kills \in 0 .. MaxKills
    BY TokenStoreAssumption DEF Init
  <1> QED
    BY <1>1, <1>3, <1>5, <1>6, <1>7 DEF TypeOK

LEMMA ModifiedType ==
    ASSUME TypeOK, NEW r \in Requests
    PROVE  Modified(r) \in Devices
  BY DEF TypeOK, Modified, Frame, Devices, Token

\* A step of r that only moves it: the lock stays with a request in its
\* critical section if r stays there or gives it up.
LEMMA MoveTypes ==
    ASSUME TypeOK, NEW r \in Requests, NEW pc \in RequestPc, Goto(r, pc),
           \/ lock' = lock /\ (request[r].pc \in {"load"} \cup Saving => pc \in {"load"} \cup Saving)
           \/ Release(r)
           \/ r \notin Clis /\ pc = "load" /\ lock' = r
    PROVE  /\ request' \in [Requests -> Frame]
           /\ lock' \in Requests \cup {Free}
           /\ lock' # Free => lock' \notin Clis /\ request'[lock'].pc \in {"load"} \cup Saving
  <1>1. request' \in [Requests -> Frame] /\ request'[r].pc = pc
        /\ \A q \in Requests \ {r} : request'[q] = request[q]
    BY FrameChange DEF TypeOK
  <1> QED
    BY <1>1, TokenStoreAssumption DEF TypeOK, Release

LEMMA AuthenticateTypes ==
    ASSUME TypeOK, NEW r \in Requests, Authenticate(r)
    PROVE  TypeOK'
  <1>1. request' \in [Requests -> Frame]
    <2>1. PICK credential \in Token \cup {NoToken}, op \in {"add", "revoke"}, name \in Names :
            \/ request' = [request EXCEPT ![r] =
                 [@ EXCEPT !.pc = "lock", !.credential = credential, !.op = op, !.name = name]]
            \/ Goto(r, "refused")
      BY DEF Authenticate
    <2>2. [request[r] EXCEPT !.pc = "lock", !.credential = credential, !.op = op, !.name = name]
            \in Frame
      BY DEF TypeOK, Frame, RequestPc
    <2>3. CASE Goto(r, "refused")
      BY <2>3, FrameChange DEF TypeOK, RequestPc
    <2> QED
      BY <2>1, <2>2, <2>3 DEF TypeOK
  <1>2. \A q \in Requests \ {r} : request'[q] = request[q]
    BY DEF Authenticate, Goto, TypeOK
  <1>3. request[r].pc = "idle"
    BY DEF Authenticate
  <1> QED
    BY <1>1, <1>2, <1>3, TokenStoreAssumption DEF TypeOK, Authenticate, Saving

LEMMA StartCliTypes ==
    ASSUME TypeOK, NEW r \in Requests, StartCli(r)
    PROVE  TypeOK'
  <1>1. request' \in [Requests -> Frame]
    <2>1. PICK op \in {"add", "revoke"}, name \in Names :
            request' = [request EXCEPT ![r] = [@ EXCEPT !.pc = "load", !.op = op, !.name = name]]
      BY DEF StartCli
    <2>2. [request[r] EXCEPT !.pc = "load", !.op = op, !.name = name] \in Frame
      BY DEF TypeOK, Frame, RequestPc
    <2> QED
      BY <2>1, <2>2 DEF TypeOK
  <1>2. \A q \in Requests \ {r} : request'[q] = request[q]
    BY DEF StartCli, TypeOK
  <1> QED
    BY <1>1, <1>2, TokenStoreAssumption DEF TypeOK, StartCli, Saving

LEMMA LoadTypes ==
    ASSUME TypeOK, NEW r \in Requests, Load(r)
    PROVE  TypeOK'
  <1>1. mixed' \in BOOLEAN
    BY DEF Load, TypeOK
  <1>2. CASE Applicable(r)
    <2>1. file.tokens \in Devices
      BY DEF TypeOK, Content
    <2>2. request' = [request EXCEPT ![r] = [@ EXCEPT !.pc = "open", !.tokens = file.tokens]]
          /\ lock' = lock
      BY <1>2 DEF Load
    <2>3. request' \in [Requests -> Frame] /\ request'[r].pc = "open"
      BY <2>1, <2>2 DEF TypeOK, Frame, RequestPc
    <2> QED
      BY <1>1, <2>2, <2>3 DEF TypeOK, Load, Saving
  <1>3. CASE ~Applicable(r)
    <2>1. Goto(r, "refused") /\ Release(r)
      BY <1>3 DEF Load
    <2> QED
      BY <1>1, <2>1, MoveTypes DEF TypeOK, Load, RequestPc
  <1> QED
    BY <1>2, <1>3

LEMMA ReplaceTypes ==
    ASSUME TypeOK, NEW r \in Requests, Replace(r)
    PROVE  TypeOK'
  <1>1. file' \in Content /\ tmp' \in [Process -> Content]
    BY ProcFacts DEF Replace, TypeOK, Content, Truncated, NoDevices, Devices
  <1>2. request' \in [Requests -> Frame] /\ request'[r].pc = "ok"
        /\ \A q \in Requests \ {r} : request'[q] = request[q]
    BY DEF Replace, TypeOK, Frame, RequestPc, NoDevices, Devices
  <1>3. lock' \in Requests \cup {Free}
        /\ (lock' # Free => lock' = lock /\ lock' # r)
    BY DEF Replace, TypeOK, Release
  <1>4. revoked' \subseteq Token \cup {NoToken}
    <2>1. request[r].tokens[request[r].name] \in Token \cup {NoToken}
      BY DEF TypeOK, Frame, Devices
    <2> QED
      BY <2>1 DEF Replace, TypeOK
  <1> QED
    BY <1>1, <1>2, <1>3, <1>4 DEF Replace, TypeOK

LEMMA KillTypes ==
    ASSUME TypeOK, NEW p \in Process, Kill(p)
    PROVE  /\ TypeOK'
           /\ \A q \in Requests : request'[q] = request[q]
                \/ (request'[q].pc = "lost" /\ request[q].pc # "ok")
  <1>1. request' \in [Requests -> Frame]
        /\ \A q \in Requests : request'[q] = request[q]
             \/ (request'[q].pc = "lost" /\ request[q].pc # "ok")
    <2> SUFFICES ASSUME NEW q \in Requests
                 PROVE  /\ request'[q] \in Frame
                        /\ request'[q] = request[q] \/ (request'[q].pc = "lost" /\ request[q].pc # "ok")
      BY DEF Kill
    <2>1. [request[q] EXCEPT !.pc = "lost"] \in Frame
          /\ [request[q] EXCEPT !.pc = "lost"].pc = "lost"
      BY DEF TypeOK, Frame, RequestPc
    <2> QED
      BY <2>1 DEF Kill, TypeOK, Saving
  <1>2. kills' \in 0 .. MaxKills
    BY TokenStoreAssumption DEF Kill, TypeOK
  <1>3. \A q \in Requests : Proc(q) # p => request'[q] = request[q]
    BY DEF Kill
  <1>4. ASSUME lock' # Free
        PROVE  lock' = lock /\ lock \in Requests \ Clis /\ Proc(lock) # p
    BY <1>4, TokenStoreAssumption DEF Kill, TypeOK, Proc, Process
  <1>5. lock' \in Requests \cup {Free}
    BY DEF Kill, TypeOK
  <1> QED
    BY <1>1, <1>2, <1>3, <1>4, <1>5 DEF TypeOK, Kill

LEMMA RequestTypes ==
    ASSUME TypeOK, Locking, NEW r \in Requests, RequestStep(r)
    PROVE  TypeOK'
  <1>1. CASE Acquire(r)
    BY <1>1, MoveTypes DEF Acquire, TypeOK, RequestPc, Locking
  <1>2. CASE Load(r)
    BY <1>2, LoadTypes
  <1>3. CASE OpenTmp(r)
    <2>1. tmp' \in [Process -> Content]
      BY <1>3, ProcFacts DEF OpenTmp, TypeOK, Truncated, Content, NoDevices, Devices
    <2> QED
      BY <1>3, <2>1, MoveTypes DEF OpenTmp, TypeOK, RequestPc, Saving
  <1>4. CASE WriteTmp(r)
    <2>1. tmp' \in [Process -> Content]
      BY <1>4, ProcFacts, ModifiedType DEF WriteTmp, TypeOK, Content
    <2> QED
      BY <1>4, <2>1, MoveTypes DEF WriteTmp, TypeOK, RequestPc, Saving
  <1>5. CASE Replace(r)
    BY <1>5, ReplaceTypes
  <1>6. CASE SaveFails(r)
    BY <1>6, MoveTypes DEF SaveFails, TypeOK, RequestPc
  <1> QED
    BY <1>1, <1>2, <1>3, <1>4, <1>5, <1>6 DEF RequestStep

-----------------------------------------------------------------------------
(* The file is whole *)

\* Two requests of one process are not both in the critical section.
LEMMA Alone ==
    ASSUME Locking, NEW r \in Requests, NEW q \in Requests, Proc(r) = Proc(q),
           request[r].pc \in {"load"} \cup Saving, request[q].pc \in {"load"} \cup Saving
    PROVE  r = q
  BY ProcFacts DEF Locking

\* What a step of r leaves alone: the other frames; r's input, except in Load.
LEMMA StepFrames ==
    ASSUME TypeOK, NEW r \in Requests, Authenticate(r) \/ StartCli(r) \/ RequestStep(r)
    PROVE  /\ \A q \in Requests \ {r} : request'[q] = request[q]
           /\ request[r].pc \notin {"ok", "refused", "error", "lost"}
  BY DEF RequestStep, Authenticate, StartCli, Acquire, Load, OpenTmp, WriteTmp, Replace,
         SaveFails, Goto, TypeOK, Saving

LEMMA StepLocking ==
    ASSUME TypeOK, Locking, NEW r \in Requests, Authenticate(r) \/ StartCli(r) \/ RequestStep(r)
    PROVE  Locking'
  <1>1. \A q \in Requests \ {r} : request'[q] = request[q]
    BY StepFrames
  <1>2. ASSUME NEW pc \in RequestPc \ {"lock"}, Goto(r, pc)
        PROVE  request'[r].pc = pc
    BY <1>2, FrameChange DEF TypeOK
  <1>3. CASE Authenticate(r)
    <2>1. r \notin Clis /\ request'[r].pc \in {"lock", "refused"} /\ lock' = lock
      BY <1>3 DEF Authenticate, Goto, TypeOK, Frame
    <2> QED
      BY <1>1, <2>1, TokenStoreAssumption DEF Locking, Saving
  <1>4. CASE StartCli(r)
    <2>1. r \in Clis /\ request'[r].pc = "load" /\ lock' = lock
      BY <1>4 DEF StartCli, TypeOK, Frame
    <2> QED
      BY <1>1, <2>1, TokenStoreAssumption DEF Locking
  <1>5. CASE Acquire(r)
    BY <1>1, <1>2, <1>5, TokenStoreAssumption DEF Acquire, Locking, RequestPc, TypeOK
  <1>6. CASE request[r].pc \in {"load"} \cup Saving /\ request'[r].pc \notin {"lock", "load"}
             /\ (lock' = lock \/ (Release(r) /\ request'[r].pc \notin Saving))
    BY <1>1, <1>6, TokenStoreAssumption DEF Locking, Release
  <1>7. CASE Load(r)
    <2>1. CASE Applicable(r)
      <3>1. request'[r].pc = "open" /\ lock' = lock
        BY <1>7, <2>1 DEF Load, TypeOK, Frame
      <3> QED
        BY <1>6, <1>7, <3>1 DEF Load
    <2>2. CASE ~Applicable(r)
      BY <1>2, <1>6, <1>7, <2>2 DEF Load, RequestPc, Saving
    <2> QED
      BY <2>1, <2>2
  <1>8. CASE OpenTmp(r) \/ WriteTmp(r) \/ SaveFails(r)
    BY <1>2, <1>6, <1>8 DEF OpenTmp, WriteTmp, SaveFails, RequestPc, Saving
  <1>9. CASE Replace(r)
    <2>1. request'[r].pc = "ok"
      BY <1>9 DEF Replace, TypeOK, Frame
    <2> QED
      BY <1>6, <1>9, <2>1 DEF Replace, Saving
  <1> QED
    BY <1>3, <1>4, <1>5, <1>7, <1>8, <1>9 DEF RequestStep

LEMMA StepWritten ==
    ASSUME TypeOK, Locking, Written, NEW r \in Requests,
           Authenticate(r) \/ StartCli(r) \/ RequestStep(r)
    PROVE  Written'
  <1>1. \A q \in Requests \ {r} : request'[q] = request[q] /\ Modified(q)' = Modified(q)
    BY StepFrames DEF Modified
  <1>2. CASE tmp' = tmp /\ request'[r].pc # "replace"
    BY <1>1, <1>2 DEF Written
  <1>3. ASSUME request[r].pc \in Saving, NEW content,
               tmp' = [tmp EXCEPT ![Proc(r)] = content]
        PROVE  \A q \in Requests \ {r} : request'[q].pc = "replace" =>
                 tmp'[Proc(q)] = [whole |-> TRUE, tokens |-> Modified(q)']
    BY <1>1, <1>3, Alone, ProcFacts DEF Written, Saving, TypeOK
  <1>4. ASSUME NEW pc \in RequestPc, Goto(r, pc)
        PROVE  request'[r].pc = pc /\ Modified(r)' = Modified(r)
    BY <1>4, FrameChange DEF TypeOK, Modified
  <1>5. CASE OpenTmp(r)
    BY <1>3, <1>4, <1>5 DEF OpenTmp, Written, Saving, RequestPc
  <1>6. CASE WriteTmp(r)
    <2>1. tmp'[Proc(r)] = [whole |-> TRUE, tokens |-> Modified(r)]
      BY <1>6, ProcFacts DEF WriteTmp, TypeOK
    <2> QED
      BY <1>3, <1>4, <1>6, <2>1 DEF WriteTmp, Written, Saving, RequestPc
  <1>7. CASE Replace(r)
    <2>1. request'[r].pc = "ok"
      BY <1>7 DEF Replace, TypeOK, Frame
    <2> QED
      BY <1>3, <1>7, <2>1 DEF Replace, Written, Saving
  <1>8. CASE Authenticate(r)
    BY <1>2, <1>8 DEF Authenticate, Goto, TypeOK, Frame
  <1>9. CASE StartCli(r)
    BY <1>2, <1>9 DEF StartCli, TypeOK, Frame
  <1>10. CASE Acquire(r) \/ SaveFails(r)
    BY <1>2, <1>4, <1>10 DEF Acquire, SaveFails, RequestPc
  <1>11. CASE Load(r)
    <2>1. CASE Applicable(r)
      BY <1>2, <1>11, <2>1 DEF Load, TypeOK, Frame
    <2>2. CASE ~Applicable(r)
      BY <1>2, <1>4, <1>11, <2>2 DEF Load, RequestPc
    <2> QED
      BY <2>1, <2>2
  <1> QED
    BY <1>5, <1>6, <1>7, <1>8, <1>9, <1>10, <1>11 DEF RequestStep

LEMMA StepWhole ==
    ASSUME WholeInv, NEW r \in Requests, Authenticate(r) \/ StartCli(r) \/ RequestStep(r)
    PROVE  WholeInv'
  <1>1. TypeOK'
    BY AuthenticateTypes, StartCliTypes, RequestTypes DEF WholeInv
  <1>2. Locking' /\ Written'
    BY StepLocking, StepWritten DEF WholeInv
  <1>3. CASE Replace(r)
    <2>1. tmp[Proc(r)] = [whole |-> TRUE, tokens |-> Modified(r)]
      BY <1>3 DEF WholeInv, Written, Replace
    <2>2. tmp[Proc(r)].whole = TRUE
      BY <2>1, SMT
    <2>3. file'.whole
      BY <1>3, <2>2 DEF Replace
    <2> QED
      BY <1>1, <1>2, <2>3 DEF WholeInv, NeverHalfWritten
  <1>4. CASE ~Replace(r)
    <2>1. file' = file
      BY <1>4 DEF Authenticate, StartCli, RequestStep, Acquire, Load, OpenTmp, WriteTmp, SaveFails
    <2> QED
      BY <1>1, <1>2, <2>1 DEF WholeInv, NeverHalfWritten
  <1> QED
    BY <1>3, <1>4

LEMMA KillWhole ==
    ASSUME WholeInv, NEW p \in Process, Kill(p)
    PROVE  WholeInv'
  <1>1. TypeOK'
    BY KillTypes DEF WholeInv
  <1>2. \A q \in Requests : request'[q] = request[q] \/ request'[q].pc = "lost"
    BY KillTypes DEF WholeInv
  <1>3. file' = file /\ tmp' = tmp
    BY DEF Kill
  <1>4. Locking'
    <2>1. ASSUME NEW q \in Requests \ Clis, request'[q].pc \in {"load"} \cup Saving
          PROVE  lock' = q
      <3>1. request'[q] = request[q] /\ lock = q
        BY <1>2, <2>1 DEF Saving, WholeInv, Locking
      <3>2. p # Api
        <4> SUFFICES ASSUME p = Api PROVE FALSE
          OBVIOUS
        <4>1. request'[q] = [request[q] EXCEPT !.pc = "lost"]
          BY <3>1, <2>1 DEF Kill, Proc
        <4> QED
          BY <4>1, <2>1 DEF WholeInv, TypeOK, Frame, Saving
      <3> QED
        BY <3>1, <3>2 DEF Kill
    <2> QED
      BY <1>2, <2>1, TokenStoreAssumption DEF WholeInv, Locking
  <1>5. Written'
    BY <1>2, <1>3 DEF WholeInv, Written, Modified
  <1> QED
    BY <1>1, <1>3, <1>4, <1>5 DEF WholeInv, NeverHalfWritten

LEMMA InitWhole == Init => WholeInv
  <1> SUFFICES ASSUME Init PROVE WholeInv
    OBVIOUS
  <1>1. \A r \in Requests : request[r].pc = "idle"
    BY DEF Init, Unmade
  <1>2. file.whole
    BY DEF Init
  <1> QED
    BY <1>1, <1>2, InitTypes, TokenStoreAssumption
       DEF WholeInv, Locking, Written, NeverHalfWritten, Saving

LEMMA WholeStutters ==
    ASSUME WholeInv, UNCHANGED vars
    PROVE  WholeInv'
  BY DEF WholeInv, vars, TypeOK, Locking, Written, Modified, NeverHalfWritten

\* Types of the token store, and the lock's purpose (auth.py:23-25): an API
\* request is inside read-modify-write only while it holds the lock.
THEOREM TokenTypes == Spec => [](TypeOK /\ Locking)
  <1>1. WholeInv /\ [Next]_vars => WholeInv'
    BY StepWhole, KillWhole, WholeStutters DEF Next
  <1>2. WholeInv => TypeOK /\ Locking
    BY DEF WholeInv
  <1> QED
    BY InitWhole, <1>1, <1>2, PTL DEF Spec

\* tokens.json is whole at every moment (auth.py:48-50), for all requests,
\* processes, kills and failing writes.
THEOREM WholeHolds == Spec => []NeverHalfWritten
  <1>1. WholeInv /\ [Next]_vars => WholeInv'
    BY StepWhole, KillWhole, WholeStutters DEF Next
  <1>2. WholeInv => NeverHalfWritten
    BY DEF WholeInv
  <1> QED
    BY InitWhole, <1>1, <1>2, PTL DEF Spec

-----------------------------------------------------------------------------
(* Acknowledged changes stand *)

\* A step that leaves the file alone, starts no save and finishes none.
LEMMA QuietHistory ==
    ASSUME TypeOK, History, file' = file, revoked' = revoked, mixed' = mixed,
           \A q \in Requests :
             \/ request'[q] = request[q]
             \/ /\ request[q].pc # "ok" /\ request'[q].pc # "ok"
                /\ request'[q].pc \in Saving => request[q].pc \in Saving
                     /\ request'[q].tokens = request[q].tokens
                     /\ request'[q].op = request[q].op /\ request'[q].name = request[q].name
    PROVE  History'
  <1>1. \A t, n : Minted(t, n) => Minted(t, n)'
    BY DEF Minted
  <1>2. OneSaves'
    BY DEF History, OneSaves
  <1>3. Placed'
    BY <1>1 DEF History, Placed
  <1>4. Spent' /\ RevokedStays'
    BY DEF History, Spent, RevokedStays, Paired
  <1>5. Revocable'
    BY DEF History, Revocable
  <1>6. PairingStands'
    BY DEF History, PairingStands
  <1> QED
    BY <1>2, <1>3, <1>4, <1>5, <1>6 DEF History

\* The others are not saving when r starts to, unless processes mix.
LEMMA LoadHistory ==
    ASSUME WholeInv, History, NEW r \in Requests, Load(r), Applicable(r)
    PROVE  History'
  <1>1. /\ request'[r].pc = "open" /\ request'[r].tokens = file.tokens
        /\ request'[r].op = request[r].op /\ request'[r].name = request[r].name
        /\ \A q \in Requests \ {r} : request'[q] = request[q]
    <2>1. request' = [request EXCEPT ![r] = [@ EXCEPT !.pc = "open", !.tokens = file.tokens]]
      BY DEF Load
    <2>2. request \in [Requests -> Frame]
      BY DEF WholeInv, TypeOK
    <2> QED
      BY <2>1, <2>2 DEF Frame
  <1>2. file' = file /\ revoked' = revoked
    BY DEF Load
  <1>3. \A t, n : Minted(t, n) => Minted(t, n)'
    BY <1>1 DEF Minted, Load
  <1>4. OneSaves'
    <2>1. ~mixed' => ~mixed /\ \A q \in Requests : request[q].pc \in Saving => Proc(q) = Proc(r)
      BY DEF Load
    <2>2. ~mixed' => \A q \in Requests \ {r} : request[q].pc \notin Saving
      BY <2>1, Alone DEF Load, WholeInv
    <2> QED
      BY <1>1, <1>2, <2>2 DEF OneSaves
  <1>5. Placed'
    BY <1>1, <1>2, <1>3 DEF History, Placed
  <1>6. Spent' /\ RevokedStays' /\ PairingStands'
    <2>1. mixed => mixed'
      BY DEF Load
    <2>2. Spent'
      BY <1>1, <1>2 DEF History, Spent, Load
    <2>3. RevokedStays'
      BY <1>2, <2>1 DEF History, RevokedStays, Paired
    <2>4. PairingStands'
      BY <1>1, <1>2, <2>1 DEF History, PairingStands
    <2> QED
      BY <2>2, <2>3, <2>4
  <1>7. Revocable'
    BY <1>1, <1>2 DEF History, Revocable, Applicable, Saving
  <1> QED
    BY <1>4, <1>5, <1>6, <1>7 DEF History

\* The rename that answers r.
LEMMA ReplaceHistory ==
    ASSUME WholeInv, History, NEW r \in Requests, Replace(r)
    PROVE  History'
  <1> DEFINE name == request[r].name
             old  == request[r].tokens
  <1>1. /\ request'[r].pc = "ok" /\ request'[r].op = request[r].op /\ request'[r].name = name
        /\ \A q \in Requests \ {r} : request'[q] = request[q]
    BY DEF Replace, WholeInv, TypeOK, Frame
  <1>2. name \in Names /\ old \in Devices /\ request[r].op \in {"add", "revoke"}
    BY DEF WholeInv, TypeOK, Frame
  <1>3. request[r].pc = "replace" /\ request[r].pc \in Saving /\ mixed' = mixed
    BY DEF Replace, Saving
  <1>4. /\ file'.tokens = Modified(r)
        /\ Modified(r) \in Devices
        /\ Modified(r)[name] = IF request[r].op = "add" THEN r ELSE NoToken
        /\ \A n \in Names \ {name} : Modified(r)[n] = old[n]
    <2>1. tmp[Proc(r)] = [whole |-> TRUE, tokens |-> Modified(r)]
      BY <1>3 DEF WholeInv, Written
    <2>2. tmp[Proc(r)].tokens = Modified(r)
      BY <2>1, SMT
    <2> QED
      BY <1>2, <2>2, ModifiedType DEF Replace, WholeInv, Modified, Devices
  <1>5. \A t, n : Minted(t, n) => Minted(t, n)'
    BY <1>1, <1>3 DEF Minted
  <1>6. \A n \in Names : old[n] \in {NoToken, n} \/ Minted(old[n], n)
    BY <1>3 DEF History, Placed
  <1>7. (request[r].op = "add") = (old[name] = NoToken)
    BY <1>3 DEF History, Revocable
  <1>8. OneSaves'
    BY <1>1, <1>3 DEF History, OneSaves, Saving
  <1>9. Placed'
    <2>1. request[r].op = "add" => Minted(r, name)'
      BY <1>1 DEF Minted
    <2>2. (\A n \in Names : file.tokens[n] \in {NoToken, n} \/ Minted(file.tokens[n], n))'
      BY <1>1, <1>2, <1>3, <1>4, <1>6, <2>1 DEF Minted
    <2>3. (\A q \in Requests : request[q].pc \in Saving =>
             \A n \in Names : request[q].tokens[n] \in {NoToken, n} \/ Minted(request[q].tokens[n], n))'
      BY <1>1, <1>3 DEF History, Placed, Saving, Minted
    <2> QED
      BY <2>2, <2>3 DEF Placed
  <1>10. revoked' = IF request[r].op = "add" THEN revoked ELSE revoked \cup {old[name]}
    BY DEF Replace
  <1>11. Spent'
    <2>1. request[r].op # "add" => old[name] \in Names
            \/ (old[name] \in Requests /\ request[old[name]].pc = "ok")
      BY <1>2, <1>6, <1>7 DEF Minted
    <2> QED
      BY <1>1, <1>10, <2>1 DEF History, Spent
  <1>12. Revocable'
    BY <1>1 DEF History, Revocable, Saving
  <1>13. ~mixed => old = file.tokens
    BY <1>3 DEF History, OneSaves
  <1>14. RevokedStays'
    <2> SUFFICES ASSUME ~mixed, NEW n \in Names, file'.tokens[n] # NoToken
                 PROVE  file'.tokens[n] \notin revoked'
      BY <1>3, <1>4 DEF RevokedStays, Paired, Devices, Range
    <2>1. file.tokens[n] = NoToken \/ file.tokens[n] \notin revoked
      BY <1>2, <1>13 DEF History, RevokedStays, Paired, Devices, Range
    <2>2. CASE request[r].op = "add"
      <3>1. r \notin revoked
        BY <1>3, TokenStoreAssumption DEF History, Spent
      <3> QED
        BY <1>4, <1>10, <1>13, <2>1, <2>2, <3>1
    <2>3. CASE request[r].op # "add"
      <3>1. n # name /\ file'.tokens[n] = old[n]
        BY <1>4, <2>3
      <3>2. old[n] # old[name]
        BY <1>2, <1>6, <1>7, <2>3, <3>1, TokenStoreAssumption DEF Minted
      <3> QED
        BY <1>10, <1>13, <2>1, <2>3, <3>1, <3>2
    <2> QED
      BY <2>2, <2>3
  <1>15. PairingStands'
    <2> SUFFICES ASSUME ~mixed, NEW q \in Requests, request'[q].pc = "ok", request'[q].op = "add"
                 PROVE  file'.tokens[request'[q].name] = q \/ q \in revoked'
      BY <1>3 DEF PairingStands
    <2>1. CASE q = r
      BY <1>1, <1>4, <2>1
    <2>2. CASE q # r
      <3>1. request'[q] = request[q] /\ request[q].name \in Names
        BY <1>1, <2>2 DEF WholeInv, TypeOK, Frame
      <3>2. old[request[q].name] = q \/ q \in revoked
        BY <1>13, <3>1 DEF History, PairingStands
      <3>3. CASE request[q].name = name
        BY <1>7, <1>10, <3>1, <3>2, <3>3, TokenStoreAssumption
      <3>4. CASE request[q].name # name
        BY <1>4, <1>10, <3>1, <3>2, <3>4
      <3> QED
        BY <3>3, <3>4
    <2> QED
      BY <2>1, <2>2
  <1> QED
    BY <1>8, <1>9, <1>11, <1>12, <1>14, <1>15 DEF History

\* Authentication, waiting, writing the temporary file and failing.
LEMMA OtherHistory ==
    ASSUME WholeInv, History, NEW r \in Requests,
           \/ Authenticate(r) \/ StartCli(r) \/ Acquire(r) \/ OpenTmp(r) \/ WriteTmp(r)
           \/ SaveFails(r)
    PROVE  History'
  <1>1. file' = file /\ revoked' = revoked /\ mixed' = mixed
    BY DEF Authenticate, StartCli, Acquire, OpenTmp, WriteTmp, SaveFails
  <1>2. request \in [Requests -> Frame] /\ TypeOK
    BY DEF WholeInv, TypeOK
  <1>3. \A q \in Requests \ {r} : request'[q] = request[q]
    BY <1>2, StepFrames DEF RequestStep
  <1>4. CASE Authenticate(r) \/ StartCli(r)
    <2>1. request[r].pc = "idle" /\ request'[r].pc \in {"lock", "load", "refused"}
      BY <1>2, <1>4 DEF Authenticate, StartCli, Goto, Frame
    <2> QED
      BY <1>1, <1>2, <1>3, <2>1, QuietHistory DEF Saving
  <1>5. CASE Acquire(r) \/ SaveFails(r)
    <2>1. request[r].pc # "ok" /\ request'[r].pc \in {"load", "error"}
      BY <1>2, <1>5, FrameChange DEF Acquire, SaveFails, Saving, RequestPc
    <2> QED
      BY <1>1, <1>2, <1>3, <2>1, QuietHistory DEF Saving
  <1>6. CASE OpenTmp(r) \/ WriteTmp(r)
    <2>1. /\ request[r].pc \in Saving /\ request[r].pc # "ok"
          /\ request'[r].pc \in {"write", "replace"}
          /\ request'[r].op = request[r].op /\ request'[r].name = request[r].name
          /\ request'[r].tokens = request[r].tokens
      BY <1>2, <1>6, FrameChange DEF OpenTmp, WriteTmp, Saving, RequestPc
    <2> QED
      BY <1>1, <1>2, <1>3, <2>1, QuietHistory
  <1> QED
    BY <1>4, <1>5, <1>6

LEMMA RefusedHistory ==
    ASSUME WholeInv, History, NEW r \in Requests, Load(r), ~Applicable(r)
    PROVE  History'
  <1>1. file' = file /\ revoked' = revoked /\ (mixed => mixed')
    BY DEF Load
  <1>2. /\ request[r].pc = "load" /\ request'[r].pc = "refused"
        /\ \A q \in Requests \ {r} : request'[q] = request[q]
    BY FrameChange DEF Load, WholeInv, TypeOK, RequestPc
  <1>3. \A t, n : Minted(t, n) => Minted(t, n)'
    BY <1>2 DEF Minted
  <1>4. OneSaves' /\ Revocable' /\ Spent'
    BY <1>1, <1>2 DEF History, OneSaves, Revocable, Spent, Saving
  <1>5. Placed'
    BY <1>1, <1>2, <1>3 DEF History, Placed, Saving
  <1>6. RevokedStays' /\ PairingStands'
    BY <1>1, <1>2 DEF History, RevokedStays, PairingStands, Paired
  <1> QED
    BY <1>4, <1>5, <1>6 DEF History

LEMMA KillHistory ==
    ASSUME WholeInv, History, NEW p \in Process, Kill(p)
    PROVE  History'
  <1>1. TypeOK /\ file' = file /\ revoked' = revoked /\ mixed' = mixed
    BY DEF Kill, WholeInv
  <1>2. \A q \in Requests : request'[q] = request[q]
          \/ (request'[q].pc = "lost" /\ request[q].pc # "ok")
    BY KillTypes DEF WholeInv
  <1> QED
    BY <1>1, <1>2, QuietHistory DEF Saving

LEMMA InitHistory == Init => History
  <1> SUFFICES ASSUME Init PROVE History
    OBVIOUS
  <1>1. \A r \in Requests : request[r].pc = "idle"
    BY DEF Init, Unmade
  <1>2. revoked = {} /\ \A n \in Names : file.tokens[n] \in {NoToken, n}
    BY DEF Init
  <1> QED
    BY <1>1, <1>2 DEF History, OneSaves, Placed, Spent, Revocable, RevokedStays, PairingStands,
                      Saving

LEMMA HistoryKept == WholeInv /\ History /\ [Next]_vars => History'
  <1> SUFFICES ASSUME WholeInv, History, [Next]_vars PROVE History'
    OBVIOUS
  <1>1. CASE UNCHANGED vars
    BY <1>1, QuietHistory DEF vars, WholeInv
  <1>2. ASSUME NEW r \in Requests, Authenticate(r) \/ StartCli(r) \/ RequestStep(r)
        PROVE  History'
    BY <1>2, OtherHistory, LoadHistory, RefusedHistory, ReplaceHistory DEF RequestStep
  <1>3. ASSUME NEW p \in Process, Kill(p)
        PROVE  History'
    BY <1>3, KillHistory
  <1> QED
    BY <1>1, <1>2, <1>3 DEF Next

LEMMA TokenInvariant == Spec => [](WholeInv /\ History)
  <1>1. WholeInv /\ [Next]_vars => WholeInv'
    BY StepWhole, KillWhole, WholeStutters DEF Next
  <1> QED
    BY InitWhole, InitHistory, <1>1, HistoryKept, PTL DEF Spec

\* Short of processes that save at once, a pairing that was answered stands
\* until it is revoked.
THEOREM PairingHolds == Spec => []PairingStands
  <1>1. WholeInv /\ History => PairingStands
    BY DEF History
  <1> QED
    BY TokenInvariant, <1>1, PTL

\* Short of processes that save at once, no later step makes a revoked token
\* acceptable again.
THEOREM RevokedHolds == Spec => []RevokedStays
  <1>1. WholeInv /\ History => RevokedStays
    BY DEF History
  <1> QED
    BY TokenInvariant, <1>1, PTL

-----------------------------------------------------------------------------
(* No request revokes its own token *)

\* The token t stands, or stood, at another name.
Elsewhere(t, name) == t \in Names \ {name} \/ \E n \in Names \ {name} : Minted(t, n)

\* A request that revokes has authenticated with the token of another name.
Selfless ==
    \A r \in Requests :
        /\ request[r].pc = "idle" => request[r].credential = NoToken
        /\ request[r].op = "revoke" /\ request[r].credential # NoToken =>
             Elsewhere(request[r].credential, request[r].name)

LEMMA InitSelfless == Init => Selfless
BY DEF Init, Unmade, Selfless

\* Once a request is made, its inputs stay, and so does what was minted.
LEMMA InputsStay ==
    ASSUME TypeOK, Selfless,
           \A q \in Requests :
             /\ request[q].pc = "ok" => request'[q] = request[q]
             /\ request'[q].credential = request[q].credential
             /\ request'[q].op = request[q].op /\ request'[q].name = request[q].name
             /\ request'[q].pc = "idle" => request[q].pc = "idle"
    PROVE  Selfless'
  <1>1. \A t, n : Minted(t, n) => Minted(t, n)'
    BY DEF Minted
  <1>2. \A t, n : Elsewhere(t, n) => Elsewhere(t, n)'
    BY <1>1 DEF Elsewhere
  <1> QED
    BY <1>2 DEF Selfless

LEMMA AuthenticateSelfless ==
    ASSUME TypeOK, Placed, Selfless, NEW r \in Requests, Authenticate(r)
    PROVE  Selfless'
  <1>1. request[r] \in Frame /\ request[r].pc = "idle"
    BY DEF TypeOK, Authenticate
  <1>2. CASE Goto(r, "refused")
    <2>1. \A q \in Requests :
             /\ request[q].pc = "ok" => request'[q] = request[q]
             /\ request'[q].credential = request[q].credential
             /\ request'[q].op = request[q].op /\ request'[q].name = request[q].name
             /\ request'[q].pc = "idle" => request[q].pc = "idle"
      BY <1>1, <1>2 DEF Goto, TypeOK, Frame
    <2> QED
      BY <2>1, InputsStay
  <1>3. ASSUME NEW credential \in Token \cup {NoToken}, NEW op \in {"add", "revoke"}, NEW name \in Names,
               Authenticated(credential), ~RevokesItself(credential, op, name),
               request' = [request EXCEPT ![r] =
                 [@ EXCEPT !.pc = "lock", !.credential = credential, !.op = op, !.name = name]]
        PROVE  Selfless'
    <2>1. /\ request'[r].pc = "lock" /\ request'[r].credential = credential
          /\ request'[r].op = op /\ request'[r].name = name
          /\ \A q \in Requests \ {r} : request'[q] = request[q]
      BY <1>1, <1>3 DEF TypeOK, Frame
    <2>2. \A t, n : Minted(t, n) => Minted(t, n)'
      BY <1>1, <2>1 DEF Minted
    <2>3. \A t, n : Elsewhere(t, n) => Elsewhere(t, n)'
      BY <2>2 DEF Elsewhere
    <2>4. ASSUME op = "revoke", credential # NoToken
          PROVE  Elsewhere(credential, name)
      <3>1. PICK n \in Names : file.tokens[n] = credential
        BY <1>3, <2>4 DEF Authenticated, Paired, TypeOK, Content, Devices, Range
      <3>2. n # name
        BY <1>3, <2>4, <3>1 DEF RevokesItself
      <3> QED
        BY <2>4, <3>1, <3>2 DEF Placed, Elsewhere
    <2> QED
      BY <2>1, <2>3, <2>4 DEF Selfless
  <1> QED
    BY <1>2, <1>3 DEF Authenticate

LEMMA SelflessKept == WholeInv /\ History /\ Selfless /\ [Next]_vars => Selfless'
  <1> SUFFICES ASSUME WholeInv, History, Selfless, [Next]_vars PROVE Selfless'
    OBVIOUS
  <1>0. TypeOK /\ Placed /\ \A q \in Requests : request[q] \in Frame
    BY DEF WholeInv, History, TypeOK
  <1>1. CASE UNCHANGED vars
    BY <1>0, <1>1, InputsStay DEF vars
  <1>2. ASSUME NEW r \in Requests, StartCli(r) PROVE Selfless'
    <2>1. PICK op \in {"add", "revoke"}, name \in Names :
            request' = [request EXCEPT ![r] = [@ EXCEPT !.pc = "load", !.op = op, !.name = name]]
      BY <1>2 DEF StartCli
    <2>2. /\ request'[r].pc = "load" /\ request'[r].credential = request[r].credential
          /\ request[r].pc = "idle"
          /\ \A q \in Requests \ {r} : request'[q] = request[q]
      BY <1>0, <1>2, <2>1 DEF StartCli, TypeOK, Frame
    <2>3. request[r].credential = NoToken
      BY <2>2 DEF Selfless
    <2>4. \A t, n : Minted(t, n) => Minted(t, n)'
      BY <2>2 DEF Minted
    <2>5. \A t, n : Elsewhere(t, n) => Elsewhere(t, n)'
      BY <2>4 DEF Elsewhere
    <2> QED
      BY <2>2, <2>3, <2>5 DEF Selfless
  <1>3. ASSUME NEW r \in Requests, RequestStep(r) PROVE Selfless'
    <2>1. /\ \A q \in Requests \ {r} : request'[q] = request[q]
          /\ request[r].pc # "ok"
      BY <1>0, <1>3, StepFrames
    <2>2. /\ request'[r].credential = request[r].credential
          /\ request'[r].op = request[r].op /\ request'[r].name = request[r].name
          /\ request'[r].pc # "idle"
      <3>1. request \in [Requests -> Frame]
        BY <1>0 DEF TypeOK
      <3>2. CASE Acquire(r) \/ OpenTmp(r) \/ WriteTmp(r) \/ SaveFails(r)
        BY <3>1, <3>2, FrameChange DEF Acquire, OpenTmp, WriteTmp, SaveFails, RequestPc
      <3>3. CASE Load(r) /\ ~Applicable(r)
        BY <3>1, <3>3, FrameChange DEF Load, RequestPc
      <3>4. CASE Load(r) /\ Applicable(r)
        BY <3>1, <3>4 DEF Load, Frame
      <3>5. CASE Replace(r)
        BY <3>1, <3>5 DEF Replace, Frame
      <3> QED
        BY <1>3, <3>2, <3>3, <3>4, <3>5 DEF RequestStep
    <2> QED
      BY <1>0, <2>1, <2>2, InputsStay
  <1>4. ASSUME NEW p \in Process, Kill(p) PROVE Selfless'
    <2>1. \A q \in Requests : request'[q] = request[q]
            \/ (request[q].pc \in {"lock", "load"} \cup Saving
                /\ request'[q] = [request[q] EXCEPT !.pc = "lost"])
      BY <1>4 DEF Kill
    <2>2. \A q \in Requests :
             /\ request[q].pc = "ok" => request'[q] = request[q]
             /\ request'[q].credential = request[q].credential
             /\ request'[q].op = request[q].op /\ request'[q].name = request[q].name
             /\ request'[q].pc = "idle" => request[q].pc = "idle"
      BY <1>0, <2>1 DEF Saving, Frame
    <2> QED
      BY <1>0, <2>2, InputsStay
  <1> QED
    BY <1>0, <1>1, <1>2, <1>3, <1>4, AuthenticateSelfless DEF Next

\* The rename leaves the token alone that its request authenticated with.
LEMMA ReplaceKeepsOwn ==
    ASSUME WholeInv, History, Selfless, ~mixed, NEW r \in Requests, Replace(r),
           request[r].credential \in Paired
    PROVE  request[r].credential \in Paired'
  <1>1. /\ request[r].pc = "replace" /\ request[r].pc \in Saving
        /\ request[r].name \in Names /\ request[r].op \in {"add", "revoke"}
    BY DEF Replace, Saving, WholeInv, TypeOK, Frame
  <1>2. request[r].tokens = file.tokens /\ file.tokens \in Devices
    BY <1>1 DEF History, OneSaves, WholeInv, TypeOK, Content
  <1>3. file'.tokens = Modified(r)
    <2>1. tmp[Proc(r)] = [whole |-> TRUE, tokens |-> Modified(r)]
      BY <1>1 DEF WholeInv, Written
    <2>2. tmp[Proc(r)].tokens = Modified(r)
      BY <2>1, SMT
    <2> QED
      BY <2>2 DEF Replace
  <1>4. PICK n \in Names : file.tokens[n] = request[r].credential /\ request[r].credential # NoToken
    BY <1>2 DEF Paired, Devices, Range
  <1>5. n # request[r].name
    <2>1. CASE request[r].op = "add"
      BY <1>1, <1>2, <1>4, <2>1 DEF History, Revocable
    <2>2. CASE request[r].op = "revoke"
      <3>1. Elsewhere(file.tokens[n], request[r].name)
        BY <1>4, <2>2 DEF Selfless
      <3>2. file.tokens[n] = n \/ Minted(file.tokens[n], n)
        BY <1>4 DEF History, Placed
      <3> QED
        BY <3>1, <3>2, TokenStoreAssumption DEF Elsewhere, Minted
    <2> QED
      BY <1>1, <2>1, <2>2
  <1>6. Modified(r) \in [Names -> Token \cup {NoToken}] /\ Modified(r)[n] = file.tokens[n]
    BY <1>1, <1>2, <1>5, ModifiedType DEF Modified, Devices, WholeInv
  <1> QED
    BY <1>3, <1>4, <1>6 DEF Paired, Range

\* app.py:278-281: no request revokes the token it authenticated with, short of
\* processes that save at once.
THEOREM NotItselfHolds == Spec => NotItself
  <1> DEFINE KeepsOwn ==
        ~mixed => \A r \in Requests :
          request[r].pc = "replace" /\ request'[r].pc = "ok" /\ request[r].credential \in Paired
          => request[r].credential \in Paired'
  <1>1. WholeInv /\ History /\ Selfless /\ [Next]_vars => [KeepsOwn]_vars
    <2> SUFFICES ASSUME WholeInv, History, Selfless, [Next]_vars, ~mixed, NEW r \in Requests,
                        request[r].pc = "replace", request'[r].pc = "ok",
                        request[r].credential \in Paired
                 PROVE  request[r].credential \in Paired'
      OBVIOUS
    <2>1. TypeOK /\ request[r] \in Frame
      BY DEF WholeInv, TypeOK
    <2>2. CASE UNCHANGED vars
      BY <2>2 DEF vars
    <2>3. ASSUME NEW p \in Process, Kill(p) PROVE FALSE
      BY <2>1, <2>3, KillTypes
    <2>4. ASSUME NEW q \in Requests, Authenticate(q) \/ StartCli(q) \/ RequestStep(q), q # r
          PROVE  FALSE
      BY <2>1, <2>4, StepFrames
    <2>5. CASE Authenticate(r) \/ StartCli(r) \/ RequestStep(r)
      <3>1. ~SaveFails(r)
        BY <2>1, FrameChange DEF SaveFails, TypeOK, RequestPc
      <3>2. Replace(r)
        BY <2>5, <3>1 DEF RequestStep, Authenticate, StartCli, Acquire, Load, OpenTmp, WriteTmp
      <3> QED
        BY <3>2, ReplaceKeepsOwn
    <2> QED
      BY <2>2, <2>3, <2>4, <2>5 DEF Next
  <1>2. WholeInv /\ [Next]_vars => WholeInv'
    BY StepWhole, KillWhole, WholeStutters DEF Next
  <1> QED
    BY <1>1, <1>2, InitWhole, InitHistory, InitSelfless, HistoryKept, SelflessKept, PTL
       DEF Spec, NotItself
=============================================================================

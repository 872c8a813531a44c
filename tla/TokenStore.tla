----------------------------- MODULE TokenStore -----------------------------
(***************************************************************************)
(* Device tokens (server/auth.py, server/tokens_cli.py, the /api/devices   *)
(* handlers of server/app.py).  tokens.json is read, modified and replaced *)
(* by the threads of the API process, which share a lock and a temporary   *)
(* file, and by CLI processes, which share neither.  A token is named by   *)
(* the request that minted it, or by the device when it was paired before. *)
(***************************************************************************)
EXTENDS Naturals, Functions

CONSTANTS
    Names,       \* device names that validate_name accepts
    Requests,    \* pairing and revoking requests; each is made at most once
    Clis,        \* those made with the command line tool
    Api,         \* the API process
    Free,        \* the lock is held by nobody
    NoToken,     \* the name is not paired / no token is presented
    MaxKills,    \* bound: processes killed
    DiskFaults   \* TRUE when writing the file may fail

ASSUME TokenStoreAssumption ==
    /\ Names # {}
    /\ Clis \subseteq Requests
    /\ Api \notin Requests
    /\ Free \notin Requests
    /\ Names \cap Requests = {}
    /\ NoToken \notin Names \cup Requests
    /\ MaxKills \in Nat
    /\ DiskFaults \in BOOLEAN

VARIABLES
    file,     \* tokens.json: its tokens by name, and whether it is whole
    tmp,      \* the temporary file of each process
    lock,     \* _write_lock of the API process
    request,  \* the frame of each request
    kills,    \* processes killed so far
    revoked,  \* history: tokens that a successful revocation removed
    mixed     \* history: two processes were inside read-modify-write at once

vars == <<file, tmp, lock, request, kills, revoked, mixed>>

Token == Names \cup Requests
Devices == [Names -> Token \cup {NoToken}]
NoDevices == [n \in Names |-> NoToken]
Content == [whole : BOOLEAN, tokens : Devices]
\* O_TRUNC; also the temporary file that is not there.
Truncated == [whole |-> FALSE, tokens |-> NoDevices]

Process == Clis \cup {Api}
Proc(r) == IF r \in Clis THEN r ELSE Api

RequestPc == {"idle", "lock", "load", "open", "write", "replace",
              "ok", "refused", "error", "lost"}
Frame == [pc : RequestPc, credential : Token \cup {NoToken},
          op : {"add", "revoke"}, name : Names, tokens : Devices]
Unmade == [pc |-> "idle", credential |-> NoToken, op |-> "add",
           name |-> CHOOSE n \in Names : TRUE, tokens |-> NoDevices]
Saving == {"open", "write", "replace"}

Goto(r, pc) == request' = [request EXCEPT ![r].pc = pc]
Release(r) == lock' = IF lock = r THEN Free ELSE lock

Paired == Range(file.tokens) \ {NoToken}

-----------------------------------------------------------------------------
\* require_token: the device the credential belongs to; without one, loopback
\* clients are let in while no device is paired.
Authenticated(credential) ==
    credential \in Paired \/ (credential = NoToken /\ Paired = {})

\* (broken) a device may revoke itself.
RevokesNobody(credential, op, name) == FALSE
\* DELETE refuses the device the request authenticated as.
RevokesItself(credential, op, name) ==
    op = "revoke" /\ credential # NoToken /\ file.tokens[name] = credential

\* An API request reads the file once to authenticate, without the lock.
Authenticate(r) ==
    /\ r \notin Clis
    /\ request[r].pc = "idle"
    /\ \E credential \in Token \cup {NoToken}, op \in {"add", "revoke"}, name \in Names :
        IF Authenticated(credential) /\ ~RevokesItself(credential, op, name)
          THEN request' = [request EXCEPT ![r] =
                 [@ EXCEPT !.pc = "lock", !.credential = credential, !.op = op, !.name = name]]
          ELSE Goto(r, "refused")
    /\ UNCHANGED <<file, tmp, lock, kills, revoked, mixed>>

\* A CLI process starts; its own _write_lock is free.
StartCli(r) ==
    /\ r \in Clis
    /\ request[r].pc = "idle"
    /\ \E op \in {"add", "revoke"}, name \in Names :
        request' = [request EXCEPT ![r] = [@ EXCEPT !.pc = "load", !.op = op, !.name = name]]
    /\ UNCHANGED <<file, tmp, lock, kills, revoked, mixed>>

\* (broken) add_device and revoke_device do not take the lock.
AcquireNothing(r) ==
    /\ request[r].pc = "lock"
    /\ Goto(r, "load")
    /\ UNCHANGED <<file, tmp, lock, kills, revoked, mixed>>

Acquire(r) ==
    /\ request[r].pc = "lock"
    /\ lock = Free
    /\ lock' = r
    /\ Goto(r, "load")
    /\ UNCHANGED <<file, tmp, kills, revoked, mixed>>

\* DeviceExists, or a name to revoke that is not there.
Applicable(r) == (request[r].op = "add") = (file.tokens[request[r].name] = NoToken)

\* _load and the check of the name.
Load(r) ==
    /\ request[r].pc = "load"
    /\ mixed' = (mixed \/ \E q \in Requests : request[q].pc \in Saving /\ Proc(q) # Proc(r))
    /\ IF Applicable(r)
         THEN /\ request' = [request EXCEPT ![r] = [@ EXCEPT !.pc = "open", !.tokens = file.tokens]]
              /\ UNCHANGED lock
         ELSE Goto(r, "refused") /\ Release(r)
    /\ UNCHANGED <<file, tmp, kills, revoked>>

\* _save opens the temporary file of its process ...
OpenTmp(r) ==
    /\ request[r].pc = "open"
    /\ tmp' = [tmp EXCEPT ![Proc(r)] = Truncated]
    /\ Goto(r, "write")
    /\ UNCHANGED <<file, lock, kills, revoked, mixed>>

\* (broken) the entry to revoke is not removed.
ModifiedAddOnly(r) ==
    IF request[r].op = "add" THEN [request[r].tokens EXCEPT ![request[r].name] = r]
    ELSE request[r].tokens
Modified(r) ==
    [request[r].tokens EXCEPT ![request[r].name] = IF request[r].op = "add" THEN r ELSE NoToken]

\* ... writes it ...
WriteTmp(r) ==
    /\ request[r].pc = "write"
    /\ tmp' = [tmp EXCEPT ![Proc(r)] = [whole |-> TRUE, tokens |-> Modified(r)]]
    /\ Goto(r, "replace")
    /\ UNCHANGED <<file, lock, kills, revoked, mixed>>

\* ... and renames it to tokens.json; the lock is released and the request
\* answered.
Replace(r) ==
    /\ request[r].pc = "replace"
    /\ file' = tmp[Proc(r)]
    /\ tmp' = [tmp EXCEPT ![Proc(r)] = Truncated]
    /\ revoked' = IF request[r].op = "add" THEN revoked
                  ELSE revoked \cup {request[r].tokens[request[r].name]}
    /\ Release(r)
    /\ request' = [request EXCEPT ![r] = [@ EXCEPT !.pc = "ok", !.tokens = NoDevices]]
    /\ UNCHANGED <<kills, mixed>>

\* (broken) the lock is not released when _save raises.
SaveFailsHolding(r) ==
    /\ DiskFaults
    /\ request[r].pc \in Saving
    /\ Goto(r, "error")
    /\ UNCHANGED <<file, tmp, lock, kills, revoked, mixed>>

\* _save raises; the with block releases the lock.
SaveFails(r) ==
    /\ DiskFaults
    /\ request[r].pc \in Saving
    /\ Release(r)
    /\ Goto(r, "error")
    /\ UNCHANGED <<file, tmp, kills, revoked, mixed>>

RequestStep(r) ==
    \/ Acquire(r) \/ Load(r) \/ OpenTmp(r) \/ WriteTmp(r) \/ Replace(r) \/ SaveFails(r)

\* A process is killed and, if it is the API, started again: its frames and
\* its lock are gone, its temporary file stays.
Kill(p) ==
    /\ kills < MaxKills
    /\ kills' = kills + 1
    /\ request' = [r \in Requests |->
         IF Proc(r) = p /\ request[r].pc \in {"lock", "load"} \cup Saving
           THEN [request[r] EXCEPT !.pc = "lost"] ELSE request[r]]
    /\ lock' = IF p = Api THEN Free ELSE lock
    /\ UNCHANGED <<file, tmp, revoked, mixed>>

-----------------------------------------------------------------------------
\* Some devices were paired before.
Init ==
    /\ \E paired \in SUBSET Names :
         file = [whole |-> TRUE, tokens |-> [n \in Names |-> IF n \in paired THEN n ELSE NoToken]]
    /\ tmp = [p \in Process |-> Truncated]
    /\ lock = Free
    /\ request = [r \in Requests |-> Unmade]
    /\ kills = 0
    /\ revoked = {}
    /\ mixed = FALSE

Next ==
    \/ \E r \in Requests : Authenticate(r) \/ StartCli(r) \/ RequestStep(r)
    \/ \E p \in Process : Kill(p)

\* Threads keep running; the lock is free again after each holder, and only
\* finitely many requests are made.
Fairness == \A r \in Requests : WF_vars(RequestStep(r))
Spec == Init /\ [][Next]_vars /\ Fairness

-----------------------------------------------------------------------------
(* Properties *)

\* Files, frames and the lock have their types; the lock is held by an API
\* request inside its critical section.
TypeOK ==
    /\ file \in Content
    /\ tmp \in [Process -> Content]
    /\ request \in [Requests -> Frame]
    /\ lock \in Requests \cup {Free}
    /\ lock # Free => lock \notin Clis /\ request[lock].pc \in {"load"} \cup Saving
    /\ revoked \subseteq Token \cup {NoToken}
    /\ kills \in 0 .. MaxKills
    /\ mixed \in BOOLEAN

\* A reader never sees a half-written file, whichever threads and processes
\* save and die (auth.py:48-50): the API's threads share one temporary file.
NeverHalfWritten == file.whole

\* Short of processes that save at the same time (auth.py:23-25), a pairing
\* that was answered with its token stands until it is revoked ...
PairingStands ==
    ~mixed => \A r \in Requests :
        request[r].pc = "ok" /\ request[r].op = "add" =>
            file.tokens[request[r].name] = r \/ r \in revoked

\* ... and a token that was revoked is never accepted again.
RevokedStays == ~mixed => revoked \cap Paired = {}

\* No request revokes the token it authenticated with (app.py:278-281).
NotItself ==
    [][~mixed => \A r \in Requests :
         request[r].pc = "replace" /\ request'[r].pc = "ok"
            /\ request[r].credential \in Paired
         => request[r].credential \in Paired']_vars

\* Every request that got past its authentication is answered, or its process
\* dies: no failure leaves the lock behind.
Answers ==
    \A r \in Requests :
        request[r].pc = "lock" ~> request[r].pc \in {"ok", "refused", "error", "lost"}
=============================================================================

------------------------------ MODULE JobQueue ------------------------------
(***************************************************************************)
(* What the jobs table promises, without handlers, worker or crashes: a    *)
(* submitted task is tried at most MaxTries times, one try after another;  *)
(* it is done after a try, or failed after its last try; a settled task    *)
(* stays settled, and only a failed one is forgotten (its id may then be   *)
(* used again).  Every submitted task is settled in the end.               *)
(***************************************************************************)
EXTENDS Naturals

CONSTANTS
    Task,
    MaxTries  \* a positive number

VARIABLES
    state,  \* [Task -> {"absent", "waiting", "done", "failed"}]
    tries   \* [Task -> Nat]

queueVars == <<state, tries>>

QueueInit ==
    /\ state = [t \in Task |-> "absent"]
    /\ tries = [t \in Task |-> 0]

Submit(t) ==
    /\ state[t] = "absent"
    /\ state' = [state EXCEPT ![t] = "waiting"]
    /\ UNCHANGED tries

Try(t) ==
    /\ state[t] = "waiting"
    /\ tries[t] < MaxTries
    /\ tries' = [tries EXCEPT ![t] = @ + 1]
    /\ UNCHANGED state

Settle(t) ==
    /\ state[t] = "waiting"
    /\ \/ tries[t] > 0 /\ state' = [state EXCEPT ![t] = "done"]
       \/ tries[t] = MaxTries /\ state' = [state EXCEPT ![t] = "failed"]
    /\ UNCHANGED tries

Forget(t) ==
    /\ state[t] = "failed"
    /\ state' = [state EXCEPT ![t] = "absent"]
    /\ tries' = [tries EXCEPT ![t] = 0]

QueueNext == \E t \in Task : Submit(t) \/ Try(t) \/ Settle(t) \/ Forget(t)

QueueSafety == QueueInit /\ [][QueueNext]_queueVars

QueueSpec == QueueSafety /\ \A t \in Task : WF_queueVars(Try(t) \/ Settle(t))
=============================================================================

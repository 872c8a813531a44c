----------------------------- MODULE MergeGate ------------------------------
(***************************************************************************)
(* scripts/merge-when-green.sh: polls the checks of a pull request and     *)
(* merges it once they are green.  Meanwhile checks register, end and are  *)
(* run again, and commits are pushed.                                      *)
(***************************************************************************)
EXTENDS Integers, FiniteSets

CONSTANTS
    Checks,      \* checks of the pull request
    MaxReruns    \* bound: checks run again, and pushes

ASSUME MergeGateAssumption == IsFiniteSet(Checks) /\ MaxReruns \in Nat

VARIABLES
    gate,      \* the script: where it is, or how it ended
    counts,    \* total, pending and bad, from the last answer of gh
    checks,    \* the bucket of each check of the pull request's head
    late,      \* MERGE_POLL_TIMEOUT is over
    reruns,    \* checks run again and pushes so far
    answered   \* history: the buckets gh's last answer was made of

gateVars == <<gate, counts, checks, late, reruns, answered>>

Bucket == {"pass", "fail", "pending", "skipping", "cancel"}
Registered(buckets) == {c \in Checks : buckets[c] # "unregistered"}
None == [c \in Checks |-> "unregistered"]

Exited == {"merged", "not_merged", "refused", "timed_out"}

-----------------------------------------------------------------------------
(* The script *)

\* (broken) a cancelled check is not bad.
BadFails(buckets) == {c \in Checks : buckets[c] = "fail"}
Bad(buckets) == {c \in Checks : buckets[c] \in {"fail", "cancel"}}
Pending(buckets) == {c \in Checks : buckets[c] = "pending"}
Count(buckets) ==
    [total |-> Cardinality(Registered(buckets)),
     pending |-> Cardinality(Pending(buckets)),
     bad |-> Cardinality(Bad(buckets))]

\* gh pr checks; an error counts as no checks at all.
GateAsk ==
    /\ gate = "ask"
    /\ answered' \in {checks, None}
    /\ counts' = Count(answered')
    /\ gate' = "decide"
    /\ UNCHANGED <<checks, late, reruns>>

Green == counts.total > 0 /\ counts.pending = 0

GateRefuse ==
    /\ gate = "decide"
    /\ counts.bad > 0
    /\ gate' = "refused"
    /\ UNCHANGED <<counts, checks, late, reruns, answered>>

GateGreen ==
    /\ gate = "decide"
    /\ counts.bad = 0 /\ Green
    /\ gate' = "merge"
    /\ UNCHANGED <<counts, checks, late, reruns, answered>>

\* (broken) an empty set of checks is waited for without end.
GivesUpOnPending == late /\ counts.total > 0
GivesUp == late

GateGiveUp ==
    /\ gate = "decide"
    /\ counts.bad = 0 /\ ~Green
    /\ GivesUp
    /\ gate' = "timed_out"
    /\ UNCHANGED <<counts, checks, late, reruns, answered>>

\* sleep, and ask again.
GateSleep ==
    /\ gate = "decide"
    /\ counts.bad = 0 /\ ~Green
    /\ ~GivesUp
    /\ gate' = "ask"
    /\ UNCHANGED <<counts, checks, late, reruns, answered>>

\* gh pr merge, of whatever the head is by now; it may refuse.
GateMerge ==
    /\ gate = "merge"
    /\ gate' \in {"merged", "not_merged"}
    /\ UNCHANGED <<counts, checks, late, reruns, answered>>

GateStep ==
    GateAsk \/ GateRefuse \/ GateGreen \/ GateGiveUp \/ GateSleep \/ GateMerge

-----------------------------------------------------------------------------
(* GitHub, and the clock *)

Running == gate \notin Exited \cup {"off"}

Register(c) ==
    /\ Running
    /\ checks[c] = "unregistered"
    /\ checks' = [checks EXCEPT ![c] = "pending"]
    /\ UNCHANGED <<gate, counts, late, reruns, answered>>
Finish(c) ==
    /\ Running
    /\ checks[c] = "pending"
    /\ \E b \in Bucket \ {"pending"} : checks' = [checks EXCEPT ![c] = b]
    /\ UNCHANGED <<gate, counts, late, reruns, answered>>
Rerun(c) ==
    /\ Running /\ reruns < MaxReruns
    /\ checks[c] \in {"fail", "cancel"}
    /\ checks' = [checks EXCEPT ![c] = "pending"]
    /\ reruns' = reruns + 1
    /\ UNCHANGED <<gate, counts, late, answered>>
\* A new head has no checks yet.
Push ==
    /\ Running /\ reruns < MaxReruns
    /\ checks' = None
    /\ reruns' = reruns + 1
    /\ UNCHANGED <<gate, counts, late, answered>>

DeadlinePasses ==
    /\ Running /\ ~late
    /\ late' = TRUE
    /\ UNCHANGED <<gate, counts, checks, reruns, answered>>

-----------------------------------------------------------------------------
GateRest(pc) ==
    /\ gate = pc
    /\ counts = Count(None) /\ late = FALSE /\ reruns = 0 /\ answered = None
GateInit == GateRest("ask") /\ checks \in [Checks -> {"unregistered", "pending", "pass"}]
GateNext ==
    \/ GateStep
    \/ \E c \in Checks : Register(c) \/ Finish(c) \/ Rerun(c)
    \/ Push \/ DeadlinePasses

\* The script runs and time passes; no check need ever end.
GateFairness == WF_gateVars(GateStep) /\ WF_gateVars(DeadlinePasses)

GateSpec == GateInit /\ [][GateNext]_gateVars /\ GateFairness

-----------------------------------------------------------------------------
(* Properties *)

\* "only merges once the rollup is non-empty AND every check is
\* terminal-passing" (merge-when-green.sh:10-11), as of gh's last answer: an
\* empty answer, an error, or a check that waits, failed or was cancelled in
\* it is never merged over.
MergesOnlyGreen ==
    gate \in {"merge", "merged"} =>
        /\ Registered(answered) # {}
        /\ \A c \in Registered(answered) : answered[c] \in {"pass", "skipping"}

\* The script ends, though checks may never register or never end
\* (merge-when-green.sh:68-71).
GateEnds == gate = "ask" ~> gate \in Exited
=============================================================================

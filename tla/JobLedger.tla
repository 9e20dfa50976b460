----------------------------- MODULE JobLedger -----------------------------
(***************************************************************************)
(* What the in-flight ledger (internal/parallelism) promises to a caller   *)
(* that starts a collection pass and waits for it: a job is in flight from *)
(* the moment a unit takes it until it ends, it ends once, and unless the  *)
(* caller gives up, the wait is over only when no job is in flight.        *)
(***************************************************************************)
CONSTANT Jobs

VARIABLES
    outcome,  \* outcome[j]: "none", "inflight", "ok" or "failed"
    wait      \* the caller: "before", "waiting", "done" or "interrupted"

Init ==
    /\ outcome = [j \in Jobs |-> "none"]
    /\ wait = "before"

Begin(j) ==
    /\ outcome[j] = "none"
    /\ outcome' = [outcome EXCEPT ![j] = "inflight"]
    /\ UNCHANGED wait

Finish(j) ==
    /\ outcome[j] = "inflight"
    /\ \E end \in {"ok", "failed"} : outcome' = [outcome EXCEPT ![j] = end]
    /\ UNCHANGED wait

StartWait == wait = "before" /\ wait' = "waiting" /\ UNCHANGED outcome

Return ==
    /\ wait = "waiting" /\ wait' = "done"
    /\ \A j \in Jobs : outcome[j] # "inflight"
    /\ UNCHANGED outcome

GiveUp == wait = "waiting" /\ wait' = "interrupted" /\ UNCHANGED outcome

Next ==
    \/ \E j \in Jobs : Begin(j) \/ Finish(j)
    \/ StartWait \/ Return \/ GiveUp

Spec == Init /\ [][Next]_<<outcome, wait>>
=============================================================================

--------------------------- MODULE RecoveryPlanner ---------------------------
(***************************************************************************)
(* The recovery planner (app/recovery): which business dates one trigger   *)
(* attempts.  Known incomplete dates are always attempted; calendar gaps   *)
(* are synthesized from the last succeeded date, or from the start of the  *)
(* catch-up window when that is later or nothing has succeeded.            *)
(***************************************************************************)
EXTENDS CollectionLedger

CONSTANTS
    CatchupDays,  \* length of the catch-up window; 0 switches it off
    Since         \* first business date of the source's life

ASSUME PlannerAssumption == CatchupDays \in Nat /\ Since \in Nat

\* The catch-up window that ends at target.
Window(target) == {d \in Dates : d > target - CatchupDays /\ d <= target}

\* Mutated: the last success does not bound the window.
Gap_WholeWindow(L, target) == Window(target)

\* The later of the two bounds wins: the day after the last success, or the
\* first day of the window.  Without either nothing is synthesized.
Gap(L, target) ==
    LET afterSuccess ==
            {d \in Dates : d <= target /\ \A s \in SucceededUpTo(L, target) : d > s}
        hasSuccess == SucceededUpTo(L, target) # {}
    IN  CASE CatchupDays > 0  -> Window(target) \cap afterSuccess
          [] hasSuccess       -> afterSuccess
          [] OTHER            -> {}

Plan(L, target) == Incomplete(L, target) \cup Gap(L, target)

\* Mutated: the window reaches back beyond the start of the source's life.
Attempted_BeforeSince(L, target) == Plan(L, target) \cup {target}

\* What Handle attempts: the plan from Since on, and always the target.
Attempted(L, target) == {d \in Plan(L, target) : d >= Since} \cup {target}
=============================================================================

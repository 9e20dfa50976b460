------------------------------ MODULE MCFanOut ------------------------------
(***************************************************************************)
(* Fan-out and fan-in on small instances.                                  *)
(***************************************************************************)
EXTENDS FanOut

CONSTANTS u1, u2, startup, daily, watch

TwoUnits == {u1, u2}
ThreeTriggers == {startup, daily, watch}
TwoTriggers == {startup, daily}

\* The startup pass is for all units, the schedule of a group and the watch of a
\* file for u1 only: u1 is asked three times.
StartupForAll == [t \in ThreeTriggers |-> IF t = startup THEN TwoUnits ELSE {u1}]
AllForAll == [t \in TwoTriggers |-> TwoUnits]
=============================================================================

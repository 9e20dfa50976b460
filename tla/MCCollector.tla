---------------------------- MODULE MCCollector ----------------------------
(***************************************************************************)
(* The collector on small instances.                                       *)
(***************************************************************************)
EXTENDS Collector

CONSTANTS p1, p2

TwoPaths == {p1, p2}
OnePath  == {p1}

\* The first version of p1 cannot be parsed; the second one can.
FirstMalformed == {<<p1, 1>>}
NoneMalformed  == {}

\* State files of older releases: day 1 waiting, without data, or succeeded
\* with a failure that was never cleared.
WithRecord(status, failed) ==
    [EmptyLedger EXCEPT !.status[1] = status, !.failed[1] = failed]
OlderReleases == {WithRecord("pending", {}), WithRecord("skipped", {}),
                  WithRecord("succeeded", {<<p1, 1>>})}
NoLegacy == {}

\* Two paths in different subdirectories, with the same last element or not;
\* a rewrite changes the length of a file or not.
SameName == {p1}
SharedName == [p \in Paths |-> p1]
OwnName == [p \in Paths |-> p]
OtherSize == [f \in Files |-> f[2]]
OneSize == [f \in Files |-> 1]
=============================================================================

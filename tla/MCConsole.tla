----------------------------- MODULE MCConsole -----------------------------
(***************************************************************************)
(* The console on a small instance: two components, two concurrent         *)
(* commands, a config file with and without the plugin, one page of each   *)
(* kind, and a bound on the mix of operations begun.                       *)
(***************************************************************************)
EXTENDS Console

CONSTANTS plugin, sink, e1, e2, watcher

TwoIds == {plugin, sink}
TwoEditors == {e1, e2}

\* The file declares both components, or drops the sink.
TwoFiles == {[i \in TwoIds |-> "v0"], [i \in TwoIds |-> IF i = plugin THEN "v1" ELSE Absent]}

BothPages == {"AlarmPage", "FailurePage"}

\* One of the alarms has a level the page knows no card for.
TwoAlarmAnswers ==
    {<<>>, <<[level |-> "warning"], [level |-> "critical"], [level |-> "info"]>>}

OneFailureAnswer == {<<[attempts |-> 2], [attempts |-> 3]>>}

\* Two sources on one date, the older date last.
TwoCollectionAnswers ==
    {<<>>, <<[date |-> 2, records |-> 5, filesFailed |-> 0],
             [date |-> 2, records |-> 3, filesFailed |-> 1],
             [date |-> 1, records |-> 2, filesFailed |-> 2]>>}

\* Two commands with a change of the file or a restart among them, and pages with a
\* command beside them.
FewMixes ==
    {[command |-> 2, outside |-> 1, page |-> 0],
     [command |-> 1, outside |-> 0, page |-> 2],
     [command |-> 0, outside |-> 1, page |-> 3]}
=============================================================================

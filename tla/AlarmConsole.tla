---------------------------- MODULE AlarmConsole ----------------------------
(***************************************************************************)
(* The console page of the alarm-demo plugin, as the browser runs it: a    *)
(* React component that reads three named queries of the console hub,      *)
(* shows them as cards, a trend chart and a table, and has two buttons.    *)
(*                                                                         *)
(* The package holds two sources of the page.  src/ui.tsx ("AlarmPage", the*)
(* one ui.js is built from) lists the alarms of the plugin's own process;  *)
(* src/ui.js ("FailurePage") lists the collector's failure ledger and      *)
(* grades it by attempts.  Everything else is the same in both, so the two *)
(* are instances p of one state machine; a definition is mapped to the     *)
(* source it was read from.                                                *)
(*                                                                         *)
(* React and antd are external: the state setters called in one callback   *)
(* are committed together, effects run after the commit, a button that is  *)
(* loading ignores clicks, and setters of an unmounted page do nothing.    *)
(* Acknowledging an alarm is left out: the page sends "ack-alarm", ignores *)
(* the answer and keeps its state, and the plugin's process stores nothing.*)
(***************************************************************************)
EXTENDS Naturals, Sequences, FiniteSets, SequencesExt

CONSTANTS
    Pages,              \* pages that may be open
    AlarmAnswers,       \* rows the plugin's "alarms" may return
    FailureAnswers,     \* rows the bridge's "failures" may return
    CollectionAnswers,  \* rows the bridge's "collections" may return
    MaxLoads            \* bound: loads of a page

ASSUME AlarmConsoleAssumption ==
    /\ Pages \subseteq {"AlarmPage", "FailurePage"}
    /\ AlarmAnswers \subseteq Seq([level : STRING])
    /\ FailureAnswers \subseteq Seq([attempts : Nat])
    /\ CollectionAnswers \subseteq Seq([date : Nat, records : Nat, filesFailed : Nat])
    /\ MaxLoads \in Nat \ {0}

VARIABLES
    page,     \* page[p]: the useState cells of the component
    request,  \* request[p][q]: the queries of the load under way
    chart,    \* chart[p]: the chart and whether its effect is still to run
    loads     \* loads[p]: loads the page has begun since it was opened

pageVars == <<page, request, chart, loads>>

Queries == {"rows", "collections", "schedule"}

NotAsked == [q \in Queries |-> [state |-> "none", data |-> <<>>]]

-----------------------------------------------------------------------------
(* What the page makes of the answers.                                     *)

\* Rows of the plugin are shown as they are.
AlarmRow(f) == [level |-> f.level]

\* The failure ledger has no levels: three attempts make a failure critical.
FailureRow(f) == [level |-> IF f.attempts >= 3 THEN "critical" ELSE "warning"]

Rows(p, answer) ==
    [i \in DOMAIN answer |->
        IF p = "AlarmPage" THEN AlarmRow(answer[i]) ELSE FailureRow(answer[i])]

Levels == {"critical", "warning"}

\* The first two cards.  Rows of other levels are tallied too, and not shown.
Cards(rows) ==
    FoldLeft(LAMBDA counts, r :
                 IF r.level \in Levels
                 THEN [counts EXCEPT ![r.level] = @ + 1] ELSE counts,
             [l \in Levels |-> 0], rows)

Add(agg, r) == [records |-> agg.records + r.records,
                failed  |-> agg.failed + r.filesFailed]

\* Mutated: a date keeps the numbers of its last row.
ByDate_LastRow(rows) ==
    [d \in {rows[i].date : i \in DOMAIN rows} |->
        FoldLeft(LAMBDA agg, r : IF r.date = d
                                 THEN Add([records |-> 0, failed |-> 0], r) ELSE agg,
                 [records |-> 0, failed |-> 0], rows)]

\* Collections of all sources, added up per date.
ByDate(rows) ==
    [d \in {rows[i].date : i \in DOMAIN rows} |->
        FoldLeft(LAMBDA agg, r : IF r.date = d THEN Add(agg, r) ELSE agg,
                 [records |-> 0, failed |-> 0], rows)]

\* A set of dates, sorted.
InOrder(S) ==
    CHOOSE s \in [1..Cardinality(S) -> S] : \A i, j \in DOMAIN s : i < j => s[i] < s[j]

\* The option handed to the chart: dates in order, two series over them.
ChartOption(rows) ==
    LET byDate == ByDate(rows)
        dates == InOrder(DOMAIN byDate)
    IN  [dates   |-> dates,
         records |-> [i \in DOMAIN dates |-> byDate[dates[i]].records],
         failed  |-> [i \in DOMAIN dates |-> byDate[dates[i]].failed]]

NoChart == [live |-> FALSE, stale |-> FALSE, option |-> ChartOption(<<>>)]

-----------------------------------------------------------------------------
(* The page.                                                               *)

\* useState: nothing to show, loading from the start.
Blank(mounted) ==
    [mounted |-> mounted, rows |-> <<>>, collections |-> <<>>,
     from |-> [q \in Queries |-> 0],
     loading |-> mounted, error |-> FALSE, busy |-> FALSE]

PageInit ==
    /\ page = [p \in Pages |-> Blank(FALSE)]
    /\ request = [p \in Pages |-> NotAsked]
    /\ chart = [p \in Pages |-> NoChart]
    /\ loads = [p \in Pages |-> 0]

\* The three queries leave together.
BeginLoad(p) ==
    /\ request' = [request EXCEPT ![p] = [q \in Queries |-> [state |-> "asked", data |-> <<>>]]]
    /\ loads' = [loads EXCEPT ![p] = @ + 1]

\* The renderer's first commit: the chart is made, then drawn with no rows, then
\* the mount effect loads.
OpenPage(p) ==
    /\ ~page[p].mounted
    /\ page' = [page EXCEPT ![p] = Blank(TRUE)]
    /\ chart' = [chart EXCEPT ![p] = [NoChart EXCEPT !.live = TRUE]]
    /\ BeginLoad(p)

\* Mutated: the chart is not disposed.
ClosePage_KeepsChart(p) ==
    /\ page[p].mounted
    /\ page' = [page EXCEPT ![p] = Blank(FALSE)]
    /\ chart' = [chart EXCEPT ![p].stale = FALSE]
    /\ request' = [request EXCEPT ![p] = NotAsked]
    /\ loads' = [loads EXCEPT ![p] = 0]

\* The chart is disposed; what is still to be answered finds no page.
ClosePage(p) ==
    /\ page[p].mounted
    /\ page' = [page EXCEPT ![p] = Blank(FALSE)]
    /\ chart' = [chart EXCEPT ![p] = NoChart]
    /\ request' = [request EXCEPT ![p] = NotAsked]
    /\ loads' = [loads EXCEPT ![p] = 0]

Refresh(p) ==
    /\ page[p].mounted /\ ~page[p].loading
    /\ loads[p] < MaxLoads
    /\ page' = [page EXCEPT ![p].loading = TRUE]
    /\ BeginLoad(p)
    /\ UNCHANGED chart

AnswersTo(p, q) ==
    CASE q = "rows" -> IF p = "AlarmPage" THEN AlarmAnswers ELSE FailureAnswers
      [] q = "collections" -> CollectionAnswers
      [] q = "schedule" -> {<<>>}

\* The "then" of the load: all three are shown at once.
Show(p, answered) ==
    /\ page' = [page EXCEPT ![p] =
                  [@ EXCEPT !.rows = Rows(p, answered["rows"].data),
                            !.collections = answered["collections"].data,
                            !.from = [q \in Queries |-> loads[p]],
                            !.error = FALSE,
                            !.loading = FALSE]]
    /\ chart' = [chart EXCEPT ![p].stale = TRUE]
    /\ request' = [request EXCEPT ![p] = NotAsked]

\* Mutated: the collections are shown when they arrive.
Answered_ShownAlone(p, q, data) ==
    LET answered == [request[p] EXCEPT ![q] = [state |-> "answered", data |-> data]]
    IN  /\ request[p][q].state = "asked"
        /\ IF \A r \in Queries : answered[r].state = "answered"
           THEN Show(p, answered)
           ELSE /\ request' = [request EXCEPT ![p] = answered]
                /\ IF q = "collections"
                   THEN /\ page' = [page EXCEPT ![p].collections = data,
                                                ![p].from["collections"] = loads[p]]
                        /\ chart' = [chart EXCEPT ![p].stale = TRUE]
                   ELSE UNCHANGED <<page, chart>>
        /\ UNCHANGED loads

\* An answer waits for the other two.
Answered(p, q, data) ==
    LET answered == [request[p] EXCEPT ![q] = [state |-> "answered", data |-> data]]
    IN  /\ request[p][q].state = "asked"
        /\ IF \A r \in Queries : answered[r].state = "answered"
           THEN Show(p, answered)
           ELSE /\ request' = [request EXCEPT ![p] = answered]
                /\ UNCHANGED <<page, chart>>
        /\ UNCHANGED loads

\* Mutated: loading is reset only by a load that succeeds.
Refused_StillLoading(p, q) ==
    /\ request[p][q].state = "asked"
    /\ page' = [page EXCEPT ![p].error = TRUE]
    /\ request' = [request EXCEPT ![p] = NotAsked]
    /\ UNCHANGED <<chart, loads>>

\* The first query that fails ends the load: the rows stay, with an error; the
\* other answers are not waited for.
Refused(p, q) ==
    /\ request[p][q].state = "asked"
    /\ page' = [page EXCEPT ![p].error = TRUE, ![p].loading = FALSE]
    /\ request' = [request EXCEPT ![p] = NotAsked]
    /\ UNCHANGED <<chart, loads>>

\* The chart's effect on its rows.
DrawChart(p) ==
    /\ chart[p].stale
    /\ chart' = [chart EXCEPT ![p].option = ChartOption(page[p].collections),
                              ![p].stale = FALSE]
    /\ UNCHANGED <<page, request, loads>>

TriggerCollection(p) ==
    /\ page[p].mounted /\ ~page[p].busy
    /\ page' = [page EXCEPT ![p].busy = TRUE]
    /\ UNCHANGED <<request, chart, loads>>

\* Accepted or not, the button comes back; the page does not tell.
TriggerAnswered(p) ==
    /\ page[p].busy
    /\ page' = [page EXCEPT ![p].busy = FALSE]
    /\ UNCHANGED <<request, chart, loads>>

-----------------------------------------------------------------------------
(* Properties.                                                             *)

PageTypeOK ==
    /\ \A p \in Pages :
           /\ page[p].mounted \in BOOLEAN /\ page[p].loading \in BOOLEAN
           /\ page[p].error \in BOOLEAN /\ page[p].busy \in BOOLEAN
           /\ page[p].from \in [Queries -> 0..MaxLoads]
           /\ \A q \in Queries : request[p][q].state \in {"none", "asked", "answered"}
           /\ chart[p].live = page[p].mounted
    /\ loads \in [Pages -> 0..MaxLoads]

\* The rows, the collections and the schedule on a page come from one load,
\* whatever the order the three answers arrive in and whichever fails; and once
\* the page is neither loading nor showing an error, that load is its last.
PageShowsOneLoad ==
    \A p \in Pages :
        /\ \A q, r \in Queries : page[p].from[q] = page[p].from[r]
        /\ page[p].mounted /\ ~page[p].loading /\ ~page[p].error =>
               \A q \in Queries : page[p].from[q] = loads[p]

RowsOf(rows, d) == {i \in DOMAIN rows : rows[i].date = d}
Records(rows) == [i \in DOMAIN rows |-> rows[i].records]
FailedFiles(rows) == [i \in DOMAIN rows |-> rows[i].filesFailed]
Total(rows, S) == [records |-> SumFunctionOnSet(Records(rows), S),
                   failed  |-> SumFunctionOnSet(FailedFiles(rows), S)]

\* The summaries agree with the rows they summarise: each card counts the rows of
\* its level, and the chart that has been drawn shows each date once, in order,
\* with the sums over all its collections.
SummariesMatchRows ==
    \A p \in Pages :
        /\ \A l \in Levels :
               Cards(page[p].rows)[l]
                   = Cardinality({i \in DOMAIN page[p].rows : page[p].rows[i].level = l})
        /\ LET rows == page[p].collections
               opt == chart[p].option
           IN  page[p].mounted /\ ~chart[p].stale =>
                   /\ \A i, j \in DOMAIN opt.dates : i < j => opt.dates[i] < opt.dates[j]
                   /\ \A i \in DOMAIN rows : Contains(opt.dates, rows[i].date)
                   /\ \A i \in DOMAIN opt.dates :
                          [records |-> opt.records[i], failed |-> opt.failed[i]]
                              = Total(rows, RowsOf(rows, opt.dates[i]))

\* A page that is loading, its refresh button out of use, still waits for an
\* answer: no failure, and no order of answers, leaves it loading for ever.
LoadingMeansAsked ==
    \A p \in Pages : page[p].loading <=> \E q \in Queries : request[p][q].state = "asked"
=============================================================================

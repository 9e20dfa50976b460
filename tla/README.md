# A TLA+ development of industrial-data-collector

The repository is a collector for files that industrial equipment drops on
network shares: every source directory is scanned once a business day, its files
are parsed and written to a database, and a ledger remembers what was collected
so that failures, restarts and late data lead to a retry and never to a loss.
This directory holds TLA+ models of the parts where that can go wrong, the TLC
configurations that check them on small instances, and TLAPS proofs for all
values of the constants.

    tlc -config Collector.cfg MCCollector.tla      # one run per .cfg, see "Runs"
    tlapm CollectorProofs.tla                      # and every other module with *Proofs or Lemmas in its name

`PROJECT.json` is the index: components, runs, which definition models which
lines, hazards, findings and theorems.


## 1. Inventory

Paths are relative to `src/`.

### The collecting core

| Component | State | Operations | Interacts with |
|---|---|---|---|
| executor `app/collector` | none of its own: date, listing and file under collection are on the stack | `Handle` (one trigger), `collectOne` (one date), `collectFile`, `BackupKeyFor` | source, ledger, planner, sink, backup, host gate |
| ledger `app/state` | one record per business date, completed and failed files per date, copied to a JSON state file | `Begin`, `End`, `Drop`, `FileCompleted`, `MarkFileCompleted`, `MarkFileFailed`, planner queries, migration, `snapshot`/`restore` | executor; planner; console (read only) |
| planner `app/recovery` | none | `Plan` | ledger |
| directory source `app/source` | of a flat source: the last content hash | `List`, `Open`, stable window, walking | upstream share, host gate |
| local backup `app/backup` | files in a directory | `CopyFile`, `PruneDays` | executor |
| sinks `app/storage` | tables, file keys, columns known | `Write` (one idempotent batch), `EnsureConnected` | database, connection pools |
| source unit `components/sourceunit` | queue `reqCh`, worker, context | event handler, worker, `Apply`, deactivation | event extension, parallelism, executor |
| gate and in-flight ledger `internal/parallelism` | slots in use, jobs pending, retained errors | `Acquire`, `Release`, `Begin`, `Finish`, `Wait`, `DrainErrors` | every unit, `runOnce` |
| process `cmd/csv-collector` | exit code | `runOnce`, `runResident` | all of the above |
| triggers `components/scheduler`, `components/watchtrigger` | timer; debounce timer and channel | dispatch one request | event extension |
| host gate `internal/hostgate` | verdict per host and round | `Reachable` | executor |

A trigger is an event. The event extension calls the handler of every unit in
turn; a handler books a job in the in-flight ledger and puts it into its unit's
queue. The unit's worker takes one job at a time, waits for a slot of the
process-wide gate and runs `Handle`: the planner turns the ledger and the target
date into a list of dates, and for each of them, oldest first, discovery lists
files, the ledger is asked for the date (`Begin`), up to `max_parallel_files`
files are read, written in batches, copied and marked, and the ledger closes the
date (`End`). Every ledger operation changes memory and then saves a snapshot.

What is hard here: the unit is cancelled or the process dies between any two of
these steps; a save fails with memory already changed; files of one date run in
parallel and all write the ledger; the upstream goes on changing while it is
read; a file too young to be read is left out; the retry must find what a failed
attempt left; a queue is full and the handler blocks the dispatch of all other
units; a pass waits for jobs of which some will never run.

What makes it correct: data before mark (a file the ledger calls completed is in
the database); a date succeeds only whole; a succeeded date is left alone; what
failed or was left running is retried until it succeeds; every booked job ends
and is counted exactly once; a wait ends, and not too early; the exit code tells
the truth.

### Around it

| Component | State | Hard behaviour | What would make it correct |
|---|---|---|---|
| host and overlay `app/host` | base document, patches, fleet document, runtime | edits, saves and reconciliation interleave; a rejected edit is rolled back | the overlay on disk never holds what the runtime rejected; memory and disk agree |
| fleet store `app/fleetstore` | versioned document | lost updates | a mutation applies to the version it was made for |
| table sink `app/storage/table.go` | connection, column mapping; in the database the columns, the file registry and its key counter | several writers of one new file; lazy connection; columns added while others write | a key never stands for two files, rows are under the registered key, a statement names columns that exist |
| pools and sink registry `app/storage/dbpool.go`, `components/storage` | reference counts, registered sinks | replacement of a component while others use it | a pool is open while it is referenced |
| single-instance lock `internal/applock` | a locked file | unlock, close, remove are three steps | two processes never both hold it |
| read model `app/query` | projection of events | events arrive after the records changed | converges to the ledger |
| console bridge `components/consolebridge` | none | – | requests reach the host as edits |
| source composition `app/sourcecomp`, `app/bundles` | none (pure) | identities of expanded sources collide | distinct sources get distinct identities |
| date policy `app/date`, schedule `app/scheduler` | none (pure) | end of month, daylight saving | next instant lies in the future |
| parsers, encodings `app/parser`, `app/encoding` | none (pure) | text | – |
| metadata `app/metadata` | none (pure) | template evaluation | – |
| configuration validation `app/config` | none (pure) | – | – |
| journal `internal/obsjournal` | ring of observations | – | bounded |
| alarm demo plugin `plugins/alarm-demo` | of a page: rows, collection trend, schedule, a chart, loading flag | three queries per load, answered or refused in any order; a plugin uninstalled under an open page; a page closed while it loads | what is shown is one load's answers; summaries agree with rows; the page never loads for ever |
| factories, manifests, other web assets | none | – | – |

A flat source (`layout = flat` in `app/source`) is the core's second kind: one file
that an instrument rewrites, collected when the watch trigger announces a change
or the schedule comes, under the date of the run. Its only memory of what was
collected is the last content hash in the source object, which a restart loses.

The console's commands and pages meet in the hub: a page asks named queries, the
bridge answers most of them, and "alarms" only while the plugin's component is in
the runtime, which is what the commands change.


## 2. Modules

    CollectionLedger   RecoveryPlanner     pure: the ledger as a value; the plan
             \           /
              Collector ---- MCCollector          one unit at work
             /    |    \--- (implements) -> Delivery
    LedgerLemmas  CollectorProofs ---- CollectorStepProofs
         \
          FlatSourceProofs ---- FlatSource ---- MCFlatSource       flat source, watch trigger,
                                                                   over the ledger and the plan
    JobLedger <- (implemented by) - FanOut ---- MCFanOut           requests, queues, waiting
                                      \------- FanOutProofs
    TableSink ---- MCTableSink                                     the database side of a batch
         \------- TableSinkProofs
    HostOverlayProofs ---- HostOverlay   AlarmConsole              desired state; the plugin's pages
                  \              \      /
                   \             Console ---- MCConsole            both, joined by the hub
                    \             /
                     ConsoleProofs

### CollectionLedger (`app/state/state.go`)

The ledger as a value `L` with four fields per date: `status` ("none" is a date
without a record), `expired` (a Running record is older than the stale lease),
`completed` and `failed` files. One operator per operation of `MemoryState`:
`Claimable`/`BeginIn` are `Begin`'s test and effect, `EndIn`, `DropIn`,
`MarkCompletedIn`, `MarkFailedIn`, the planner's queries, `Migrated` is what
`NewFile` does to a file of an older release and `SweptBefore` what a starting
unit does to dates before `since`. A file identity is `<<path, version>>`: the
code hashes source, path, size and mtime, so a rewrite is a new identity.
Timestamps, notes, error texts and attempt counts are left out.

### RecoveryPlanner (`app/recovery/planner.go`)

`Plan` as a set of dates: incomplete dates, and the gap that starts after the
last success or with the catch-up window, whichever is later. `Attempted` is what
`Handle` makes of it: nothing before `Since`, and always the target.

### Collector (`app/collector/executor.go` and what it calls)

One unit and one source. `pc` is the place in `Handle` and `collectOne`:

| `pc` | place in the code |
|---|---|
| `down`, `idle` | not activated; waiting for a job |
| `next` | head of the loop over the planned dates |
| `probed`, `unlisted` | `List` returned files, or an error that will be recorded |
| `closing` | `Begin` succeeded for a failed probe |
| `files` | the file goroutines run |

`filePc[p]` is the place of one file in `collectFile`: `queued` for a free
worker, `open`, `written` (all batches handed to storage), `copied`, `unmarked` (the
save of its mark failed, its failure is still to be recorded), and the ends `done`
and `failed`. `mem` is the ledger in memory, `disk` the state file.
`Saved`, `Unsaved` and `BestEffort` are the three ways an operation ends: changed
and saved, changed with a failed save, or with an error the caller drops. Each of
them is one action because `FileState` holds its lock across change and save.
`stored` is the set of batches in the database: a batch is one idempotent
transaction, so a set is enough; a failing write may or may not have committed.
`copies[d][n]` is the file of which the copy named `n` of date `d` was made:
copies are named after the last element of a path (`BaseName`) and compared by
length (`Size`), as in the code. `cancelled` is the unit's context, and each
action says whether the code looks at it there. `Cancel`, `Crash`, `Abandon`,
`Reapply` and `Start` are the ends and beginnings of an activation: after a crash
or a new component the ledger is what the state file says; when the component is
only re-applied its memory lives on.

The environment lets files arrive, be rewritten, settle and vanish, lets days
pass and leases expire.

### Delivery

What a unit promises those who read its marks and closed dates, without executor,
ledger operations or faults: a file is marked only when all its batches are stored,
a date is closed only with a marked file, marks go only with their whole date, and a
book in memory is written through to a file that may lag behind. `Collector`
implements it: `ImplementsDelivery`, with `unit` down or up as `pc` says, and `known`
and `saved` the marks and succeeded dates (`BookOf`) of `mem` and `disk`.

### FanOut (`components/sourceunit`, `internal/parallelism`, `cmd/csv-collector`)

Triggers (each dispatched by its own goroutine), units with a queue and a
worker, the gate, the in-flight ledger and the caller of a pass. A handler
between booking its job and the end of its select is `handler[t]`. A worker gives its
slot back (`ReleaseSlot`) before it ends the job in the ledger (`EndJob`). The mutex of
the in-flight ledger is held within one action everywhere except in `Wait`, whose
look at the context and whose falling asleep are two actions with the mutex held
between (`wait = "locked"`). The goroutine of `context.AfterFunc` is
`WakeOnCancel`; it does not take the mutex, so it is enabled there too. What a job
does is `Collector`'s business; here it takes a while and ends well or badly.

Three facts about the runtime library, which is not part of the repository, are
taken from how `components/` uses it: unsubscribing a handler does not wait for a
call under way; an error of one handler may end a dispatch; the context of a
component is not the one a signal cancels.

### JobLedger

What the in-flight ledger promises, without counters, queues or condition
variables: a job begins, ends once, and the wait returns only when no job is in
flight. `FanOut` implements it: `ImplementsJobLedger`, with `wait` mapped to
"waiting" for its three inner places.

### TableSink (`app/storage/table.go`, the pool of `app/storage/dbpool.go`)

What a batch, one step in `Collector`, is on the database side: sinks in lazy
mode that share a table, a file registry and a pool, and writers that write to
them in parallel. `pc[w]` is the place of a writer:

| `pc` | place in the code |
|---|---|
| `idle` | before and after `Write` |
| `ping`, `schema` | `EnsureConnected`: the reference to the pool is taken; the connection is published, its schema is being made |
| `evolve`, `alter` | `evolveAutoColumns`: before the lock; under it, the merged columns published and `ensureSchema` running |
| `begin` | the transaction is open, `resolveFileKey` looks the triple up |
| `advance` | `nextFileKey`: the counter row is updated |
| `enter` | the registry row is inserted, or the key of an old row filled in |
| `insert` | the data rows are written, then commit |

The database is external: a statement sees what is committed, the `UPDATE` of the
counter row waits for the transaction that holds it, and a transaction appears as
a whole. `mode[w]` is what a transaction will have done to the registry row
("register", "backfill", or "keep" for nothing). `dialect` decides how two
transactions that insert the same triple end: the loser reads the winner's key
(Oracle, SQL Server) or goes on with its own (PostgreSQL, MySQL). SQLite is left
out: it writes on one connection. `leaked`, `unmade` and `contended` are history:
which references were lost, which sinks failed in making their schema, which
files two transactions registered at once. A header is a set of columns; an insert
fails in the program when the statement's columns and the row's values differ in
number (`Insertable`).

### FlatSource (`app/source` with `layout = flat`, `components/watchtrigger`)

The file (`content`, `young` while its mtime is inside the stable window), the
watch loop (`event` unread, debounce `timer`, its channel's `token`, and `loop`,
which ends when a dispatch fails), and the unit: `queue`, and `pc` from `idle` over
`next` (a planned date), `hashing` (size and mtime seen, content not), `opening`
(claimed, the file not yet open) to `reading`. Size and mtime are compared until the
file is open (`touched`, `OpenChanged`) and never again, so the instrument may rewrite
it under `reading`, and `Collect` then succeeds under the hash of the content before.
`takes` counts how often the content in the file has been recorded since it came in,
`early` that one of these recordings was begun before it came in. It extends `RecoveryPlanner` and uses the ledger's operators, so what a
date's claim, end and retry are is defined once; batches, copy and saves, which
`Collector` has in detail, are one step, `Collect`. A failed job, a refused claim and an
interrupted read leave `lastHash` set: `missed` is the history of that.

### HostOverlay, AlarmConsole, Console (`app/host`, `plugins/alarm-demo`, the hub)

`HostOverlay` is the desired state. A command (`SetComponentConfig`,
`UninstallComponent`, `InstallComponent`) is a sequence of steps, because the
host's mutex guards single reads and writes only:

    patch -> save -> write -> base -> set -> overlay -> apply
                                              \-------\--> undo -> save -> write

`save` copies the patches under the lock, `write` writes that copy without it,
`base` reads `lastDesired`, `set` writes it back, `overlay` applies the patches and
validates, `apply` is the controller. An uninstall begins with `remove`: it has looked
at the base without the lock (`Uninstall`) and takes the lock to set its patch in a step
of its own (`SetRemoval`). The watcher (`Parse` and the last two) runs
beside the commands; its first parse (`pc` is "start", `WatchHost.Sync`) is made
whatever the file holds, later ones when it has changed. Patches are searched from
the end: an edit replaces the last patch of its component in place, and its undo puts
the former one back there or removes it (`LastPatch`, `SetPatch`, `RemovePatch`,
`Undoing`). A composition is a function from component ids to values;
what a patch does to it is taken from how `app/host` uses the config extension.
`promised`, `alone`, `newest`, `undisturbed` and `raced` are history: what
commands run one by one would have left, and which of them did overlap.

`AlarmConsole` is a page of the plugin in a browser. The package has two sources
of the page, `src/ui.tsx` (alarms) and `src/ui.js` (failures), which differ in what
the first query is and how rows are graded: two instances of one state machine.
A load asks three queries; each answer or refusal sets its cells; `Add`/`ByDate`
aggregate the collections into the trend, with its dates `InOrder`, `Cards` count rows by level; the chart is
drawn by an effect after the commit and disposed when the page closes.

`Console` puts both side by side and adds the hub: "alarms" is answered only while
the plugin is in `runtime`.


## 3. Runs

| Run | Question | Result |
|---|---|---|
| `collector` | Is the ledger right about the database, the copies and its own failures, whatever happens in whatever order? Is each step one that `Delivery` allows? | passes; 6 million states, complete |
| `collector_recovery` | Is everything that failed or was left running retried until it succeeds? | passes, with fairness; 263,000 states |
| `collector_retention` | Do the copies age out only when they may, does nothing reach back before the source's life, and are succeeded dates left alone, although success does not close a date? | passes |
| `fan_out` | Are jobs counted right, does the wait end and mean what it says, do full queues block anything for good? | passes, with fairness |
| `table_sink` | Do parallel writers of lazy sinks keep keys, rows, columns and pool references straight, whatever statement fails, and does a file keep its key? | passes; 4.1 million states, complete |
| `flat_source` | Is each content of a flat file recorded once, and in the end, with an unreliable announcer? | passes, with fairness; 788,000 states |
| `console` | Do patches, overlay file, base and runtime agree while commands, reloads and restarts interleave, and do the pages show one load's truth? | passes; 3 million states |
| `collector_window` | Is every date of the catch-up window rechecked, as the user guide says? | violated, see "Findings" |
| `collector_stable` | Is a file left out for its age collected later, as the user guide says? | violated |
| `copy_names` | Does every completed file have its own copy, as the user guide says? | violated |
| `orphan_job` | Does an exited unit leave no job in flight, as its comment says? | violated |
| `wait_wakeup` | Does `Wait` return when its context is cancelled, as its comment says? | violated |

Every property of a passing run has a mutant in `PROJECT.json`: a definition
changed the way a plausible bug would change it, with which TLC finds the
property violated. The mutated definitions stand next to the real ones and are
marked "Mutated".

### Bounds

`collector` has two dates, because recovery, the plan and "not the target" need
a second one; two paths and two workers, because the files of a date disturb each
other in pairs; two versions, so that a path is rewritten once; two batches, so
that a file can break off half-written; a first version of one path that cannot
be parsed; state files of three older kinds; one upstream change; and one fault,
which may be a failed save, storage, read or copy error, a cancellation or a
crash, at any step. Everything is combined with everything, so a fault hits each
step of each file with the other file anywhere. The two files share the name of
their copy, which is the hard case for `CompletedIsStored`.

`collector_recovery` trades the second path for a second fault (a failed save
followed by a crash, a crash during the retry, two failed probes), for a second
upstream change, and for liveness. It has no catch-up window, so a retry can only come
from the ledger, one batch and one worker: parallel files are `collector`'s question.
Every version can be parsed and no copies are kept, so that the changes are left for
what matters to a retry: a file leaves and comes back, and a date whose record a probe
dropped in between gets its data after all. That is in reach, and without the premise
on the directory in `UnfinishedIsRetried` TLC finds the date that is lost.

`collector_retention` has three days, the fewest with which a copy ages out (it
is kept for one day), a window of two days is shorter than the calendar, and a
life that starts on the second day has a day before it. It appends, so a
succeeded date may be collected again.

`fan_out` has two units with a queue of one, a gate of one slot and an error
ledger that retains one error, each the smallest at which the limit is reached;
three triggers, so that the first unit has a job running, a job queued and a
handler blocked; one unit may be stopped and one context may end.

`table_sink` has two sinks, one with automatic and one with declared columns, and
two writers on each, so that every shared thing (a sink's connection, its lock, the
counter row, a file) is contended by two, and a third disturbs them. The three
files are one registered with a key, one whose entry is older than keys, one
unknown; their headers overlap in part. Three writes and one close are enough for
two registrations of one file and a third that finds their result. The three
dialects are the three ways an insert of a known triple can end; SQL Server's is
Oracle's.

`flat_source` has two contents, two days and a catch-up of none, and a queue of one,
at which the dispatch blocks (8 in the code; a larger queue only delays that).
Two writes let a content change and come back while it is hashed, read or
announced; one fault is a cancellation, crash, refused share or failed storage, at
any step. (With three writes the safety properties hold as well, over 3.3 million
states.) The run is in append mode, where a succeeded date takes further contents; with
`AppendMode` false it passes too, and the theorems are for both. Deadlock is
checked: the schedule never ends.

`console` has two components, of which the second may vanish from the config file
and the first is the plugin; three configurations to type in: good, refused by
the validation, never ready; two commands that overlap anywhere; one page of each
kind with two loads. `Mixes` bounds the combination: two commands with one change
of the file or restart, one command with two page operations, one change with
three page operations. Two commands together with pages add states and nothing
else, since a page sees of the host only whether the plugin is there.

`MaxChanges`, `MaxFaults`, `MaxStops` and `MaxEnds` only bound how often the
environment acts; `MaxDay` and `MaxVersion` bound the calendar and the rewrites.
The runs of `FanOut` do not check for deadlock: the process ends when the pass
has ended; nor do `table_sink` and `console`, where writers, operators and pages
stop at their bounds. The collector and the flat source never stop, and deadlock
is checked there.

### Fairness

`Collector`: the unit's goroutines run (weak fairness of `Unit`); days pass,
leases run out and young files settle, because time does. The scheduler's trigger
for today is strongly fair: it fires again and again and, while another job runs,
waits in the unit's queue, so it is served although the unit is not idle all the
time. Operators, the upstream, faults, cancellations and crashes owe nothing.
Faults are bounded, which is the liveness properties' premise that failures stop;
their other premise is in the formula: the date's files are there and readable
from some time on.

`FanOut`: goroutines run; a running job ends; the `-once` process dispatches its startup
trigger. Contexts need not end and units need not stop. That a job ends is an assumption
about its surroundings and not a fact of the code: the probe of a host has a time limit
and database calls have a context, but a plain `open` or `read` on a share that hangs has
neither. `PassEnds` and `JobsEnd` are about what the queues, the gate, the handlers and the
waiter do to each other, given that the operating system answers.

`FlatSource`: the worker, the debounce timer, the schedule and the stable window
make progress (weak fairness). The watch loop is strongly fair, because its
request is blocked in a channel send while the queue is full, and the Go runtime
serves waiting senders in order: it gets its turn although the schedule fills the
queue again and again. The instrument, the calendar and faults owe nothing. The instrument writes a bounded
number of times: one that rewrites its file for ever, faster than the debounce, arms
the timer again before each expiry and is never announced by the watch trigger, which
is what a debounce does and what `EventsAreAnnounced` does not speak of.
`TableSink` and `Console` have safety properties only and no fairness.


## 4. Properties

`CompletedIsStored` (data before mark), `NoFailureOnSuccess`, `LifeStartsAtSince`,
`SucceededIsWhole`, `CatchUpLeavesSuccessAlone`, `ImplementsDelivery`, `UnfinishedIsRetried` and
`TodayIsCollected` of `Collector`; `CountersMatchJobs`, `ExitCodeIsHonest`, `SleeperAwaitsAJob`,
`SomebodyMoves`, `ImplementsJobLedger`, `PassEnds`, `DispatchEnds` and `JobsEnd` of
`FanOut`; `KeysTellFilesApart`,
`RowsFollowTheRegistry`, `KeysAreForLife`, `OwnColumnsExist` and `PoolRefsAccountedFor` of `TableSink`;
`UnchangedIsRecordedOnce`, `SuccessIsRecorded`, `OwedIsCarried`,
`SettledContentIsRecorded` and `EventsAreAnnounced` of `FlatSource`; `EditsAreIsolated`, `NewestSnapshotSurvives`,
`RuntimeFollowsOverlay` and `BaseFollowsFile` of `HostOverlay`; `PageShowsOneLoad`,
`SummariesMatchRows` and `LoadingMeansAsked` of `AlarmConsole`;
`AlarmsComeFromThePlugin` of `Console`. Each is stated in words
above its definition. Some remarks on what they are not:

* `CatchUpLeavesSuccessAlone` excepts the date the trigger asked for. There the
  code does drop a record of success: an explicit trigger for a collected date
  whose directory has vanished ends in `Drop`, and the completed-file marks go
  with it. Restoring the directory and triggering again collects it again, and
  the sinks take the same batches as the same rows.
* `CompletedIsStored` asks for a copy of the file's name, not for a copy of the
  file: the latter does not hold, see `copy_names`.
* `UnfinishedIsRetried` asks that the date's directory neither fills nor empties from
  the failure on. A probe that finds it empty drops the failed record, and nothing
  plans the date again when its data return; see "Findings". A record whose save
  failed is only promised its retry while the process lives.
* `CountersMatchJobs` states the order of the code, booked before sent, which the
  comment on `Begin` denies; see "Findings".
* `UnchangedIsRecordedOnce` allows a second recording of a content that came in while
  the content before it was being read. It counts recordings by content; which rows a
  file that changes under the reader yields is not modelled, nor does
  `SettledContentIsRecorded` say anything of them.
* `JobsEnd` excepts stopped units, because of the finding `orphan_job`; so does
  `SomebodyMoves` the jobs in the queue of a worker that has gone (`LeftBehind`).
* `SleeperAwaitsAJob` is about the end of jobs. That a cancelled context wakes the
  sleeper is what the finding `wait_wakeup` refutes.
* `SomebodyMoves` and `OwedIsCarried` are the safety part of `DispatchEnds` and
  `EventsAreAnnounced`: who can move is spelled out as the guards of the actions, so
  that they can be proved, and fairness does the rest in the runs.
* `TodayIsCollected` speaks of the date the calendar has come to stay at. For a
  date that passed without data, `WindowIsRechecked` is the question, and the
  answer is no.
* `RowsFollowTheRegistry` excepts the files two transactions registered at the same
  time, on databases where the loser does not read the winner's key, and old
  entries without a key that two filled in. There rows may be under a key the
  registry does not have; that key still tells its file from all others.
* `KeysAreForLife` excepts, of these, old entries without a key only: the transaction
  that commits last replaces the key the other one filled in.
* `ImplementsDelivery` speaks of the database and the ledger, not of copies. It lets
  a date lose all its marks, since `Drop` and the migration take them away, and a
  closed date be reopened; a mark that goes alone, or comes before its data, it does
  not allow.
* `OwnColumnsExist` speaks of a batch's own header. The statement is built from the
  mapping of the moment and may name a column of another batch's header that is
  not there yet; then it fails and is retried. A sink with declared columns whose
  schema could not be made is excepted: nobody makes it later.
* `PoolRefsAccountedFor` counts the references two simultaneous connections of one
  sink leak; the pool then stays open for good.
* `SettledContentIsRecorded` excepts a content whose only attempt missed.
* The four properties of `HostOverlay` each name the overlap under which they do not
  hold: commands on one component that overlap, an older snapshot written last, a
  reconcile that overlapped another one or failed for good, a reload between a
  command's read and write of the base. Without these exceptions each is violated, and
  `PROJECT.json` lists the four cases as hazards no property covers. What is left:
  commands on different components share one list, and a rollback must leave the others'
  patches alone (`EditsAreIsolated`); no change of the list, a rollback included, goes
  without a whole save after it (`NewestSnapshotSurvives`); a rejected edit is rolled
  back to what still runs (`RuntimeFollowsOverlay`); what commands write back as the base
  is never patched (`BaseFollowsFile`).
* `AlarmsComeFromThePlugin` does not say that rows of an uninstalled plugin
  disappear from an open page: they stay until it is refreshed.


## 5. Findings

* `collector_window`: a date without a record that lies before the last success
  is not planned again, though it is in the catch-up window. The plan's gap starts
  the day after the last success; `docs/用户指南.md:57` promises a recheck of all
  dates of the window that have no success record.
* `collector_stable`: when one file of a date is still too young and another one
  is not, the date is collected without the young file, succeeds, and is closed.
  `docs/用户指南.md:261` and `docs/OPERATIONS.md:353` promise that a later trigger
  picks the young file up.
* `copy_names`: two files of one date with the same last path element share one
  copy. With equal sizes the second is taken for copied, otherwise it overwrites
  the first. `docs/用户指南.md:208` promises that no file is in the database and
  not in the backup, and discovery is recursive.
* `orphan_job`: a handler inside its select may choose to send although the
  unit's context is done, and after the worker has drained its queue and
  returned. Nobody finishes that job; a later `Wait` waits for it.
* `wait_wakeup`: the broadcast of a cancelled context may come between the
  waiter's check of the context and its falling asleep. `Wait` then sleeps until
  the last job ends.

Met while modelling the other components. No run has these as violated
properties; where a property would be wrong because of one, it names the exception.

* A date that failed and whose directory was gone at the next trigger loses its record
  (`app/collector/executor.go:204`). Without a catch-up window, or after a later success,
  it is not planned again when its data return. `docs/用户指南.md:262` says that failed
  tasks stay in the plan and are retried at every trigger, `docs/RECOVERY.md:46-47` that
  known incomplete rows are always attempted, and `:63-65` that a missing directory is
  left Pending and rechecked.
* A job is booked before it is queued (`components/sourceunit/component.go:275`), while
  the comment on `Begin` (`internal/parallelism/parallelism.go:64`) says it is called
  after it was queued. The code's order is the sound one.
* A flat file that is rewritten while it is read is recorded under the hash of the
  content before and again under its own (`app/source/source.go:446` against
  `docs/CONFIGURATION.md:210-215`).
* A rejected edit is visible before it is rolled back: it is in the patch list and
  the overlay file while the reconcile runs, and a failed save leaves it there
  (`app/host/host.go:543` against the comment at `:493`).
* The card of the next collection always shows a dash: the page reads
  `schedule.next` of an answer that is an array
  (`plugins/alarm-demo/src/ui.tsx:136`, `components/consolebridge/component.go:225`).
* The loser of a simultaneous registration writes under a key that is in no
  registry row (`app/storage/table.go:839` against `:786`).
* The column mapping is published before the columns exist
  (`app/storage/table.go:276` against `:267`).
* The connection is published before the schema exists, and a schema that could not
  be made is not retried (`app/storage/table.go:361` against
  `docs/用户指南.md:100`).
* A flat source remembers a content when it discovers it: a failed, refused or
  interrupted collection of it is not repeated (`app/source/source.go:396` against
  `components/sourceunit/component.go:199`).
* An element of the debounce channel announces at once, also when a younger event
  has armed the timer again (`components/watchtrigger/component.go:137` against
  `:121`).


## 6. Proofs

### The collector

These proofs are for any number of dates, paths, versions, batches, parallel files,
upstream changes and faults, any set of malformed versions and any legacy
ledgers. The assumptions are the named ASSUMEs `LedgerAssumption`,
`PlannerAssumption` and `CollectorAssumption`; they only say what kind of value
each constant is, and that legacy ledgers come without completed files, because
the rows those stand for were stored before the model's history begins.

`LedgerLemmas` says of each ledger operation that it yields a ledger, what it
does to the status and the completed files, and that it forgets completions but
never invents one (`Forgets`). The later proofs cite these lemmas instead of the
definitions.

`CollectorProofs` proves `TypeOK`, `CompletedIsStored` and `NoFailureOnSuccess`. None is inductive by itself.
`MarkFileCompleted` is harmless only because the file is `copied`, `copied` means
all batches written, and the batches written are stored under the current date:
`FileOK` says so for each place a file can be in. `MarkFileFailed` keeps
`NoFailureOnSuccess` only because the date is Running while files are collected:
`CurOK`. `IInv` is the conjunction. The proof that a step keeps it has one lemma
per action. Three frame lemmas carry most of the weight: `RunStep` (a step that
keeps the sinks and invents no completion), `FileStepKeeps` (a step of one file
leaves the other files' `FileOK` alone) and `BackedStays` (a ledger stays backed
while it loses marks and the sinks gain). That a copy may be overwritten is why
the proofs speak of names under which there is a copy (`Keeps`) and not of a
growing set of copies.

`CollectorStepProofs` proves the two action properties and `LifeStartsAtSince`.
They need to know what
the run has in hand before the step: `PlanInv`. A succeeded date is in the plan
only if it is the target, because incomplete dates did not succeed and the gap
lies after every success (`PlannedFacts`); a file that is through is completed in
the current record; a date that is closed is Running; neither the plan nor the
current date lies before `Since`. With `IInv`, each step
keeps `PlanInv` and satisfies both step formulas (`StepGood`).

The same module proves the refinement of `Delivery`, one lemma per action. A step
maps to `Mark` because a copied file has all its batches stored (`FileOK`); to
`Close` because a date ends well only when each listed file is done, a file that is
done is marked (`PlanInv`), and one is listed (`SomeListed`, the one invariant the
refinement adds); to `Load` because the migration and the sweep drop whole
dates (`BookLoads`). An operation that may fail, or whose error is dropped, is a
`Write` or nothing (`BestEffortWrites`). `PromiseMeansDelivered` then says what the
abstract steps are good for: of whatever implements `Delivery`, every marked file,
in memory and in the file, is in the database.

| Theorem | Says |
|---|---|
| `Inductive` | `Spec => []IInv` |
| `TypeCorrect` | `Spec => []TypeOK` |
| `CompletedIsAlwaysStored` | `Spec => []CompletedIsStored` |
| `SuccessIsAlwaysClean` | `Spec => []NoFailureOnSuccess` |
| `PlanAlwaysHolds` | `Spec => []PlanInv` |
| `LifeAlwaysStartsAtSince` | `Spec => []LifeStartsAtSince` |
| `SuccessIsAlwaysWhole` | `Spec => SucceededIsWhole` |
| `CatchUpAlwaysLeavesSuccessAlone` | `Spec => CatchUpLeavesSuccessAlone` |
| `DeliveryImplemented` | `Spec => ImplementsDelivery` |
| `PromiseMeansDelivered` | `ImplementsDelivery => []Promise!MarkedIsDelivered` |

### The table sink

`TableSinkProofs` proves every property of `table_sink`, for any number of sinks,
writers and files, any headers and registry to start from, any of the four
dialects, and any number of writes and closes. The assumptions are
`SinkAssumption` (finite sets, every sink with its writers, no empty header) and
`RegistryAssumption`: the keys in the registry at the start differ and do not
exceed `Baseline`, which is the maximum the code seeds the counter from.

The inductive invariant `IInv` has five parts, each kept by every step:

* `Types`, the kinds of values.
* `Pool`, the property itself: the counts move together.
* `Columns`. What a sink has mapped is in the table unless a writer is adding it
  (`Mapped`); that writer holds the lock, alone (`Locked`), and goes back to columns
  that are there (`Altering`). So a batch that passed `evolve` has its columns
  (`OwnThere`), although a failure of another writer takes columns out of the
  mapping, because it never takes any out of the table.
* `KeyInv`. No key in use exceeds the last one issued (`Issued`); only the holder of
  the counter row has a key of its own, the next one (`OneIssuer`), others insert
  with a key that is in use (`KeyInHand`); and keys in registry, rows and hands of
  writers are apart (`Apart`). A clash of keys at the insert is therefore
  impossible (`NoClash`), which is why a pass over it by `INSERT IGNORE` does no
  harm.
* `RowInv`. Rows follow the registry (`RowsOK`); a file that is not contended is
  registered by one transaction, and its entry is still as that one found it
  (`Uncontended`); so what is about to be committed is either a new entry or rows
  that follow the old one (`Committable`). That entries only change in the hands of
  the counter row's holder comes from `KeyInv`.

`KeysAreForLife` follows from the same invariant step by step. Registry rows change only
when a transaction commits, and the counter then or when the schema first seeds it
(`KeysUntouched`). A commit never registers a file over a key (`Committable`); one that
fills in an old row's key found the row without one, and it still is, unless another
transaction fills it in as well (`FoundStays`, `Uncontended`), which is the case excepted;
and the counter goes to one more than was issued (`OneIssuer`).

`KeysFrame`, `ColumnsFrame` and `RowsFrame` say what a step has to leave alone for a
part to be kept; most actions are instances of them.

| Theorem | Says |
|---|---|
| `SinkInvariant` | `Spec => []IInv` |
| `SinkTypes` | `Spec => []TypeOK` |
| `PoolIsAccountedFor` | `Spec => []PoolRefsAccountedFor` |
| `WritesFindTheirColumns` | `Spec => []OwnColumnsExist` |
| `KeysAreApart` | `Spec => []KeysTellFilesApart` |
| `RowsAreRegistered` | `Spec => []RowsFollowTheRegistry` |
| `KeysStayForLife` | `Spec => KeysAreForLife` |

### The fan-out

`FanOutProofs` is for any number of units, triggers and stopped units, any queue
capacity, gate size and retention, for `-once` and the resident process; the
assumption is `FanOutAssumption` (finite sets, positive sizes). That the counters
agree is not inductive: a counter that goes down when a worker ends must have
counted that worker's job. `IInv` therefore says where jobs are:

* `Placed`, `OnePlace`, `NoRepeats`, `Hands`. A job is in flight exactly while it is
  in the hands of a blocked handler, in a queue or in the hands of a worker, in one
  of these and there once.
* `Unasked`: a unit a dispatch has still to ask has no job of it.
* `Retained`: while the pass runs, a failed job means that an error is retained,
  although the ledger of errors is bounded and drops the oldest.
* `NobodyForgotten`, `Waited`: a unit the startup request is for is still to be asked,
  has its job, or there is a failure to tell of; and a wait that returned found no job
  of the pass in flight. Together they give `ExitCodeIsHonest`.

`JobMoves` reduces every step to one of three things: it books a job nobody had, ends
one in flight, or leaves the jobs alone. `GoneIsStopped` says that a worker drains and
goes only when its unit is stopped. Freedom from deadlock, `SomebodyMoves`, is a
consequence of the invariant: a job in flight is in one of its places; a blocked handler
has a full queue before it, whose worker is not gone, and a worker waits only for a gate
whose slots, by `CountersMatchJobs`, workers that run hold. The counters, the outcomes and the refinement
of `JobLedger` rest on it. `LedgerImplemented` maps each step to one of the abstract
ledger or to a stutter; that the wait returns only with nothing in flight is
`CountersMatchJobs` at the moment the counter is read.

| Theorem | Says |
|---|---|
| `FanOutInvariant` | `Spec => []IInv` |
| `FanOutTypes` | `Spec => []TypeOK` |
| `CountersAgree` | `Spec => []CountersMatchJobs` |
| `ExitCodeTold` | `Spec => []ExitCodeIsHonest` |
| `SleeperWaitsForAJob` | `Spec => []SleeperAwaitsAJob` |
| `NoCircleOfWaits` | `Spec => []SomebodyMoves` |
| `LedgerImplemented` | `Spec => ImplementsJobLedger` |

### The flat source

`FlatSourceProofs` is for any contents, dates, queue capacity and number of writes and
faults (`FlatAssumption`: one path, a positive capacity). The invariant adds to the
properties that what is being opened is what the source remembers, and is still the
file's content unless the file was touched (`Reading`); that a content counted as recorded is
the remembered one and is not being read again, or was recorded early, under the one before it,
and then once more at most (`Recorded`); and that what the ledger calls
completed is in the database (`LedgerIsStored`). It uses the lemmas on ledger operations
of `LedgerLemmas`.

| Theorem | Says |
|---|---|
| `FlatSourceInvariant` | `Spec => []IInv` |
| `FlatSourceTypes` | `Spec => []TypeOK` |
| `RecordedOnce` | `Spec => []UnchangedIsRecordedOnce` |
| `SuccessRecorded` | `Spec => []SuccessIsRecorded` |
| `EventsAreCarried` | `Spec => []OwedIsCarried` |

### The console: the desired state

For any number of operators, components, compositions and values, and any number of
operations of each kind. The assumptions are `HostOverlayAssumption` (finite sets;
the names "disk" and "none" of the history variable `newest` are not editors),
`AlarmConsoleAssumption` and `ConsoleAssumption`.

`HostOverlayProofs` first says what the operators on patch lists do. All of them
filter a list by position (`At`), and the proofs need to know how positions are
renumbered: `RankBijective`, `AtAt` and `AtExcept` say it once. From these come the two
facts everything else rests on: what is done to the patch list does to the patches
of one component what the same operation does to that component's patches alone
(`SetPatchOf`, `DropOf`, `UndoingOf`) and nothing to those of the others; and undoing an
edit from what it remembers gives exactly the list before it (`UndoneIsBefore`).

The inductive invariant `OverlayInv`, kept by one lemma per step:

* `OverlayTypes`, `Control`: kinds of values; which step a command of which kind is at,
  and that an edit remembers a patch of its own component.
* `BaseKept`: unless a reload fell between a command's read and write of the base, what
  such a command is about to write is the base, and the base is what the watcher parsed.
* `NewestHeld`: when no change waits for its snapshot, the newest snapshot is the
  patches in memory, held by its writer or on disk.
* `Isolated`: besides `EditsAreIsolated`, of the commands on a component that never
  overlapped at most one is under way, and undoing it would give back what it found.
* `Reconciled`: nothing having been disturbed, one actor at most is at work; what it
  holds is what base and patches say; the list without its edit is what runs; and with
  everybody at rest the runtime is what base and patches say.

`ConsoleProofs` puts these lemmas together with the console's next-state relation.
What the overlay of a base and patches is stays unexpanded throughout: the theorems hold
whatever the config extension makes of a patch, and need no induction over the list.

The first attempt at `Reconciled` failed, and found the model wrong: it compared the
watcher's copy with the file alone, so a process whose file declared no components
counted as quiet before it had parsed anything, with patches from the overlay file that
nobody had applied. The code always parses once (`Sync`); the model now has the
watcher's "start". It also had replaced every patch with the same operation and id
where the code replaces the last; the two agree on the lists the host makes itself, not
on an overlay file written by hand.

### The console: the pages

`PageInv` says of each page that a chart that is not stale is the one its collections
give, that the queries of a load are asked together and given up
together, that it is loading exactly while one of them is unanswered, that what it shows
has one load as its source, and, for the alarm page, that an answer to "alarms" in hand or
on the screen means the plugin has been there since the load began (`served`). A step of
one page is proved once (`OnePageMoves`), the seven kinds of step from it.

That the summaries agree with the rows needs what the page's folds yield for every
list. The library's induction takes an operator, so the induction is stated of sets:
if the lengths at which a claim fails were not empty they would have a least element
(`WFMin`, from `NatLessThanWellFounded`), which the step refutes. So the sums,
the counts and the sorted dates are right for any number of rows, and the rest is that
the chart belongs to the collections the page holds.

| Theorem | Says |
|---|---|
| `OverlayInvariant` | `Spec => []OverlayInv` |
| `EditsIsolated` | `Spec => []EditsAreIsolated` |
| `NewestSurvives` | `Spec => []NewestSnapshotSurvives` |
| `RuntimeFollows` | `Spec => []RuntimeFollowsOverlay` |
| `BaseFollows` | `Spec => []BaseFollowsFile` |
| `PagesInvariant` | `Spec => []PageInv` |
| `OneLoadShown` | `Spec => []PageShowsOneLoad` |
| `LoadsAreAsked` | `Spec => []LoadingMeansAsked` |
| `SummariesMatch` | `Spec => []SummariesMatchRows` |
| `AlarmsFromThePlugin` | `Spec => []AlarmsComeFromThePlugin` |
| `ConsoleTypes` | `Spec => []TypeOK` |

### What is only model-checked

The liveness properties (`UnfinishedIsRetried`, `TodayIsCollected`, `PassEnds`,
`DispatchEnds`, `JobsEnd`, `SettledContentIsRecorded`, `EventsAreAnnounced`): TLAPS does
not reason about fairness and ENABLED. All other properties of the passing runs are
proved.


## 7. Not modelled, and the plan

In the models' shadow: the bytes of files and copies (a copy is of a version, a
batch is the file's n-th, whatever was in the file when it was read),
the wording and counters of results and observations, the host gate's cache (its
verdict is a fault), the computation of dates and instants (dates are inputs),
and file globbing. The parsers decide whether a version can be read and nothing
else.

Of the modelled components are left out: the SQL sink without typed columns and
the content of rows; the patches that insert a row, the read-only layers under the
overlay, secrets; the page's "ack-alarm" button, whose answer it ignores; and
`plugins/alarm-demo/ui.js`, the bundle built from `src/ui.tsx`.

The plan for what is left, the most important first. The questions go into runs
that exist, as more actions and properties of their modules:

1. The replacement of a component: a new unit loads the state file while its
   predecessor's worker may still save it; in `Collector`, as a second memory.
2. The registration of sinks while components are replaced, next to the pool in
   `TableSink`; the single-instance lock; the read model against the ledger. Each a
   small module.
3. Pure algorithms as operators, checked against reference definitions over
   enumerated inputs: fleet expansion, metadata templates, due instants.
4. Proofs: the safety part of the collector's liveness (what is left unfinished is in the
   plan of the next trigger), freedom from deadlock of the table sink's two locks, and
   the lemmas the first item needs.

------------------------------ MODULE Collector ------------------------------
(***************************************************************************)
(* One source unit collecting one source: the executor (app/collector)     *)
(* over the directory source (app/source), the file-backed ledger          *)
(* (app/state), the planner (app/recovery), the storage sink and the local *)
(* backup (app/backup).                                                    *)
(*                                                                         *)
(* The unit handles one trigger at a time (its worker is serial), the      *)
(* dates of a trigger oldest first, and up to FilesPerSource files of a    *)
(* date at once.  Around it files arrive, are rewritten or removed, days   *)
(* pass, leases run out, the unit is cancelled or the process dies between *)
(* any two steps.  Every mutation of the ledger changes memory and then    *)
(* saves a snapshot under one lock; the save may fail.                     *)
(*                                                                         *)
(* Bounds: MaxDay days, MaxVersion versions of a path, Batches batches per *)
(* file, MaxChanges changes of the upstream and MaxFaults faults.          *)
(***************************************************************************)
EXTENDS RecoveryPlanner

CONSTANTS
    Batches,         \* batches a file is written in
    FilesPerSource,  \* files of one date collected at once
    Malformed,       \* file identities whose content cannot be parsed
    BackupDir,       \* TRUE: completed files are copied to a local directory
    KeepDays,        \* days of copies kept; 0 keeps all
    BaseNames,       \* names a copy may have in its date's directory
    BaseName,        \* BaseName[p]: last element of a path, the name of its copy
    Size,            \* Size[f]: length of a file; copies are compared by it
    NoCopy,
    RemoteHost,      \* TRUE: the root is a UNC path, guarded by the host gate
    LegacyLedgers,   \* ledgers an older release may have left on disk
    MaxChanges,      \* bound: arrivals, rewrites and removals upstream
    MaxFaults        \* bound: failures, cancellations and crashes

ASSUME CollectorAssumption ==
    /\ Batches \in Nat \ {0}
    /\ FilesPerSource \in Nat \ {0}
    /\ Malformed \subseteq Files
    /\ BackupDir \in BOOLEAN
    /\ KeepDays \in Nat
    /\ BaseName \in [Paths -> BaseNames]
    /\ Size \in [Files -> Nat]
    /\ NoCopy \notin Files
    /\ RemoteHost \in BOOLEAN
    /\ LegacyLedgers \subseteq Ledger
    /\ \A L \in LegacyLedgers : \A d \in Dates : L.completed[d] = {}
    /\ MaxChanges \in Nat
    /\ MaxFaults \in Nat

VARIABLES
    (* the upstream share and the calendar *)
    src,        \* src[d][p]: version of path p under date d, 0 when absent
    unstable,   \* unstable[d]: paths younger than the stable window
    today,      \* the current business date
    changes,    \* upstream changes so far
    (* the ledger *)
    mem,        \* in the unit's memory
    disk,       \* in the state file
    (* the unit *)
    pc,         \* where the run is
    target,     \* date the current trigger asks for
    todo,       \* planned dates not yet attempted
    cur,        \* date under collection
    listing,    \* listing[p]: version discovery returned for p, 0 if not listed
    omitted,    \* paths discovery left out as too young
    filePc,     \* filePc[p]: progress of a listed file
    written,    \* written[p]: batches of p handed to storage in this attempt
    cancelled,  \* the unit's context is done
    (* the sinks *)
    stored,     \* <<date, file, n>>: batch n of a file is in the database
    copies,     \* copies[d][n]: file whose content the local copy n of d has
    (* faults so far *)
    faults

envVars  == <<src, unstable, today, changes>>
fileVars == <<listing, omitted, filePc, written>>
sinkVars == <<stored, copies>>
vars == <<envVars, mem, disk, pc, target, todo, cur, fileVars, cancelled,
          sinkVars, faults>>

NoDate == 0

\* Progress of a file: not listed, queued, open, all batches written, copied,
\* marked without the mark being saved, and the two ends.
FilePc == {"none", "queued", "open", "written", "copied", "unmarked", "done", "failed"}

Working == {"open", "written", "copied", "unmarked"}

Pc == {"down", "idle", "next", "probed", "unlisted", "closing", "files"}

File(p) == <<p, listing[p]>>

Listed == {p \in Paths : listing[p] > 0}

\* The batches of one file of a date.
BatchesOf(d, f) == {d} \X {f} \X (1..Batches)

NoCopies == [n \in BaseNames |-> NoCopy]

\* There is a copy under the name of p.
HasCopy(C, d, p) == C[d][BaseName[p]] # NoCopy

NoFiles ==
    /\ listing' = [p \in Paths |-> 0]
    /\ omitted' = {}
    /\ filePc' = [p \in Paths |-> "none"]
    /\ written' = [p \in Paths |-> 0]

Init ==
    /\ src \in [Dates -> [Paths -> {0, 1}]]
    /\ unstable = [d \in Dates |-> {}]
    /\ today = 1
    /\ changes = 0
    /\ mem = EmptyLedger
    /\ disk \in LegacyLedgers \cup {EmptyLedger}
    /\ pc = "down" /\ target = NoDate /\ todo = {} /\ cur = NoDate
    /\ listing = [p \in Paths |-> 0] /\ omitted = {}
    /\ filePc = [p \in Paths |-> "none"] /\ written = [p \in Paths |-> 0]
    /\ cancelled = FALSE
    /\ stored = {} /\ copies = [d \in Dates |-> NoCopies]
    /\ faults = 0

-----------------------------------------------------------------------------
(* Saving.  FileState changes memory and then writes the snapshot under    *)
(* its lock: either both happen, or the save fails and memory runs ahead.  *)

Faults(n) == faults + n <= MaxFaults /\ faults' = faults + n

Saved(L)   == mem' = L /\ disk' = L
Unsaved(L) == mem' = L /\ UNCHANGED disk

\* An operation whose error the caller drops (`_ = e.State.End(...)`); with
\* a cancelled context it does nothing at all.
BestEffort(L, n) ==
    \/ cancelled /\ UNCHANGED <<mem, disk>> /\ Faults(n)
    \/ ~cancelled /\ Saved(L) /\ Faults(n)
    \/ ~cancelled /\ Unsaved(L) /\ Faults(n + 1)

-----------------------------------------------------------------------------
(* Activation.                                                             *)

\* NewFile loads, migrates and writes back; the unit then drops the records
\* before Since.  An unwritable file fails the activation if there was
\* something to migrate, and otherwise only keeps the old records on disk.
Start ==
    /\ pc = "down"
    /\ LET loaded == Migrated(disk)
           swept  == SweptBefore(loaded, Since)
       IN \/ Saved(swept) /\ Faults(0)
          \/ swept # loaded /\ mem' = swept /\ disk' = loaded /\ Faults(1)
    /\ pc' = "idle"
    /\ UNCHANGED <<envVars, target, todo, cur, fileVars, cancelled, sinkVars>>

-----------------------------------------------------------------------------
(* One trigger: plan, then the dates oldest first.                         *)

Trigger(t) ==
    /\ pc = "idle" /\ ~cancelled
    /\ t >= Since
    /\ target' = t
    /\ todo' = Attempted(mem, t)
    /\ pc' = "next"
    /\ UNCHANGED <<envVars, mem, disk, cur, fileVars, cancelled, sinkVars, faults>>

\* Mutated: the prune takes the oldest day that is still to be kept.
EndOfRun_PrunesEarly ==
    /\ pc = "next" /\ todo = {}
    /\ copies' = [d \in Dates |-> IF d > today - KeepDays THEN copies[d] ELSE NoCopies]
    /\ pc' = "idle" /\ cur' = NoDate
    /\ UNCHANGED <<envVars, mem, disk, target, todo, fileVars, cancelled, stored, faults>>

\* The run ends: copies older than KeepDays are pruned.
EndOfRun ==
    /\ pc = "next" /\ todo = {}
    /\ copies' = IF BackupDir /\ KeepDays > 0
                 THEN [d \in Dates |-> IF d >= today - KeepDays
                                       THEN copies[d] ELSE NoCopies]
                 ELSE copies
    /\ pc' = "idle" /\ cur' = NoDate
    /\ UNCHANGED <<envVars, mem, disk, target, todo, fileVars, cancelled, stored, faults>>

\* From the second date on an unreachable host defers the rest of the plan.
DeferRest ==
    /\ pc = "next" /\ todo # {} /\ ~cancelled
    /\ RemoteHost /\ cur # NoDate
    /\ Faults(1)
    /\ todo' = {}
    /\ UNCHANGED <<envVars, mem, disk, pc, target, cur, fileVars, cancelled, sinkVars>>

\* A cancelled context ends the run before the next date, and the worker.  The
\* component is gone; another one will read the state file again.
Abandon ==
    /\ cancelled
    /\ pc = "idle" \/ (pc = "next" /\ todo # {})
    /\ pc' = "down" /\ todo' = {} /\ cur' = NoDate /\ cancelled' = FALSE
    /\ mem' = EmptyLedger
    /\ UNCHANGED <<envVars, disk, target, fileVars, sinkVars, faults>>

\* The component is taken down and applied again, as when the extractor it
\* depends on is replaced: its state service outlives the activation.
Reapply ==
    /\ cancelled
    /\ pc = "idle" \/ (pc = "next" /\ todo # {})
    /\ pc' = "idle" /\ todo' = {} /\ cur' = NoDate /\ cancelled' = FALSE
    /\ UNCHANGED <<envVars, mem, disk, target, fileVars, sinkVars, faults>>

-----------------------------------------------------------------------------
(* Discovery: the outcomes of Source.List for the oldest planned date.     *)

Present(d) == {p \in Paths : src[d][p] > 0}

\* A file removed while the walk passes it fails the walk with NotFound.
Removed(d, p) ==
    /\ changes < MaxChanges /\ changes' = changes + 1
    /\ src' = [src EXCEPT ![d][p] = 0]
    /\ unstable' = [unstable EXCEPT ![d] = @ \ {p}]
    /\ UNCHANGED today

\* Probing starts with the oldest planned date.
Probe(d) ==
    /\ pc = "next" /\ ~cancelled
    /\ d \in todo /\ \A e \in todo : d <= e
    /\ todo' = todo \ {d} /\ cur' = d
    /\ UNCHANGED <<target, cancelled, sinkVars>>

\* No data for this date: whatever the ledger holds for it is forgotten.
ProbeNotFound(d) ==
    /\ Probe(d)
    /\ \/ Present(d) = {} /\ UNCHANGED envVars
       \/ \E p \in Present(d) : Removed(d, p)
    /\ BestEffort(DropIn(mem, d), 0)
    /\ UNCHANGED <<pc, fileVars>>

\* An existing directory without a file to collect: nothing matches, or every
\* candidate is inside the stable window (ErrFileUnstable).  No record is made,
\* and only the records of older releases would be dropped.
ProbeNothing(d) ==
    /\ Probe(d)
    /\ Present(d) \subseteq unstable[d]
    /\ IF Present(d) = {} /\ mem.status[d] \in {"skipped", "pending"}
       THEN BestEffort(DropIn(mem, d), 0)
       ELSE UNCHANGED <<mem, disk, faults>>
    /\ UNCHANGED <<envVars, pc, fileVars>>

\* The share cannot be read: a retryable failure.
ProbeUnavailable(d) ==
    /\ Probe(d)
    /\ pc' = "unlisted"
    /\ Faults(1)
    /\ UNCHANGED <<envVars, mem, disk, fileVars>>

\* The stable files are listed; the younger ones are left out.
ProbeFiles(d) ==
    /\ Probe(d)
    /\ Present(d) \ unstable[d] # {}
    /\ listing' = [p \in Paths |-> IF p \in unstable[d] THEN 0 ELSE src[d][p]]
    /\ omitted' = Present(d) \cap unstable[d]
    /\ filePc' = [p \in Paths |-> IF src[d][p] > 0 /\ p \notin unstable[d]
                                  THEN "queued" ELSE "none"]
    /\ written' = [p \in Paths |-> 0]
    /\ pc' = "probed"
    /\ UNCHANGED <<envVars, mem, disk, faults>>

\* The probe runs into the end of the context: List fails, and so does Begin.
ProbeCancelled ==
    /\ pc \in {"probed", "unlisted"} /\ cancelled
    /\ pc' = "next" /\ NoFiles
    /\ UNCHANGED <<envVars, mem, disk, target, todo, cur, cancelled, sinkVars, faults>>

-----------------------------------------------------------------------------
(* Claiming the date.                                                      *)

\* Begin: refused under a live lease or after success; a failed save refuses
\* too, with memory already Running.  `then` is where a claim leads.
Claim(from, then) ==
    /\ pc = from /\ ~cancelled
    /\ \/ /\ Claimable(mem, cur)
          /\ Saved(BeginIn(mem, cur))
          /\ pc' = then
          /\ UNCHANGED <<fileVars, faults>>
       \/ /\ Claimable(mem, cur)
          /\ Unsaved(BeginIn(mem, cur)) /\ Faults(1)
          /\ pc' = "next" /\ NoFiles
       \/ /\ ~Claimable(mem, cur)
          /\ pc' = "next" /\ NoFiles
          /\ UNCHANGED <<mem, disk, faults>>
    /\ UNCHANGED <<envVars, target, todo, cur, cancelled, sinkVars>>

Begin       == Claim("probed", "files")
BeginFailed == Claim("unlisted", "closing")

\* The failed probe is closed at once.
EndUnlisted ==
    /\ pc = "closing"
    /\ BestEffort(EndIn(mem, cur, "failed"), 0)
    /\ pc' = "next"
    /\ UNCHANGED <<envVars, target, todo, cur, fileVars, cancelled, sinkVars>>

-----------------------------------------------------------------------------
(* The files of a date.                                                    *)

InFiles(p) ==
    /\ pc = "files"
    /\ UNCHANGED <<envVars, pc, target, todo, cur, listing, omitted, cancelled>>

Advance(p, to) == filePc' = [filePc EXCEPT ![p] = to]

\* Every failure of a file goes to the failure ledger, as far as that works;
\* n counts the faults that caused it.
FailFile(p, n) ==
    /\ Advance(p, "failed")
    /\ BestEffort(MarkFailedIn(mem, cur, File(p)), n)

\* A slot is free: skip the file if this identity is completed, otherwise
\* open it, which fails if it is no longer what discovery saw.
StartFile(p) ==
    /\ InFiles(p) /\ ~cancelled
    /\ filePc[p] = "queued"
    /\ Cardinality({q \in Paths : filePc[q] \in Working}) < FilesPerSource
    /\ \/ /\ FileCompleted(mem, cur, File(p))
          /\ Advance(p, "done")
          /\ UNCHANGED <<mem, disk, faults>>
       \/ /\ ~FileCompleted(mem, cur, File(p))
          /\ src[cur][p] = listing[p]
          /\ Advance(p, "open")
          /\ UNCHANGED <<mem, disk, faults>>
       \/ /\ ~FileCompleted(mem, cur, File(p))
          /\ src[cur][p] # listing[p]
          /\ FailFile(p, 0)
    /\ UNCHANGED <<written, sinkVars>>

\* Mutated: the rows left over after the last full batch are not flushed.
WriteBatch_NoFlush(p) ==
    /\ InFiles(p) /\ ~cancelled
    /\ filePc[p] = "open"
    /\ written' = [written EXCEPT ![p] = @ + 1]
    /\ stored' = stored \cup {<<cur, File(p), written[p] + 1>>}
    /\ Advance(p, IF written[p] + 2 >= Batches THEN "written" ELSE "open")
    /\ UNCHANGED <<mem, disk, copies, faults>>

\* Mutated: the last batch is not recognised and another one is written.
WriteBatch_OneMore(p) ==
    /\ InFiles(p) /\ ~cancelled
    /\ filePc[p] = "open"
    /\ written' = [written EXCEPT ![p] = @ + 1]
    /\ stored' = stored \cup {<<cur, File(p), written[p] + 1>>}
    /\ Advance(p, IF written[p] = Batches THEN "written" ELSE "open")
    /\ UNCHANGED <<mem, disk, copies, faults>>

\* One batch is written; the last one leaves the file to be copied.
WriteBatch(p) ==
    /\ InFiles(p) /\ ~cancelled
    /\ filePc[p] = "open"
    /\ File(p) \in Malformed => written[p] + 1 < Batches
    /\ written' = [written EXCEPT ![p] = @ + 1]
    /\ stored' = stored \cup {<<cur, File(p), written[p] + 1>>}
    /\ Advance(p, IF written[p] + 1 = Batches THEN "written" ELSE "open")
    /\ UNCHANGED <<mem, disk, copies, faults>>

\* The file breaks off: a malformed row or header, a metadata, read or
\* storage error.  The batch in hand may or may not have reached the database.
BreakOff(p) ==
    /\ InFiles(p)
    /\ filePc[p] = "open"
    /\ stored' \in {stored, stored \cup {<<cur, File(p), written[p] + 1>>}}
    /\ FailFile(p, IF cancelled \/ File(p) \in Malformed THEN 0 ELSE 1)
    /\ UNCHANGED <<written, copies>>

\* The local copy.  One that is there under this name and has the length of the
\* file is kept; otherwise the file is copied as it is by now, over whatever
\* has that name.  A file that is gone cannot be copied.
CopyFile(p) ==
    LET n    == BaseName[p]
        kept == copies[cur][n] # NoCopy /\ Size[copies[cur][n]] = Size[File(p)]
    IN  /\ InFiles(p)
        /\ filePc[p] = "written"
        /\ \/ /\ BackupDir => kept
              /\ Advance(p, "copied")
              /\ UNCHANGED <<copies, mem, disk, faults>>
           \/ /\ BackupDir /\ ~kept /\ src[cur][p] > 0
              /\ copies' = [copies EXCEPT ![cur][n] = <<p, src[cur][p]>>]
              /\ Advance(p, "copied")
              /\ UNCHANGED <<mem, disk, faults>>
           \/ /\ BackupDir /\ ~kept
              /\ FailFile(p, IF src[cur][p] = 0 THEN 0 ELSE 1)
              /\ UNCHANGED copies
        /\ UNCHANGED <<written, stored>>

\* MarkFileCompleted, the last step.  When its save fails the file is to count
\* as failed although memory already holds it as completed.
CompleteFile(p) ==
    /\ InFiles(p) /\ ~cancelled
    /\ filePc[p] = "copied"
    /\ LET L == MarkCompletedIn(mem, cur, File(p))
       IN \/ Saved(L) /\ Advance(p, "done") /\ UNCHANGED faults
          \/ Unsaved(L) /\ Advance(p, "unmarked") /\ Faults(1)
    /\ UNCHANGED <<written, sinkVars>>

\* The failure of that mark is recorded in its turn.
FailUnmarked(p) ==
    /\ InFiles(p)
    /\ filePc[p] = "unmarked"
    /\ FailFile(p, 0)
    /\ UNCHANGED <<written, sinkVars>>

\* A cancelled context stops queued files and keeps the copied one unmarked.
StopFile(p) ==
    /\ InFiles(p) /\ cancelled
    /\ filePc[p] \in {"queued", "copied"}
    /\ Advance(p, "failed")
    /\ UNCHANGED <<mem, disk, written, sinkVars, faults>>

\* Mutated: one collected file is enough for success.
EndCollection_AnyDone ==
    /\ pc = "files"
    /\ \A p \in Listed : filePc[p] \in {"done", "failed"}
    /\ BestEffort(EndIn(mem, cur, IF \E p \in Listed : filePc[p] = "done"
                                  THEN "succeeded" ELSE "failed"), 0)
    /\ pc' = "next" /\ NoFiles
    /\ UNCHANGED <<envVars, target, todo, cur, cancelled, sinkVars>>

\* All files are through: the date succeeds if none failed.
EndCollection ==
    /\ pc = "files"
    /\ \A p \in Listed : filePc[p] \in {"done", "failed"}
    /\ BestEffort(EndIn(mem, cur, IF \E p \in Listed : filePc[p] = "failed"
                                  THEN "failed" ELSE "succeeded"), 0)
    /\ pc' = "next" /\ NoFiles
    /\ UNCHANGED <<envVars, target, todo, cur, cancelled, sinkVars>>

-----------------------------------------------------------------------------
(* The environment.                                                        *)

unitVars == <<pc, target, todo, cur, fileVars, cancelled, sinkVars>>

\* A file is dropped into, or rewritten in, a date directory and is young.
Arrive(d, p) ==
    /\ changes < MaxChanges /\ changes' = changes + 1
    /\ src[d][p] < MaxVersion
    /\ src' = [src EXCEPT ![d][p] = @ + 1]
    /\ unstable' = [unstable EXCEPT ![d] = @ \cup {p}]
    /\ UNCHANGED <<today, mem, disk, unitVars, faults>>

Remove(d, p) ==
    /\ src[d][p] > 0 /\ Removed(d, p)
    /\ UNCHANGED <<mem, disk, unitVars, faults>>

\* The stable window of a file passes.
Settle(d, p) ==
    /\ p \in unstable[d]
    /\ unstable' = [unstable EXCEPT ![d] = @ \ {p}]
    /\ UNCHANGED <<src, today, changes, mem, disk, unitVars, faults>>

NextDay ==
    /\ today < MaxDay /\ today' = today + 1
    /\ UNCHANGED <<src, unstable, changes, mem, disk, unitVars, faults>>

LeaseExpires(d) ==
    /\ disk # ExpireIn(disk, d) \/ mem # ExpireIn(mem, d)
    /\ mem' = ExpireIn(mem, d) /\ disk' = ExpireIn(disk, d)
    /\ UNCHANGED <<envVars, unitVars, faults>>

\* The unit is stopped: replaced, uninstalled, or the process shuts down.
Cancel ==
    /\ pc # "down" /\ ~cancelled /\ Faults(1)
    /\ cancelled' = TRUE
    /\ UNCHANGED <<envVars, mem, disk, pc, target, todo, cur, fileVars, sinkVars>>

\* The process dies; only the state file and the sinks remain.
Crash ==
    /\ pc # "down" /\ Faults(1)
    /\ pc' = "down" /\ todo' = {} /\ cur' = NoDate /\ NoFiles
    /\ cancelled' = FALSE
    /\ mem' = EmptyLedger
    /\ UNCHANGED <<envVars, disk, target, sinkVars>>

-----------------------------------------------------------------------------

FileStep(p) ==
    \/ StartFile(p) \/ WriteBatch(p) \/ BreakOff(p) \/ CopyFile(p)
    \/ CompleteFile(p) \/ FailUnmarked(p) \/ StopFile(p)

Discovery(d) ==
    \/ ProbeNotFound(d) \/ ProbeNothing(d) \/ ProbeUnavailable(d) \/ ProbeFiles(d)

Unit ==
    \/ Start \/ EndOfRun \/ DeferRest \/ Abandon \/ Reapply
    \/ \E d \in Dates : Discovery(d)
    \/ ProbeCancelled \/ Begin \/ BeginFailed \/ EndUnlisted
    \/ \E p \in Paths : FileStep(p)
    \/ EndCollection

Environment ==
    \/ \E d \in Dates, p \in Paths : Arrive(d, p) \/ Remove(d, p) \/ Settle(d, p)
    \/ \E d \in Dates : LeaseExpires(d)
    \/ NextDay \/ Cancel \/ Crash

\* The scheduler asks for today; an operator may ask for any past date.
Next == Unit \/ (\E t \in 1..today : Trigger(t)) \/ Environment

Spec == Init /\ [][Next]_vars
-----------------------------------------------------------------------------
(* Properties.                                                             *)

TypeOK ==
    /\ src \in [Dates -> [Paths -> 0..MaxVersion]]
    /\ unstable \in [Dates -> SUBSET Paths]
    /\ today \in Dates
    /\ changes \in 0..MaxChanges
    /\ mem \in Ledger /\ disk \in Ledger
    /\ pc \in Pc
    /\ target \in Dates \cup {NoDate} /\ cur \in Dates \cup {NoDate}
    /\ todo \subseteq Dates
    /\ listing \in [Paths -> 0..MaxVersion] /\ omitted \subseteq Paths
    /\ filePc \in [Paths -> FilePc]
    /\ written \in [Paths -> 0..Batches]
    /\ cancelled \in BOOLEAN
    /\ stored \subseteq Dates \X Files \X (1..Batches)
    /\ copies \in [Dates -> [BaseNames -> Files \cup {NoCopy}]]
    /\ faults \in 0..MaxFaults

\* Data before mark: a file the ledger calls completed, in memory or in the
\* state file a crash leaves behind, is in the database with every batch, and
\* there is a local copy of its name unless that has aged out.
CompletedIsStored ==
    \A L \in {mem, disk}, d \in Dates : \A f \in L.completed[d] :
        /\ BatchesOf(d, f) \subseteq stored
        /\ BackupDir => \/ HasCopy(copies, d, f[1])
                        \/ KeepDays > 0 /\ d < today - KeepDays

\* A succeeded date has no failed file: the console counts failures from this
\* ledger and nothing would ever clear them.
NoFailureOnSuccess ==
    \A d \in Dates : mem.status[d] = "succeeded" => mem.failed[d] = {}

\* A source has no record from before its life began: old records go when it is
\* activated, and neither the plan nor an operator brings them back.
LifeStartsAtSince ==
    pc # "down" => \A d \in Dates : d < Since => mem.status[d] = "none"

\* A date succeeds only with every file its discovery listed completed, however
\* the files interleave with failures, cancellation and each other.
SucceededIsWhole ==
    [][\A d \in Dates :
         mem.status[d] = "running" /\ mem'.status[d] = "succeeded"
            => \A p \in Listed : FileCompleted(mem', d, File(p))]_vars

\* Catch-up never touches a succeeded date: its record is only ever lost in a
\* run that asked for that very date.
CatchUpLeavesSuccessAlone ==
    [][\A d \in Dates :
         pc # "down" /\ pc' # "down" /\ mem.status[d] = "succeeded"
            => mem'.status[d] = "succeeded" \/ d = target]_vars

\* What the rest of the program is promised about marks and closed dates,
\* whatever the executor, the ledger and its file go through to keep it.
BookOf(L) == [marks  |-> L.completed,
              closed |-> {d \in Dates : L.status[d] = "succeeded"}]
Promise == INSTANCE Delivery
           WITH unit <- IF pc = "down" THEN "down" ELSE "up",
                known <- BookOf(mem), saved <- BookOf(disk)
ImplementsDelivery == Promise!Spec

\* There are files for the date and all of them can be parsed.
Good(d) == Present(d) # {} /\ \A p \in Present(d) : <<p, src[d][p]>> \notin Malformed

Unfinished(L, d) == L.status[d] \in {"running", "failed"}

\* Fairness.  The unit's goroutines run and time passes; the scheduler asks for
\* today again and again, and its trigger waits in the unit's queue while
\* another one runs, so it is served even though the unit is not idle all the
\* time (strong fairness).  Operators, faults and the upstream owe nothing.
Fairness ==
    /\ WF_vars(Unit)
    /\ SF_vars(Trigger(today))
    /\ WF_vars(NextDay)
    /\ \A d \in Dates : WF_vars(LeaseExpires(d))
    /\ \A d \in Dates, p \in Paths : WF_vars(Settle(d, p))

FairSpec == Spec /\ Fairness

\* A date recorded as failed or left running is retried until it succeeds, once
\* its data can be read, as long as its directory neither fills nor empties: a
\* record in the state file, unless memory has dropped it, whatever happens to
\* the process, and a record only in memory unless the process goes down.
UnfinishedIsRetried ==
    \A d \in Dates, P \in (SUBSET Paths) \ {{}} :
        d >= Since =>
            [](/\ \/ Unfinished(disk, d) /\ (pc = "down" \/ HasRecord(mem, d))
                  \/ Unfinished(mem, d) /\ [](pc # "down")
               /\ [](Present(d) = P)
               /\ <>[]Good(d)
               => <>(mem.status[d] = "succeeded"))

\* The date the scheduler keeps asking for is collected for good once its
\* files are there to stay.
TodayIsCollected ==
    \A d \in Dates :
        <>[](d >= Since /\ d = today /\ Good(d)) => <>[](mem.status[d] = "succeeded")
-----------------------------------------------------------------------------
(* What the documents promise and the code does not do.                    *)

\* docs/用户指南.md:57, "dates in the window without a success record are
\* rechecked on every trigger".  The planner starts after the last success, so
\* an earlier date of the window whose record was dropped is not.
WindowIsRechecked ==
    [][pc = "idle" /\ pc' = "next" =>
         \A d \in Window(target') : d >= Since =>
            \/ d \in todo'
            \/ mem.status[d] = "succeeded"
            \/ mem.status[d] = "running" /\ ~mem.expired[d]]_vars

\* docs/用户指南.md:261 and docs/OPERATIONS.md:353, a file skipped inside the
\* stable window is picked up by a later trigger and never lost.  When a stable
\* file of the same date is collected meanwhile, the date succeeds and closes.
LeftOutIsCollectedLater ==
    \A d \in Dates, p \in Paths :
        (cur = d /\ p \in omitted)
            ~> \/ src[d][p] = 0
               \/ \E v \in Versions : BatchesOf(d, <<p, v>>) \subseteq stored

\* docs/用户指南.md:208, "never in the database and not in the backup": every
\* completed file has its own copy.  Copies are named after the last element of
\* the path, and discovery descends into subdirectories.
CompletedHasItsCopy ==
    \A d \in Dates : \A f \in mem.completed[d] :
        BackupDir /\ KeepDays = 0 =>
            /\ HasCopy(copies, d, f[1])
            /\ copies[d][BaseName[f[1]]][1] = f[1]
=============================================================================

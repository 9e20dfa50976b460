--------------------------- MODULE CollectorProofs ---------------------------
(***************************************************************************)
(* Proofs about the Collector.  Neither TypeOK nor CompletedIsStored nor   *)
(* NoFailureOnSuccess is inductive: that the last step of a file may mark  *)
(* it completed depends on how far the file has come, on the date it       *)
(* belongs to and on that date still being the running one.  IInv adds     *)
(* these facts; it is inductive, and the three properties follow from it.  *)
(***************************************************************************)
EXTENDS Collector, LedgerLemmas

\* A date is under collection where the code has a collection key in hand, and
\* while its files are collected the ledger says so.
CurOK ==
    /\ pc \in {"probed", "unlisted", "closing", "files"} => cur \in Dates
    /\ pc = "files" => mem.status[cur] = "running"

\* What the progress of a file says about its batches and its copy.
FileOK(p) ==
    /\ filePc[p] # "none" => listing[p] > 0 /\ pc \in {"probed", "files"}
    /\ pc = "probed" => filePc[p] \in {"none", "queued"}
    /\ filePc[p] = "queued" => written[p] = 0
    /\ filePc[p] = "open" => written[p] < Batches
    /\ filePc[p] \in {"written", "copied"} => written[p] = Batches
    /\ filePc[p] \in Working => \A n \in 1..written[p] : <<cur, File(p), n>> \in stored
    /\ filePc[p] = "copied" /\ BackupDir => HasCopy(copies, cur, p)

FilesOK == \A p \in Paths : FileOK(p)

\* TypeOK by the groups of variables that change together.
EnvType ==
    /\ src \in [Dates -> [Paths -> 0..MaxVersion]]
    /\ unstable \in [Dates -> SUBSET Paths]
    /\ today \in Dates
    /\ changes \in 0..MaxChanges
LedgerType == mem \in Ledger /\ disk \in Ledger
RunType ==
    /\ pc \in Pc
    /\ target \in Dates \cup {NoDate} /\ cur \in Dates \cup {NoDate}
    /\ todo \subseteq Dates
    /\ cancelled \in BOOLEAN
FileType ==
    /\ listing \in [Paths -> 0..MaxVersion] /\ omitted \subseteq Paths
    /\ filePc \in [Paths -> FilePc]
    /\ written \in [Paths -> 0..Batches]
SinkType ==
    /\ stored \subseteq Dates \X Files \X (1..Batches)
    /\ copies \in [Dates -> [BaseNames -> Files \cup {NoCopy}]]

IInv == TypeOK /\ CurOK /\ FilesOK /\ NoFailureOnSuccess /\ CompletedIsStored

-----------------------------------------------------------------------------
(* Lemmas.                                                                 *)

LEMMA TypeByGroups ==
    TypeOK <=> /\ EnvType /\ LedgerType /\ RunType /\ FileType /\ SinkType
               /\ faults \in 0..MaxFaults
BY DEF TypeOK, EnvType, LedgerType, RunType, FileType, SinkType

\* Every completed file of L has its batches in S and its copy in C, at day t.
Backed(L, S, C, t) ==
    \A d \in Dates : \A f \in L.completed[d] :
        /\ BatchesOf(d, f) \subseteq S
        /\ BackupDir => HasCopy(C, d, f[1]) \/ (KeepDays > 0 /\ d < t - KeepDays)

\* C2 has a copy under every name under which C has one.
Keeps(C2, C) ==
    \A d \in Dates : \A p \in Paths : HasCopy(C, d, p) => HasCopy(C2, d, p)

LEMMA KeepsItself == \A C : Keeps(C, C)
BY DEF Keeps

LEMMA CompletedIsStoredDef ==
    CompletedIsStored <=> /\ Backed(mem, stored, copies, today)
                          /\ Backed(disk, stored, copies, today)
BY DEF CompletedIsStored, Backed

\* A ledger stays backed while it gains no completion, the sinks lose nothing
\* and the days go on.
LEMMA BackedStays ==
    ASSUME NEW L \in Ledger, NEW M, NEW S, NEW S2, NEW C, NEW C2,
           NEW t \in Int, NEW t2 \in Int,
           Backed(L, S, C, t), Forgets(M, L), S \subseteq S2, Keeps(C2, C), t <= t2
    PROVE  Backed(M, S2, C2, t2)
<1> SUFFICES ASSUME NEW d \in Dates, NEW f \in M.completed[d]
             PROVE  /\ BatchesOf(d, f) \subseteq S2
                    /\ BackupDir => \/ HasCopy(C2, d, f[1])
                                    \/ KeepDays > 0 /\ d < t2 - KeepDays
  BY DEF Backed
<1>1. f \in L.completed[d] /\ f[1] \in Paths
  BY DEF Forgets, Ledger, Files
<1>2. /\ BatchesOf(d, f) \subseteq S
      /\ BackupDir => HasCopy(C, d, f[1]) \/ (KeepDays > 0 /\ d < t - KeepDays)
  BY <1>1 DEF Backed
<1>3. d < t - KeepDays => d < t2 - KeepDays
  BY CollectorAssumption DEF Dates
<1>4. HasCopy(C, d, f[1]) => HasCopy(C2, d, f[1])
  BY <1>1 DEF Keeps
<1>5. QED
  BY <1>2, <1>3, <1>4

\* Data before mark is kept by every step that marks nothing as completed and
\* prunes nothing.
LEMMA StoredStays ==
    ASSUME TypeOK, CompletedIsStored,
           Forgets(mem', mem) \/ Forgets(mem', disk),
           Forgets(disk', mem) \/ Forgets(disk', disk),
           stored \subseteq stored', Keeps(copies', copies),
           today' \in Dates, today <= today'
    PROVE  CompletedIsStored'
<1>1. today \in Int /\ today' \in Int /\ mem \in Ledger /\ disk \in Ledger
  BY DEF TypeOK, Dates
<1>2. /\ Backed(mem, stored, copies, today)
      /\ Backed(disk, stored, copies, today)
  BY CompletedIsStoredDef
<1>3. Backed(mem', stored', copies', today')
  BY <1>1, <1>2, BackedStays
<1>4. Backed(disk', stored', copies', today')
  BY <1>1, <1>2, BackedStays
<1>5. QED
  BY <1>3, <1>4 DEF CompletedIsStored, Backed

LEMMA NoFailureDef == NoFailureOnSuccess <=> Clean(mem)
BY DEF NoFailureOnSuccess, Clean

LEMMA ForgetsItself == \A L : Forgets(L, L)
BY DEF Forgets

\* A best-effort save leaves each of memory and disk as it is or as asked.
LEMMA BestEffortFacts ==
    ASSUME NEW L, NEW n \in Nat, TypeOK, BestEffort(L, n)
    PROVE  /\ mem' \in {mem, L} /\ disk' \in {disk, L}
           /\ faults' \in 0..MaxFaults
BY CollectorAssumption DEF BestEffort, Faults, Saved, Unsaved, TypeOK

\* A trigger attempts dates of the calendar only.
LEMMA AttemptedFacts ==
    ASSUME NEW L \in Ledger, NEW t \in Dates
    PROVE  Attempted(L, t) \subseteq Dates
BY DEF Attempted, Plan, Incomplete, Gap, Window, SucceededUpTo

\* Without files the progress of the files is vacuous.
LEMMA NoFilesFacts ==
    ASSUME NoFiles
    PROVE  /\ listing' \in [Paths -> 0..MaxVersion] /\ omitted' \subseteq Paths
           /\ filePc' \in [Paths -> FilePc] /\ written' \in [Paths -> 0..Batches]
           /\ (pc' # "files" => FilesOK')
           /\ FilesOK'
BY LedgerAssumption, CollectorAssumption DEF NoFiles, FilesOK, FileOK, FilePc, Working

-----------------------------------------------------------------------------
(* The initial states.                                                     *)

LEMMA InitIInv == Init => IInv
<1> SUFFICES ASSUME Init PROVE IInv
  OBVIOUS
<1>1. mem = EmptyLedger /\ disk \in Ledger /\ \A d \in Dates : disk.completed[d] = {}
  BY EmptyLedgerFacts, CollectorAssumption DEF Init
<1>2. TypeOK
  <2>1. LedgerType
    BY <1>1, EmptyLedgerFacts DEF LedgerType
  <2>2. src \in [Dates -> [Paths -> 0..MaxVersion]]
    <3>1. 0 \in 0..MaxVersion /\ 1 \in 0..MaxVersion
      BY LedgerAssumption
    <3>2. src \in [Dates -> [Paths -> {0, 1}]]
      BY DEF Init
    <3>3. QED
      BY <3>1, <3>2
  <2>3. EnvType
    BY <2>2, LedgerAssumption, CollectorAssumption DEF EnvType, Init, Dates
  <2>4. RunType
    BY DEF Init, RunType, Pc, NoDate
  <2>5. FileType
    BY LedgerAssumption, CollectorAssumption DEF Init, FileType, FilePc
  <2>6. SinkType
    BY DEF Init, SinkType, NoCopies
  <2>7. faults \in 0..MaxFaults
    BY CollectorAssumption DEF Init
  <2>8. QED
    BY <2>1, <2>3, <2>4, <2>5, <2>6, <2>7, TypeByGroups
<1>3. CurOK /\ FilesOK
  BY DEF Init, CurOK, FilesOK, FileOK, Working
<1>4. NoFailureOnSuccess
  BY <1>1, EmptyLedgerFacts DEF NoFailureOnSuccess, Clean
<1>5. CompletedIsStored
  BY <1>1, EmptyLedgerFacts DEF CompletedIsStored
<1>6. QED
  BY <1>2, <1>3, <1>4, <1>5 DEF IInv

-----------------------------------------------------------------------------
(* Steps that leave a part of the state alone.                             *)

\* The progress of files that are not touched stays right.
LEMMA FilesSame ==
    ASSUME FilesOK, UNCHANGED <<fileVars, pc, cur, copies>>, stored \subseteq stored'
    PROVE  FilesOK'
BY DEF FilesOK, FileOK, fileVars, File

\* Where no file is in hand there is nothing to say.
LEMMA FilesIdle ==
    ASSUME FilesOK, UNCHANGED fileVars, pc \notin {"probed", "files"}
    PROVE  FilesOK'
BY DEF FilesOK, FileOK, fileVars, Working

\* The upstream, the calendar and the faults do not touch the unit.
LEMMA EnvironmentStep ==
    ASSUME IInv, UNCHANGED <<mem, disk, unitVars>>,
           EnvType', today <= today', faults' \in 0..MaxFaults
    PROVE  IInv'
<1>1. TypeOK'
  <2>1. LedgerType' /\ RunType' /\ FileType' /\ SinkType'
    BY TypeByGroups DEF IInv, LedgerType, RunType, FileType, SinkType, unitVars,
                        fileVars, sinkVars
  <2>2. QED
    BY <2>1, TypeByGroups DEF TypeOK, EnvType, LedgerType, RunType, FileType, SinkType
<1>2. CurOK'
  BY DEF IInv, CurOK, unitVars
<1>3. FilesOK'
  BY FilesSame DEF IInv, unitVars, sinkVars
<1>4. NoFailureOnSuccess'
  BY DEF IInv, NoFailureOnSuccess
<1>5. CompletedIsStored'
  BY StoredStays, ForgetsItself, KeepsItself DEF IInv, unitVars, sinkVars, EnvType
<1>6. QED
  BY <1>1, <1>2, <1>3, <1>4, <1>5 DEF IInv

LEMMA StutterStep == ASSUME IInv, UNCHANGED vars PROVE IInv'
<1>1. EnvType' /\ today <= today' /\ faults' \in 0..MaxFaults
  BY DEF IInv, TypeOK, EnvType, vars, envVars, Dates
<1>2. QED
  BY <1>1, EnvironmentStep DEF vars, unitVars, fileVars

LEMMA ArriveStep ==
    ASSUME IInv, NEW d \in Dates, NEW p \in Paths, Arrive(d, p) PROVE IInv'
<1>1. src[d][p] \in 0..MaxVersion /\ src[d][p] < MaxVersion
  BY DEF IInv, TypeOK, Arrive
<1>2. src[d][p] + 1 \in 0..MaxVersion
  BY <1>1, LedgerAssumption
<1>3. src' \in [Dates -> [Paths -> 0..MaxVersion]]
  <2>1. [src[d] EXCEPT ![p] = @ + 1] \in [Paths -> 0..MaxVersion]
    BY <1>2 DEF IInv, TypeOK
  <2>2. src' = [src EXCEPT ![d] = [src[d] EXCEPT ![p] = @ + 1]]
    BY DEF Arrive
  <2>3. QED
    BY <2>1, <2>2 DEF IInv, TypeOK
<1>4. unstable' \in [Dates -> SUBSET Paths] /\ today' = today
      /\ changes' \in 0..MaxChanges
  BY CollectorAssumption DEF IInv, TypeOK, Arrive
<1>5. EnvType' /\ today <= today' /\ faults' \in 0..MaxFaults
  BY <1>3, <1>4 DEF IInv, TypeOK, EnvType, Arrive, Dates
<1>6. QED
  BY <1>5, EnvironmentStep DEF Arrive

\* A removal keeps the types of the environment.
LEMMA RemovedType ==
    ASSUME TypeOK, NEW d \in Dates, NEW p \in Paths, Removed(d, p)
    PROVE  EnvType' /\ today' = today
<1>1. src' \in [Dates -> [Paths -> 0..MaxVersion]]
  <2>1. 0 \in 0..MaxVersion
    BY LedgerAssumption
  <2>2. [src[d] EXCEPT ![p] = 0] \in [Paths -> 0..MaxVersion]
    BY <2>1 DEF TypeOK
  <2>3. src' = [src EXCEPT ![d] = [src[d] EXCEPT ![p] = 0]]
    BY DEF Removed
  <2>4. QED
    BY <2>2, <2>3 DEF TypeOK
<1>2. unstable' \in [Dates -> SUBSET Paths] /\ changes' \in 0..MaxChanges
  BY CollectorAssumption DEF TypeOK, Removed
<1>3. QED
  BY <1>1, <1>2 DEF TypeOK, EnvType, Removed

LEMMA RemoveStep ==
    ASSUME IInv, NEW d \in Dates, NEW p \in Paths, Remove(d, p) PROVE IInv'
<1>1. EnvType' /\ today' = today
  BY RemovedType DEF IInv, Remove
<1>2. today <= today' /\ faults' \in 0..MaxFaults
  BY <1>1 DEF IInv, TypeOK, Remove, Dates
<1>3. QED
  BY <1>1, <1>2, EnvironmentStep DEF Remove

LEMMA SettleStep ==
    ASSUME IInv, NEW d \in Dates, NEW p \in Paths, Settle(d, p) PROVE IInv'
<1>1. EnvType' /\ today <= today' /\ faults' \in 0..MaxFaults
  BY DEF IInv, TypeOK, EnvType, Settle, Dates
<1>2. QED
  BY <1>1, EnvironmentStep DEF Settle

LEMMA NextDayStep == ASSUME IInv, NextDay PROVE IInv'
<1>1. today' \in Dates /\ today <= today'
  BY LedgerAssumption DEF IInv, TypeOK, NextDay, Dates
<1>2. EnvType' /\ faults' \in 0..MaxFaults
  BY <1>1 DEF IInv, TypeOK, EnvType, NextDay
<1>3. QED
  BY <1>1, <1>2, EnvironmentStep DEF NextDay

-----------------------------------------------------------------------------
(* Steps of a run outside the files of a date.                             *)

LEMMA TypeFromGroups ==
    ASSUME EnvType', LedgerType', RunType', FileType', SinkType',
           faults' \in 0..MaxFaults
    PROVE  TypeOK'
BY DEF TypeOK, EnvType, LedgerType, RunType, FileType, SinkType

\* What is left to show of a step that leaves the calendar and the sinks alone
\* and marks no file as completed.
LEMMA RunStep ==
    ASSUME IInv, UNCHANGED <<today, sinkVars>>,
           EnvType', LedgerType', RunType', FileType', faults' \in 0..MaxFaults,
           CurOK', FilesOK',
           Forgets(mem', mem) \/ Forgets(mem', disk),
           Forgets(disk', mem) \/ Forgets(disk', disk),
           Clean(mem')
    PROVE  IInv'
<1>1. SinkType'
  BY DEF IInv, TypeOK, SinkType, sinkVars
<1>2. TypeOK'
  BY <1>1, TypeFromGroups
<1>3. today' \in Dates /\ today <= today'
  BY DEF IInv, TypeOK, Dates
<1>4. CompletedIsStored'
  BY <1>3, StoredStays, KeepsItself DEF IInv, sinkVars
<1>5. NoFailureOnSuccess'
  BY DEF NoFailureOnSuccess, Clean
<1>6. QED
  BY <1>2, <1>4, <1>5 DEF IInv

\* Steps that change neither the ledger nor the files in hand.
LEMMA ControlStep ==
    ASSUME IInv, UNCHANGED <<envVars, mem, disk, fileVars, sinkVars>>,
           RunType', faults' \in 0..MaxFaults, CurOK', FilesOK'
    PROVE  IInv'
<1>1. EnvType' /\ LedgerType' /\ FileType'
  BY DEF IInv, TypeOK, EnvType, LedgerType, FileType, envVars, fileVars
<1>2. Clean(mem')
  BY NoFailureDef DEF IInv
<1>3. QED
  BY <1>1, <1>2, RunStep, ForgetsItself DEF envVars

LEMMA CancelStep == ASSUME IInv, Cancel PROVE IInv'
<1>1. RunType' /\ faults' \in 0..MaxFaults
  BY CollectorAssumption DEF IInv, TypeOK, RunType, Cancel, Faults
<1>2. CurOK' /\ FilesOK'
  BY FilesSame DEF IInv, CurOK, Cancel, sinkVars
<1>3. QED
  BY <1>1, <1>2, ControlStep DEF Cancel

LEMMA DeferRestStep == ASSUME IInv, DeferRest PROVE IInv'
<1>1. RunType' /\ faults' \in 0..MaxFaults
  BY CollectorAssumption DEF IInv, TypeOK, RunType, DeferRest, Faults
<1>2. CurOK' /\ FilesOK'
  BY FilesSame DEF IInv, CurOK, DeferRest, sinkVars
<1>3. QED
  BY <1>1, <1>2, ControlStep DEF DeferRest

LEMMA TriggerStep ==
    ASSUME IInv, NEW t \in 1..today, Trigger(t) PROVE IInv'
<1>1. t \in Dates
  BY LedgerAssumption DEF IInv, TypeOK, Dates
<1>2. todo' \subseteq Dates
  BY <1>1, AttemptedFacts DEF IInv, TypeOK, Trigger
<1>3. RunType' /\ faults' \in 0..MaxFaults
  BY <1>1, <1>2 DEF IInv, TypeOK, RunType, Trigger, Pc
<1>4. CurOK' /\ FilesOK'
  BY FilesIdle DEF IInv, CurOK, Trigger
<1>5. QED
  BY <1>3, <1>4, ControlStep DEF Trigger

LEMMA ProbeUnavailableStep ==
    ASSUME IInv, NEW d \in Dates, ProbeUnavailable(d) PROVE IInv'
<1>1. RunType' /\ faults' \in 0..MaxFaults
  BY CollectorAssumption
     DEF IInv, TypeOK, RunType, ProbeUnavailable, Probe, Faults, Pc
<1>2. CurOK' /\ FilesOK'
  BY FilesIdle DEF IInv, CurOK, ProbeUnavailable, Probe
<1>3. QED
  BY <1>1, <1>2, ControlStep DEF ProbeUnavailable, Probe

LEMMA ProbeNotFoundStep ==
    ASSUME IInv, NEW d \in Dates, ProbeNotFound(d) PROVE IInv'
<1> DEFINE D == DropIn(mem, d)
<1>1. mem \in Ledger /\ D \in Ledger
  BY DropFacts DEF IInv, TypeOK
<1>2. mem' \in {mem, D} /\ disk' \in {disk, D} /\ faults' \in 0..MaxFaults
  BY BestEffortFacts DEF IInv, ProbeNotFound
<1>3. Forgets(D, mem)
  BY <1>1, DropFacts
<1>4. LedgerType' /\ (Forgets(mem', mem) \/ Forgets(mem', disk))
      /\ (Forgets(disk', mem) \/ Forgets(disk', disk))
  BY <1>1, <1>2, <1>3, ForgetsItself DEF IInv, TypeOK, LedgerType
<1>5. Clean(mem')
  BY <1>1, <1>2, NoFailureDef, DropFacts DEF IInv
<1>6. EnvType' /\ today' = today
  BY RemovedType DEF IInv, TypeOK, EnvType, ProbeNotFound, envVars, Present
<1>7. RunType' /\ FileType'
  BY DEF IInv, TypeOK, RunType, FileType, ProbeNotFound, Probe, fileVars
<1>8. CurOK' /\ FilesOK'
  BY FilesIdle DEF IInv, CurOK, ProbeNotFound, Probe
<1>9. QED
  BY <1>2, <1>4, <1>5, <1>6, <1>7, <1>8, RunStep DEF ProbeNotFound, Probe

LEMMA ProbeNothingStep ==
    ASSUME IInv, NEW d \in Dates, ProbeNothing(d) PROVE IInv'
<1> DEFINE D == DropIn(mem, d)
<1>1. mem \in Ledger /\ D \in Ledger
  BY DropFacts DEF IInv, TypeOK
<1>2. mem' \in {mem, D} /\ disk' \in {disk, D} /\ faults' \in 0..MaxFaults
  <2>1. CASE BestEffort(D, 0)
    BY <2>1, BestEffortFacts DEF IInv
  <2>2. CASE UNCHANGED <<mem, disk, faults>>
    BY <2>2 DEF IInv, TypeOK
  <2>3. QED
    BY <2>1, <2>2 DEF ProbeNothing
<1>3. Forgets(D, mem)
  BY <1>1, DropFacts
<1>4. LedgerType' /\ (Forgets(mem', mem) \/ Forgets(mem', disk))
      /\ (Forgets(disk', mem) \/ Forgets(disk', disk))
  BY <1>1, <1>2, <1>3, ForgetsItself DEF IInv, TypeOK, LedgerType
<1>5. Clean(mem')
  BY <1>1, <1>2, NoFailureDef, DropFacts DEF IInv
<1>6. EnvType' /\ today' = today
  BY DEF IInv, TypeOK, EnvType, ProbeNothing, envVars
<1>7. RunType' /\ FileType'
  BY DEF IInv, TypeOK, RunType, FileType, ProbeNothing, Probe, fileVars
<1>8. CurOK' /\ FilesOK'
  BY FilesIdle DEF IInv, CurOK, ProbeNothing, Probe
<1>9. QED
  BY <1>2, <1>4, <1>5, <1>6, <1>7, <1>8, RunStep DEF ProbeNothing, Probe

LEMMA ProbeFilesStep ==
    ASSUME IInv, NEW d \in Dates, ProbeFiles(d) PROVE IInv'
<1>1. EnvType' /\ LedgerType' /\ RunType' /\ faults' \in 0..MaxFaults
  BY DEF IInv, TypeOK, EnvType, LedgerType, RunType, ProbeFiles, Probe, envVars, Pc
<1>2. \A p \in Paths : src[d][p] \in 0..MaxVersion
  BY DEF IInv, TypeOK
<1>3. /\ 0 \in 0..MaxVersion /\ 0 \in 0..Batches
      /\ listing' = [p \in Paths |-> IF p \in unstable[d] THEN 0 ELSE src[d][p]]
      /\ filePc' = [p \in Paths |-> IF src[d][p] > 0 /\ p \notin unstable[d]
                                    THEN "queued" ELSE "none"]
      /\ written' = [p \in Paths |-> 0]
      /\ omitted' \subseteq Paths
      /\ pc' = "probed"
  BY LedgerAssumption, CollectorAssumption DEF ProbeFiles, Present
<1>4. FileType'
  BY <1>2, <1>3 DEF FileType, FilePc
<1>5. CurOK'
  BY <1>3 DEF CurOK, ProbeFiles, Probe
<1>6. FilesOK'
  BY <1>2, <1>3 DEF FilesOK, FileOK, Working
<1>7. Clean(mem')
  BY NoFailureDef DEF IInv, ProbeFiles
<1>8. QED
  BY <1>1, <1>4, <1>5, <1>6, <1>7, RunStep, ForgetsItself
     DEF ProbeFiles, Probe, envVars

LEMMA ProbeCancelledStep == ASSUME IInv, ProbeCancelled PROVE IInv'
<1>1. EnvType' /\ LedgerType' /\ RunType' /\ faults' \in 0..MaxFaults
  BY DEF IInv, TypeOK, EnvType, LedgerType, RunType, ProbeCancelled, envVars, Pc
<1>2. FileType' /\ FilesOK'
  BY NoFilesFacts DEF ProbeCancelled, FileType
<1>3. CurOK' /\ Clean(mem')
  BY NoFailureDef DEF IInv, CurOK, ProbeCancelled
<1>4. QED
  BY <1>1, <1>2, <1>3, RunStep, ForgetsItself DEF ProbeCancelled, envVars

\* Claiming a date leads to `then` only with the date running.
LEMMA ClaimStep ==
    ASSUME IInv, NEW from, NEW then, Claim(from, then),
           \/ from = "probed" /\ then = "files"
           \/ from = "unlisted" /\ then = "closing"
    PROVE  IInv'
<1> DEFINE B == BeginIn(mem, cur)
<1>1. cur \in Dates /\ mem \in Ledger
  BY DEF IInv, TypeOK, CurOK, Claim
<1>2. B \in Ledger /\ Forgets(B, mem) /\ Clean(B) /\ B.status[cur] = "running"
  BY <1>1, BeginFacts, NoFailureDef DEF IInv
<1> HIDE DEF B
<1>3. \/ mem' = B /\ disk' = B /\ pc' = then /\ UNCHANGED <<fileVars, faults>>
      \/ mem' = B /\ disk' = disk /\ Faults(1) /\ pc' = "next" /\ NoFiles
      \/ UNCHANGED <<mem, disk, faults>> /\ pc' = "next" /\ NoFiles
  BY DEF B, Claim, Saved, Unsaved
<1>4. pc = from /\ UNCHANGED <<envVars, target, todo, cur, cancelled, sinkVars>>
  BY DEF Claim
<1>5. /\ LedgerType' /\ Clean(mem')
      /\ Forgets(mem', mem) \/ Forgets(mem', disk)
      /\ Forgets(disk', mem) \/ Forgets(disk', disk)
  BY <1>2, <1>3, ForgetsItself, NoFailureDef DEF IInv, TypeOK, LedgerType
<1>6. EnvType' /\ RunType' /\ faults' \in 0..MaxFaults
  BY <1>3, <1>4, CollectorAssumption
     DEF IInv, TypeOK, EnvType, RunType, envVars, Faults, Pc
<1>7. FileType' /\ FilesOK'
  <2>1. CASE NoFiles
    BY <2>1, NoFilesFacts DEF FileType
  <2>2. CASE pc' = then /\ UNCHANGED fileVars
    <3>1. FileType'
      BY <2>2 DEF IInv, TypeOK, FileType, fileVars
    <3>2. FilesOK'
      <4>1. CASE from = "probed" /\ then = "files"
        BY <1>4, <2>2, <4>1 DEF IInv, FilesOK, FileOK, fileVars, Working
      <4>2. CASE from = "unlisted"
        BY <1>4, <2>2, <4>2, FilesIdle DEF IInv
      <4>3. QED
        BY <4>1, <4>2
    <3>3. QED
      BY <3>1, <3>2
  <2>3. QED
    BY <1>3, <2>1, <2>2
<1>8. CurOK'
  BY <1>1, <1>2, <1>3, <1>4 DEF CurOK
<1>9. QED
  BY <1>4, <1>5, <1>6, <1>7, <1>8, RunStep DEF envVars

\* Closing a collection, with the files already let go of or none in hand.
LEMMA CloseStep ==
    ASSUME IInv, NEW s \in {"succeeded", "failed"}, pc \in {"closing", "files"},
           BestEffort(EndIn(mem, cur, s), 0), pc' = "next",
           UNCHANGED <<envVars, target, todo, cur, cancelled, sinkVars>>,
           FileType', FilesOK'
    PROVE  IInv'
<1> DEFINE E == EndIn(mem, cur, s)
<1>1. cur \in Dates /\ mem \in Ledger
  BY DEF IInv, TypeOK, CurOK
<1>2. E \in Ledger /\ Forgets(E, mem) /\ Clean(E)
  BY <1>1, EndFacts, NoFailureDef DEF IInv
<1>3. mem' \in {mem, E} /\ disk' \in {disk, E} /\ faults' \in 0..MaxFaults
  BY BestEffortFacts DEF IInv
<1> HIDE DEF E
<1>4. /\ LedgerType' /\ Clean(mem')
      /\ Forgets(mem', mem) \/ Forgets(mem', disk)
      /\ Forgets(disk', mem) \/ Forgets(disk', disk)
  BY <1>2, <1>3, ForgetsItself, NoFailureDef DEF IInv, TypeOK, LedgerType
<1>5. EnvType' /\ RunType'
  BY DEF IInv, TypeOK, EnvType, RunType, envVars, Pc
<1>6. CurOK'
  BY DEF CurOK
<1>7. QED
  BY <1>3, <1>4, <1>5, <1>6, RunStep DEF envVars

LEMMA EndUnlistedStep == ASSUME IInv, EndUnlisted PROVE IInv'
<1>1. FileType' /\ FilesOK'
  BY FilesIdle DEF IInv, TypeOK, FileType, EndUnlisted, fileVars
<1>2. QED
  BY <1>1, CloseStep DEF EndUnlisted

LEMMA EndCollectionStep == ASSUME IInv, EndCollection PROVE IInv'
<1> DEFINE s == IF \E p \in Listed : filePc[p] = "failed" THEN "failed" ELSE "succeeded"
<1>1. s \in {"succeeded", "failed"} /\ BestEffort(EndIn(mem, cur, s), 0)
  BY DEF EndCollection
<1>2. FileType' /\ FilesOK'
  BY NoFilesFacts DEF EndCollection, FileType
<1> HIDE DEF s
<1>3. QED
  BY <1>1, <1>2, CloseStep DEF EndCollection

LEMMA LeaseExpiresStep ==
    ASSUME IInv, NEW d \in Dates, LeaseExpires(d) PROVE IInv'
<1>1. /\ mem' \in Ledger /\ disk' \in Ledger
      /\ mem'.status = mem.status
      /\ Forgets(mem', mem) /\ Forgets(disk', disk) /\ Clean(mem')
  BY ExpireFacts, NoFailureDef DEF IInv, TypeOK, LeaseExpires
<1>2. EnvType' /\ RunType' /\ FileType' /\ faults' \in 0..MaxFaults
  BY DEF IInv, TypeOK, EnvType, RunType, FileType, LeaseExpires, envVars, unitVars, fileVars
<1>3. CurOK' /\ FilesOK'
  BY <1>1, FilesSame DEF IInv, CurOK, LeaseExpires, unitVars, sinkVars
<1>4. QED
  BY <1>1, <1>2, <1>3, RunStep DEF LedgerType, LeaseExpires, unitVars, envVars

LEMMA CrashStep == ASSUME IInv, Crash PROVE IInv'
<1>1. /\ LedgerType' /\ Clean(mem') /\ Forgets(mem', mem) /\ Forgets(disk', disk)
  BY EmptyLedgerFacts, ForgetsItself DEF IInv, TypeOK, LedgerType, Crash, Forgets
<1>2. EnvType' /\ RunType' /\ faults' \in 0..MaxFaults
  <2>1. EnvType'
    BY DEF IInv, TypeOK, EnvType, Crash, envVars
  <2>2. RunType'
    BY DEF IInv, TypeOK, RunType, Crash, Pc, NoDate
  <2>3. faults' \in 0..MaxFaults
    BY CollectorAssumption DEF IInv, TypeOK, Crash, Faults
  <2>4. QED
    BY <2>1, <2>2, <2>3
<1>3. FileType' /\ FilesOK' /\ CurOK'
  BY NoFilesFacts DEF Crash, FileType, CurOK
<1>4. QED
  BY <1>1, <1>2, <1>3, RunStep DEF Crash, envVars

LEMMA AbandonStep == ASSUME IInv, Abandon PROVE IInv'
<1>1. /\ LedgerType' /\ Clean(mem') /\ Forgets(mem', mem) /\ Forgets(disk', disk)
  BY EmptyLedgerFacts, ForgetsItself DEF IInv, TypeOK, LedgerType, Abandon, Forgets
<1>2. EnvType' /\ RunType' /\ FileType' /\ faults' \in 0..MaxFaults
  BY DEF IInv, TypeOK, EnvType, RunType, FileType, Abandon, envVars, fileVars, Pc, NoDate
<1>3. FilesOK' /\ CurOK'
  BY FilesIdle DEF IInv, Abandon, CurOK
<1>4. QED
  BY <1>1, <1>2, <1>3, RunStep DEF Abandon, envVars

LEMMA ReapplyStep == ASSUME IInv, Reapply PROVE IInv'
<1>1. RunType' /\ faults' \in 0..MaxFaults
  BY DEF IInv, TypeOK, RunType, Reapply, Pc, NoDate
<1>2. CurOK' /\ FilesOK'
  BY FilesIdle DEF IInv, CurOK, Reapply
<1>3. QED
  BY <1>1, <1>2, ControlStep DEF Reapply

LEMMA StartStep == ASSUME IInv, Start PROVE IInv'
<1> DEFINE loaded == Migrated(disk)
           swept  == SweptBefore(loaded, Since)
<1>1. loaded \in Ledger /\ Forgets(loaded, disk) /\ Clean(loaded)
  BY MigratedFacts DEF IInv, TypeOK
<1>2. mem' = swept /\ disk' \in {swept, loaded} /\ faults' \in 0..MaxFaults
  BY CollectorAssumption DEF Start, Saved, Faults, IInv, TypeOK
<1> HIDE DEF loaded
<1>3. swept \in Ledger /\ Forgets(swept, loaded) /\ Clean(swept)
  BY <1>1, SweptFacts, PlannerAssumption
<1> HIDE DEF swept
<1>4. Forgets(swept, disk)
  BY <1>1, <1>3 DEF Forgets
<1>5. LedgerType' /\ Clean(mem') /\ Forgets(mem', disk) /\ Forgets(disk', disk)
  BY <1>1, <1>2, <1>3, <1>4 DEF LedgerType
<1>6. EnvType' /\ RunType' /\ FileType'
  BY DEF IInv, TypeOK, EnvType, RunType, FileType, Start, envVars, fileVars, Pc
<1>7. FilesOK' /\ CurOK'
  BY FilesIdle DEF IInv, Start, CurOK
<1>8. QED
  BY <1>2, <1>5, <1>6, <1>7, RunStep DEF Start, envVars

\* The prune only takes copies of dates that have aged out.
LEMMA EndOfRunStep == ASSUME IInv, EndOfRun PROVE IInv'
<1>1. /\ SinkType' /\ stored' = stored
      /\ \A d \in Dates : copies'[d] = copies[d] \/ (KeepDays > 0 /\ d < today - KeepDays)
  <2>1. copies \in [Dates -> [BaseNames -> Files \cup {NoCopy}]]
        /\ NoCopies \in [BaseNames -> Files \cup {NoCopy}]
        /\ stored' = stored /\ stored \subseteq Dates \X Files \X (1..Batches)
    BY DEF IInv, TypeOK, NoCopies, EndOfRun
  <2>2. /\ copies' \in [Dates -> [BaseNames -> Files \cup {NoCopy}]]
        /\ \A d \in Dates : copies'[d] = copies[d] \/ (KeepDays > 0 /\ d < today - KeepDays)
    <3>1. CASE BackupDir /\ KeepDays > 0
      <4>1. copies' = [d \in Dates |-> IF d >= today - KeepDays
                                       THEN copies[d] ELSE NoCopies]
        BY <3>1 DEF EndOfRun
      <4>2. today \in Int /\ KeepDays \in Int /\ \A d \in Dates : d \in Int
        BY CollectorAssumption DEF IInv, TypeOK, Dates
      <4>3. QED
        BY <2>1, <3>1, <4>1, <4>2
    <3>2. CASE ~(BackupDir /\ KeepDays > 0)
      BY <2>1, <3>2 DEF EndOfRun
    <3>3. QED
      BY <3>1, <3>2
  <2>3. QED
    BY <2>1, <2>2 DEF SinkType
<1>2. TypeOK'
  <2>1. EnvType' /\ LedgerType' /\ RunType' /\ FileType' /\ faults' \in 0..MaxFaults
    BY DEF IInv, TypeOK, EnvType, LedgerType, RunType, FileType, EndOfRun,
           envVars, fileVars, Pc, NoDate
  <2>2. QED
    BY <1>1, <2>1, TypeFromGroups
<1>3. CurOK' /\ FilesOK' /\ NoFailureOnSuccess'
  BY FilesIdle DEF IInv, EndOfRun, CurOK, NoFailureOnSuccess
<1>4. CompletedIsStored'
  <2>1. SUFFICES ASSUME NEW L \in {mem, disk}, NEW d \in Dates, NEW f \in L.completed[d]
                 PROVE  /\ BatchesOf(d, f) \subseteq stored
                        /\ BackupDir => \/ HasCopy(copies', d, f[1])
                                        \/ KeepDays > 0 /\ d < today - KeepDays
    BY <1>1 DEF CompletedIsStored, EndOfRun, envVars
  <2>2. /\ BatchesOf(d, f) \subseteq stored
        /\ BackupDir => \/ HasCopy(copies, d, f[1])
                        \/ KeepDays > 0 /\ d < today - KeepDays
    BY DEF IInv, CompletedIsStored
  <2>3. QED
    BY <1>1, <2>2 DEF HasCopy
<1>5. QED
  BY <1>2, <1>3, <1>4 DEF IInv

-----------------------------------------------------------------------------
(* Steps of one file.                                                      *)

\* The file that moves is the only one that changes; its date is the running
\* one.
LEMMA FileFrame ==
    ASSUME IInv, NEW p \in Paths, NEW to \in FilePc, InFiles(p), Advance(p, to),
           written' \in {written, [written EXCEPT ![p] = @ + 1]},
           stored \subseteq stored', Keeps(copies', copies)
    PROVE  /\ EnvType' /\ RunType'
           /\ filePc' \in [Paths -> FilePc] /\ filePc'[p] = to
           /\ \A q \in Paths : q # p => FileOK(q)'
           /\ cur \in Dates /\ cur' = cur /\ pc = "files" /\ pc' = "files"
           /\ mem.status[cur] = "running"
           /\ listing' = listing /\ listing \in [Paths -> 0..MaxVersion]
           /\ omitted' \subseteq Paths
           /\ today' = today
<1>1. EnvType' /\ RunType' /\ today' = today
  BY DEF IInv, TypeOK, EnvType, RunType, InFiles, envVars
<1>2. /\ cur \in Dates /\ cur' = cur /\ pc = "files" /\ pc' = "files"
      /\ mem.status[cur] = "running"
      /\ listing' = listing /\ listing \in [Paths -> 0..MaxVersion]
      /\ omitted' \subseteq Paths
  BY DEF IInv, TypeOK, CurOK, InFiles
<1>3. filePc' \in [Paths -> FilePc] /\ filePc'[p] = to
  BY DEF IInv, TypeOK, Advance
<1>4. ASSUME NEW q \in Paths, q # p PROVE FileOK(q)'
  <2>1. filePc'[q] = filePc[q] /\ written'[q] = written[q]
    BY <1>4 DEF IInv, TypeOK, Advance
  <2>2. FileOK(q)
    BY DEF IInv, FilesOK
  <2>3. HasCopy(copies, cur, q) => HasCopy(copies', cur, q)
    BY <1>2 DEF Keeps
  <2>4. QED
    BY <1>2, <2>1, <2>2, <2>3 DEF FileOK, File
<1>5. QED
  BY <1>1, <1>2, <1>3, <1>4

\* The identity of a listed file.
LEMMA FileIsFile ==
    ASSUME IInv, NEW p \in Paths, filePc[p] # "none"
    PROVE  File(p) \in Files /\ File(p)[1] = p
<1>1. listing[p] \in 0..MaxVersion /\ listing[p] > 0
  BY DEF IInv, TypeOK, FilesOK, FileOK
<1>2. listing[p] \in Versions
  BY <1>1, LedgerAssumption DEF Versions
<1>3. QED
  BY <1>2 DEF File, Files

\* What is left to show of a file step that marks nothing as completed: the
\* file that moved, and the ledger.
LEMMA FileStepKeeps ==
    ASSUME IInv, NEW p \in Paths, NEW to \in FilePc, InFiles(p), Advance(p, to),
           written' \in {written, [written EXCEPT ![p] = @ + 1]},
           written'[p] \in 0..Batches,
           stored \subseteq stored', Keeps(copies', copies), SinkType',
           FileOK(p)',
           LedgerType', faults' \in 0..MaxFaults, Clean(mem'),
           mem'.status = mem.status,
           Forgets(mem', mem), Forgets(disk', mem) \/ Forgets(disk', disk)
    PROVE  IInv'
<1>1. written' \in [Paths -> 0..Batches]
  BY DEF IInv, TypeOK
<1>2. FileType'
  BY <1>1, FileFrame DEF FileType
<1>3. TypeOK'
  BY <1>2, FileFrame, TypeFromGroups
<1>4. FilesOK'
  BY FileFrame DEF FilesOK
<1>5. CurOK'
  BY FileFrame DEF CurOK
<1>6. CompletedIsStored'
  <2>0. today \in Dates /\ today' = today
    BY FileFrame DEF IInv, TypeOK
  <2>1. today' \in Dates /\ today <= today'
    BY <2>0 DEF Dates
  <2>2. QED
    BY <2>1, StoredStays DEF IInv
<1>7. NoFailureOnSuccess'
  BY DEF NoFailureOnSuccess, Clean
<1>8. QED
  BY <1>3, <1>4, <1>5, <1>6, <1>7 DEF IInv

\* A file that is not touched by storage and leaves the ledger alone.
LEMMA LedgerSame ==
    ASSUME IInv, UNCHANGED <<mem, disk, faults>>
    PROVE  /\ LedgerType' /\ faults' \in 0..MaxFaults /\ Clean(mem')
           /\ mem'.status = mem.status
           /\ Forgets(mem', mem) /\ Forgets(disk', disk)
BY NoFailureDef, ForgetsItself DEF IInv, TypeOK, LedgerType

\* A failure is recorded in the running date only.
LEMMA FailFacts ==
    ASSUME IInv, NEW p \in Paths, NEW n \in Nat, pc = "files",
           filePc[p] # "none", FailFile(p, n)
    PROVE  /\ Advance(p, "failed")
           /\ LedgerType' /\ faults' \in 0..MaxFaults /\ Clean(mem')
           /\ mem'.status = mem.status
           /\ Forgets(mem', mem) /\ (Forgets(disk', mem) \/ Forgets(disk', disk))
<1> DEFINE M == MarkFailedIn(mem, cur, File(p))
<1>1. cur \in Dates /\ mem.status[cur] = "running" /\ mem \in Ledger
  BY DEF IInv, CurOK, TypeOK
<1>2. File(p) \in Files
  BY FileIsFile
<1>3. M \in Ledger /\ M.status = mem.status /\ Clean(M) /\ M.completed = mem.completed
  BY <1>1, <1>2, MarkFailedFacts, NoFailureDef DEF IInv
<1>4. mem' \in {mem, M} /\ disk' \in {disk, M} /\ faults' \in 0..MaxFaults
      /\ Advance(p, "failed")
  BY BestEffortFacts DEF IInv, FailFile
<1> HIDE DEF M
<1>5. Forgets(M, mem)
  BY <1>3 DEF Forgets
<1>6. QED
  BY <1>3, <1>4, <1>5, ForgetsItself, NoFailureDef DEF IInv, TypeOK, LedgerType

LEMMA StartFileStep ==
    ASSUME IInv, NEW p \in Paths, StartFile(p) PROVE IInv'
<1>1. /\ InFiles(p) /\ pc = "files" /\ filePc[p] = "queued"
      /\ UNCHANGED <<written, sinkVars>>
  BY DEF StartFile, InFiles
<1>2. SinkType' /\ stored \subseteq stored' /\ Keeps(copies', copies)
  BY <1>1, KeepsItself DEF IInv, TypeOK, SinkType, sinkVars
<1>3. written[p] = 0 /\ listing[p] > 0 /\ written[p] \in 0..Batches
  BY <1>1 DEF IInv, TypeOK, FilesOK, FileOK
<1>4. CASE UNCHANGED <<mem, disk, faults>> /\ Advance(p, "done")
  <2>1. FileOK(p)'
    BY <1>1, <1>3, <1>4, FileFrame, <1>2 DEF FileOK, FilePc, Working
  <2>2. QED
    BY <1>1, <1>2, <1>3, <1>4, <2>1, LedgerSame, FileStepKeeps DEF FilePc
<1>5. CASE UNCHANGED <<mem, disk, faults>> /\ Advance(p, "open")
  <2>1. written' = written /\ written'[p] = 0
    BY <1>1, <1>3
  <2>2. filePc'[p] = "open" /\ listing' = listing /\ pc' = "files"
    BY <1>1, <1>2, <1>5, FileFrame DEF FilePc
  <2>3. FileOK(p)'
    BY <1>3, <2>1, <2>2, CollectorAssumption DEF FileOK, Working
  <2>4. QED
    BY <1>1, <1>2, <1>3, <1>5, <2>3, LedgerSame, FileStepKeeps DEF FilePc
<1>6. CASE FailFile(p, 0)
  <2>1. Advance(p, "failed")
    BY <1>6 DEF FailFile
  <2>2. FileOK(p)'
    BY <1>1, <1>3, <2>1, FileFrame, <1>2 DEF FileOK, FilePc, Working
  <2>3. QED
    BY <1>1, <1>2, <1>3, <1>6, <2>1, <2>2, FailFacts, FileStepKeeps DEF FilePc
<1>7. QED
  BY <1>4, <1>5, <1>6 DEF StartFile

\* The batches written so far, and one more.
LEMMA WriteBatchStep ==
    ASSUME IInv, NEW p \in Paths, WriteBatch(p) PROVE IInv'
<1> DEFINE n  == written[p] + 1
           to == IF n = Batches THEN "written" ELSE "open"
           b  == <<cur, File(p), n>>
<1>1. /\ InFiles(p) /\ pc = "files" /\ filePc[p] = "open"
      /\ written' = [written EXCEPT ![p] = @ + 1]
      /\ stored' = stored \cup {b} /\ Advance(p, to)
      /\ UNCHANGED <<mem, disk, copies, faults>>
  BY DEF WriteBatch, InFiles
<1>2. /\ written[p] \in 0..Batches /\ written[p] < Batches /\ listing[p] > 0
      /\ \A m \in 1..written[p] : <<cur, File(p), m>> \in stored
  BY <1>1 DEF IInv, TypeOK, FilesOK, FileOK, Working
<1>3. written'[p] = n /\ n \in 1..Batches /\ 1..n = (1..written[p]) \cup {n}
  <2>1. written'[p] = n
    BY <1>1 DEF IInv, TypeOK
  <2>2. QED
    BY <1>2, <2>1, CollectorAssumption
<1>4. cur \in Dates /\ File(p) \in Files
  BY <1>1, FileIsFile DEF IInv, CurOK
<1>5. b \in Dates \X Files \X (1..Batches)
  BY <1>3, <1>4
<1>6. SinkType' /\ stored \subseteq stored' /\ Keeps(copies', copies)
  BY <1>1, <1>5, KeepsItself DEF IInv, TypeOK, SinkType
<1>7. to \in FilePc
  BY DEF FilePc
<1>8. filePc'[p] = to /\ listing' = listing /\ pc' = "files" /\ cur' = cur
  BY <1>1, <1>6, <1>7, FileFrame
<1>9. \A m \in 1..written'[p] : <<cur', File(p)', m>> \in stored'
  <2>1. File(p)' = File(p)
    BY <1>8 DEF File
  <2>2. QED
    BY <1>1, <1>2, <1>3, <1>8, <2>1
<1>10. FileOK(p)'
  <2>1. /\ to = "open" => n < Batches
        /\ to = "written" => n = Batches
        /\ to \in {"open", "written"}
    BY <1>3, CollectorAssumption
  <2>2. QED
    BY <1>2, <1>3, <1>8, <1>9, <2>1 DEF FileOK, Working
<1>11. written'[p] \in 0..Batches
  BY <1>3
<1>12. QED
  BY <1>1, <1>6, <1>7, <1>10, <1>11, LedgerSame, FileStepKeeps

LEMMA BreakOffStep ==
    ASSUME IInv, NEW p \in Paths, BreakOff(p) PROVE IInv'
<1> DEFINE b == <<cur, File(p), written[p] + 1>>
           n == IF cancelled \/ File(p) \in Malformed THEN 0 ELSE 1
<1>1. /\ InFiles(p) /\ pc = "files" /\ filePc[p] = "open"
      /\ stored' \in {stored, stored \cup {b}}
      /\ n \in Nat /\ FailFile(p, n)
      /\ UNCHANGED <<written, copies>>
  BY DEF BreakOff, InFiles
<1>2. /\ written[p] \in 0..Batches /\ written[p] < Batches /\ listing[p] > 0
  BY <1>1 DEF IInv, TypeOK, FilesOK, FileOK
<1>3. cur \in Dates /\ File(p) \in Files /\ written[p] + 1 \in 1..Batches
  BY <1>1, <1>2, FileIsFile, CollectorAssumption DEF IInv, CurOK
<1>4. b \in Dates \X Files \X (1..Batches)
  BY <1>3
<1>5. SinkType' /\ stored \subseteq stored' /\ Keeps(copies', copies)
  BY <1>1, <1>4, KeepsItself DEF IInv, TypeOK, SinkType
<1> HIDE DEF n
<1>6. Advance(p, "failed")
  BY <1>1 DEF FailFile
<1>7. FileOK(p)'
  BY <1>1, <1>2, <1>5, <1>6, FileFrame DEF FileOK, FilePc, Working
<1>8. QED
  BY <1>1, <1>2, <1>5, <1>6, <1>7, FailFacts, FileStepKeeps DEF FilePc

\* After a copy every name that had a copy has one, and so has the file's.
LEMMA CopyFacts ==
    ASSUME IInv, NEW p \in Paths, cur \in Dates, listing[p] > 0, CopyFile(p)
    PROVE  \/ /\ SinkType' /\ Keeps(copies', copies)
              /\ BackupDir => HasCopy(copies', cur, p)
              /\ Advance(p, "copied") /\ UNCHANGED <<mem, disk, faults>>
           \/ /\ UNCHANGED copies
              /\ \E n \in Nat : FailFile(p, n)
<1> DEFINE n == BaseName[p]
           f == <<p, src[cur][p]>>
           kept == copies[cur][n] # NoCopy /\ Size[copies[cur][n]] = Size[File(p)]
<1>1. /\ n \in BaseNames /\ UNCHANGED stored
      /\ stored \subseteq Dates \X Files \X (1..Batches)
      /\ copies \in [Dates -> [BaseNames -> Files \cup {NoCopy}]]
  BY CollectorAssumption DEF IInv, TypeOK, CopyFile
<1>2. CASE (BackupDir => kept) /\ Advance(p, "copied") /\ UNCHANGED <<copies, mem, disk, faults>>
  BY <1>1, <1>2, KeepsItself DEF SinkType, HasCopy
<1>3. CASE /\ src[cur][p] > 0 /\ copies' = [copies EXCEPT ![cur][n] = f]
           /\ Advance(p, "copied") /\ UNCHANGED <<mem, disk, faults>>
  <2>1. f \in Files
    <3>1. src[cur][p] \in 0..MaxVersion
      BY DEF IInv, TypeOK
    <3>2. src[cur][p] \in Versions
      BY <1>3, <3>1, LedgerAssumption DEF Versions
    <3>3. QED
      BY <3>2 DEF Files
  <2>2. f # NoCopy
    BY <2>1, CollectorAssumption
  <2> HIDE DEF n, f
  <2>3. \A d \in Dates, m \in BaseNames :
           copies'[d][m] = IF d = cur /\ m = n THEN f ELSE copies[d][m]
    BY <1>1, <1>3
  <2>4. copies' \in [Dates -> [BaseNames -> Files \cup {NoCopy}]]
    BY <1>1, <1>3, <2>1
  <2>5. BaseName \in [Paths -> BaseNames] /\ n = BaseName[p]
    BY CollectorAssumption DEF n
  <2>6. Keeps(copies', copies) /\ HasCopy(copies', cur, p)
    BY <1>1, <2>2, <2>3, <2>5 DEF Keeps, HasCopy
  <2>7. QED
    BY <1>1, <1>3, <2>4, <2>6 DEF SinkType
<1>4. CASE FailFile(p, IF src[cur][p] = 0 THEN 0 ELSE 1) /\ UNCHANGED copies
  BY <1>4
<1>5. QED
  BY <1>2, <1>3, <1>4 DEF CopyFile

LEMMA CopyFileStep ==
    ASSUME IInv, NEW p \in Paths, CopyFile(p) PROVE IInv'
<1>1. /\ InFiles(p) /\ pc = "files" /\ filePc[p] = "written"
      /\ UNCHANGED <<written, stored>>
  BY DEF CopyFile, InFiles
<1>2. /\ written[p] = Batches /\ written[p] \in 0..Batches /\ listing[p] > 0
      /\ \A m \in 1..written[p] : <<cur, File(p), m>> \in stored
  BY <1>1 DEF IInv, TypeOK, FilesOK, FileOK, Working
<1>3. cur \in Dates
  BY <1>1 DEF IInv, CurOK
<1>4. CASE /\ SinkType' /\ Keeps(copies', copies)
           /\ BackupDir => HasCopy(copies', cur, p)
           /\ Advance(p, "copied") /\ UNCHANGED <<mem, disk, faults>>
  <2>1. stored \subseteq stored'
    BY <1>1
  <2>2. filePc'[p] = "copied" /\ listing' = listing /\ pc' = "files" /\ cur' = cur
    BY <1>1, <1>4, <2>1, FileFrame DEF FilePc
  <2>3. File(p)' = File(p)
    BY <2>2 DEF File
  <2>4. FileOK(p)'
    BY <1>1, <1>2, <1>4, <2>1, <2>2, <2>3 DEF FileOK, Working
  <2>5. QED
    BY <1>1, <1>2, <1>4, <2>1, <2>4, LedgerSame, FileStepKeeps DEF FilePc
<1>5. ASSUME UNCHANGED copies, NEW n \in Nat, FailFile(p, n) PROVE IInv'
  <2>1. SinkType' /\ stored \subseteq stored' /\ Keeps(copies', copies)
    BY <1>1, <1>5, KeepsItself DEF IInv, TypeOK, SinkType
  <2>2. Advance(p, "failed")
    BY <1>5 DEF FailFile
  <2>3. FileOK(p)'
    BY <1>1, <1>2, <2>1, <2>2, FileFrame DEF FileOK, FilePc, Working
  <2>4. QED
    BY <1>1, <1>2, <1>5, <2>1, <2>2, <2>3, FailFacts, FileStepKeeps DEF FilePc
<1>6. QED
  BY <1>2, <1>3, <1>4, <1>5, CopyFacts

LEMMA StopFileStep ==
    ASSUME IInv, NEW p \in Paths, StopFile(p) PROVE IInv'
<1>1. /\ InFiles(p) /\ pc = "files" /\ filePc[p] \in {"queued", "copied"}
      /\ Advance(p, "failed")
      /\ UNCHANGED <<mem, disk, written, sinkVars, faults>>
  BY DEF StopFile, InFiles
<1>2. SinkType' /\ stored \subseteq stored' /\ Keeps(copies', copies)
  BY <1>1, KeepsItself DEF IInv, TypeOK, SinkType, sinkVars
<1>3. written[p] \in 0..Batches /\ listing[p] > 0
  BY <1>1 DEF IInv, TypeOK, FilesOK, FileOK
<1>4. FileOK(p)'
  BY <1>1, <1>2, <1>3, FileFrame DEF FileOK, FilePc, Working
<1>5. QED
  BY <1>1, <1>2, <1>3, <1>4, LedgerSame, FileStepKeeps DEF FilePc

LEMMA FailUnmarkedStep ==
    ASSUME IInv, NEW p \in Paths, FailUnmarked(p) PROVE IInv'
<1>1. /\ InFiles(p) /\ pc = "files" /\ filePc[p] = "unmarked"
      /\ FailFile(p, 0) /\ Advance(p, "failed")
      /\ UNCHANGED <<written, sinkVars>>
  BY DEF FailUnmarked, InFiles, FailFile
<1>2. SinkType' /\ stored \subseteq stored' /\ Keeps(copies', copies)
  BY <1>1, KeepsItself DEF IInv, TypeOK, SinkType, sinkVars
<1>3. written[p] \in 0..Batches /\ listing[p] > 0
  BY <1>1 DEF IInv, TypeOK, FilesOK, FileOK
<1>4. cur \in Dates /\ File(p) \in Files
  BY <1>1, <1>3, FileIsFile DEF IInv, CurOK
<1>5. FileOK(p)'
  BY <1>1, <1>2, <1>3, FileFrame DEF FileOK, FilePc, Working
<1>6. QED
  BY <1>1, <1>2, <1>3, <1>4, <1>5, FailFacts, FileStepKeeps DEF FilePc

\* The one step that marks a file as completed: the file is copied, so every
\* batch of it is stored.
LEMMA CompleteFileStep ==
    ASSUME IInv, NEW p \in Paths, CompleteFile(p) PROVE IInv'
<1> DEFINE L == MarkCompletedIn(mem, cur, File(p))
<1>1. /\ InFiles(p) /\ pc = "files" /\ filePc[p] = "copied"
      /\ UNCHANGED <<written, sinkVars>>
  BY DEF CompleteFile, InFiles
<1>2. /\ cur \in Dates /\ mem.status[cur] = "running" /\ mem \in Ledger
      /\ File(p) \in Files /\ File(p)[1] = p
  BY <1>1, FileIsFile DEF IInv, CurOK, TypeOK
<1>3. /\ L \in Ledger /\ L.status = mem.status /\ Clean(L)
      /\ L.completed = [mem.completed EXCEPT ![cur] = @ \cup {File(p)}]
  BY <1>2, MarkCompletedFacts, NoFailureDef DEF IInv
<1> HIDE DEF L
<1>4. \E to \in {"done", "unmarked"} :
        /\ Advance(p, to) /\ mem' = L /\ disk' \in {disk, L}
        /\ faults' \in 0..MaxFaults
  <2>1. faults \in 0..MaxFaults
    BY DEF IInv, TypeOK
  <2>2. QED
    BY <2>1, CollectorAssumption DEF CompleteFile, L, Saved, Unsaved, Faults
<1>5. PICK to \in {"done", "unmarked"} :
        /\ Advance(p, to) /\ mem' = L /\ disk' \in {disk, L}
        /\ faults' \in 0..MaxFaults
  BY <1>4
<1>6. to \in FilePc
  BY DEF FilePc
<1>7. SinkType' /\ stored' = stored /\ copies' = copies /\ Keeps(copies', copies)
  BY <1>1, KeepsItself DEF IInv, TypeOK, SinkType, sinkVars
<1>8. /\ written[p] = Batches /\ listing[p] > 0
      /\ \A m \in 1..Batches : <<cur, File(p), m>> \in stored
      /\ BackupDir => HasCopy(copies, cur, p)
  BY <1>1 DEF IInv, FilesOK, FileOK, Working
<1>9. TypeOK'
  <2>1. LedgerType'
    BY <1>3, <1>5 DEF IInv, TypeOK, LedgerType
  <2>2. FileType'
    BY <1>1, <1>5, <1>6, <1>7, FileFrame DEF FileType, IInv, TypeOK
  <2>3. EnvType' /\ RunType'
    BY <1>1, <1>5, <1>6, <1>7, FileFrame
  <2>4. QED
    BY <1>5, <1>7, <2>1, <2>2, <2>3, TypeFromGroups
<1>10. CurOK'
  BY <1>1, <1>3, <1>5, <1>6, <1>7, FileFrame DEF CurOK
<1>11. FilesOK'
  <2>1. FileOK(p)'
    <3>1. /\ filePc'[p] = to /\ pc' = "files" /\ cur' = cur
          /\ listing' = listing /\ written' = written
      BY <1>1, <1>5, <1>6, <1>7, FileFrame DEF InFiles
    <3>2. File(p)' = File(p)
      BY <3>1 DEF File
    <3>3. to = "done" \/ to = "unmarked"
      BY <1>5
    <3>4. QED
      BY <1>7, <1>8, <3>1, <3>2, <3>3 DEF FileOK, Working
  <2>2. \A q \in Paths : q # p => FileOK(q)'
    BY <1>1, <1>5, <1>6, <1>7, FileFrame
  <2>3. QED
    BY <2>1, <2>2 DEF FilesOK
<1>12. NoFailureOnSuccess'
  BY <1>3, <1>5 DEF NoFailureOnSuccess, Clean
<1>13. CompletedIsStored'
  <2>1. Backed(mem, stored, copies, today) /\ Backed(disk, stored, copies, today)
    BY CompletedIsStoredDef DEF IInv
  <2>2. Backed(L, stored, copies, today)
    <3>1. SUFFICES ASSUME NEW d \in Dates, NEW f \in L.completed[d]
                   PROVE  /\ BatchesOf(d, f) \subseteq stored
                          /\ BackupDir => \/ HasCopy(copies, d, f[1])
                                          \/ KeepDays > 0 /\ d < today - KeepDays
      BY DEF Backed
    <3>2. CASE f \in mem.completed[d]
      BY <2>1, <3>2 DEF Backed
    <3>3. CASE f \notin mem.completed[d]
      <4>1. d = cur /\ f = File(p)
        BY <1>2, <1>3, <3>3 DEF Ledger
      <4>2. BatchesOf(d, f) \subseteq stored
        BY <1>8, <4>1 DEF BatchesOf
      <4>3. QED
        BY <1>2, <1>8, <4>1, <4>2
    <3>4. QED
      BY <3>2, <3>3
  <2>3. today' = today
    BY <1>1 DEF InFiles, envVars
  <2>4. Backed(mem', stored', copies', today') /\ Backed(disk', stored', copies', today')
    BY <1>5, <1>7, <2>1, <2>2, <2>3
  <2>5. QED
    BY <2>4 DEF CompletedIsStored, Backed
<1>14. QED
  BY <1>9, <1>10, <1>11, <1>12, <1>13 DEF IInv

-----------------------------------------------------------------------------
(* The theorems.                                                           *)

LEMMA FileStepInductive ==
    ASSUME IInv, NEW p \in Paths, FileStep(p) PROVE IInv'
<1>1. CASE StartFile(p)
  BY <1>1, StartFileStep
<1>2. CASE WriteBatch(p)
  BY <1>2, WriteBatchStep
<1>3. CASE BreakOff(p)
  BY <1>3, BreakOffStep
<1>4. CASE CopyFile(p)
  BY <1>4, CopyFileStep
<1>5. CASE CompleteFile(p)
  BY <1>5, CompleteFileStep
<1>6. CASE StopFile(p)
  BY <1>6, StopFileStep
<1>7. CASE FailUnmarked(p)
  BY <1>7, FailUnmarkedStep
<1>8. QED
  BY <1>1, <1>2, <1>3, <1>4, <1>5, <1>6, <1>7 DEF FileStep

LEMMA UnitInductive == ASSUME IInv, Unit PROVE IInv'
<1>1. CASE Start
  BY <1>1, StartStep
<1>2. CASE EndOfRun
  BY <1>2, EndOfRunStep
<1>3. CASE DeferRest
  BY <1>3, DeferRestStep
<1>4. CASE Abandon
  BY <1>4, AbandonStep
<1>5. ASSUME NEW d \in Dates, Discovery(d) PROVE IInv'
  BY <1>5, ProbeNotFoundStep, ProbeNothingStep, ProbeUnavailableStep, ProbeFilesStep
     DEF Discovery
<1>6. CASE ProbeCancelled
  BY <1>6, ProbeCancelledStep
<1>7. CASE Begin
  BY <1>7, ClaimStep DEF Begin
<1>8. CASE BeginFailed
  BY <1>8, ClaimStep DEF BeginFailed
<1>9. CASE EndUnlisted
  BY <1>9, EndUnlistedStep
<1>10. ASSUME NEW p \in Paths, FileStep(p) PROVE IInv'
  BY <1>10, FileStepInductive
<1>11. CASE EndCollection
  BY <1>11, EndCollectionStep
<1>12. CASE Reapply
  BY <1>12, ReapplyStep
<1>13. QED
  BY <1>1, <1>2, <1>3, <1>4, <1>5, <1>6, <1>7, <1>8, <1>9, <1>10, <1>11,
     <1>12 DEF Unit

LEMMA EnvironmentInductive == ASSUME IInv, Environment PROVE IInv'
<1>1. ASSUME NEW d \in Dates, NEW p \in Paths,
             Arrive(d, p) \/ Remove(d, p) \/ Settle(d, p)
      PROVE  IInv'
  BY <1>1, ArriveStep, RemoveStep, SettleStep
<1>2. ASSUME NEW d \in Dates, LeaseExpires(d) PROVE IInv'
  BY <1>2, LeaseExpiresStep
<1>3. CASE NextDay
  BY <1>3, NextDayStep
<1>4. CASE Cancel
  BY <1>4, CancelStep
<1>5. CASE Crash
  BY <1>5, CrashStep
<1>6. QED
  BY <1>1, <1>2, <1>3, <1>4, <1>5 DEF Environment

\* The inductive invariant: every step of the unit and of its environment keeps
\* it, for any number of days, paths, versions, batches, workers and faults.
THEOREM Inductive == Spec => []IInv
<1>1. Init => IInv
  BY InitIInv
<1>2. IInv /\ [Next]_vars => IInv'
  <2> SUFFICES ASSUME IInv, [Next]_vars PROVE IInv'
    OBVIOUS
  <2>1. CASE Unit
    BY <2>1, UnitInductive
  <2>2. ASSUME NEW t \in 1..today, Trigger(t) PROVE IInv'
    BY <2>2, TriggerStep
  <2>3. CASE Environment
    BY <2>3, EnvironmentInductive
  <2>4. CASE UNCHANGED vars
    BY <2>4, StutterStep
  <2>5. QED
    BY <2>1, <2>2, <2>3, <2>4 DEF Next
<1>3. QED
  BY <1>1, <1>2, PTL DEF Spec

\* The types of the state (executor, ledger, discovery and sinks).
THEOREM TypeCorrect == Spec => []TypeOK
<1>1. IInv => TypeOK
  BY DEF IInv
<1>2. QED
  BY <1>1, Inductive, PTL

\* Data before mark (collectFile in app/collector/executor.go): no failed save,
\* cancellation, crash, retry or rewrite makes the ledger call a file completed
\* whose rows are not all in the database, with its copy.
THEOREM CompletedIsAlwaysStored == Spec => []CompletedIsStored
<1>1. IInv => CompletedIsStored
  BY DEF IInv
<1>2. QED
  BY <1>1, Inductive, PTL

\* A succeeded date keeps no failed file (End and MarkFileFailed in
\* app/state/state.go).
THEOREM SuccessIsAlwaysClean == Spec => []NoFailureOnSuccess
<1>1. IInv => NoFailureOnSuccess
  BY DEF IInv
<1>2. QED
  BY <1>1, Inductive, PTL
=============================================================================

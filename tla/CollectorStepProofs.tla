------------------------- MODULE CollectorStepProofs -------------------------
(***************************************************************************)
(* Proofs of the collector's action properties: a date only succeeds whole *)
(* and catch-up leaves succeeded dates alone.  Both speak of one step, and *)
(* follow from what the run has in hand before it: PlanInv says which      *)
(* dates the plan may hold, what the ledger knows about the current one    *)
(* and that every file that is through is completed in it.  That no record *)
(* lies before Since is part of it, as the plan never reaches back there.  *)
(* Last, the collector implements Delivery: each of its steps is one of    *)
(* that specification's, or one that it does not see.                      *)
(***************************************************************************)
EXTENDS CollectorProofs

PlanInv ==
    /\ pc \in {"down", "idle"} => cur = NoDate /\ todo = {}
    /\ pc = "down" => \A d \in Dates : mem.status[d] = "none"
    /\ cur \notin todo
    /\ LifeStartsAtSince
    /\ \A d \in todo : d >= Since
    /\ cur \in Dates => cur >= Since
    /\ \A d \in todo : mem.status[d] = "succeeded" => d = target
    /\ pc \in {"probed", "unlisted"} /\ mem.status[cur] = "succeeded" => cur = target
    /\ pc = "closing" => mem.status[cur] = "running"
    /\ pc = "files" =>
         \A p \in Paths : filePc[p] = "done" => File(p) \in mem.completed[cur]

\* The bodies of the two action properties.
WholeStep ==
    \A d \in Dates :
        mem.status[d] = "running" /\ mem'.status[d] = "succeeded"
            => \A p \in Listed : FileCompleted(mem', d, File(p))

AloneStep ==
    \A d \in Dates :
        pc # "down" /\ pc' # "down" /\ mem.status[d] = "succeeded"
            => mem'.status[d] = "succeeded" \/ d = target

StepGood == PlanInv' /\ WholeStep /\ AloneStep

-----------------------------------------------------------------------------
(* Lemmas about the ledger and the plan.                                   *)

\* M has the status of L for every date and all its completions.
Steady(M, L) ==
    /\ M.status = L.status
    /\ \A e \in Dates : L.completed[e] \subseteq M.completed[e]

LEMMA SteadyFacts ==
    ASSUME NEW L \in Ledger, NEW d \in Dates
    PROVE  /\ Steady(L, L)
           /\ Steady(ExpireIn(L, d), L)
           /\ \A f \in Files : /\ Steady(MarkFailedIn(L, d, f), L)
                               /\ Steady(MarkCompletedIn(L, d, f), L)
<1>1. Steady(L, L)
  BY DEF Steady
<1>2. Steady(ExpireIn(L, d), L)
  <2> DEFINE b == L.expired[d] \/ L.status[d] = "running"
  <2>1. ExpireIn(L, d) = [L EXCEPT !.expired[d] = b]
    BY DEF ExpireIn
  <2> HIDE DEF b
  <2>2. QED
    BY <2>1 DEF Steady, Ledger
<1>3. ASSUME NEW f \in Files
      PROVE  Steady(MarkFailedIn(L, d, f), L) /\ Steady(MarkCompletedIn(L, d, f), L)
  <2>1. Steady(MarkFailedIn(L, d, f), L)
    BY MarkFailedFacts DEF Steady
  <2> DEFINE M == MarkCompletedIn(L, d, f)
  <2>2. M.status = L.status /\ M.completed = [L.completed EXCEPT ![d] = @ \cup {f}]
    BY MarkCompletedFacts
  <2> HIDE DEF M
  <2>3. L.completed \in [Dates -> SUBSET Files]
    BY DEF Ledger
  <2>4. Steady(M, L)
    BY <2>2, <2>3 DEF Steady
  <2>5. QED
    BY <2>1, <2>4 DEF M
<1>4. QED
  BY <1>1, <1>2, <1>3

\* M has the status of L for every date but d, which has that or s.
Moves(M, L, d, s) ==
    \A e \in Dates : \/ M.status[e] = L.status[e]
                     \/ e = d /\ M.status[e] = s

\* Begin, End and Drop change the status of one date.
LEMMA StatusFacts ==
    ASSUME NEW L \in Ledger, NEW d \in Dates, NEW s
    PROVE  /\ Moves(L, L, d, s)
           /\ Moves(BeginIn(L, d), L, d, "running")
           /\ Moves(EndIn(L, d, s), L, d, s)
           /\ Moves(DropIn(L, d), L, d, "none")
           /\ EndIn(L, d, s).completed = L.completed
BY DEF BeginIn, EndIn, DropIn, Ledger, Moves

\* A trigger plans no succeeded date but the one it asks for: incomplete dates
\* did not succeed, and the gap lies after the last success.
LEMMA PlannedFacts ==
    ASSUME NEW L \in Ledger, NEW t \in Dates, NEW d \in Attempted(L, t),
           L.status[d] = "succeeded"
    PROVE  d = t
<1>1. d \in Dates
  BY AttemptedFacts
<1>2. d \notin Incomplete(L, t)
  BY DEF Incomplete
<1>3. d \notin Gap(L, t)
  <2> SUFFICES ASSUME d \in Gap(L, t) PROVE FALSE
    OBVIOUS
  <2>1. d <= t /\ \A s \in SucceededUpTo(L, t) : d > s
    BY DEF Gap, SucceededUpTo
  <2>2. d \in SucceededUpTo(L, t)
    BY <1>1, <2>1 DEF SucceededUpTo
  <2>3. QED
    BY <1>1, <2>1, <2>2 DEF Dates
<1>4. QED
  BY <1>2, <1>3 DEF Attempted, Plan

-----------------------------------------------------------------------------
(* Steps.                                                                  *)

\* A step that changes no status and keeps what is through.
LEMMA SteadyStep ==
    ASSUME IInv, PlanInv, Steady(mem', mem), UNCHANGED <<pc, target, todo, cur>>,
           pc = "files" => \A p \in Paths : filePc'[p] = "done"
                               => File(p)' \in mem'.completed[cur]
    PROVE  StepGood
BY DEF StepGood, PlanInv, LifeStartsAtSince, WholeStep, AloneStep, Steady

\* The same, where the files in hand are not touched either.
LEMMA StillStep ==
    ASSUME IInv, PlanInv, Steady(mem', mem), UNCHANGED <<pc, target, todo, cur, fileVars>>
    PROVE  StepGood
<1>1. pc = "files" => cur \in Dates
  BY DEF IInv, CurOK
<1>2. pc = "files" => \A p \in Paths : filePc'[p] = "done"
                          => File(p)' \in mem'.completed[cur]
  BY <1>1 DEF PlanInv, Steady, fileVars, File
<1>3. QED
  BY <1>2, SteadyStep

LEMMA EnvironmentGood ==
    ASSUME IInv, PlanInv, Environment PROVE StepGood
<1>0. mem \in Ledger /\ Steady(mem, mem)
  BY DEF IInv, TypeOK, Steady
<1>1. ASSUME NEW d \in Dates, NEW p \in Paths,
             Arrive(d, p) \/ Remove(d, p) \/ Settle(d, p)
      PROVE  StepGood
  BY <1>0, <1>1, StillStep DEF Arrive, Remove, Settle, unitVars
<1>2. ASSUME NEW d \in Dates, LeaseExpires(d) PROVE StepGood
  BY <1>0, <1>2, SteadyFacts, StillStep DEF LeaseExpires, unitVars
<1>3. CASE NextDay
  BY <1>0, <1>3, StillStep DEF NextDay, unitVars
<1>4. CASE Cancel
  BY <1>0, <1>4, StillStep DEF Cancel
<1>5. CASE Crash
  <2>1. /\ pc' = "down" /\ todo' = {} /\ cur' = NoDate
        /\ \A d \in Dates : mem'.status[d] = "none"
    BY <1>5 DEF Crash, EmptyLedger
  <2>2. QED
    BY <2>1 DEF StepGood, PlanInv, LifeStartsAtSince, WholeStep, AloneStep,
                NoDate, Dates
<1>6. QED
  BY <1>1, <1>2, <1>3, <1>4, <1>5 DEF Environment

LEMMA TriggerGood ==
    ASSUME IInv, PlanInv, NEW t \in 1..today, Trigger(t) PROVE StepGood
<1>1. mem \in Ledger /\ t \in Dates /\ cur = NoDate
  <2>1. t \in Dates
    BY LedgerAssumption DEF IInv, TypeOK, Dates
  <2>2. QED
    BY <2>1 DEF IInv, TypeOK, PlanInv, Trigger
<1>2. \A d \in todo' : mem.status[d] = "succeeded" => d = target'
  BY <1>1, PlannedFacts DEF Trigger
<1>3. cur' = NoDate /\ cur' \notin todo'
  BY <1>1, AttemptedFacts DEF Trigger, NoDate, Dates
<1>4. mem' = mem /\ pc = "idle" /\ pc' = "next" /\ (\A d \in todo' : d >= Since)
  BY DEF Trigger, Attempted
<1>5. QED
  BY <1>2, <1>3, <1>4 DEF StepGood, PlanInv, LifeStartsAtSince, WholeStep, AloneStep,
                          NoDate, Dates

\* Steps that end a run or an activation, or cut the plan short.
LEMMA EndOfRunGood ==
    ASSUME IInv, PlanInv, EndOfRun \/ DeferRest \/ Reapply PROVE StepGood
<1>1. /\ mem' = mem /\ todo' = {} /\ pc # "down"
      /\ (pc' = "idle" /\ cur' = NoDate) \/ (pc' = "next" /\ cur' = cur)
  BY DEF EndOfRun, DeferRest, Reapply
<1>2. QED
  BY <1>1 DEF StepGood, PlanInv, LifeStartsAtSince, WholeStep, AloneStep, NoDate, Dates

LEMMA DownGood ==
    ASSUME IInv, PlanInv, Start \/ Abandon PROVE StepGood
<1>1. CASE Start
  <2>1. /\ pc = "down" /\ pc' = "idle" /\ cur' = NoDate /\ todo' = {}
        /\ \A d \in Dates : mem.status[d] = "none"
    BY <1>1 DEF Start, PlanInv
  <2>2. mem' = SweptBefore(Migrated(disk), Since)
    BY <1>1 DEF Start, Saved
  <2>3. \A d \in Dates : d < Since => mem'.status[d] = "none"
    BY <2>2 DEF SweptBefore
  <2>4. QED
    BY <2>1, <2>3 DEF StepGood, PlanInv, LifeStartsAtSince, WholeStep, AloneStep,
                NoDate, Dates
<1>2. CASE Abandon
  <2>1. /\ pc' = "down" /\ todo' = {} /\ cur' = NoDate
        /\ \A d \in Dates : mem'.status[d] = "none"
    BY <1>2 DEF Abandon, EmptyLedger
  <2>2. QED
    BY <2>1 DEF StepGood, PlanInv, LifeStartsAtSince, WholeStep, AloneStep,
                NoDate, Dates
<1>3. QED
  BY <1>1, <1>2

-----------------------------------------------------------------------------
(* Discovery and the claim.                                                *)

\* A probe takes its date out of the plan and at most drops its record.
LEMMA ProbeGood ==
    ASSUME IInv, PlanInv, NEW d \in Dates, Probe(d),
           pc' \in {"next", "probed", "unlisted"},
           mem' = mem \/ mem' = DropIn(mem, d)
    PROVE  StepGood
<1>1. /\ pc = "next" /\ d \in todo /\ cur' = d /\ todo' = todo \ {d}
      /\ target' = target
  BY DEF Probe
<1>2. Moves(mem', mem, d, "none")
  BY StatusFacts DEF IInv, TypeOK
<1>3. todo \subseteq Dates /\ (mem.status[d] = "succeeded" => d = target)
  BY <1>1 DEF PlanInv, LifeStartsAtSince, IInv, TypeOK
<1>4. PlanInv'
  BY <1>1, <1>2, <1>3 DEF PlanInv, LifeStartsAtSince, Moves
<1>5. WholeStep /\ AloneStep
  BY <1>1, <1>2, <1>3 DEF WholeStep, AloneStep, Moves
<1>6. QED
  BY <1>4, <1>5 DEF StepGood

LEMMA DiscoveryGood ==
    ASSUME IInv, PlanInv, NEW d \in Dates, Discovery(d) PROVE StepGood
<1>1. CASE ProbeNotFound(d)
  BY <1>1, ProbeGood DEF ProbeNotFound, Probe, BestEffort, Saved, Unsaved
<1>2. CASE ProbeNothing(d)
  BY <1>2, ProbeGood DEF ProbeNothing, Probe, BestEffort, Saved, Unsaved
<1>3. CASE ProbeUnavailable(d)
  BY <1>3, ProbeGood DEF ProbeUnavailable
<1>4. CASE ProbeFiles(d)
  BY <1>4, ProbeGood DEF ProbeFiles
<1>5. QED
  BY <1>1, <1>2, <1>3, <1>4 DEF Discovery

LEMMA ProbeCancelledGood ==
    ASSUME IInv, PlanInv, ProbeCancelled PROVE StepGood
BY DEF ProbeCancelled, StepGood, PlanInv, LifeStartsAtSince, WholeStep, AloneStep

\* A claim takes a succeeded date, when appending, only if it is the target.
LEMMA ClaimGood ==
    ASSUME IInv, PlanInv, Begin \/ BeginFailed PROVE StepGood
<1>1. PICK from \in {"probed", "unlisted"}, then \in {"files", "closing"} :
           /\ Claim(from, then) /\ (then = "files" => from = "probed")
  BY DEF Begin, BeginFailed
<1>2. /\ pc = from /\ cur \in Dates /\ pc' \in {then, "next"}
      /\ UNCHANGED <<target, todo, cur>>
      /\ mem' = mem \/ mem' = BeginIn(mem, cur)
      /\ pc' = then => mem' = BeginIn(mem, cur) /\ UNCHANGED fileVars
  BY <1>1 DEF Claim, Saved, Unsaved, IInv, CurOK
<1>3. Moves(mem', mem, cur, "running")
  BY <1>2, StatusFacts DEF IInv, TypeOK
<1>4. pc' = then => mem'.status[cur] = "running"
  <2>1. mem \in Ledger
    BY DEF IInv, TypeOK
  <2>2. BeginIn(mem, cur).status[cur] = "running"
    BY <1>2, <2>1, BeginFacts
  <2>3. QED
    BY <1>2, <2>2
<1>5. pc' = "files" => \A p \in Paths : filePc'[p] # "done"
  BY <1>1, <1>2 DEF IInv, FilesOK, FileOK, fileVars
<1>6. PlanInv'
  <2>1. cur >= Since /\ Since \in Nat /\ cur \in Int
    BY <1>2, PlannerAssumption DEF PlanInv, Dates
  <2>2. LifeStartsAtSince'
    BY <1>1, <1>2, <1>3, <2>1 DEF PlanInv, LifeStartsAtSince, Moves, Dates
  <2>3. QED
    BY <1>1, <1>2, <1>3, <1>4, <1>5, <2>2 DEF PlanInv, Moves, IInv, TypeOK
<1>7. WholeStep
  BY <1>3 DEF WholeStep, Moves
<1>8. AloneStep
  BY <1>1, <1>2, <1>3 DEF AloneStep, Moves, PlanInv
<1>9. QED
  BY <1>6, <1>7, <1>8 DEF StepGood

\* Closing a date whose probe failed: it is running, so it did not succeed.
LEMMA EndUnlistedGood ==
    ASSUME IInv, PlanInv, EndUnlisted PROVE StepGood
<1>1. /\ pc = "closing" /\ cur \in Dates /\ mem.status[cur] = "running"
      /\ pc' = "next" /\ UNCHANGED <<target, todo, cur>>
      /\ mem' = mem \/ mem' = EndIn(mem, cur, "failed")
  BY DEF EndUnlisted, BestEffort, Saved, Unsaved, IInv, CurOK, PlanInv
<1>2. Moves(mem', mem, cur, "failed")
  BY <1>1, StatusFacts DEF IInv, TypeOK
<1>3. PlanInv'
  BY <1>1, <1>2 DEF PlanInv, LifeStartsAtSince, Moves, IInv, TypeOK
<1>4. QED
  BY <1>1, <1>2, <1>3 DEF StepGood, WholeStep, AloneStep, Moves

-----------------------------------------------------------------------------
(* The files of a date.                                                    *)


\* A step of a file leaves the status of every date alone, and a file is only
\* through when the ledger has it.
LEMMA FileGood ==
    ASSUME IInv, PlanInv, NEW p \in Paths, NEW to \in FilePc, InFiles(p),
           Advance(p, to), Steady(mem', mem),
           to = "done" => File(p) \in mem'.completed[cur]
    PROVE  StepGood
<1>1. /\ pc = "files" /\ cur \in Dates
      /\ UNCHANGED <<pc, target, todo, cur, listing>>
  BY DEF InFiles, IInv, CurOK
<1>2. filePc' = [filePc EXCEPT ![p] = to] /\ filePc \in [Paths -> FilePc]
  BY DEF Advance, IInv, TypeOK
<1>3. ASSUME NEW q \in Paths, filePc'[q] = "done"
      PROVE  File(q)' \in mem'.completed[cur]
  <2>1. File(q)' = File(q)
    BY <1>1 DEF File
  <2>2. CASE q = p
    BY <1>2, <1>3, <2>1, <2>2
  <2>3. CASE q # p
    <3>1. filePc[q] = "done"
      BY <1>2, <1>3, <2>3
    <3>2. File(q) \in mem.completed[cur]
      BY <1>1, <3>1 DEF PlanInv
    <3>3. QED
      BY <1>1, <2>1, <3>2 DEF Steady
  <2>4. QED
    BY <2>2, <2>3
<1>4. QED
  BY <1>1, <1>3, SteadyStep

\* A failing file: the failure is recorded or it is not.
LEMMA FailGood ==
    ASSUME IInv, PlanInv, NEW p \in Paths, NEW n, InFiles(p), filePc[p] # "none",
           FailFile(p, n)
    PROVE  StepGood
<1>1. cur \in Dates /\ mem \in Ledger /\ File(p) \in Files
  BY FileIsFile DEF InFiles, IInv, CurOK, TypeOK
<1>2. Advance(p, "failed") /\ mem' \in {mem, MarkFailedIn(mem, cur, File(p))}
  BY DEF FailFile, BestEffort, Saved, Unsaved
<1>3. Steady(mem', mem)
  BY <1>1, <1>2, SteadyFacts
<1>4. QED
  BY <1>2, <1>3, FileGood DEF FilePc

LEMMA FileStepGood ==
    ASSUME IInv, PlanInv, NEW p \in Paths, FileStep(p) PROVE StepGood
<1>0. mem \in Ledger /\ Steady(mem, mem)
  BY DEF IInv, TypeOK, Steady
<1>1. CASE StartFile(p)
  <2>1. InFiles(p) /\ filePc[p] # "none"
    BY <1>1 DEF StartFile
  <2>2. CASE FileCompleted(mem, cur, File(p)) /\ Advance(p, "done") /\ mem' = mem
    BY <1>0, <2>1, <2>2, FileGood DEF FilePc, FileCompleted
  <2>3. CASE Advance(p, "open") /\ mem' = mem
    BY <1>0, <2>1, <2>3, FileGood DEF FilePc
  <2>4. CASE FailFile(p, 0)
    BY <2>1, <2>4, FailGood
  <2>5. QED
    BY <1>1, <2>2, <2>3, <2>4 DEF StartFile
<1>2. CASE WriteBatch(p)
  <2> DEFINE to == IF written[p] + 1 = Batches THEN "written" ELSE "open"
  <2>1. InFiles(p) /\ Advance(p, to) /\ mem' = mem
    BY <1>2 DEF WriteBatch
  <2>2. to \in FilePc /\ to # "done"
    BY DEF FilePc
  <2> HIDE DEF to
  <2>3. QED
    BY <1>0, <2>1, <2>2, FileGood
<1>3. CASE BreakOff(p)
  <2> DEFINE n == IF cancelled \/ File(p) \in Malformed THEN 0 ELSE 1
  <2>1. InFiles(p) /\ filePc[p] # "none" /\ FailFile(p, n)
    BY <1>3 DEF BreakOff
  <2> HIDE DEF n
  <2>2. QED
    BY <2>1, FailGood
<1>4. CASE CopyFile(p)
  <2>1. InFiles(p) /\ filePc[p] # "none" /\ cur \in Dates /\ listing[p] > 0
    BY <1>4 DEF CopyFile, InFiles, IInv, CurOK, FilesOK, FileOK
  <2>2. \/ Advance(p, "copied") /\ mem' = mem
        \/ \E n \in Nat : FailFile(p, n)
    BY <1>4, <2>1, CopyFacts
  <2>3. QED
    BY <1>0, <2>1, <2>2, FileGood, FailGood DEF FilePc
<1>5. CASE CompleteFile(p)
  <2> DEFINE L == MarkCompletedIn(mem, cur, File(p))
  <2>1. InFiles(p) /\ filePc[p] # "none" /\ cur \in Dates
    BY <1>5 DEF CompleteFile, InFiles, IInv, CurOK
  <2>2. File(p) \in Files
    BY <2>1, FileIsFile
  <2>3. /\ L \in Ledger /\ Steady(L, mem)
        /\ L.completed = [mem.completed EXCEPT ![cur] = @ \cup {File(p)}]
    BY <1>0, <2>1, <2>2, SteadyFacts, MarkCompletedFacts
  <2>4. mem' = L /\ (Advance(p, "done") \/ Advance(p, "unmarked"))
    BY <1>5 DEF CompleteFile, Saved, Unsaved
  <2> HIDE DEF L
  <2>5. File(p) \in L.completed[cur]
    BY <1>0, <2>1, <2>3 DEF Ledger
  <2>6. QED
    BY <2>1, <2>3, <2>4, <2>5, FileGood DEF FilePc
<1>6. CASE StopFile(p)
  <2>1. InFiles(p) /\ Advance(p, "failed") /\ mem' = mem
    BY <1>6 DEF StopFile
  <2>2. QED
    BY <1>0, <2>1, FileGood DEF FilePc
<1>7. CASE FailUnmarked(p)
  <2>1. InFiles(p) /\ filePc[p] # "none" /\ FailFile(p, 0)
    BY <1>7 DEF FailUnmarked
  <2>2. QED
    BY <2>1, FailGood
<1>8. QED
  BY <1>1, <1>2, <1>3, <1>4, <1>5, <1>6, <1>7 DEF FileStep

\* Closing a date: it is running, and if no file failed every listed file is
\* through, that is completed.
LEMMA EndCollectionGood ==
    ASSUME IInv, PlanInv, EndCollection PROVE StepGood
<1> DEFINE s == IF \E p \in Listed : filePc[p] = "failed" THEN "failed" ELSE "succeeded"
<1>1. /\ pc = "files" /\ cur \in Dates /\ mem.status[cur] = "running" /\ mem \in Ledger
      /\ pc' = "next" /\ UNCHANGED <<target, todo, cur>>
      /\ s \in {"succeeded", "failed"} /\ s \in Status
      /\ mem' \in {mem, EndIn(mem, cur, s)}
  BY DEF EndCollection, BestEffort, Saved, Unsaved, IInv, CurOK, TypeOK, Status
<1>2. Moves(mem', mem, cur, s) /\ mem'.completed = mem.completed
  BY <1>1, StatusFacts
<1>3. s = "succeeded" => \A p \in Listed : File(p) \in mem.completed[cur]
  <2> SUFFICES ASSUME s = "succeeded", NEW p \in Listed
               PROVE  File(p) \in mem.completed[cur]
    OBVIOUS
  <2>1. p \in Paths /\ filePc[p] = "done"
    BY DEF EndCollection, Listed
  <2>2. QED
    BY <1>1, <2>1 DEF PlanInv
<1> HIDE DEF s
<1>4. PlanInv'
  BY <1>1, <1>2 DEF PlanInv, LifeStartsAtSince, Moves, IInv, TypeOK
<1>5. WholeStep
  <2> SUFFICES ASSUME NEW d \in Dates, mem.status[d] = "running",
                      mem'.status[d] = "succeeded", NEW p \in Listed
               PROVE  FileCompleted(mem', d, File(p))
    BY DEF WholeStep
  <2>1. d = cur /\ s = "succeeded"
    BY <1>1, <1>2 DEF Moves
  <2>2. QED
    BY <1>2, <1>3, <2>1 DEF FileCompleted, HasRecord
<1>6. AloneStep
  BY <1>1, <1>2 DEF AloneStep, Moves
<1>7. QED
  BY <1>4, <1>5, <1>6 DEF StepGood

-----------------------------------------------------------------------------
(* The theorems.                                                           *)

LEMMA UnitGood == ASSUME IInv, PlanInv, Unit PROVE StepGood
<1>1. CASE Start \/ Abandon
  BY <1>1, DownGood
<1>2. CASE EndOfRun \/ DeferRest \/ Reapply
  BY <1>2, EndOfRunGood
<1>3. ASSUME NEW d \in Dates, Discovery(d) PROVE StepGood
  BY <1>3, DiscoveryGood
<1>4. CASE ProbeCancelled
  BY <1>4, ProbeCancelledGood
<1>5. CASE Begin \/ BeginFailed
  BY <1>5, ClaimGood
<1>6. CASE EndUnlisted
  BY <1>6, EndUnlistedGood
<1>7. ASSUME NEW p \in Paths, FileStep(p) PROVE StepGood
  BY <1>7, FileStepGood
<1>8. CASE EndCollection
  BY <1>8, EndCollectionGood
<1>9. QED
  BY <1>1, <1>2, <1>3, <1>4, <1>5, <1>6, <1>7, <1>8 DEF Unit

LEMMA StutterGood == ASSUME IInv, PlanInv, UNCHANGED vars PROVE StepGood
<1>1. Steady(mem', mem) /\ UNCHANGED <<pc, target, todo, cur, fileVars>>
  BY DEF vars, Steady
<1>2. QED
  BY <1>1, StillStep

LEMMA NextGood == IInv /\ PlanInv /\ [Next]_vars => StepGood
<1> SUFFICES ASSUME IInv, PlanInv, [Next]_vars PROVE StepGood
  OBVIOUS
<1>1. CASE Unit
  BY <1>1, UnitGood
<1>2. ASSUME NEW t \in 1..today, Trigger(t) PROVE StepGood
  BY <1>2, TriggerGood
<1>3. CASE Environment
  BY <1>3, EnvironmentGood
<1>4. CASE UNCHANGED vars
  BY <1>4, StutterGood
<1>5. QED
  BY <1>1, <1>2, <1>3, <1>4 DEF Next

\* What the run has in hand, in every reachable state (Handle and collectOne in
\* app/collector/executor.go).
THEOREM PlanAlwaysHolds == Spec => []PlanInv
<1>1. Init => PlanInv
  BY DEF Init, PlanInv, LifeStartsAtSince, EmptyLedger, NoDate, Dates
<1>2. IInv /\ PlanInv /\ [Next]_vars => PlanInv'
  BY NextGood DEF StepGood
<1>3. QED
  BY <1>1, <1>2, Inductive, PTL DEF Spec

\* No record from before the start of the source's life (the sweep in
\* NewSourceUnit and the filter in Handle), for every Since and every plan.
THEOREM LifeAlwaysStartsAtSince == Spec => []LifeStartsAtSince
<1>1. PlanInv => LifeStartsAtSince
  BY DEF PlanInv
<1>2. QED
  BY <1>1, PlanAlwaysHolds, PTL

\* A date only succeeds whole (collectOne in app/collector/executor.go): however
\* the files interleave with failures, failed saves and cancellation, a Running
\* date becomes Succeeded only when the ledger has every file discovery listed.
THEOREM SuccessIsAlwaysWhole == Spec => SucceededIsWhole
<1>1. IInv /\ PlanInv /\ [Next]_vars => WholeStep
  BY NextGood DEF StepGood
<1>2. QED
  BY <1>1, Inductive, PlanAlwaysHolds, PTL DEF Spec, SucceededIsWhole, WholeStep

\* Catch-up leaves success alone (Plan in app/recovery/planner.go and the Drop
\* and Begin of collectOne): no step of an activation takes a succeeded date's
\* record away unless the trigger asked for that date.
THEOREM CatchUpAlwaysLeavesSuccessAlone == Spec => CatchUpLeavesSuccessAlone
<1>1. IInv /\ PlanInv /\ [Next]_vars => AloneStep
  BY NextGood DEF StepGood
<1>2. QED
  BY <1>1, Inductive, PlanAlwaysHolds, PTL
     DEF Spec, CatchUpLeavesSuccessAlone, AloneStep
-----------------------------------------------------------------------------
(* The promise of Delivery.                                                *)

\* A date is only collected when discovery listed a file of it.
SomeListed == pc \in {"probed", "files"} => Listed # {}

unitbar == IF pc = "down" THEN "down" ELSE "up"

Promised ==
    SomeListed' /\ [Promise!Next]_<<unitbar, stored, BookOf(mem), BookOf(disk)>>

\* What the operations of the ledger do to its book.
LEMMA BookFacts ==
    ASSUME NEW L \in Ledger, NEW d \in Dates
    PROVE  /\ BookOf(BeginIn(L, d)) = [BookOf(L) EXCEPT !.closed = @ \ {d}]
           /\ BookOf(DropIn(L, d)) =
                [marks  |-> [BookOf(L).marks EXCEPT ![d] = {}],
                 closed |-> BookOf(L).closed \ {d}]
           /\ BookOf(ExpireIn(L, d)) = BookOf(L)
           /\ \A f \in Files :
                /\ BookOf(MarkFailedIn(L, d, f)) = BookOf(L)
                /\ BookOf(MarkCompletedIn(L, d, f)) =
                     [BookOf(L) EXCEPT !.marks[d] = @ \cup {f}]
<1> DEFINE C(M) == {e \in Dates : M.status[e] = "succeeded"}
<1>0. \A M : BookOf(M) = [marks |-> M.completed, closed |-> C(M)]
  BY DEF BookOf
<1>1. BookOf(BeginIn(L, d)) = [BookOf(L) EXCEPT !.closed = @ \ {d}]
  <2>1. BeginIn(L, d).completed = L.completed
    BY DEF BeginIn, Ledger
  <2>2. C(BeginIn(L, d)) = C(L) \ {d}
    <3>1. BeginIn(L, d).status = [L.status EXCEPT ![d] = "running"]
      BY BeginFacts
    <3>2. L.status \in [Dates -> Status]
      BY DEF Ledger
    <3>3. QED
      BY <3>1, <3>2
  <2> HIDE DEF C
  <2>3. QED
    BY <1>0, <2>1, <2>2
<1>2. BookOf(DropIn(L, d)) =
        [marks  |-> [BookOf(L).marks EXCEPT ![d] = {}],
         closed |-> BookOf(L).closed \ {d}]
  <2>1. DropIn(L, d).completed = [L.completed EXCEPT ![d] = {}]
    BY DEF DropIn, Ledger
  <2>2. C(DropIn(L, d)) = C(L) \ {d}
    <3>1. DropIn(L, d).status = [L.status EXCEPT ![d] = "none"]
      BY DropFacts
    <3>2. L.status \in [Dates -> Status]
      BY DEF Ledger
    <3>3. QED
      BY <3>1, <3>2
  <2> HIDE DEF C
  <2>3. BookOf(DropIn(L, d)) =
          [marks |-> [L.completed EXCEPT ![d] = {}], closed |-> C(L) \ {d}]
    BY <1>0, <2>1, <2>2
  <2>4. BookOf(L) = [marks |-> L.completed, closed |-> C(L)]
    BY <1>0
  <2>5. QED
    BY <2>3, <2>4
<1>3. ASSUME NEW f \in Files
      PROVE  BookOf(MarkCompletedIn(L, d, f)) = [BookOf(L) EXCEPT !.marks[d] = @ \cup {f}]
  <2>1. MarkCompletedIn(L, d, f).completed = [L.completed EXCEPT ![d] = @ \cup {f}]
    BY MarkCompletedFacts
  <2>2. C(MarkCompletedIn(L, d, f)) = C(L)
    BY MarkCompletedFacts
  <2> HIDE DEF C
  <2>3. QED
    BY <1>0, <2>1, <2>2
<1>4. ASSUME NEW f \in Files PROVE BookOf(MarkFailedIn(L, d, f)) = BookOf(L)
  BY MarkFailedFacts DEF BookOf
<1>5. BookOf(ExpireIn(L, d)) = BookOf(L)
  <2> DEFINE b == L.expired[d] \/ L.status[d] = "running"
  <2>1. ExpireIn(L, d) = [L EXCEPT !.expired[d] = b]
    BY DEF ExpireIn
  <2> HIDE DEF b
  <2>2. QED
    BY <2>1 DEF BookOf, Ledger
<1>6. QED
  BY <1>1, <1>2, <1>3, <1>4, <1>5

\* Closing a running date closes it in the book only with success.
LEMMA BookEnds ==
    ASSUME NEW L \in Ledger, NEW d \in Dates, L.status[d] = "running"
    PROVE  /\ BookOf(EndIn(L, d, "failed")) = BookOf(L)
           /\ BookOf(EndIn(L, d, "succeeded")) =
                [BookOf(L) EXCEPT !.closed = @ \cup {d}]
<1>1. ASSUME NEW s \in {"succeeded", "failed"}
      PROVE  /\ EndIn(L, d, s).status = [L.status EXCEPT ![d] = s]
             /\ EndIn(L, d, s).completed = L.completed
  <2>1. EndIn(L, d, s).status = [L.status EXCEPT ![d] = s]
    BY <1>1, EndFacts
  <2>2. EndIn(L, d, s).completed = L.completed
    BY DEF EndIn, Ledger
  <2>3. QED
    BY <2>1, <2>2
<1>2. L.status \in [Dates -> Status]
  BY DEF Ledger
<1>3. {e \in Dates : EndIn(L, d, "failed").status[e] = "succeeded"}
        = {e \in Dates : L.status[e] = "succeeded"}
  BY <1>1, <1>2
<1>4. {e \in Dates : EndIn(L, d, "succeeded").status[e] = "succeeded"}
        = {e \in Dates : L.status[e] = "succeeded"} \cup {d}
  BY <1>1, <1>2
<1>5. QED
  BY <1>1, <1>3, <1>4 DEF BookOf

\* An operation of the ledger writes its book through; a best-effort one may
\* also leave it alone.
Writes(B) == BookOf(mem') = B /\ BookOf(disk') \in {B, BookOf(disk)}

Untouched == BookOf(mem') = BookOf(mem) /\ BookOf(disk') = BookOf(disk)

LEMMA BestEffortWrites ==
    ASSUME NEW L, NEW n, BestEffort(L, n)
    PROVE  Untouched \/ Writes(BookOf(L))
BY DEF BestEffort, Saved, Unsaved, Writes, Untouched

LEMMA WritesDef == ASSUME NEW B, Writes(B) PROVE Promise!Write(B)
BY DEF Writes, Promise!Write

\* Steps that promise nothing, and steps that only save.
LEMMA QuietStep ==
    ASSUME UNCHANGED <<stored, unitbar>>, Untouched, SomeListed' PROVE Promised
BY DEF Promised, Untouched

LEMMA SaveStep ==
    ASSUME UNCHANGED <<stored, unitbar>>, pc # "down", SomeListed',
           Untouched \/ Writes(BookOf(mem))
    PROVE  Promised
<1>1. CASE Untouched
  BY <1>1, QuietStep
<1>2. CASE Writes(BookOf(mem))
  <2>1. Promise!Save
    BY <1>2, WritesDef DEF Promise!Save, unitbar
  <2>2. QED
    BY <2>1 DEF Promised, Promise!Next
<1>3. QED
  BY <1>1, <1>2

LEMMA ListedStays ==
    ASSUME SomeListed, UNCHANGED <<pc, listing>> PROVE SomeListed'
BY DEF SomeListed, Listed

-----------------------------------------------------------------------------
(* Starting from the file, and stopping.                                   *)

LEMMA BookIsBook == ASSUME NEW L \in Ledger PROVE BookOf(L) \in Promise!Book
BY DEF BookOf, Ledger, Promise!Book

\* Migration and the sweep lose dates, and no other marks.
LEMMA BookLoads ==
    ASSUME NEW L \in Ledger
    PROVE  /\ Promise!Kept(BookOf(L), BookOf(L))
           /\ Promise!Kept(BookOf(Migrated(L)), BookOf(L))
           /\ Promise!Kept(BookOf(SweptBefore(L, Since)), BookOf(L))
           /\ Promise!Kept(BookOf(SweptBefore(Migrated(L), Since)), BookOf(L))
<1> DEFINE M == Migrated(L)
           K(X, Y) == /\ \A d \in Dates : X.completed[d] \in {Y.completed[d], {}}
                      /\ \A d \in Dates : X.status[d] = "succeeded" =>
                                            Y.status[d] = "succeeded"
<1>1. \A X, Y : K(X, Y) => Promise!Kept(BookOf(X), BookOf(Y))
  BY DEF BookOf, Promise!Kept
<1>2. K(L, L)
  OBVIOUS
<1>3. K(M, L)
  BY DEF Migrated
<1>4. \A X : K(SweptBefore(X, Since), X)
  BY DEF SweptBefore
<1>5. K(SweptBefore(M, Since), L)
  <2>1. K(SweptBefore(M, Since), M)
    BY <1>4
  <2> HIDE DEF M
  <2>2. QED
    BY <1>3, <2>1
<1> HIDE DEF K
<1>6. QED
  BY <1>1, <1>2, <1>3, <1>4, <1>5

LEMMA StartPromised == ASSUME IInv, Start PROVE Promised
<1> DEFINE loaded == Migrated(disk)
           swept  == SweptBefore(loaded, Since)
<1>1. /\ disk \in Ledger /\ loaded \in Ledger /\ swept \in Ledger
  BY MigratedFacts, SweptFacts, PlannerAssumption DEF IInv, TypeOK
<1>2. /\ pc = "down" /\ pc' = "idle" /\ stored' = stored /\ mem' = swept
      /\ disk' \in {swept, loaded}
  BY DEF Start, Saved, sinkVars
<1>3. /\ Promise!Kept(BookOf(swept), BookOf(disk))
      /\ Promise!Kept(BookOf(loaded), BookOf(disk))
      /\ Promise!Kept(BookOf(swept), BookOf(loaded))
      /\ Promise!Kept(BookOf(swept), BookOf(swept))
  BY <1>1, BookLoads
<1>4. BookOf(swept) \in Promise!Book /\ BookOf(loaded) \in Promise!Book
  BY <1>1, BookIsBook
<1> HIDE DEF loaded, swept
<1>5. Promise!Load
  BY <1>2, <1>3, <1>4 DEF Promise!Load
<1>6. QED
  BY <1>2, <1>5 DEF Promised, Promise!Next, SomeListed

LEMMA StopPromised == ASSUME IInv, Crash \/ (Abandon /\ pc # "down") PROVE Promised
<1>1. /\ pc # "down" /\ pc' = "down" /\ mem' = EmptyLedger
      /\ UNCHANGED <<disk, stored>>
  BY DEF Crash, Abandon, sinkVars
<1>2. BookOf(EmptyLedger) = Promise!EmptyBook
  BY DEF BookOf, EmptyLedger, Promise!EmptyBook
<1>3. Promise!Stop
  BY <1>1, <1>2 DEF Promise!Stop
<1>4. QED
  BY <1>1, <1>3 DEF Promised, Promise!Next, SomeListed

-----------------------------------------------------------------------------
(* The steps that leave the books alone, and those of a date.              *)

LEMMA QuietSteps ==
    ASSUME IInv, SomeListed,
           \/ EndOfRun \/ DeferRest \/ Reapply \/ ProbeCancelled
           \/ \E d \in Dates : ProbeUnavailable(d) \/ ProbeFiles(d)
           \/ \E t \in 1..today : Trigger(t)
           \/ \E d \in Dates, p \in Paths : Arrive(d, p) \/ Remove(d, p) \/ Settle(d, p)
           \/ NextDay \/ Cancel \/ UNCHANGED vars
    PROVE  Promised
<1>1. mem' = mem /\ disk' = disk /\ stored' = stored
  BY DEF EndOfRun, DeferRest, Reapply, ProbeCancelled, ProbeUnavailable, ProbeFiles,
         Probe, Trigger, Arrive, Remove, Settle, NextDay, Cancel, vars, unitVars,
         sinkVars
<1>2. unitbar' = unitbar
  BY DEF EndOfRun, DeferRest, Reapply, ProbeCancelled, ProbeUnavailable, ProbeFiles,
         Probe, Trigger, Arrive, Remove, Settle, NextDay, Cancel, vars, unitVars,
         unitbar
<1>3. SomeListed'
  <2>1. ASSUME NEW d \in Dates, ProbeFiles(d) PROVE SomeListed'
    <3>1. PICK p \in Paths : src[d][p] > 0 /\ p \notin unstable[d]
      BY <2>1 DEF ProbeFiles, Present
    <3>2. listing'[p] > 0
      BY <2>1, <3>1 DEF ProbeFiles
    <3>3. QED
      BY <3>2 DEF SomeListed, Listed
  <2>2. CASE UNCHANGED <<pc, listing>>
    BY <2>2, ListedStays
  <2>3. CASE pc' \notin {"probed", "files"}
    BY <2>3 DEF SomeListed
  <2>4. QED
    BY <2>1, <2>2, <2>3
       DEF EndOfRun, DeferRest, Reapply, ProbeCancelled, ProbeUnavailable, Probe,
           Trigger, Arrive, Remove, Settle, NextDay, Cancel, vars, unitVars, fileVars
<1>4. QED
  BY <1>1, <1>2, <1>3, QuietStep DEF Untouched

LEMMA LeasePromised ==
    ASSUME IInv, SomeListed, NEW d \in Dates, LeaseExpires(d) PROVE Promised
<1>1. /\ mem' = ExpireIn(mem, d) /\ disk' = ExpireIn(disk, d)
      /\ UNCHANGED <<pc, listing, stored>>
  BY DEF LeaseExpires, unitVars, fileVars, sinkVars
<1>2. Untouched
  BY <1>1, BookFacts DEF Untouched, IInv, TypeOK
<1>3. SomeListed'
  BY <1>1, ListedStays
<1>4. QED
  BY <1>1, <1>2, <1>3, QuietStep DEF unitbar

\* A date that is forgotten goes as a whole.
LEMMA ForgetPromised ==
    ASSUME IInv, NEW d \in Dates, ProbeNotFound(d) \/ ProbeNothing(d) PROVE Promised
<1>1. /\ pc = "next" /\ pc' = "next" /\ stored' = stored
      /\ BestEffort(DropIn(mem, d), 0) \/ UNCHANGED <<mem, disk>>
  BY DEF ProbeNotFound, ProbeNothing, Probe, sinkVars
<1>2. mem \in Ledger
  BY DEF IInv, TypeOK
<1>3. SomeListed' /\ unitbar' = unitbar
  BY <1>1 DEF SomeListed, unitbar
<1>4. CASE Untouched
  BY <1>1, <1>3, <1>4, QuietStep
<1>5. CASE Writes(BookOf(DropIn(mem, d)))
  <2>1. Promise!Write(BookOf(DropIn(mem, d)))
    BY <1>5, WritesDef
  <2>2. BookOf(DropIn(mem, d)) = [marks  |-> [BookOf(mem).marks EXCEPT ![d] = {}],
                                  closed |-> BookOf(mem).closed \ {d}]
    BY <1>2, BookFacts
  <2>3. Promise!Forget(d)
    BY <1>1, <2>1, <2>2 DEF Promise!Forget
  <2>4. QED
    BY <1>3, <2>3 DEF Promised, Promise!Next
<1>6. QED
  BY <1>1, <1>4, <1>5, BestEffortWrites DEF Untouched

\* Claiming a succeeded date opens it again; any other claim just saves.
LEMMA ClaimPromised ==
    ASSUME IInv, SomeListed, Begin \/ BeginFailed PROVE Promised
<1>1. /\ pc \in {"probed", "unlisted"} /\ pc # "down" /\ pc' # "down"
      /\ cur \in Dates /\ mem \in Ledger /\ stored' = stored
      /\ Untouched \/ Writes(BookOf(BeginIn(mem, cur)))
  BY DEF Begin, BeginFailed, Claim, Saved, Unsaved, Untouched, Writes, sinkVars,
         IInv, CurOK, TypeOK
<1>2. SomeListed' /\ unitbar' = unitbar
  <2>1. pc' = "files" => pc = "probed" /\ listing' = listing
    BY DEF Begin, BeginFailed, Claim, fileVars
  <2>2. pc' # "probed"
    BY DEF Begin, BeginFailed, Claim
  <2>3. SomeListed'
    BY <2>1, <2>2 DEF SomeListed, Listed
  <2>4. QED
    BY <1>1, <2>3 DEF unitbar
<1>3. CASE Untouched
  BY <1>1, <1>2, <1>3, QuietStep
<1>4. CASE Writes(BookOf(BeginIn(mem, cur)))
  <2>1. Promise!Write(BookOf(BeginIn(mem, cur)))
    BY <1>4, WritesDef
  <2>2. BookOf(BeginIn(mem, cur)) = [BookOf(mem) EXCEPT !.closed = @ \ {cur}]
    BY <1>1, BookFacts
  <2>3. Promise!Reopen(cur)
    BY <1>1, <1>2, <2>1, <2>2 DEF Promise!Reopen, unitbar
  <2>4. QED
    BY <1>1, <2>3, <1>2 DEF Promised, Promise!Next
<1>5. QED
  BY <1>1, <1>3, <1>4

LEMMA EndUnlistedPromised ==
    ASSUME IInv, PlanInv, EndUnlisted PROVE Promised
<1>1. /\ pc = "closing" /\ pc' = "next" /\ stored' = stored
      /\ cur \in Dates /\ mem \in Ledger /\ mem.status[cur] = "running"
      /\ BestEffort(EndIn(mem, cur, "failed"), 0)
  BY DEF EndUnlisted, sinkVars, IInv, CurOK, TypeOK, PlanInv
<1>2. BookOf(EndIn(mem, cur, "failed")) = BookOf(mem)
  BY <1>1, BookEnds
<1>3. Untouched \/ Writes(BookOf(mem))
  BY <1>1, <1>2, BestEffortWrites
<1>4. SomeListed' /\ unitbar' = unitbar
  BY <1>1 DEF SomeListed, unitbar
<1>5. QED
  BY <1>1, <1>3, <1>4, SaveStep

\* A date is closed with a listed file that is through, and so has a mark.
LEMMA EndCollectionPromised ==
    ASSUME IInv, PlanInv, SomeListed, EndCollection PROVE Promised
<1> DEFINE s == IF \E p \in Listed : filePc[p] = "failed" THEN "failed" ELSE "succeeded"
<1>1. /\ pc = "files" /\ pc' = "next" /\ stored' = stored
      /\ cur \in Dates /\ mem \in Ledger /\ mem.status[cur] = "running"
      /\ BestEffort(EndIn(mem, cur, s), 0)
  BY DEF EndCollection, sinkVars, IInv, CurOK, TypeOK
<1>2. SomeListed' /\ unitbar' = unitbar
  BY <1>1 DEF SomeListed, unitbar
<1>3. Untouched \/ Writes(BookOf(EndIn(mem, cur, s)))
  BY <1>1, BestEffortWrites
<1>4. CASE s = "failed"
  <2>1. BookOf(EndIn(mem, cur, s)) = BookOf(mem)
    BY <1>1, <1>4, BookEnds
  <2>2. QED
    BY <1>1, <1>2, <1>3, <2>1, SaveStep
<1>5. CASE s = "succeeded"
  <2>1. BookOf(mem).marks[cur] # {}
    <3>1. PICK p \in Listed : TRUE
      BY <1>1 DEF SomeListed
    <3>2. p \in Paths /\ filePc[p] = "done"
      BY <1>5, <3>1 DEF EndCollection, Listed
    <3>3. File(p) \in mem.completed[cur]
      BY <1>1, <3>2 DEF PlanInv
    <3>4. QED
      BY <3>3 DEF BookOf
  <2>2. CASE Untouched
    BY <1>1, <1>2, <2>2, QuietStep
  <2>3. CASE Writes(BookOf(EndIn(mem, cur, s)))
    <3>1. Promise!Write(BookOf(EndIn(mem, cur, s)))
      BY <2>3, WritesDef
    <3>2. BookOf(EndIn(mem, cur, s)) = [BookOf(mem) EXCEPT !.closed = @ \cup {cur}]
      BY <1>1, <1>5, BookEnds
    <3>3. Promise!Close(cur)
      BY <1>1, <1>2, <2>1, <3>1, <3>2 DEF Promise!Close, unitbar
    <3>4. QED
      BY <1>1, <1>2, <3>3 DEF Promised, Promise!Next
  <2>4. QED
    BY <1>3, <2>2, <2>3
<1>6. QED
  BY <1>4, <1>5

-----------------------------------------------------------------------------
(* The steps of a file.                                                    *)

\* What every step of a file leaves alone.
LEMMA FileFrames ==
    ASSUME IInv, SomeListed, NEW p \in Paths, InFiles(p)
    PROVE  /\ pc = "files" /\ pc # "down" /\ cur \in Dates /\ mem \in Ledger
           /\ unitbar = "up" /\ unitbar' = unitbar /\ SomeListed'
BY ListedStays DEF InFiles, IInv, CurOK, TypeOK, unitbar

\* A failing file is noted in the ledger, which is saved or not.
LEMMA FailWrites ==
    ASSUME IInv, NEW p \in Paths, NEW n, pc = "files", filePc[p] # "none",
           FailFile(p, n)
    PROVE  Untouched \/ Writes(BookOf(mem))
<1>1. cur \in Dates /\ mem \in Ledger /\ File(p) \in Files
  BY FileIsFile DEF IInv, CurOK, TypeOK
<1>2. BestEffort(MarkFailedIn(mem, cur, File(p)), n)
  BY DEF FailFile
<1>3. BookOf(MarkFailedIn(mem, cur, File(p))) = BookOf(mem)
  BY <1>1, BookFacts
<1>4. QED
  BY <1>2, <1>3, BestEffortWrites

\* A batch is stored for a file that is still open.
LEMMA StorePromised ==
    ASSUME IInv, SomeListed, NEW p \in Paths, InFiles(p), filePc[p] = "open",
           stored' = stored \cup {<<cur, File(p), written[p] + 1>>},
           Untouched \/ Writes(BookOf(mem))
    PROVE  Promised
<1> DEFINE n == written[p] + 1
<1>1. n \in 1..Batches
  BY CollectorAssumption DEF IInv, TypeOK, FilesOK, FileOK
<1>2. /\ cur \in Dates /\ File(p) \in Files
      /\ unitbar = "up" /\ unitbar' = unitbar /\ SomeListed'
  BY FileFrames, FileIsFile
<1>3. Promise!Write(BookOf(mem))
  BY DEF Untouched, Writes, Promise!Write
<1>4. stored' = stored \cup {<<cur, File(p), n>>}
  OBVIOUS
<1> HIDE DEF n
<1>5. Promise!Store(cur, File(p), n)
  BY <1>2, <1>3, <1>4 DEF Promise!Store, unitbar
<1>6. QED
  BY <1>1, <1>2, <1>5 DEF Promised, Promise!Next

\* The mark comes last: all batches of a copied file are in the database.
LEMMA MarkPromised ==
    ASSUME IInv, SomeListed, NEW p \in Paths, CompleteFile(p) PROVE Promised
<1> DEFINE L == MarkCompletedIn(mem, cur, File(p))
<1>1. /\ InFiles(p) /\ filePc[p] = "copied" /\ stored' = stored
      /\ mem' = L /\ disk' \in {L, disk}
  BY DEF CompleteFile, Saved, Unsaved, sinkVars
<1>2. /\ cur \in Dates /\ mem \in Ledger /\ File(p) \in Files
      /\ unitbar = "up" /\ unitbar' = unitbar /\ SomeListed'
  BY <1>1, FileFrames, FileIsFile
<1>3. BookOf(L) = [BookOf(mem) EXCEPT !.marks[cur] = @ \cup {File(p)}]
  BY <1>2, BookFacts
<1> HIDE DEF L
<1>4. Promise!Write(BookOf(L))
  BY <1>1 DEF Promise!Write
<1>5. Promise!Delivered(cur, File(p))
  BY <1>1 DEF IInv, FilesOK, FileOK, Working, Promise!Delivered
<1>6. Promise!Mark(cur, File(p))
  BY <1>1, <1>2, <1>3, <1>4, <1>5 DEF Promise!Mark, unitbar
<1>7. QED
  BY <1>2, <1>6 DEF Promised, Promise!Next

LEMMA FileStepPromised ==
    ASSUME IInv, SomeListed, NEW p \in Paths, FileStep(p) PROVE Promised
<1>1. InFiles(p)
  BY DEF FileStep, StartFile, WriteBatch, BreakOff, CopyFile, CompleteFile,
         FailUnmarked, StopFile
<1>2. /\ pc = "files" /\ pc # "down"
      /\ unitbar = "up" /\ unitbar' = unitbar /\ SomeListed'
  BY <1>1, FileFrames
<1>3. ASSUME UNCHANGED <<mem, disk, stored>> PROVE Promised
  BY <1>2, <1>3, QuietStep DEF Untouched
<1>4. ASSUME NEW n, FailFile(p, n), filePc[p] # "none", stored' = stored
      PROVE  Promised
  BY <1>2, <1>4, FailWrites, SaveStep
<1>5. CASE StartFile(p)
  <2>1. stored' = stored /\ filePc[p] # "none"
    BY <1>5 DEF StartFile, sinkVars
  <2>2. UNCHANGED <<mem, disk>> \/ FailFile(p, 0)
    BY <1>5 DEF StartFile
  <2>3. QED
    BY <1>3, <1>4, <2>1, <2>2
<1>6. CASE WriteBatch(p)
  <2>1. Untouched /\ filePc[p] = "open"
    BY <1>6 DEF WriteBatch, Untouched
  <2>2. stored' = stored \cup {<<cur, File(p), written[p] + 1>>}
    BY <1>6 DEF WriteBatch
  <2>3. QED
    BY <1>1, <2>1, <2>2, StorePromised
<1>7. CASE BreakOff(p)
  <2>1. PICK n : FailFile(p, n)
    BY <1>7 DEF BreakOff
  <2>2. /\ filePc[p] = "open" /\ filePc[p] # "none"
        /\ stored' \in {stored, stored \cup {<<cur, File(p), written[p] + 1>>}}
    BY <1>7 DEF BreakOff
  <2>3. Untouched \/ Writes(BookOf(mem))
    BY <1>2, <2>1, <2>2, FailWrites
  <2>4. QED
    BY <1>1, <1>4, <2>1, <2>2, <2>3, StorePromised
<1>8. CASE CopyFile(p)
  <2>1. stored' = stored /\ filePc[p] = "written" /\ filePc[p] # "none"
    BY <1>8 DEF CopyFile
  <2>2. cur \in Dates /\ listing[p] > 0
    BY <1>2, <2>1 DEF IInv, CurOK, FilesOK, FileOK
  <2>3. \/ UNCHANGED <<mem, disk>>
        \/ \E n \in Nat : FailFile(p, n)
    BY <1>8, <2>2, CopyFacts
  <2>4. QED
    BY <1>3, <1>4, <2>1, <2>3
<1>9. CASE CompleteFile(p)
  BY <1>9, MarkPromised
<1>10. CASE StopFile(p)
  BY <1>3, <1>10 DEF StopFile, sinkVars
<1>11. CASE FailUnmarked(p)
  BY <1>4, <1>11 DEF FailUnmarked, sinkVars
<1>12. QED
  BY <1>5, <1>6, <1>7, <1>8, <1>9, <1>10, <1>11 DEF FileStep

-----------------------------------------------------------------------------

LEMMA NextPromised == IInv /\ PlanInv /\ SomeListed /\ [Next]_vars => Promised
<1> SUFFICES ASSUME IInv, PlanInv, SomeListed, [Next]_vars PROVE Promised
  OBVIOUS
<1>1. CASE Unit
  <2>1. CASE Start
    BY <2>1, StartPromised
  <2>2. CASE Abandon
    <3>1. pc # "down"
      BY <2>2 DEF Abandon
    <3>2. QED
      BY <2>2, <3>1, StopPromised
  <2>3. CASE EndOfRun \/ DeferRest \/ Reapply \/ ProbeCancelled
    BY <2>3, QuietSteps
  <2>4. ASSUME NEW d \in Dates, Discovery(d) PROVE Promised
    <3>1. CASE ProbeNotFound(d) \/ ProbeNothing(d)
      BY <3>1, ForgetPromised
    <3>2. CASE ProbeUnavailable(d) \/ ProbeFiles(d)
      BY <3>2, QuietSteps
    <3>3. QED
      BY <2>4, <3>1, <3>2 DEF Discovery
  <2>5. CASE Begin \/ BeginFailed
    BY <2>5, ClaimPromised
  <2>6. CASE EndUnlisted
    BY <2>6, EndUnlistedPromised
  <2>7. ASSUME NEW p \in Paths, FileStep(p) PROVE Promised
    BY <2>7, FileStepPromised
  <2>8. CASE EndCollection
    BY <2>8, EndCollectionPromised
  <2>9. QED
    BY <1>1, <2>1, <2>2, <2>3, <2>4, <2>5, <2>6, <2>7, <2>8 DEF Unit
<1>2. ASSUME NEW t \in 1..today, Trigger(t) PROVE Promised
  BY <1>2, QuietSteps
<1>3. CASE Environment
  <2>1. ASSUME NEW d \in Dates, NEW p \in Paths,
               Arrive(d, p) \/ Remove(d, p) \/ Settle(d, p)
        PROVE  Promised
    BY <2>1, QuietSteps
  <2>2. ASSUME NEW d \in Dates, LeaseExpires(d) PROVE Promised
    BY <2>2, LeasePromised
  <2>3. CASE NextDay \/ Cancel
    BY <2>3, QuietSteps
  <2>4. CASE Crash
    BY <2>4, StopPromised
  <2>5. QED
    BY <1>3, <2>1, <2>2, <2>3, <2>4 DEF Environment
<1>4. CASE UNCHANGED vars
  BY <1>4, QuietSteps
<1>5. QED
  BY <1>1, <1>2, <1>3, <1>4 DEF Next

\* The collector keeps its promise (app/collector over app/state): for every
\* number of dates, files, batches, workers and faults it marks files, closes
\* dates and loses marks only in the ways Delivery allows.
THEOREM DeliveryImplemented == Spec => ImplementsDelivery
<1>1. Init => Promise!Init /\ SomeListed
  <2> SUFFICES ASSUME Init PROVE Promise!Init /\ SomeListed
    OBVIOUS
  <2>1. /\ mem = EmptyLedger /\ disk \in Ledger
        /\ \A d \in Dates : disk.completed[d] = {}
    BY EmptyLedgerFacts, CollectorAssumption DEF Init
  <2>2. BookOf(mem) = Promise!EmptyBook
    BY <2>1 DEF BookOf, EmptyLedger, Promise!EmptyBook
  <2>3. BookOf(disk) \in Promise!Book
    BY <2>1, BookIsBook
  <2>4. BookOf(disk).marks = Promise!EmptyBook.marks
    BY <2>1 DEF BookOf, Ledger, Promise!EmptyBook
  <2>5. QED
    BY <2>2, <2>3, <2>4 DEF Init, Promise!Init, SomeListed
<1>2. IInv /\ PlanInv /\ SomeListed /\ [Next]_vars => SomeListed'
  BY NextPromised DEF Promised
<1>3. IInv /\ PlanInv /\ SomeListed /\ [Next]_vars
        => [Promise!Next]_<<unitbar, stored, BookOf(mem), BookOf(disk)>>
  BY NextPromised DEF Promised
<1>4. QED
  BY <1>1, <1>2, <1>3, Inductive, PlanAlwaysHolds, PTL
     DEF Spec, ImplementsDelivery, Promise!Spec, unitbar

-----------------------------------------------------------------------------
(* What the promise is good for.                                           *)

\* Every mark of the book has its batches in S.
Covered(book, S) ==
    \A d \in Dates : \A f \in book.marks[d] : \A n \in 1..Batches : <<d, f, n>> \in S

Covers(S) == Covered(BookOf(mem), S) /\ Covered(BookOf(disk), S)

Books == BookOf(mem) \in Promise!Book /\ BookOf(disk) \in Promise!Book

LEMMA PromiseStep ==
    ASSUME Books, Covers(stored),
           [Promise!Next]_<<unitbar, stored, BookOf(mem), BookOf(disk)>>
    PROVE  Books' /\ Covers(stored)'
<1>0. \A B \in Promise!Book : B.marks \in [Dates -> SUBSET Files] /\ B.closed \subseteq Dates
  BY DEF Promise!Book
\* A book that is written is one, and is covered by then.
<1>1. ASSUME NEW B \in Promise!Book, Promise!Write(B), stored \subseteq stored',
             Covered(B, stored')
      PROVE  Books' /\ Covers(stored)'
  BY <1>1 DEF Promise!Write, Books, Covers, Covered
<1>2. CASE Promise!Load
  <2>1. Books' /\ stored' = stored
    BY <1>2 DEF Promise!Load, Books
  <2>2. Covered(BookOf(disk)', stored)
    BY <1>2 DEF Promise!Load, Promise!Kept, Covers, Covered
  <2>3. Covered(BookOf(mem)', stored)
    BY <1>2, <2>2 DEF Promise!Load, Promise!Kept, Covered
  <2>4. QED
    BY <2>1, <2>2, <2>3 DEF Covers
<1>3. CASE Promise!Stop
  BY <1>3 DEF Promise!Stop, Promise!EmptyBook, Promise!Book, Books, Covers, Covered
<1>4. CASE Promise!Save
  BY <1>1, <1>4 DEF Promise!Save, Books, Covers
<1>5. ASSUME NEW d \in Dates, NEW f \in Files, NEW n \in 1..Batches, Promise!Store(d, f, n)
      PROVE  Books' /\ Covers(stored)'
  <2>1. stored \subseteq stored' /\ Promise!Write(BookOf(mem))
    BY <1>5 DEF Promise!Store
  <2>2. Covered(BookOf(mem), stored')
    BY <2>1 DEF Covers, Covered
  <2>3. QED
    BY <1>1, <2>1, <2>2 DEF Books
<1>6. ASSUME NEW d \in Dates, NEW f \in Files, Promise!Mark(d, f)
      PROVE  Books' /\ Covers(stored)'
  <2> DEFINE B == [BookOf(mem) EXCEPT !.marks[d] = @ \cup {f}]
  <2>1. B \in Promise!Book
    BY <1>0 DEF Books, Promise!Book
  <2>2. B.marks = [BookOf(mem).marks EXCEPT ![d] = @ \cup {f}]
    BY <1>0 DEF Books, Promise!Book
  <2>3. Promise!Write(B) /\ Promise!Delivered(d, f) /\ stored' = stored
    BY <1>6 DEF Promise!Mark
  <2> HIDE DEF B
  <2>4. Covered(B, stored)
    BY <1>0, <2>2, <2>3 DEF Books, Covers, Covered, Promise!Delivered
  <2>5. QED
    BY <1>1, <2>1, <2>3, <2>4
<1>7. ASSUME NEW d \in Dates, Promise!Close(d) \/ Promise!Reopen(d)
      PROVE  Books' /\ Covers(stored)'
  <2>1. PICK C \in SUBSET Dates :
             Promise!Write([BookOf(mem) EXCEPT !.closed = C]) /\ stored' = stored
    <3>1. BookOf(mem).closed \cup {d} \subseteq Dates /\ BookOf(mem).closed \ {d} \subseteq Dates
      BY <1>0 DEF Books
    <3>2. QED
      BY <1>7, <3>1 DEF Promise!Close, Promise!Reopen
  <2> DEFINE B == [BookOf(mem) EXCEPT !.closed = C]
  <2>2. B \in Promise!Book /\ B.marks = BookOf(mem).marks
    BY <1>0 DEF Books, Promise!Book
  <2>3. Promise!Write(B) /\ stored' = stored
    BY <2>1
  <2> HIDE DEF B
  <2>4. Covered(B, stored)
    BY <2>2 DEF Covers, Covered
  <2>5. QED
    BY <1>1, <2>2, <2>3, <2>4
<1>8. ASSUME NEW d \in Dates, Promise!Forget(d) PROVE Books' /\ Covers(stored)'
  <2> DEFINE B == [marks  |-> [BookOf(mem).marks EXCEPT ![d] = {}],
                   closed |-> BookOf(mem).closed \ {d}]
  <2>1. B \in Promise!Book
    BY <1>0 DEF Books, Promise!Book
  <2>2. B.marks = [BookOf(mem).marks EXCEPT ![d] = {}]
    OBVIOUS
  <2>3. Promise!Write(B) /\ stored' = stored
    BY <1>8 DEF Promise!Forget
  <2> HIDE DEF B
  <2>4. Covered(B, stored)
    BY <1>0, <2>2 DEF Books, Covers, Covered
  <2>5. QED
    BY <1>1, <2>1, <2>3, <2>4
<1>9. CASE UNCHANGED <<unitbar, stored, BookOf(mem), BookOf(disk)>>
  BY <1>9 DEF Books, Covers
<1>10. QED
  BY <1>2, <1>3, <1>4, <1>5, <1>6, <1>7, <1>8, <1>9 DEF Promise!Next

\* Data before mark follows from the promise alone: whatever implements Delivery
\* never has a mark in memory or in the file whose batches are not all stored.
THEOREM PromiseMeansDelivered == ImplementsDelivery => []Promise!MarkedIsDelivered
<1>1. Promise!Init => Books /\ Covers(stored)
  BY DEF Promise!Init, Promise!EmptyBook, Promise!Book, Books, Covers, Covered
<1>2. Books /\ Covers(stored) /\ [Promise!Next]_<<unitbar, stored, BookOf(mem), BookOf(disk)>>
        => Books' /\ Covers(stored)'
  BY PromiseStep
<1>3. Books /\ Covers(stored) => Promise!MarkedIsDelivered
  BY DEF Covers, Covered, Promise!MarkedIsDelivered, Promise!Delivered
<1>4. QED
  BY <1>1, <1>2, <1>3, PTL DEF ImplementsDelivery, Promise!Spec, unitbar
=============================================================================

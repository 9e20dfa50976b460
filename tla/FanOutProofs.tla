----------------------------- MODULE FanOutProofs -----------------------------
(***************************************************************************)
(* Proofs about fan-out and fan-in, for any number of units, triggers and  *)
(* stopped units, any queue capacity, gate size and retention, for the     *)
(* -once process and the resident one.                                     *)
(*                                                                         *)
(* Only liveness is left to model checking: the counters, the exit code    *)
(* and the refinement of JobLedger follow from where a job in flight is.   *)
(***************************************************************************)
EXTENDS FanOut, FiniteSetTheorems, SequenceTheorems, TLAPS

\* The places of a job in flight: the hands of a blocked handler, a queue, the
\* hands of a worker.
AtHandler(t, u) == handler[t] = u
InQueue(t, u) == \E k \in 1..Len(queue[u]) : queue[u][k] = t
InHand(t, u) == running[u] = t

Busy == {"acquiring", "running", "finishing"}

\* A worker holds a job while it acquires a slot, runs or finishes.
Hands == \A u \in Units : worker[u] \in Busy <=> running[u] # NoJob

\* A job is in flight while it is in one of the places, and it is in only one.
Placed ==
    \A t \in Triggers, u \in Units :
        outcome[<<t, u>>] = "inflight" <=> AtHandler(t, u) \/ InQueue(t, u) \/ InHand(t, u)

OnePlace ==
    \A t \in Triggers, u \in Units :
        /\ ~(AtHandler(t, u) /\ InQueue(t, u))
        /\ ~(AtHandler(t, u) /\ InHand(t, u))
        /\ ~(InQueue(t, u) /\ InHand(t, u))

NoRepeats ==
    \A u \in Units : \A k, l \in 1..Len(queue[u]) : queue[u][k] = queue[u][l] => k = l

Places == Hands /\ Placed /\ OnePlace /\ NoRepeats

\* A unit that is still to be asked, or whose trigger has not been dispatched, has
\* no job yet.
Unasked ==
    \A t \in Triggers, u \in Units :
        /\ u \in toAsk[t] => t \in started /\ outcome[<<t, u>>] = "none"
        /\ t \notin started => outcome[<<t, u>>] = "none"

Failure == \E j \in Jobs : outcome[j] = "failed"

\* Until the pass ends the ledger retains an error if there was one.
Retained == exit = "none" /\ Failure => errs # <<>>

\* Nobody is forgotten: a unit the startup pass is for is still to be asked, or has
\* its job, or there is a failure to tell of.
NobodyForgotten ==
    Once /\ exit = "none" =>
        /\ stopped = {}
        /\ Startup \in started => \A u \in Addressed[Startup] :
               u \in toAsk[Startup] \/ outcome[<<Startup, u>>] # "none" \/ Failure

\* The wait begins after the dispatch; once it found the ledger empty, the pass has
\* its results.
Waited ==
    /\ wait # "before" => Once /\ Dispatched(Startup)
    /\ wait = "done" => \A u \in Addressed[Startup] : outcome[<<Startup, u>>] # "inflight"
    /\ exit # "none" => wait \in {"done", "interrupted"}

\* A worker drains and goes only when its unit is stopped.
GoneIsStopped == \A u \in Units : worker[u] \in {"draining", "exited"} => u \in stopped

IInv ==
    /\ TypeOK /\ CountersMatchJobs
    /\ Places /\ Unasked
    /\ Retained /\ NobodyForgotten /\ Waited /\ ExitCodeIsHonest
    /\ SleeperAwaitsAJob /\ GoneIsStopped

-----------------------------------------------------------------------------
(* Queues.                                                                 *)

\* A sent trigger is the last of the queue.
LEMMA Sent ==
    ASSUME TypeOK, NEW t \in Triggers, NEW u \in Units, NoRepeats, ~InQueue(t, u),
           queue' = [queue EXCEPT ![u] = Append(@, t)]
    PROVE  /\ queue' \in [Units -> Seq(Triggers)]
           /\ Len(queue'[u]) = Len(queue[u]) + 1
           /\ NoRepeats'
           /\ \A s \in Triggers, v \in Units :
                  InQueue(s, v)' <=> InQueue(s, v) \/ (s = t /\ v = u)
<1> USE DEF TypeOK
<1> DEFINE q == queue[u]
<1>1. q \in Seq(Triggers) /\ Len(q) \in Nat
  BY LenProperties
<1>2. /\ queue'[u] = Append(q, t)
      /\ \A v \in Units \ {u} : queue'[v] = queue[v]
  OBVIOUS
<1>3. /\ Append(q, t) \in Seq(Triggers)
      /\ Len(Append(q, t)) = Len(q) + 1
      /\ \A k \in 1..Len(q) : Append(q, t)[k] = q[k]
      /\ Append(q, t)[Len(q) + 1] = t
  BY <1>1, AppendProperties
<1>4. queue' \in [Units -> Seq(Triggers)]
  BY <1>3
<1> HIDE DEF TypeOK
<1>5. NoRepeats'
  <2> SUFFICES ASSUME NEW v \in Units, NEW k \in 1..Len(queue'[v]), NEW l \in 1..Len(queue'[v]),
                      queue'[v][k] = queue'[v][l]
               PROVE  k = l
    BY DEF NoRepeats
  <2>1. CASE v # u
    BY <1>2, <2>1 DEF NoRepeats
  <2>2. CASE v = u
    <3>1. \A i \in 1..Len(q) : q[i] # t
      BY DEF InQueue
    <3>2. \A i, j \in 1..Len(q) : q[i] = q[j] => i = j
      BY DEF NoRepeats
    <3>3. \A i \in 1..(Len(q) + 1) : i \in 1..Len(q) \/ i = Len(q) + 1
      BY <1>1
    <3>4. k \in 1..(Len(q) + 1) /\ l \in 1..(Len(q) + 1)
      BY <1>2, <1>3, <2>2
    <3>5. QED
      BY <1>2, <1>3, <2>2, <3>1, <3>2, <3>3, <3>4
  <2>3. QED
    BY <2>1, <2>2
<1>6. ASSUME NEW s \in Triggers, NEW v \in Units
      PROVE  InQueue(s, v)' <=> InQueue(s, v) \/ (s = t /\ v = u)
  <2>1. CASE v # u
    BY <1>2, <2>1 DEF InQueue
  <2>2. CASE v = u
    <3>1. 1..(Len(q) + 1) = 1..Len(q) \cup {Len(q) + 1}
      BY <1>1
    <3>2. QED
      BY <1>2, <1>3, <2>2, <3>1 DEF InQueue
  <2>3. QED
    BY <2>1, <2>2
<1>7. QED
  BY <1>2, <1>3, <1>4, <1>5, <1>6

\* A received trigger was the first, and is in the queue no more.
LEMMA Received ==
    ASSUME TypeOK, NEW u \in Units, NoRepeats, queue[u] # <<>>,
           queue' = [queue EXCEPT ![u] = Tail(@)]
    PROVE  /\ queue' \in [Units -> Seq(Triggers)]
           /\ Len(queue'[u]) = Len(queue[u]) - 1
           /\ Head(queue[u]) \in Triggers /\ InQueue(Head(queue[u]), u)
           /\ NoRepeats'
           /\ \A s \in Triggers, v \in Units :
                  InQueue(s, v)' <=> InQueue(s, v) /\ ~(s = Head(queue[u]) /\ v = u)
<1> USE DEF TypeOK
<1> DEFINE q == queue[u]
<1>1. q \in Seq(Triggers) /\ Len(q) \in Nat \ {0}
  BY EmptySeq
<1>2. /\ queue'[u] = Tail(q)
      /\ \A v \in Units \ {u} : queue'[v] = queue[v]
  OBVIOUS
<1>3. /\ Tail(q) \in Seq(Triggers)
      /\ Len(Tail(q)) = Len(q) - 1
      /\ \A k \in 1..Len(Tail(q)) : Tail(q)[k] = q[k + 1]
      /\ Head(q) \in Triggers
  BY <1>1, HeadTailProperties
<1>4. Head(q) = q[1]
  BY <1>1
<1>5. queue' \in [Units -> Seq(Triggers)]
  BY <1>3
<1> HIDE DEF TypeOK
<1>6. InQueue(Head(q), u)
  BY <1>1, <1>4 DEF InQueue
<1>7. \A i, j \in 1..Len(q) : q[i] = q[j] => i = j
  BY DEF NoRepeats
<1>8. NoRepeats'
  <2> SUFFICES ASSUME NEW v \in Units, NEW k \in 1..Len(queue'[v]), NEW l \in 1..Len(queue'[v]),
                      queue'[v][k] = queue'[v][l]
               PROVE  k = l
    BY DEF NoRepeats
  <2>1. CASE v # u
    BY <1>2, <2>1 DEF NoRepeats
  <2>2. CASE v = u
    <3>0. Len(queue'[v]) = Len(q) - 1
      BY <1>2, <1>3, <2>2
    <3>1. k + 1 \in 1..Len(q) /\ l + 1 \in 1..Len(q)
      BY <1>1, <3>0
    <3>2. q[k + 1] = q[l + 1]
      BY <1>2, <1>3, <2>2
    <3>3. QED
      BY <1>7, <3>1, <3>2
  <2>3. QED
    BY <2>1, <2>2
<1>9. ASSUME NEW s \in Triggers, NEW v \in Units
      PROVE  InQueue(s, v)' <=> InQueue(s, v) /\ ~(s = Head(q) /\ v = u)
  <2>1. CASE v # u
    BY <1>2, <2>1 DEF InQueue
  <2>2. CASE v = u
    <3>1. ASSUME InQueue(s, v)' PROVE InQueue(s, v) /\ s # Head(q)
      <4>1. PICK k \in 1..Len(Tail(q)) : Tail(q)[k] = s
        BY <1>2, <2>2, <3>1 DEF InQueue
      <4>2. k + 1 \in 1..Len(q) /\ q[k + 1] = s /\ k + 1 # 1 /\ 1 \in 1..Len(q)
        BY <1>1, <1>3, <4>1
      <4>3. QED
        BY <1>4, <1>7, <2>2, <4>2 DEF InQueue
    <3>2. ASSUME InQueue(s, v), s # Head(q) PROVE InQueue(s, v)'
      <4>1. PICK k \in 1..Len(q) : q[k] = s
        BY <2>2, <3>2 DEF InQueue
      <4>2. k # 1
        BY <1>4, <3>2, <4>1
      <4>3. k - 1 \in 1..Len(Tail(q)) /\ Tail(q)[k - 1] = q[(k - 1) + 1] /\ (k - 1) + 1 = k
        BY <1>1, <1>3, <4>2
      <4>4. QED
        BY <1>2, <2>2, <4>1, <4>3 DEF InQueue
    <3>3. QED
      BY <2>2, <3>1, <3>2
  <2>3. QED
    BY <2>1, <2>2
<1>10. QED
  BY <1>2, <1>3, <1>5, <1>6, <1>8, <1>9

-----------------------------------------------------------------------------
(* The ledger: what a step does to jobs, and that it keeps count.          *)

InFlight == {j \in Jobs : outcome[j] = "inflight"}

\* A step books a job that nobody had, or ends one in flight.
Books(j) ==
    /\ outcome[j] = "none" /\ BeginJob(j)
    /\ UNCHANGED <<errs, callerVars>>

Ends(j) == outcome[j] = "inflight" /\ \E end \in {"ok", "failed"} : Finish(j, end)

\* What a job in a worker's hands or at the head of a queue is.
LEMMA WorkersJob ==
    ASSUME TypeOK, Places, NEW u \in Units
    PROVE  /\ worker[u] \in Busy =>
                  running[u] \in Triggers /\ outcome[<<running[u], u>>] = "inflight"
           /\ queue[u] # <<>> =>
                  Head(queue[u]) \in Triggers /\ outcome[<<Head(queue[u]), u>>] = "inflight"
<1>1. ASSUME worker[u] \in Busy
      PROVE  running[u] \in Triggers /\ outcome[<<running[u], u>>] = "inflight"
  <2>1. running[u] \in Triggers
    BY <1>1 DEF TypeOK, Places, Hands
  <2>2. QED
    BY <2>1 DEF Places, Placed, InHand
<1>2. ASSUME queue[u] # <<>>
      PROVE  Head(queue[u]) \in Triggers /\ outcome[<<Head(queue[u]), u>>] = "inflight"
  <2>1. queue[u] \in Seq(Triggers) /\ Len(queue[u]) \in Nat \ {0}
    BY <1>2, EmptySeq DEF TypeOK
  <2>2. Head(queue[u]) \in Triggers /\ Head(queue[u]) = queue[u][1]
    BY <1>2, <2>1, HeadTailProperties
  <2>3. InQueue(Head(queue[u]), u)
    BY <2>1, <2>2 DEF InQueue
  <2>4. QED
    BY <2>2, <2>3 DEF Places, Placed
<1>3. QED
  BY <1>1, <1>2

\* Who ends a job ends one that is in flight: the handler the job in its hands, the
\* worker the job in its hands, and the drain the first of the queue.
LEMMA EndingJobs ==
    ASSUME TypeOK, Places
    PROVE  /\ \A t \in Triggers : GiveUp(t) =>
                  handler[t] \in Units /\ Ends(<<t, handler[t]>>)
           /\ \A u \in Units : RefuseJob(u) \/ EndJob(u) =>
                  running[u] \in Triggers /\ Ends(<<running[u], u>>)
           /\ \A u \in Units : DrainJob(u) =>
                  Head(queue[u]) \in Triggers /\ Ends(<<Head(queue[u]), u>>)
<1>1. ASSUME NEW t \in Triggers, GiveUp(t)
      PROVE  handler[t] \in Units /\ Ends(<<t, handler[t]>>)
  <2>1. handler[t] \in Units
    BY <1>1 DEF GiveUp, TypeOK
  <2>2. outcome[<<t, handler[t]>>] = "inflight"
    BY <2>1 DEF Places, Placed, AtHandler
  <2>3. QED
    BY <1>1, <2>1, <2>2 DEF GiveUp, Ends
<1>2. ASSUME NEW u \in Units, RefuseJob(u) \/ EndJob(u)
      PROVE  running[u] \in Triggers /\ Ends(<<running[u], u>>)
  <2>1. worker[u] \in Busy
    BY <1>2 DEF RefuseJob, EndJob, Busy
  <2>2. QED
    BY <1>2, <2>1, WorkersJob DEF RefuseJob, EndJob, Ends
<1>3. ASSUME NEW u \in Units, DrainJob(u)
      PROVE  Head(queue[u]) \in Triggers /\ Ends(<<Head(queue[u]), u>>)
  BY <1>3, WorkersJob DEF DrainJob, Ends
<1>4. QED
  BY <1>1, <1>2, <1>3

\* Every step books one job, ends one job or leaves all jobs as they are, and only the
\* end of the pass takes the errors out of the ledger.
LEMMA JobMoves ==
    ASSUME IInv, [Next]_vars
    PROVE  \/ \E j \in Jobs : Books(j) \/ Ends(j)
           \/ UNCHANGED <<outcome, pending, errs>>
           \/ UNCHANGED outcome /\ EndPass
<1> USE DEF IInv
<1>1. ASSUME NEW t \in Triggers, NEW u \in Units, EnterHandler(t, u)
      PROVE  \E j \in Jobs : Books(j)
  <2>1. <<t, u>> \in Jobs /\ outcome[<<t, u>>] = "none"
    BY <1>1 DEF EnterHandler, Unasked, Jobs
  <2>2. QED
    BY <1>1, <2>1 DEF EnterHandler, Books
<1>2. ASSUME NEW t \in Triggers, GiveUp(t) PROVE \E j \in Jobs : Ends(j)
  BY <1>2, EndingJobs DEF Jobs
<1>3. ASSUME NEW u \in Units, RefuseJob(u) \/ EndJob(u) PROVE \E j \in Jobs : Ends(j)
  BY <1>3, EndingJobs DEF Jobs
<1>4. ASSUME NEW u \in Units, DrainJob(u) PROVE \E j \in Jobs : Ends(j)
  BY <1>4, EndingJobs DEF Jobs
<1>5. ASSUME NEW t \in Triggers, Dispatch(t) \/ Enqueue(t) \/ EndContext(t)
      PROVE  UNCHANGED <<outcome, pending, errs>>
  BY <1>5 DEF Dispatch, Enqueue, EndContext, ledgerVars
<1>6. ASSUME NEW t \in Triggers, NEW u \in Units, SkipUnit(t, u)
      PROVE  UNCHANGED <<outcome, pending, errs>>
  BY <1>6 DEF SkipUnit, ledgerVars
<1>7. ASSUME NEW u \in Units,
             \/ TakeJob(u) \/ AcquireSlot(u) \/ ReleaseSlot(u)
             \/ BeginDrain(u) \/ EndDrain(u) \/ StopUnit(u)
      PROVE  UNCHANGED <<outcome, pending, errs>>
  BY <1>7 DEF TakeJob, AcquireSlot, ReleaseSlot, BeginDrain, EndDrain, StopUnit, ledgerVars
<1>8. ASSUME StartWait \/ LookAtLedger \/ FallAsleep \/ WakeOnCancel
      PROVE  UNCHANGED <<outcome, pending, errs>>
  BY <1>8 DEF StartWait, LookAtLedger, FallAsleep, WakeOnCancel, ledgerVars
<1>9. ASSUME EndPass PROVE UNCHANGED outcome
  BY <1>9 DEF EndPass
<1>10. CASE UNCHANGED vars
  BY <1>10 DEF vars, ledgerVars
<1>11. QED
  BY <1>1, <1>2, <1>3, <1>4, <1>5, <1>6, <1>7, <1>8, <1>9, <1>10
  DEF Next, DispatchStep, WorkerStep, WaitStep

LEMMA InFlightIsFinite == IsFiniteSet(InFlight)
<1>1. IsFiniteSet(Jobs)
  BY FanOutAssumption, FS_Product DEF Jobs
<1>2. QED
  BY <1>1, FS_Subset DEF InFlight

\* The count of the jobs in flight is right after every step.
LEMMA PendingCounts ==
    ASSUME IInv, [Next]_vars
    PROVE  pending' \in Nat /\ (pending = Cardinality(InFlight))'
<1>1. /\ pending \in Nat /\ pending = Cardinality(InFlight)
      /\ outcome \in [Jobs -> {"none", "inflight", "ok", "failed"}]
  BY DEF IInv, TypeOK, CountersMatchJobs, InFlight
<1>2. CASE UNCHANGED <<outcome, pending>>
  BY <1>1, <1>2 DEF InFlight
<1>3. ASSUME NEW j \in Jobs, Books(j)
      PROVE  pending' \in Nat /\ (pending = Cardinality(InFlight))'
  <2>1. InFlight' = InFlight \cup {j} /\ j \notin InFlight
    BY <1>1, <1>3 DEF Books, BeginJob, InFlight
  <2>2. pending' = pending + 1
    BY <1>3 DEF Books, BeginJob
  <2>3. Cardinality(InFlight') = Cardinality(InFlight) + 1
    BY <2>1, InFlightIsFinite, FS_AddElement
  <2>4. QED
    BY <1>1, <2>2, <2>3
<1>4. ASSUME NEW j \in Jobs, Ends(j)
      PROVE  pending' \in Nat /\ (pending = Cardinality(InFlight))'
  <2>1. InFlight' = InFlight \ {j} /\ j \in InFlight
    BY <1>1, <1>4 DEF Ends, Finish, InFlight
  <2>2. Cardinality(InFlight') = Cardinality(InFlight) - 1
    BY <2>1, InFlightIsFinite, FS_RemoveElement
  <2>3. pending # 0
    BY <1>1, <2>1, InFlightIsFinite, FS_EmptySet
  <2>4. pending' = pending - 1
    BY <1>1, <1>4, <2>3 DEF Ends, Finish
  <2>5. QED
    BY <1>1, <2>2, <2>3, <2>4
<1>5. EndPass => UNCHANGED pending
  BY DEF EndPass
<1>6. QED
  BY <1>2, <1>3, <1>4, <1>5, JobMoves

\* Nothing is in flight when the ledger is empty.
LEMMA EmptyLedger ==
    ASSUME IInv, pending = 0
    PROVE  \A j \in Jobs : outcome[j] # "inflight"
<1>1. InFlight = {}
  BY InFlightIsFinite, FS_EmptySet DEF IInv, CountersMatchJobs, InFlight
<1>2. QED
  BY <1>1 DEF InFlight

\* A retained error is the last one of a ledger that is not too long.
LEMMA RetainKeeps ==
    ASSUME TypeOK, NEW j \in Jobs
    PROVE  Retain(j) \in Seq(Jobs) /\ Len(Retain(j)) <= MaxRetained /\ Retain(j) # <<>>
<1> DEFINE e == Append(errs, j)
           m == Len(e) - MaxRetained + 1
<1>1. errs \in Seq(Jobs) /\ Len(errs) \in Nat /\ Len(errs) <= MaxRetained
  BY LenProperties DEF TypeOK
<1>2. MaxRetained \in Nat \ {0}
  BY FanOutAssumption
<1>3. e \in Seq(Jobs) /\ e # <<>> /\ Len(e) = Len(errs) + 1
  BY <1>1, AppendProperties
<1>4. CASE ~(Len(e) > MaxRetained)
  <2>1. Retain(j) = e
    BY <1>4 DEF Retain
  <2>2. QED
    BY <1>1, <1>2, <1>3, <1>4, <2>1
<1>5. CASE Len(e) > MaxRetained
  <2>1. Retain(j) = SubSeq(e, m, Len(e))
    BY <1>5 DEF Retain
  <2>2. m \in Int /\ Len(e) \in Int /\ m <= Len(e) /\ m >= 1 /\ Len(e) - m + 1 = MaxRetained
    BY <1>1, <1>2, <1>3, <1>5
  <2>3. \A i \in m..Len(e) : e[i] \in Jobs
    BY <1>3, <2>2, LenProperties
  <2>4. SubSeq(e, m, Len(e)) \in Seq(Jobs) /\ Len(SubSeq(e, m, Len(e))) = MaxRetained
    BY <2>2, <2>3, SubSeqProperties
  <2>5. Len(Retain(j)) = MaxRetained /\ Len(<<>>) = 0
    BY <2>1, <2>4
  <2>6. Retain(j) # <<>>
    BY <1>2, <2>5
  <2>7. Retain(j) \in Seq(Jobs)
    BY <2>1, <2>4
  <2>8. Len(Retain(j)) <= MaxRetained
    BY <1>2, <2>5
  <2>9. QED
    BY <2>6, <2>7, <2>8
<1>6. QED
  BY <1>4, <1>5

\* What a step makes of the outcomes and the errors, and where a failure ends.
LEMMA LedgerTypes ==
    ASSUME IInv, [Next]_vars
    PROVE  /\ outcome' \in [Jobs -> {"none", "inflight", "ok", "failed"}]
           /\ errs' \in Seq(Jobs) /\ Len(errs') <= MaxRetained
<1> USE DEF IInv
<1>1. /\ outcome \in [Jobs -> {"none", "inflight", "ok", "failed"}]
      /\ errs \in Seq(Jobs) /\ Len(errs) <= MaxRetained
  BY DEF TypeOK
<1>2. ASSUME NEW j \in Jobs, Books(j) PROVE UNCHANGED errs /\ outcome' = [outcome EXCEPT ![j] = "inflight"]
  BY <1>2 DEF Books, BeginJob
<1>3. ASSUME NEW j \in Jobs, Ends(j)
      PROVE  /\ errs' \in {errs, Retain(j)}
             /\ \E end \in {"ok", "failed"} : outcome' = [outcome EXCEPT ![j] = end]
  BY <1>3 DEF Ends, Finish
<1>4. EndPass => errs' = <<>>
  BY DEF EndPass
<1>5. <<>> \in Seq(Jobs) /\ Len(<<>>) <= MaxRetained
  BY FanOutAssumption, EmptySeq
<1>6. QED
  BY <1>1, <1>2, <1>3, <1>4, <1>5, JobMoves, RetainKeeps

-----------------------------------------------------------------------------
(* The gate, and the types of the rest.                                    *)

RunningUnits == {u \in Units : worker[u] = "running"}

LEMMA RunningIsFinite == IsFiniteSet(RunningUnits)
BY FanOutAssumption, FS_Subset DEF RunningUnits

\* A slot is taken when a worker begins to run, given back before it ends its
\* job, and not touched otherwise.
Takes(u) ==
    /\ worker[u] # "running" /\ worker' = [worker EXCEPT ![u] = "running"]
    /\ tokens < GateSize /\ tokens' = tokens + 1

Frees(u) ==
    /\ worker[u] = "running" /\ worker' = [worker EXCEPT ![u] = "finishing"]
    /\ tokens' = tokens - 1

LEMMA GateMoves ==
    ASSUME TypeOK, [Next]_vars
    PROVE  \/ \E u \in Units : Takes(u) \/ Frees(u)
           \/ UNCHANGED <<tokens, RunningUnits>>
<1>1. worker \in [Units -> WorkerPc]
  BY DEF TypeOK
<1>2. ASSUME NEW u \in Units, AcquireSlot(u) PROVE Takes(u)
  BY <1>2 DEF AcquireSlot, Acquire, Takes
<1>3. ASSUME NEW u \in Units, ReleaseSlot(u) PROVE Frees(u)
  BY <1>3 DEF ReleaseSlot, Release, Frees
<1>4. ASSUME NEW u \in Units,
             \/ TakeJob(u) \/ RefuseJob(u) \/ EndJob(u) \/ BeginDrain(u) \/ DrainJob(u)
             \/ EndDrain(u) \/ StopUnit(u)
      PROVE  UNCHANGED <<tokens, RunningUnits>>
  BY <1>1, <1>4 DEF TakeJob, RefuseJob, EndJob, BeginDrain, DrainJob, EndDrain, StopUnit,
                    ledgerVars, RunningUnits
<1>5. ASSUME NEW t \in Triggers, Dispatch(t) \/ Enqueue(t) \/ GiveUp(t) \/ EndContext(t)
      PROVE  UNCHANGED <<tokens, RunningUnits>>
  BY <1>5 DEF Dispatch, Enqueue, GiveUp, EndContext, unitVars, ledgerVars, RunningUnits
<1>6. ASSUME NEW t \in Triggers, NEW u \in Units, SkipUnit(t, u) \/ EnterHandler(t, u)
      PROVE  UNCHANGED <<tokens, RunningUnits>>
  BY <1>6 DEF SkipUnit, EnterHandler, unitVars, ledgerVars, RunningUnits
<1>7. ASSUME WaitStep \/ WakeOnCancel \/ UNCHANGED vars
      PROVE  UNCHANGED <<tokens, RunningUnits>>
  BY <1>7 DEF WaitStep, StartWait, LookAtLedger, FallAsleep, EndPass, WakeOnCancel, vars,
              unitVars, ledgerVars, RunningUnits
<1>8. QED
  BY <1>2, <1>3, <1>4, <1>5, <1>6, <1>7 DEF Next, DispatchStep, WorkerStep

\* The slots in use are those of the running workers after every step.
LEMMA TokensCount ==
    ASSUME TypeOK, CountersMatchJobs, [Next]_vars
    PROVE  tokens' \in 0..GateSize /\ (tokens = Cardinality(RunningUnits))'
<1>1. /\ tokens \in 0..GateSize /\ tokens = Cardinality(RunningUnits)
      /\ worker \in [Units -> WorkerPc]
      /\ GateSize \in Nat
  BY FanOutAssumption DEF TypeOK, CountersMatchJobs, RunningUnits
<1>2. CASE UNCHANGED <<tokens, RunningUnits>>
  BY <1>1, <1>2
<1>3. ASSUME NEW u \in Units, Takes(u)
      PROVE  tokens' \in 0..GateSize /\ (tokens = Cardinality(RunningUnits))'
  <2>1. RunningUnits' = RunningUnits \cup {u} /\ u \notin RunningUnits
    BY <1>1, <1>3 DEF Takes, RunningUnits
  <2>2. Cardinality(RunningUnits') = Cardinality(RunningUnits) + 1
    BY <2>1, RunningIsFinite, FS_AddElement
  <2>3. QED
    BY <1>1, <1>3, <2>2 DEF Takes
<1>4. ASSUME NEW u \in Units, Frees(u)
      PROVE  tokens' \in 0..GateSize /\ (tokens = Cardinality(RunningUnits))'
  <2>1. RunningUnits' = RunningUnits \ {u} /\ u \in RunningUnits
    BY <1>1, <1>4 DEF Frees, RunningUnits
  <2>2. Cardinality(RunningUnits') = Cardinality(RunningUnits) - 1
    BY <2>1, RunningIsFinite, FS_RemoveElement
  <2>3. tokens # 0
    BY <1>1, <2>1, RunningIsFinite, FS_EmptySet
  <2>4. QED
    BY <1>1, <1>4, <2>2, <2>3 DEF Frees
<1>5. QED
  BY <1>2, <1>3, <1>4, GateMoves

LEMMA DispatchTypes ==
    ASSUME TypeOK, [Next]_vars
    PROVE  /\ toAsk' \in [Triggers -> SUBSET Units] /\ started' \subseteq Triggers
           /\ handler' \in [Triggers -> Units \cup {NoUnit}]
           /\ stopped' \subseteq Units
           /\ running' \in [Units -> Triggers \cup {NoJob}]
           /\ worker' \in [Units -> WorkerPc]
<1> DEFINE T == /\ toAsk' \in [Triggers -> SUBSET Units] /\ started' \subseteq Triggers
                /\ handler' \in [Triggers -> Units \cup {NoUnit}]
                /\ stopped' \subseteq Units
                /\ running' \in [Units -> Triggers \cup {NoJob}]
                /\ worker' \in [Units -> WorkerPc]
<1>1. /\ toAsk \in [Triggers -> SUBSET Units] /\ started \subseteq Triggers
      /\ handler \in [Triggers -> Units \cup {NoUnit}]
      /\ stopped \subseteq Units
      /\ running \in [Units -> Triggers \cup {NoJob}]
      /\ worker \in [Units -> WorkerPc]
  BY DEF TypeOK
<1>2. ASSUME NEW t \in Triggers, Dispatch(t) \/ Enqueue(t) \/ GiveUp(t) \/ EndContext(t)
      PROVE  T
  BY <1>1, <1>2 DEF Dispatch, Enqueue, GiveUp, EndContext, dispatchVars, unitVars
<1>3. ASSUME NEW t \in Triggers, NEW u \in Units, SkipUnit(t, u) \/ EnterHandler(t, u)
      PROVE  T
  BY <1>1, <1>3 DEF SkipUnit, EnterHandler, unitVars
<1>4. ASSUME NEW u \in Units, StopUnit(u) PROVE T
  BY <1>1, <1>4 DEF StopUnit
<1>5. ASSUME NEW u \in Units, TakeJob(u) PROVE T
  <2>1. Head(queue[u]) \in Triggers
    BY <1>5, HeadTailProperties DEF TakeJob, TypeOK
  <2>2. QED
    BY <1>1, <1>5, <2>1 DEF TakeJob, dispatchVars, WorkerPc
<1>6. ASSUME NEW u \in Units,
             \/ AcquireSlot(u) \/ ReleaseSlot(u) \/ RefuseJob(u) \/ EndJob(u)
             \/ BeginDrain(u) \/ DrainJob(u) \/ EndDrain(u)
      PROVE  T
  BY <1>1, <1>6 DEF AcquireSlot, ReleaseSlot, RefuseJob, EndJob, BeginDrain, DrainJob, EndDrain,
                    dispatchVars, WorkerPc
<1>7. ASSUME WaitStep \/ WakeOnCancel \/ UNCHANGED vars PROVE T
  BY <1>1, <1>7 DEF WaitStep, StartWait, LookAtLedger, FallAsleep, EndPass, WakeOnCancel, vars,
                    dispatchVars, unitVars
<1>8. QED
  BY <1>2, <1>3, <1>4, <1>5, <1>6, <1>7 DEF Next, DispatchStep, WorkerStep

LEMMA QueueTypes ==
    ASSUME TypeOK, Places, [Next]_vars
    PROVE  /\ queue' \in [Units -> Seq(Triggers)]
           /\ \A u \in Units : Len(queue'[u]) <= QueueCap
<1>1. /\ queue \in [Units -> Seq(Triggers)]
      /\ \A u \in Units : Len(queue[u]) <= QueueCap /\ Len(queue[u]) \in Nat
      /\ QueueCap \in Nat
  BY FanOutAssumption, LenProperties DEF TypeOK
<1>2. ASSUME NEW t \in Triggers, Enqueue(t)
      PROVE  /\ queue' \in [Units -> Seq(Triggers)]
             /\ \A u \in Units : Len(queue'[u]) <= QueueCap
  <2>1. handler[t] \in Units
    BY <1>2 DEF Enqueue, TypeOK
  <2>2. ~InQueue(t, handler[t]) /\ NoRepeats
    BY <2>1 DEF Places, OnePlace, AtHandler
  <2>3. queue' \in [Units -> Seq(Triggers)] /\ Len(queue'[handler[t]]) = Len(queue[handler[t]]) + 1
    BY <1>2, <2>1, <2>2, Sent DEF Enqueue
  <2>4. \A u \in Units \ {handler[t]} : queue'[u] = queue[u]
    BY <1>1, <1>2 DEF Enqueue
  <2>5. QED
    BY <1>1, <1>2, <2>1, <2>3, <2>4 DEF Enqueue
<1>3. ASSUME NEW u \in Units, TakeJob(u) \/ DrainJob(u)
      PROVE  /\ queue' \in [Units -> Seq(Triggers)]
             /\ \A v \in Units : Len(queue'[v]) <= QueueCap
  <2>1. queue' \in [Units -> Seq(Triggers)] /\ Len(queue'[u]) = Len(queue[u]) - 1
    BY <1>3, Received DEF TakeJob, DrainJob, Places
  <2>2. \A v \in Units \ {u} : queue'[v] = queue[v]
    BY <1>1, <1>3 DEF TakeJob, DrainJob
  <2>3. Len(queue'[u]) <= QueueCap
    BY <1>1, <2>1
  <2>4. QED
    BY <1>1, <2>1, <2>2, <2>3
<1>4. ASSUME NEW t \in Triggers, Dispatch(t) \/ GiveUp(t) \/ EndContext(t) PROVE UNCHANGED queue
  BY <1>4 DEF Dispatch, GiveUp, EndContext, unitVars
<1>5. ASSUME NEW t \in Triggers, NEW u \in Units, SkipUnit(t, u) \/ EnterHandler(t, u)
      PROVE  UNCHANGED queue
  BY <1>5 DEF SkipUnit, EnterHandler, unitVars
<1>6. ASSUME NEW u \in Units,
             \/ AcquireSlot(u) \/ ReleaseSlot(u) \/ RefuseJob(u) \/ EndJob(u)
             \/ BeginDrain(u) \/ EndDrain(u) \/ StopUnit(u)
      PROVE  UNCHANGED queue
  BY <1>6 DEF AcquireSlot, ReleaseSlot, RefuseJob, EndJob, BeginDrain, EndDrain, StopUnit
<1>7. ASSUME WaitStep \/ WakeOnCancel \/ UNCHANGED vars PROVE UNCHANGED queue
  BY <1>7 DEF WaitStep, StartWait, LookAtLedger, FallAsleep, EndPass, WakeOnCancel, vars, unitVars
<1>8. QED
  BY <1>1, <1>2, <1>3, <1>4, <1>5, <1>6, <1>7 DEF Next, DispatchStep, WorkerStep

LEMMA CallerTypes ==
    ASSUME IInv, [Next]_vars
    PROVE  /\ wait' \in WaitPc /\ ended' \subseteq Triggers
           /\ wakeup' \in {"armed", "spent"} /\ exit' \in {"none", "zero", "nonzero"}
<1> DEFINE T == /\ wait' \in WaitPc /\ ended' \subseteq Triggers
                /\ wakeup' \in {"armed", "spent"} /\ exit' \in {"none", "zero", "nonzero"}
<1>1. /\ wait \in WaitPc /\ ended \subseteq Triggers
      /\ wakeup \in {"armed", "spent"} /\ exit \in {"none", "zero", "nonzero"}
      /\ pending \in Nat
  BY DEF IInv, TypeOK
<1>2. ASSUME NEW j, Ends(j) PROVE T
  BY <1>1, <1>2 DEF Ends, Finish, WaitPc
<1>3. ASSUME NEW t \in Triggers, GiveUp(t) PROVE T
  BY <1>2, <1>3, EndingJobs DEF IInv
<1>4. ASSUME NEW u \in Units, RefuseJob(u) \/ EndJob(u) PROVE T
  BY <1>2, <1>4, EndingJobs DEF IInv
<1>5. ASSUME NEW u \in Units, DrainJob(u) PROVE T
  BY <1>2, <1>5, EndingJobs DEF IInv
<1>6. ASSUME NEW t \in Triggers, Dispatch(t) \/ Enqueue(t) \/ EndContext(t) PROVE T
  BY <1>1, <1>6 DEF Dispatch, Enqueue, EndContext, callerVars
<1>7. ASSUME NEW t \in Triggers, NEW u \in Units, SkipUnit(t, u) \/ EnterHandler(t, u) PROVE T
  BY <1>1, <1>7 DEF SkipUnit, EnterHandler, callerVars
<1>8. ASSUME NEW u \in Units,
             \/ TakeJob(u) \/ AcquireSlot(u) \/ ReleaseSlot(u)
             \/ BeginDrain(u) \/ EndDrain(u) \/ StopUnit(u)
      PROVE  T
  BY <1>1, <1>8 DEF TakeJob, AcquireSlot, ReleaseSlot, BeginDrain, EndDrain, StopUnit, callerVars
<1>9. ASSUME WaitStep \/ WakeOnCancel \/ UNCHANGED vars PROVE T
  BY <1>1, <1>9 DEF WaitStep, StartWait, LookAtLedger, FallAsleep, EndPass, WakeOnCancel, vars,
                    callerVars, WaitPc
<1>10. QED
  BY <1>3, <1>4, <1>5, <1>6, <1>7, <1>8, <1>9 DEF Next, DispatchStep, WorkerStep

LEMMA TypesStep ==
    ASSUME IInv, [Next]_vars
    PROVE  TypeOK' /\ CountersMatchJobs'
<1>1. TypeOK /\ CountersMatchJobs /\ Places
  BY DEF IInv
<1>2. pending' \in Nat /\ (pending = Cardinality(InFlight))'
  BY PendingCounts
<1>3. tokens' \in 0..GateSize /\ (tokens = Cardinality(RunningUnits))'
  BY <1>1, TokensCount
<1>4. CountersMatchJobs'
  BY <1>2, <1>3 DEF CountersMatchJobs, InFlight, RunningUnits
<1>5. TypeOK'
  BY <1>1, <1>2, <1>3, LedgerTypes, DispatchTypes, QueueTypes, CallerTypes DEF TypeOK
<1>6. QED
  BY <1>4, <1>5

-----------------------------------------------------------------------------
(* The places of the jobs.                                                 *)

LEMMA UnaskedStep ==
    ASSUME IInv, [Next]_vars
    PROVE  Unasked'
<1> DEFINE U(s, v) == /\ v \in toAsk'[s] => s \in started' /\ outcome'[<<s, v>>] = "none"
                      /\ s \notin started' => outcome'[<<s, v>>] = "none"
<1> SUFFICES ASSUME NEW s \in Triggers, NEW v \in Units PROVE U(s, v)
  BY DEF Unasked
<1>1. /\ toAsk \in [Triggers -> SUBSET Units]
      /\ outcome \in [Jobs -> {"none", "inflight", "ok", "failed"}]
      /\ v \in toAsk[s] => s \in started /\ outcome[<<s, v>>] = "none"
      /\ s \notin started => outcome[<<s, v>>] = "none"
      /\ <<s, v>> \in Jobs
  BY DEF IInv, TypeOK, Unasked, Jobs
<1>2. ASSUME NEW t \in Triggers, Dispatch(t) PROVE U(s, v)
  <2>1. outcome[<<t, v>>] = "none"
    BY <1>2 DEF Dispatch, IInv, Unasked
  <2>2. QED
    BY <1>1, <1>2, <2>1 DEF Dispatch
<1>3. ASSUME NEW t \in Triggers, NEW u \in Units, EnterHandler(t, u) PROVE U(s, v)
  <2>1. t \in started
    BY <1>3 DEF EnterHandler, IInv, Unasked
  <2>2. QED
    BY <1>1, <1>3, <2>1 DEF EnterHandler, BeginJob
<1>4. ASSUME NEW j \in Jobs, Ends(j),
             UNCHANGED started, \A t \in Triggers : toAsk'[t] \subseteq toAsk[t]
      PROVE  U(s, v)
  BY <1>1, <1>4 DEF Ends, Finish
<1>5. ASSUME NEW t \in Triggers, GiveUp(t) PROVE U(s, v)
  <2>1. handler[t] \in Units /\ Ends(<<t, handler[t]>>)
    BY <1>5, EndingJobs DEF IInv
  <2>2. QED
    BY <1>1, <1>4, <1>5, <2>1 DEF GiveUp, Jobs
<1>6. ASSUME NEW u \in Units, RefuseJob(u) \/ EndJob(u) PROVE U(s, v)
  <2>1. running[u] \in Triggers /\ Ends(<<running[u], u>>)
    BY <1>6, EndingJobs DEF IInv
  <2>2. QED
    BY <1>4, <1>6, <2>1 DEF RefuseJob, EndJob, Jobs, dispatchVars
<1>7. ASSUME NEW u \in Units, DrainJob(u) PROVE U(s, v)
  <2>1. Head(queue[u]) \in Triggers /\ Ends(<<Head(queue[u]), u>>)
    BY <1>7, EndingJobs DEF IInv
  <2>2. QED
    BY <1>4, <1>7, <2>1 DEF DrainJob, Jobs, dispatchVars
<1>8. ASSUME NEW t \in Triggers, Enqueue(t) \/ EndContext(t) PROVE U(s, v)
  BY <1>1, <1>8 DEF Enqueue, EndContext, dispatchVars
<1>9. ASSUME NEW t \in Triggers, NEW u \in Units, SkipUnit(t, u) PROVE U(s, v)
  BY <1>1, <1>9 DEF SkipUnit
<1>10. ASSUME NEW u \in Units,
             \/ TakeJob(u) \/ AcquireSlot(u) \/ ReleaseSlot(u)
             \/ BeginDrain(u) \/ EndDrain(u) \/ StopUnit(u)
      PROVE  U(s, v)
  BY <1>1, <1>10 DEF TakeJob, AcquireSlot, ReleaseSlot, BeginDrain, EndDrain, StopUnit, dispatchVars
<1>11. ASSUME WaitStep \/ WakeOnCancel \/ UNCHANGED vars PROVE U(s, v)
  BY <1>1, <1>11 DEF WaitStep, StartWait, LookAtLedger, FallAsleep, EndPass, WakeOnCancel, vars,
                     dispatchVars
<1>12. QED
  BY <1>2, <1>3, <1>5, <1>6, <1>7, <1>8, <1>9, <1>10, <1>11 DEF Next, DispatchStep, WorkerStep

\* A job that ends leaves its place, and nothing else about places changes.
LEMMA PlacesWithoutEnded ==
    ASSUME TypeOK, Places, NEW t \in Triggers, NEW u \in Units, Ends(<<t, u>>),
           Hands', NoRepeats',
           \A s \in Triggers, v \in Units : <<s, v>> # <<t, u>> =>
               /\ AtHandler(s, v)' <=> AtHandler(s, v)
               /\ InQueue(s, v)' <=> InQueue(s, v)
               /\ InHand(s, v)' <=> InHand(s, v),
           ~AtHandler(t, u)', ~InQueue(t, u)', ~InHand(t, u)'
    PROVE  Places'
<1>1. /\ outcome \in [Jobs -> {"none", "inflight", "ok", "failed"}]
      /\ <<t, u>> \in Jobs
      /\ \E end \in {"ok", "failed"} : outcome' = [outcome EXCEPT ![<<t, u>>] = end]
  BY DEF TypeOK, Ends, Finish, Jobs
<1>2. ASSUME NEW s \in Triggers, NEW v \in Units
      PROVE  /\ (outcome[<<s, v>>] = "inflight")' <=>
                    AtHandler(s, v)' \/ InQueue(s, v)' \/ InHand(s, v)'
             /\ ~(AtHandler(s, v) /\ InQueue(s, v))'
             /\ ~(AtHandler(s, v) /\ InHand(s, v))'
             /\ ~(InQueue(s, v) /\ InHand(s, v))'
  <2>1. CASE <<s, v>> = <<t, u>>
    BY <1>1, <2>1
  <2>2. CASE <<s, v>> # <<t, u>>
    <3>1. outcome'[<<s, v>>] = outcome[<<s, v>>]
      BY <1>1, <2>2 DEF Jobs
    <3>2. QED
      BY <2>2, <3>1 DEF Places, Placed, OnePlace
  <2>3. QED
    BY <2>1, <2>2
<1>3. QED
  BY <1>2 DEF Places, Placed, OnePlace

LEMMA PlacesStep ==
    ASSUME IInv, [Next]_vars
    PROVE  Places'
<1>1. TypeOK /\ Places /\ Hands /\ Placed /\ OnePlace /\ NoRepeats
  BY DEF IInv, Places
<1>2. /\ handler \in [Triggers -> Units \cup {NoUnit}] /\ NoUnit \notin Units
      /\ running \in [Units -> Triggers \cup {NoJob}] /\ NoJob \notin Triggers
      /\ worker \in [Units -> WorkerPc]
      /\ outcome \in [Jobs -> {"none", "inflight", "ok", "failed"}]
  BY <1>1, FanOutAssumption DEF TypeOK
<1>3. ASSUME NEW t \in Triggers, NEW u \in Units, EnterHandler(t, u) PROVE Places'
  <2>1. /\ outcome[<<t, u>>] = "none" /\ handler[t] = NoUnit
        /\ handler' = [handler EXCEPT ![t] = u]
        /\ outcome' = [outcome EXCEPT ![<<t, u>>] = "inflight"]
        /\ UNCHANGED <<queue, worker, running>>
    BY <1>3 DEF EnterHandler, BeginJob, IInv, Unasked, unitVars
  <2>2. ~InQueue(t, u) /\ ~InHand(t, u)
    BY <1>1, <2>1 DEF Placed
  <2>3. ASSUME NEW s \in Triggers, NEW v \in Units
        PROVE  /\ AtHandler(s, v)' <=> AtHandler(s, v) \/ <<s, v>> = <<t, u>>
               /\ (outcome[<<s, v>>] = "inflight")' <=>
                      outcome[<<s, v>>] = "inflight" \/ <<s, v>> = <<t, u>>
               /\ InQueue(s, v)' <=> InQueue(s, v)
               /\ InHand(s, v)' <=> InHand(s, v)
    BY <1>2, <2>1 DEF AtHandler, InQueue, InHand, Jobs
  <2>4. Hands' /\ NoRepeats'
    BY <1>1, <2>1 DEF Hands, NoRepeats
  <2>5. QED
    BY <1>1, <2>2, <2>3, <2>4 DEF Places, Placed, OnePlace
<1>4. ASSUME NEW t \in Triggers, Enqueue(t) PROVE Places'
  <2> DEFINE u == handler[t]
  <2>1. /\ u \in Units /\ AtHandler(t, u)
        /\ queue' = [queue EXCEPT ![u] = Append(@, t)]
        /\ handler' = [handler EXCEPT ![t] = NoUnit]
        /\ UNCHANGED <<worker, running, outcome>>
    BY <1>2, <1>4 DEF Enqueue, AtHandler
  <2> HIDE DEF u
  <2>2. ~InQueue(t, u) /\ ~InHand(t, u)
    BY <1>1, <2>1 DEF OnePlace
  <2>3. /\ NoRepeats'
        /\ \A s \in Triggers, v \in Units :
               InQueue(s, v)' <=> InQueue(s, v) \/ (s = t /\ v = u)
    BY <1>1, <2>1, <2>2, Sent
  <2>4. ASSUME NEW s \in Triggers, NEW v \in Units
        PROVE  /\ AtHandler(s, v)' <=> AtHandler(s, v) /\ ~(s = t /\ v = u)
               /\ InHand(s, v)' <=> InHand(s, v)
    BY <1>2, <2>1 DEF AtHandler, InHand
  <2>5. Hands'
    BY <1>1, <2>1 DEF Hands
  <2>6. QED
    BY <1>1, <2>1, <2>2, <2>3, <2>4, <2>5 DEF Places, Placed, OnePlace
<1>5. ASSUME NEW t \in Triggers, GiveUp(t) PROVE Places'
  <2> DEFINE u == handler[t]
  <2>1. u \in Units /\ Ends(<<t, u>>) /\ AtHandler(t, u)
    BY <1>1, <1>5, EndingJobs DEF AtHandler
  <2>2. /\ handler' = [handler EXCEPT ![t] = NoUnit]
        /\ UNCHANGED <<queue, worker, running>>
    BY <1>5 DEF GiveUp, unitVars
  <2> HIDE DEF u
  <2>3. ~InQueue(t, u) /\ ~InHand(t, u)
    BY <1>1, <2>1 DEF OnePlace
  <2>4. ASSUME NEW s \in Triggers, NEW v \in Units
        PROVE  /\ AtHandler(s, v)' <=> AtHandler(s, v) /\ ~(s = t /\ v = u)
               /\ InQueue(s, v)' <=> InQueue(s, v)
               /\ InHand(s, v)' <=> InHand(s, v)
    BY <1>2, <2>1, <2>2 DEF AtHandler, InQueue, InHand
  <2>5. Hands' /\ NoRepeats'
    BY <1>1, <2>2 DEF Hands, NoRepeats
  <2>6. QED
    BY <1>1, <2>1, <2>3, <2>4, <2>5, PlacesWithoutEnded
<1>6. ASSUME NEW u \in Units, TakeJob(u) PROVE Places'
  <2> DEFINE t == Head(queue[u])
  <2>1. /\ worker[u] = "idle" /\ queue[u] # <<>>
        /\ running' = [running EXCEPT ![u] = t]
        /\ queue' = [queue EXCEPT ![u] = Tail(@)]
        /\ worker' = [worker EXCEPT ![u] = "acquiring"]
        /\ UNCHANGED <<handler, outcome>>
    BY <1>6 DEF TakeJob, dispatchVars
  <2>2. /\ t \in Triggers /\ InQueue(t, u) /\ NoRepeats'
        /\ \A s \in Triggers, v \in Units :
               InQueue(s, v)' <=> InQueue(s, v) /\ ~(s = t /\ v = u)
    BY <1>1, <2>1, Received
  <2> HIDE DEF t
  <2>3. running[u] = NoJob
    BY <1>1, <2>1 DEF Hands, Busy
  <2>4. ASSUME NEW s \in Triggers, NEW v \in Units
        PROVE  /\ AtHandler(s, v)' <=> AtHandler(s, v)
               /\ InHand(s, v)' <=> InHand(s, v) \/ (s = t /\ v = u)
    BY <1>2, <2>1, <2>3 DEF AtHandler, InHand
  <2>5. Hands'
    BY <1>1, <1>2, <2>1, <2>2 DEF Hands, Busy
  <2>6. QED
    BY <1>1, <2>1, <2>2, <2>4, <2>5 DEF Places, Placed, OnePlace
<1>7. ASSUME NEW u \in Units, RefuseJob(u) \/ EndJob(u) PROVE Places'
  <2> DEFINE t == running[u]
  <2>1. t \in Triggers /\ Ends(<<t, u>>) /\ InHand(t, u)
    BY <1>1, <1>7, EndingJobs DEF InHand
  <2>2. /\ running' = [running EXCEPT ![u] = NoJob]
        /\ worker' = [worker EXCEPT ![u] = "idle"]
        /\ UNCHANGED <<handler, queue>>
    BY <1>7 DEF RefuseJob, EndJob, dispatchVars
  <2> HIDE DEF t
  <2>3. ~InQueue(t, u) /\ ~AtHandler(t, u)
    BY <1>1, <2>1 DEF OnePlace
  <2>4. ASSUME NEW s \in Triggers, NEW v \in Units
        PROVE  /\ AtHandler(s, v)' <=> AtHandler(s, v)
               /\ InQueue(s, v)' <=> InQueue(s, v)
               /\ InHand(s, v)' <=> InHand(s, v) /\ ~(s = t /\ v = u)
    BY <1>2, <2>1, <2>2 DEF AtHandler, InQueue, InHand
  <2>5. Hands' /\ NoRepeats'
    BY <1>1, <1>2, <2>2 DEF Hands, NoRepeats, Busy
  <2>6. QED
    BY <1>1, <2>1, <2>3, <2>4, <2>5, PlacesWithoutEnded
<1>8. ASSUME NEW u \in Units, DrainJob(u) PROVE Places'
  <2> DEFINE t == Head(queue[u])
  <2>1. t \in Triggers /\ Ends(<<t, u>>)
    BY <1>1, <1>8, EndingJobs
  <2>2. /\ queue[u] # <<>>
        /\ queue' = [queue EXCEPT ![u] = Tail(@)]
        /\ UNCHANGED <<handler, worker, running>>
    BY <1>8 DEF DrainJob, dispatchVars
  <2>3. /\ InQueue(t, u) /\ NoRepeats'
        /\ \A s \in Triggers, v \in Units :
               InQueue(s, v)' <=> InQueue(s, v) /\ ~(s = t /\ v = u)
    BY <1>1, <2>2, Received
  <2> HIDE DEF t
  <2>4. ~AtHandler(t, u) /\ ~InHand(t, u)
    BY <1>1, <2>1, <2>3 DEF OnePlace
  <2>5. ASSUME NEW s \in Triggers, NEW v \in Units
        PROVE  /\ AtHandler(s, v)' <=> AtHandler(s, v)
               /\ InHand(s, v)' <=> InHand(s, v)
    BY <2>2 DEF AtHandler, InHand
  <2>6. Hands'
    BY <1>1, <2>2 DEF Hands
  <2>7. QED
    BY <1>1, <2>1, <2>3, <2>4, <2>5, <2>6, PlacesWithoutEnded
<1>9. ASSUME UNCHANGED <<handler, queue, running, outcome>>, Hands' PROVE Places'
  BY <1>1, <1>9 DEF Places, Placed, OnePlace, NoRepeats, AtHandler, InQueue, InHand
<1>10. ASSUME NEW u \in Units,
              AcquireSlot(u) \/ ReleaseSlot(u) \/ BeginDrain(u) \/ EndDrain(u)
       PROVE  Places'
  <2>1. UNCHANGED <<handler, queue, running, outcome>>
    BY <1>10 DEF AcquireSlot, ReleaseSlot, BeginDrain, EndDrain, dispatchVars
  <2>2. Hands'
    BY <1>1, <1>2, <1>10, <2>1 DEF AcquireSlot, ReleaseSlot, BeginDrain, EndDrain, Hands, Busy
  <2>3. QED
    BY <1>9, <2>1, <2>2
<1>11. ASSUME UNCHANGED <<handler, queue, worker, running, outcome>> PROVE Places'
  BY <1>1, <1>9, <1>11 DEF Hands
<1>12. ASSUME NEW t \in Triggers, Dispatch(t) \/ EndContext(t) PROVE Places'
  BY <1>11, <1>12 DEF Dispatch, EndContext, dispatchVars, unitVars
<1>13. ASSUME NEW t \in Triggers, NEW u \in Units, SkipUnit(t, u) PROVE Places'
  BY <1>11, <1>13 DEF SkipUnit, unitVars
<1>14. ASSUME NEW u \in Units, StopUnit(u) PROVE Places'
  BY <1>11, <1>14 DEF StopUnit
<1>15. ASSUME WaitStep \/ WakeOnCancel \/ UNCHANGED vars PROVE Places'
  BY <1>11, <1>15 DEF WaitStep, StartWait, LookAtLedger, FallAsleep, EndPass, WakeOnCancel, vars,
                      dispatchVars, unitVars
<1>16. QED
  BY <1>3, <1>4, <1>5, <1>6, <1>7, <1>8, <1>10, <1>12, <1>13, <1>14, <1>15
  DEF Next, DispatchStep, WorkerStep

-----------------------------------------------------------------------------
(* The caller: what it waits for and what it reports.                      *)

\* The wait and the exit code are the caller's own steps, but for the end of a job and
\* of a context that wake it.
LEMMA CallerMoves ==
    ASSUME IInv, [Next]_vars
    PROVE  \/ StartWait \/ LookAtLedger \/ FallAsleep \/ EndPass \/ WakeOnCancel
           \/ \E j \in Jobs : Ends(j)
           \/ UNCHANGED <<wait, exit>>
<1>1. ASSUME NEW t \in Triggers, GiveUp(t) PROVE \E j \in Jobs : Ends(j)
  BY <1>1, EndingJobs DEF IInv, Jobs
<1>2. ASSUME NEW u \in Units, RefuseJob(u) \/ EndJob(u) \/ DrainJob(u)
      PROVE  \E j \in Jobs : Ends(j)
  BY <1>2, EndingJobs DEF IInv, Jobs
<1>3. ASSUME NEW t \in Triggers, Dispatch(t) \/ Enqueue(t) \/ EndContext(t)
      PROVE  UNCHANGED <<wait, exit>>
  BY <1>3 DEF Dispatch, Enqueue, EndContext, callerVars
<1>4. ASSUME NEW t \in Triggers, NEW u \in Units, SkipUnit(t, u) \/ EnterHandler(t, u)
      PROVE  UNCHANGED <<wait, exit>>
  BY <1>4 DEF SkipUnit, EnterHandler, callerVars
<1>5. ASSUME NEW u \in Units,
             \/ TakeJob(u) \/ AcquireSlot(u) \/ ReleaseSlot(u)
             \/ BeginDrain(u) \/ EndDrain(u) \/ StopUnit(u)
      PROVE  UNCHANGED <<wait, exit>>
  BY <1>5 DEF TakeJob, AcquireSlot, ReleaseSlot, BeginDrain, EndDrain, StopUnit, callerVars
<1>6. CASE UNCHANGED vars
  BY <1>6 DEF vars, callerVars
<1>7. QED
  BY <1>1, <1>2, <1>3, <1>4, <1>5, <1>6 DEF Next, DispatchStep, WorkerStep, WaitStep

\* Jobs go from none to in flight to their end, and no further.
LEMMA OutcomesMove ==
    ASSUME IInv, [Next]_vars
    PROVE  /\ \A j \in Jobs :
                  \/ outcome'[j] = outcome[j]
                  \/ outcome[j] = "none" /\ outcome'[j] = "inflight"
                  \/ outcome[j] = "inflight" /\ outcome'[j] \in {"ok", "failed"}
           /\ Failure => Failure'
<1>1. outcome \in [Jobs -> {"none", "inflight", "ok", "failed"}]
  BY DEF IInv, TypeOK
<1>2. \A j \in Jobs :
          \/ outcome'[j] = outcome[j]
          \/ outcome[j] = "none" /\ outcome'[j] = "inflight"
          \/ outcome[j] = "inflight" /\ outcome'[j] \in {"ok", "failed"}
  BY <1>1, JobMoves DEF Books, BeginJob, Ends, Finish
<1>3. Failure => Failure'
  BY <1>2 DEF Failure
<1>4. QED
  BY <1>2, <1>3

LEMMA RetainedStep ==
    ASSUME IInv, [Next]_vars
    PROVE  Retained'
<1> SUFFICES ASSUME exit' = "none", Failure' PROVE errs' # <<>>
  BY DEF Retained
<1>1. ~EndPass
  BY DEF EndPass
<1>2. exit = "none"
  BY <1>1, CallerMoves DEF StartWait, LookAtLedger, FallAsleep, WakeOnCancel, Ends, Finish
<1>3. Failure => errs # <<>>
  BY <1>2 DEF IInv, Retained
<1>4. outcome \in [Jobs -> {"none", "inflight", "ok", "failed"}]
  BY DEF IInv, TypeOK
<1>5. CASE UNCHANGED <<outcome, pending, errs>>
  BY <1>3, <1>5 DEF Failure
<1>6. ASSUME NEW j \in Jobs, Books(j) PROVE errs' # <<>>
  <2>1. Failure
    BY <1>4, <1>6 DEF Failure, Books, BeginJob
  <2>2. QED
    BY <1>3, <1>6, <2>1 DEF Books
<1>7. ASSUME NEW j \in Jobs, Ends(j) PROVE errs' # <<>>
  <2>1. PICK end \in {"ok", "failed"} : Finish(j, end)
    BY <1>7 DEF Ends
  <2>2. CASE end = "failed"
    BY <2>1, <2>2, RetainKeeps DEF Finish, IInv
  <2>3. CASE end = "ok"
    <3>1. Failure
      BY <1>4, <2>1, <2>3 DEF Failure, Finish
    <3>2. QED
      BY <1>3, <2>1, <2>3, <3>1 DEF Finish
  <2>4. QED
    BY <2>2, <2>3
<1>8. QED
  BY <1>1, <1>5, <1>6, <1>7, JobMoves

LEMMA NobodyForgottenStep ==
    ASSUME IInv, [Next]_vars
    PROVE  NobodyForgotten'
<1> SUFFICES ASSUME Once, exit' = "none"
             PROVE  /\ stopped' = {}
                    /\ Startup \in started' => \A u \in Addressed[Startup] :
                           \/ u \in toAsk'[Startup]
                           \/ outcome'[<<Startup, u>>] # "none"
                           \/ Failure'
  BY DEF NobodyForgotten
<1>1. exit = "none"
  <2>1. ~EndPass
    BY DEF EndPass
  <2>2. QED
    BY <2>1, CallerMoves DEF StartWait, LookAtLedger, FallAsleep, WakeOnCancel, Ends, Finish
<1>2. /\ stopped = {}
      /\ Startup \in started => \A u \in Addressed[Startup] :
             u \in toAsk[Startup] \/ outcome[<<Startup, u>>] # "none" \/ Failure
  BY <1>1 DEF IInv, NobodyForgotten
<1>3. /\ toAsk \in [Triggers -> SUBSET Units]
      /\ outcome \in [Jobs -> {"none", "inflight", "ok", "failed"}]
  BY DEF IInv, TypeOK
<1>4. /\ Startup \in Triggers /\ Addressed[Startup] \subseteq Units
      /\ \A u \in Addressed[Startup] : <<Startup, u>> \in Jobs
  BY FanOutAssumption DEF Jobs
<1>5. stopped' = {}
  <2>1. \A u \in Units : ~StopUnit(u)
    BY <1>1 DEF StopUnit
  <2>2. UNCHANGED stopped
    BY <2>1 DEF Next, DispatchStep, WorkerStep, WaitStep, Dispatch, SkipUnit, EnterHandler,
                Enqueue, GiveUp, EndContext, TakeJob, AcquireSlot, ReleaseSlot, RefuseJob, EndJob,
                BeginDrain, DrainJob, EndDrain, StartWait, LookAtLedger, FallAsleep, EndPass,
                WakeOnCancel, vars, unitVars
  <2>3. QED
    BY <1>2, <2>2
<1> DEFINE Asked == Startup \in started' => \A u \in Addressed[Startup] :
                        \/ u \in toAsk'[Startup]
                        \/ outcome'[<<Startup, u>>] # "none"
                        \/ Failure'
<1>6. \A u \in Addressed[Startup] :
          outcome[<<Startup, u>>] # "none" \/ Failure
              => outcome'[<<Startup, u>>] # "none" \/ Failure'
  BY <1>4, OutcomesMove
<1>7. ASSUME UNCHANGED <<toAsk, started>> PROVE Asked
  BY <1>2, <1>6, <1>7
<1>8. ASSUME NEW t \in Triggers, Dispatch(t) PROVE Asked
  <2>1. toAsk' = [toAsk EXCEPT ![t] = Units] /\ started' = started \cup {t}
    BY <1>2, <1>8 DEF Dispatch
  <2>2. CASE t = Startup
    BY <1>3, <1>4, <2>1, <2>2
  <2>3. CASE t # Startup
    BY <1>2, <1>3, <1>4, <1>6, <2>1, <2>3
  <2>4. QED
    BY <2>2, <2>3
<1>9. ASSUME NEW t \in Triggers, NEW u \in Units, SkipUnit(t, u) PROVE Asked
  <2>1. toAsk' = [toAsk EXCEPT ![t] = @ \ {u}] /\ UNCHANGED started /\ u \notin Addressed[t]
    BY <1>9 DEF SkipUnit
  <2>2. QED
    BY <1>2, <1>3, <1>4, <1>6, <2>1
<1>10. ASSUME NEW t \in Triggers, NEW u \in Units, EnterHandler(t, u) PROVE Asked
  <2>1. /\ toAsk' = [toAsk EXCEPT ![t] = @ \ {u}] /\ UNCHANGED started
        /\ <<t, u>> \in Jobs /\ outcome'[<<t, u>>] # "none"
    BY <1>3, <1>10 DEF EnterHandler, BeginJob, Jobs
  <2>2. QED
    BY <1>2, <1>3, <1>4, <1>6, <2>1
<1>11. ASSUME NEW t \in Triggers, GiveUp(t) PROVE Asked
  <2>1. handler[t] \in Units /\ <<t, handler[t]>> \in Jobs
    BY <1>11, EndingJobs DEF IInv, Jobs
  <2>2. Failure'
    BY <1>3, <1>11, <2>1 DEF GiveUp, Finish, Failure
  <2>3. QED
    BY <2>2
<1>12. ASSUME NEW t \in Triggers, Enqueue(t) \/ EndContext(t) PROVE Asked
  BY <1>7, <1>12 DEF Enqueue, EndContext, dispatchVars
<1>13. ASSUME NEW u \in Units, WorkerStep(u) PROVE Asked
  BY <1>7, <1>13 DEF WorkerStep, TakeJob, AcquireSlot, ReleaseSlot, RefuseJob, EndJob,
                     BeginDrain, DrainJob, EndDrain, dispatchVars
<1>14. ASSUME WaitStep \/ WakeOnCancel \/ UNCHANGED vars PROVE Asked
  BY <1>7, <1>14 DEF WaitStep, StartWait, LookAtLedger, FallAsleep, EndPass, WakeOnCancel, vars,
                     dispatchVars
<1>15. \A u \in Units : ~StopUnit(u)
  BY <1>1 DEF StopUnit
<1>16. Asked
  BY <1>8, <1>9, <1>10, <1>11, <1>12, <1>13, <1>14, <1>15 DEF Next, DispatchStep
<1>17. QED
  BY <1>5, <1>16

\* A dispatch that is through stays through, and books nothing more.
LEMMA DispatchedStays ==
    ASSUME IInv, [Next]_vars, NEW s \in Triggers, Dispatched(s)
    PROVE  /\ Dispatched(s)'
           /\ \A u \in Units : outcome[<<s, u>>] # "inflight" => outcome'[<<s, u>>] # "inflight"
<1>1. s \in started /\ toAsk[s] = {} /\ handler[s] = NoUnit
  BY DEF Dispatched
<1>2. /\ toAsk \in [Triggers -> SUBSET Units]
      /\ handler \in [Triggers -> Units \cup {NoUnit}]
      /\ outcome \in [Jobs -> {"none", "inflight", "ok", "failed"}]
  BY DEF IInv, TypeOK
<1> DEFINE Kept == Dispatched(s)' /\
               \A u \in Units : outcome[<<s, u>>] # "inflight" => outcome'[<<s, u>>] # "inflight"
<1>3. ASSUME UNCHANGED outcome, Dispatched(s)' PROVE Kept
  BY <1>3
<1>4. ASSUME NEW j \in Jobs, Ends(j), Dispatched(s)' PROVE Kept
  BY <1>2, <1>4 DEF Ends, Finish, Jobs
<1>5. ASSUME NEW t \in Triggers, Dispatch(t) \/ EndContext(t) \/ Enqueue(t) PROVE Kept
  BY <1>1, <1>2, <1>3, <1>5 DEF Dispatch, EndContext, Enqueue, Dispatched, dispatchVars
<1>6. ASSUME NEW t \in Triggers, NEW u \in Units, SkipUnit(t, u) PROVE Kept
  BY <1>1, <1>2, <1>3, <1>6 DEF SkipUnit, Dispatched
<1>7. ASSUME NEW t \in Triggers, NEW u \in Units, EnterHandler(t, u) PROVE Kept
  <2>1. t # s
    BY <1>1, <1>7 DEF EnterHandler
  <2>2. Dispatched(s)'
    BY <1>1, <1>2, <1>7, <2>1 DEF EnterHandler, Dispatched
  <2>3. \A v \in Units : outcome'[<<s, v>>] = outcome[<<s, v>>]
    BY <1>2, <1>7, <2>1 DEF EnterHandler, BeginJob, Jobs
  <2>4. QED
    BY <2>2, <2>3
<1>8. ASSUME NEW t \in Triggers, GiveUp(t) PROVE Kept
  <2>1. <<t, handler[t]>> \in Jobs /\ Ends(<<t, handler[t]>>)
    BY <1>8, EndingJobs DEF IInv, Jobs
  <2>2. Dispatched(s)'
    BY <1>1, <1>2, <1>8 DEF GiveUp, Dispatched
  <2>3. QED
    BY <1>4, <2>1, <2>2
<1>9. ASSUME NEW u \in Units, RefuseJob(u) \/ EndJob(u) \/ DrainJob(u) PROVE Kept
  <2>1. \E j \in Jobs : Ends(j)
    BY <1>9, EndingJobs DEF IInv, Jobs
  <2>2. Dispatched(s)'
    BY <1>1, <1>9 DEF RefuseJob, EndJob, DrainJob, Dispatched, dispatchVars
  <2>3. QED
    BY <1>4, <2>1, <2>2
<1>10. ASSUME NEW u \in Units,
              \/ TakeJob(u) \/ AcquireSlot(u) \/ ReleaseSlot(u)
              \/ BeginDrain(u) \/ EndDrain(u)
       PROVE  Kept
  BY <1>1, <1>3, <1>10 DEF TakeJob, AcquireSlot, ReleaseSlot, BeginDrain, EndDrain,
                             Dispatched, dispatchVars
<1>11. ASSUME NEW u \in Units, StopUnit(u) PROVE Kept
  BY <1>1, <1>3, <1>11 DEF StopUnit, Dispatched
<1>12. ASSUME WaitStep \/ WakeOnCancel \/ UNCHANGED vars PROVE Kept
  BY <1>1, <1>3, <1>12 DEF WaitStep, StartWait, LookAtLedger, FallAsleep, EndPass, WakeOnCancel,
                           vars, Dispatched, dispatchVars
<1>13. QED
  BY <1>5, <1>6, <1>7, <1>8, <1>9, <1>10, <1>11, <1>12 DEF Next, DispatchStep, WorkerStep

LEMMA WaitedStep ==
    ASSUME IInv, [Next]_vars
    PROVE  Waited'
<1>1. /\ Startup \in Triggers /\ Addressed[Startup] \subseteq Units
      /\ \A u \in Addressed[Startup] : <<Startup, u>> \in Jobs
  BY FanOutAssumption DEF Jobs
<1>2. Waited /\ wait \in WaitPc /\ pending \in Nat
  BY DEF IInv, TypeOK
<1>3. ASSUME wait' # "before" PROVE Once /\ Dispatched(Startup)'
  <2>1. StartWait => Once /\ Dispatched(Startup)
    BY DEF StartWait
  <2>2. ~StartWait => wait # "before"
    BY <1>3, CallerMoves
    DEF LookAtLedger, FallAsleep, EndPass, WakeOnCancel, Ends, Finish
  <2>3. Once /\ Dispatched(Startup)
    BY <1>2, <2>1, <2>2 DEF Waited
  <2>4. QED
    BY <1>1, <2>3, DispatchedStays
<1>4. ASSUME wait' = "done", NEW u \in Addressed[Startup]
      PROVE  outcome'[<<Startup, u>>] # "inflight"
  <2>1. CASE wait = "done"
    <3>1. Dispatched(Startup) /\ outcome[<<Startup, u>>] # "inflight"
      BY <1>2, <2>1 DEF Waited
    <3>2. QED
      BY <1>1, <3>1, DispatchedStays
  <2>2. CASE wait # "done"
    <3>1. LookAtLedger
      BY <1>4, <2>2, CallerMoves DEF StartWait, FallAsleep, EndPass, WakeOnCancel, Ends, Finish
    <3>2. pending = 0 /\ UNCHANGED outcome
      BY <1>2, <1>4, <3>1 DEF LookAtLedger
    <3>3. QED
      BY <1>1, <3>2, EmptyLedger
  <2>3. QED
    BY <2>1, <2>2
<1>5. ASSUME exit' # "none" PROVE wait' \in {"done", "interrupted"}
  BY <1>2, <1>5, CallerMoves
  DEF StartWait, LookAtLedger, FallAsleep, EndPass, WakeOnCancel, Ends, Finish, Waited
<1>6. QED
  BY <1>3, <1>4, <1>5 DEF Waited

LEMMA ExitCodeStep ==
    ASSUME IInv, [Next]_vars
    PROVE  ExitCodeIsHonest'
<1> SUFFICES ASSUME exit' = "zero", NEW u \in Addressed[Startup]
             PROVE  outcome'[<<Startup, u>>] = "ok"
  BY DEF ExitCodeIsHonest
<1>1. Startup \in Triggers /\ <<Startup, u>> \in Jobs
  BY FanOutAssumption DEF Jobs
<1>2. outcome \in [Jobs -> {"none", "inflight", "ok", "failed"}]
  BY DEF IInv, TypeOK
<1>3. CASE EndPass
  <2>1. wait = "done" /\ exit = "none" /\ errs = <<>> /\ UNCHANGED outcome
    BY <1>3 DEF EndPass
  <2>2. ~Failure
    BY <2>1 DEF IInv, Retained
  <2>3. Once /\ Dispatched(Startup) /\ outcome[<<Startup, u>>] # "inflight"
    BY <2>1 DEF IInv, Waited
  <2>4. outcome[<<Startup, u>>] # "none"
    BY <2>1, <2>2, <2>3 DEF IInv, NobodyForgotten, Dispatched
  <2>5. outcome[<<Startup, u>>] # "failed"
    BY <1>1, <2>2 DEF Failure
  <2>6. QED
    BY <1>1, <1>2, <2>1, <2>3, <2>4, <2>5
<1>4. CASE ~EndPass
  <2>1. exit = "zero"
    BY <1>4, CallerMoves DEF StartWait, LookAtLedger, FallAsleep, WakeOnCancel, Ends, Finish
  <2>2. outcome[<<Startup, u>>] = "ok"
    BY <2>1 DEF IInv, ExitCodeIsHonest
  <2>3. QED
    BY <1>1, <2>2, OutcomesMove
<1>5. QED
  BY <1>3, <1>4

LEMMA SleeperStep ==
    ASSUME IInv, [Next]_vars
    PROVE  SleeperAwaitsAJob'
<1>1. pending \in Nat /\ SleeperAwaitsAJob
  BY DEF IInv, TypeOK
<1>2. CASE UNCHANGED wait
  <2>1. CASE \E j \in Jobs : Ends(j)
    <3>1. wait # "locked" /\ (pending' = 0 => wait' # "asleep") /\ pending' \in Nat
      BY <1>1, <1>2, <2>1 DEF Ends, Finish, MutexFree
    <3>2. QED
      BY <1>2, <3>1 DEF SleeperAwaitsAJob
  <2>2. CASE ~\E j \in Jobs : Ends(j)
    <3>1. pending' = pending \/ pending' = pending + 1
      BY <2>2, JobMoves DEF Books, BeginJob, EndPass
    <3>2. QED
      BY <1>1, <1>2, <3>1 DEF SleeperAwaitsAJob
  <2>3. QED
    BY <2>1, <2>2
<1>3. CASE LookAtLedger
  BY <1>1, <1>3 DEF LookAtLedger, SleeperAwaitsAJob, ledgerVars
<1>4. CASE FallAsleep
  BY <1>1, <1>4 DEF FallAsleep, SleeperAwaitsAJob, ledgerVars
<1>5. CASE wait' \notin {"locked", "asleep"}
  BY <1>5 DEF SleeperAwaitsAJob
<1>6. QED
  BY <1>2, <1>3, <1>4, <1>5, CallerMoves DEF StartWait, EndPass, WakeOnCancel, Ends, Finish

LEMMA GoneStep ==
    ASSUME IInv, [Next]_vars
    PROVE  GoneIsStopped'
<1>1. worker \in [Units -> WorkerPc] /\ GoneIsStopped
  BY DEF IInv, TypeOK
<1>2. ASSUME NEW t \in Triggers, Dispatch(t) \/ EndContext(t) \/ DispatchStep(t)
      PROVE  UNCHANGED <<worker, stopped>>
  BY <1>2 DEF Dispatch, EndContext, DispatchStep, SkipUnit, EnterHandler, Enqueue, GiveUp, unitVars
<1>3. ASSUME NEW u \in Units, WorkerStep(u)
      PROVE  /\ UNCHANGED stopped
             /\ \A v \in Units :
                    worker'[v] \in {"draining", "exited"} =>
                        worker[v] \in {"draining", "exited"} \/ v \in stopped
  BY <1>1, <1>3 DEF WorkerStep, TakeJob, AcquireSlot, ReleaseSlot, RefuseJob, EndJob, BeginDrain,
                    DrainJob, EndDrain
<1>4. ASSUME NEW u \in Units, StopUnit(u) PROVE UNCHANGED worker /\ stopped \subseteq stopped'
  BY <1>4 DEF StopUnit
<1>5. CASE WaitStep \/ WakeOnCancel \/ UNCHANGED vars
  <2>1. UNCHANGED <<worker, stopped>>
    BY <1>5 DEF WaitStep, StartWait, LookAtLedger, FallAsleep, EndPass, WakeOnCancel, unitVars, vars
  <2>2. QED
    BY <1>1, <2>1 DEF GoneIsStopped
<1>6. QED
  BY <1>1, <1>2, <1>3, <1>4, <1>5 DEF GoneIsStopped, Next

\* A slot is in use by a worker that runs.
LEMMA FullGateRuns ==
    ASSUME IInv, ~(tokens < GateSize)
    PROVE  \E u \in Units : worker[u] = "running"
<1>1. tokens \in Nat /\ tokens # 0 /\ tokens = Cardinality({u \in Units : worker[u] = "running"})
  BY FanOutAssumption DEF IInv, TypeOK, CountersMatchJobs
<1>2. {u \in Units : worker[u] = "running"} # {}
  BY <1>1, FS_EmptySet
<1>3. QED
  BY <1>2

\* A worker with something in its queue, or in its hands, is not the one that blocks.
LEMMA BusyUnitMoves ==
    ASSUME IInv, NEW u \in Units, queue[u] # <<>> \/ worker[u] \in Busy, worker[u] # "exited"
    PROVE  \E v \in Units : WorkerMoves(v)
<1>1. CASE worker[u] = "acquiring"
  BY <1>1, FullGateRuns DEF WorkerMoves
<1>2. CASE worker[u] # "acquiring"
  BY <1>2 DEF WorkerMoves, WorkerPc, Busy, IInv, TypeOK
<1>3. QED
  BY <1>1, <1>2

LEMMA InvMoves == IInv => SomebodyMoves
<1>1. SUFFICES ASSUME IInv, NEW t \in Triggers, NEW u \in Units,
                      outcome[<<t, u>>] = "inflight", ~LeftBehind(t, u)
               PROVE  (\E v \in Units : WorkerMoves(v)) \/ (\E s \in Triggers : HandlerMoves(s))
  BY DEF SomebodyMoves
<1>2. queue[u] \in Seq(Triggers) /\ Len(queue[u]) \in Nat /\ DOMAIN queue[u] = 1..Len(queue[u])
  BY <1>1 DEF IInv, TypeOK
<1>3. CASE AtHandler(t, u)
  <2>1. CASE Len(queue[u]) < QueueCap \/ u \in stopped
    BY <1>1, <1>3, <2>1, FanOutAssumption DEF AtHandler, HandlerMoves, FanOutAssumption
  <2>2. CASE ~(Len(queue[u]) < QueueCap) /\ u \notin stopped
    <3>1. queue[u] # <<>>
      BY <1>2, <2>2, FanOutAssumption DEF FanOutAssumption
    <3>2. worker[u] # "exited"
      BY <1>1, <2>2 DEF IInv, GoneIsStopped
    <3>3. QED
      BY <1>1, <3>1, <3>2, BusyUnitMoves
  <2>3. QED
    BY <2>1, <2>2
<1>4. CASE InQueue(t, u)
  <2>1. queue[u] # <<>> /\ worker[u] # "exited"
    BY <1>1, <1>2, <1>4 DEF InQueue, LeftBehind
  <2>2. QED
    BY <1>1, <2>1, BusyUnitMoves
<1>5. CASE InHand(t, u)
  <2>1. worker[u] \in Busy
    BY <1>1, <1>5, FanOutAssumption DEF IInv, Places, Hands, InHand, FanOutAssumption
  <2>2. worker[u] # "exited"
    BY <2>1 DEF Busy
  <2>3. QED
    BY <1>1, <2>1, <2>2, BusyUnitMoves
<1>6. QED
  BY <1>1, <1>3, <1>4, <1>5 DEF IInv, Places, Placed

-----------------------------------------------------------------------------
(* The theorems.                                                           *)

LEMMA InvariantInit == Init => IInv
<1> SUFFICES ASSUME Init PROVE IInv
  OBVIOUS
<1> USE DEF Init
<1>1. GateSize \in Nat /\ MaxRetained \in Nat /\ QueueCap \in Nat
  BY FanOutAssumption
<1>2. \A u \in Units : Len(queue[u]) = 0
  OBVIOUS
<1>3. TypeOK
  <2>1. queue \in [Units -> Seq(Triggers)] /\ errs \in Seq(Jobs) /\ Len(errs) = 0
    BY EmptySeq
  <2>2. QED
    BY <1>1, <1>2, <2>1 DEF TypeOK, WorkerPc, WaitPc
<1>4. CountersMatchJobs
  <2>1. {j \in Jobs : outcome[j] = "inflight"} = {} /\ {u \in Units : worker[u] = "running"} = {}
    OBVIOUS
  <2>2. QED
    BY <2>1, FS_EmptySet DEF CountersMatchJobs
<1>5. Places
  <2>1. \A t \in Triggers, u \in Units : ~AtHandler(t, u) /\ ~InQueue(t, u) /\ ~InHand(t, u)
    BY <1>2, FanOutAssumption DEF AtHandler, InQueue, InHand
  <2>2. Hands /\ NoRepeats
    BY <1>2 DEF Hands, Busy, NoRepeats
  <2>3. QED
    BY <2>1, <2>2 DEF Places, Placed, OnePlace, Jobs
<1>6. Unasked
  BY DEF Unasked, Jobs
<1>7. Retained /\ NobodyForgotten /\ Waited /\ ExitCodeIsHonest
  BY FanOutAssumption DEF Retained, Failure, NobodyForgotten, Waited, ExitCodeIsHonest
<1>8. SleeperAwaitsAJob /\ GoneIsStopped
  BY DEF SleeperAwaitsAJob, GoneIsStopped
<1>9. QED
  BY <1>3, <1>4, <1>5, <1>6, <1>7, <1>8 DEF IInv

\* Where every job in flight is, that nobody is forgotten, and what the caller knows when
\* it is told that the ledger is empty.
THEOREM FanOutInvariant == Spec => []IInv
<1>1. IInv /\ [Next]_vars => IInv'
  BY TypesStep, PlacesStep, UnaskedStep, RetainedStep, NobodyForgottenStep, WaitedStep,
     ExitCodeStep, SleeperStep, GoneStep DEF IInv
<1>2. QED
  BY InvariantInit, <1>1, PTL DEF Spec

\* The variables keep their types: no queue is longer than its capacity, no more slots are
\* in use than the gate has, and neither counter goes below zero.
THEOREM FanOutTypes == Spec => []TypeOK
<1>1. IInv => TypeOK
  BY DEF IInv
<1>2. QED
  BY FanOutInvariant, <1>1, PTL

\* pending counts the jobs that are booked and not ended, in whatever hands they are, and
\* tokens the workers that run.
THEOREM CountersAgree == Spec => []CountersMatchJobs
<1>1. IInv => CountersMatchJobs
  BY DEF IInv
<1>2. QED
  BY FanOutInvariant, <1>1, PTL

\* Exit code zero: every unit the startup request was for has collected well, although the
\* ledger of errors is bounded and other triggers write in it.
THEOREM ExitCodeTold == Spec => []ExitCodeIsHonest
<1>1. IInv => ExitCodeIsHonest
  BY DEF IInv
<1>2. QED
  BY FanOutInvariant, <1>1, PTL

\* The sleeper of Wait is never forgotten by the end of a job: as long as it sleeps, a job
\* is in flight.  (What cancelling its context owes it is another matter.)
THEOREM SleeperWaitsForAJob == Spec => []SleeperAwaitsAJob
<1>1. IInv => SleeperAwaitsAJob
  BY DEF IInv
<1>2. QED
  BY FanOutInvariant, <1>1, PTL

\* Handlers blocked on full queues, workers waiting for the gate and units being stopped
\* never wait for one another in a circle, whatever the numbers of each.
THEOREM NoCircleOfWaits == Spec => []SomebodyMoves
BY FanOutInvariant, InvMoves, PTL

waitbar == IF wait \in {"looking", "locked", "asleep"} THEN "waiting" ELSE wait

\* The counter, the condition variable, the mutex and the queues implement the ledger of
\* jobs: the wait returns only when no job is in flight, unless it is interrupted.
THEOREM LedgerImplemented == Spec => ImplementsJobLedger
<1>1. Init => JL!Init
  BY DEF Init, JL!Init
<1>2. ASSUME IInv, [Next]_vars PROVE [JL!Next]_<<outcome, waitbar>>
  <2>0. pending \in Nat
    BY <1>2 DEF IInv, TypeOK
  <2>1. ASSUME NEW j \in Jobs, Books(j) PROVE JL!Begin(j)
    BY <2>1 DEF Books, BeginJob, callerVars, JL!Begin
  <2>2. ASSUME NEW j \in Jobs, Ends(j) PROVE JL!Finish(j)
    BY <2>2 DEF Ends, Finish, JL!Finish
  <2>3. ASSUME UNCHANGED outcome PROVE [JL!Next]_<<outcome, waitbar>>
    <3>1. ASSUME StartWait PROVE JL!StartWait
      BY <2>3, <3>1 DEF StartWait, JL!StartWait
    <3>2. ASSUME LookAtLedger, wait' = "done" PROVE JL!Return
      <4>1. pending = 0 /\ wait = "looking"
        BY <2>0, <3>2 DEF LookAtLedger
      <4>2. \A j \in Jobs : outcome[j] # "inflight"
        BY <1>2, <4>1, EmptyLedger
      <4>3. QED
        BY <2>3, <3>2, <4>1, <4>2 DEF JL!Return
    <3>3. ASSUME LookAtLedger, wait' = "interrupted" PROVE JL!GiveUp
      BY <2>3, <3>3 DEF LookAtLedger, JL!GiveUp
    <3>4. ASSUME LookAtLedger, wait' \notin {"done", "interrupted"} PROVE UNCHANGED waitbar
      BY <2>0, <3>4 DEF LookAtLedger, waitbar
    <3>5. ASSUME \/ FallAsleep \/ EndPass \/ WakeOnCancel \/ UNCHANGED <<wait, exit>>
                 \/ \E j \in Jobs : Ends(j)
          PROVE  UNCHANGED waitbar
      BY <3>5 DEF FallAsleep, EndPass, WakeOnCancel, Ends, Finish, waitbar
    <3>6. QED
      BY <1>2, <2>3, <3>1, <3>2, <3>3, <3>4, <3>5, CallerMoves DEF JL!Next, waitbar
  <2>4. QED
    BY <1>2, <2>1, <2>2, <2>3, JobMoves DEF JL!Next, waitbar
<1>3. QED
  BY FanOutInvariant, <1>1, <1>2, PTL DEF Spec, ImplementsJobLedger, JL!Spec, waitbar

=============================================================================

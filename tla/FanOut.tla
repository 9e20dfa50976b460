------------------------------- MODULE FanOut -------------------------------
(***************************************************************************)
(* Fan-out and fan-in of collection requests: the event handler, job queue *)
(* and worker of every source unit (components/sourceunit), the process-   *)
(* wide gate and in-flight ledger (internal/parallelism) and the caller    *)
(* that runs one pass and waits for it (runOnce in cmd/csv-collector).     *)
(*                                                                         *)
(* A trigger is dispatched by its own goroutine: the startup pass, the     *)
(* scheduler, a watch or an operator.  The event extension calls the       *)
(* handlers of the units one after the other; a handler books the job and  *)
(* puts it in the unit's queue, which blocks while the queue is full.  A   *)
(* job is a pair <<trigger, unit>>; running it is the Collector module's   *)
(* business, here it takes a while and ends well or badly.                 *)
(*                                                                         *)
(* pending and errs are guarded by one mutex.  Only Wait holds it across   *)
(* steps of others that matter: between its look at the context and its    *)
(* falling asleep (wait = "locked").                                       *)
(***************************************************************************)
EXTENDS Integers, Sequences, FiniteSets

CONSTANTS
    Units,        \* source units
    Triggers,     \* requests that may be dispatched
    Startup,      \* the trigger of the pass that is waited for
    Addressed,    \* Addressed[t]: units whose group and id match the request
    QueueCap,     \* capacity of reqCh
    GateSize,     \* max_parallel_sources
    MaxRetained,  \* errors the ledger retains
    Once,         \* TRUE: -once; FALSE: resident, units come and go
    MaxStops,     \* bound: units stopped
    MaxEnds,      \* bound: contexts that end
    NoUnit, NoJob

ASSUME FanOutAssumption ==
    /\ IsFiniteSet(Units) /\ IsFiniteSet(Triggers) /\ Startup \in Triggers
    /\ Addressed \in [Triggers -> SUBSET Units]
    /\ QueueCap \in Nat \ {0}
    /\ GateSize \in Nat \ {0}
    /\ MaxRetained \in Nat \ {0}
    /\ Once \in BOOLEAN
    /\ MaxStops \in Nat /\ MaxEnds \in Nat
    /\ NoUnit \notin Units /\ NoJob \notin Triggers

VARIABLES
    (* dispatching goroutines *)
    toAsk,    \* toAsk[t]: units whose handler is still to be called
    started,  \* triggers whose dispatch has begun
    handler,  \* handler[t]: unit whose handler is putting the job in its queue
    (* units *)
    stopped,  \* units whose worker context is done
    queue,    \* queue[u]: triggers waiting in reqCh
    worker,   \* worker[u]: what the worker does
    running,  \* running[u]: trigger of the job in hand
    (* internal/parallelism *)
    tokens,   \* slots of the gate in use
    pending,  \* jobs in flight, by count
    errs,     \* the errors retained, by job, oldest first
    (* the caller of the pass *)
    wait,     \* progress of Wait
    ended,    \* triggers whose context is done; Startup's is the caller's
    wakeup,   \* the broadcast that follows: "armed" or "spent"
    exit,     \* exit code: "none", "zero" or "nonzero"
    (* history *)
    outcome   \* outcome[j]: what became of job j

dispatchVars == <<toAsk, started, handler>>
unitVars     == <<stopped, queue, worker, running>>
ledgerVars   == <<tokens, pending, errs>>
callerVars   == <<wait, ended, wakeup, exit>>
vars == <<dispatchVars, unitVars, ledgerVars, callerVars, outcome>>

Jobs == Triggers \X Units

WorkerPc == {"idle", "acquiring", "running", "finishing", "draining", "exited"}

ctxDone == Startup \in ended

\* Wait: not entered, looking at the ledger, about to sleep with the mutex
\* held, asleep, returned without and with an error.
WaitPc == {"before", "looking", "locked", "asleep", "done", "interrupted"}

Init ==
    /\ toAsk = [t \in Triggers |-> {}] /\ started = {}
    /\ handler = [t \in Triggers |-> NoUnit]
    /\ stopped = {}
    /\ queue = [u \in Units |-> <<>>]
    /\ worker = [u \in Units |-> "idle"]
    /\ running = [u \in Units |-> NoJob]
    /\ tokens = 0 /\ pending = 0 /\ errs = <<>>
    /\ wait = "before" /\ ended = {} /\ wakeup = "armed" /\ exit = "none"
    /\ outcome = [j \in Jobs |-> "none"]

-----------------------------------------------------------------------------
(* internal/parallelism.                                                   *)

MutexFree == wait # "locked"

BeginJob(j) ==
    /\ MutexFree
    /\ pending' = pending + 1
    /\ outcome' = [outcome EXCEPT ![j] = "inflight"]

\* The oldest error goes when there are too many.
Retain(j) ==
    LET e == Append(errs, j)
    IN  IF Len(e) > MaxRetained THEN SubSeq(e, Len(e) - MaxRetained + 1, Len(e)) ELSE e

\* Mutated: only the job that empties the ledger leaves its error behind.
Finish_LastErrorOnly(j, end) ==
    /\ MutexFree
    /\ errs' = IF end = "failed" /\ pending = 1 THEN Retain(j) ELSE errs
    /\ pending' = pending - 1
    /\ wait' = IF pending' <= 0 /\ wait = "asleep" THEN "looking" ELSE wait
    /\ outcome' = [outcome EXCEPT ![j] = end]
    /\ UNCHANGED <<ended, wakeup, exit>>

\* Mutated: the sleeper is woken for every second job only.
Finish_NoBroadcast(j, end) ==
    /\ MutexFree
    /\ errs' = IF end = "failed" THEN Retain(j) ELSE errs
    /\ pending' = pending - 1
    /\ wait' = IF pending' = 1 /\ wait = "asleep" THEN "looking" ELSE wait
    /\ outcome' = [outcome EXCEPT ![j] = end]
    /\ UNCHANGED <<ended, wakeup, exit>>

\* A job ends: its error is kept, and the last one out wakes the sleeper.
Finish(j, end) ==
    /\ MutexFree
    /\ errs' = IF end = "failed" THEN Retain(j) ELSE errs
    /\ pending' = IF pending > 0 THEN pending - 1 ELSE 0
    /\ wait' = IF pending' = 0 /\ wait = "asleep" THEN "looking" ELSE wait
    /\ outcome' = [outcome EXCEPT ![j] = end]
    /\ UNCHANGED <<ended, wakeup, exit>>

Acquire == MutexFree /\ tokens < GateSize /\ tokens' = tokens + 1
Release == MutexFree /\ tokens' = tokens - 1

-----------------------------------------------------------------------------
(* Dispatch.                                                               *)

\* In the -once process the startup trigger precedes the wait.
Dispatch(t) ==
    /\ t \notin started /\ started' = started \cup {t}
    /\ toAsk' = [toAsk EXCEPT ![t] = Units \ stopped]
    /\ UNCHANGED <<handler, unitVars, ledgerVars, callerVars, outcome>>

\* The handler of a unit the request is not for returns at once.
SkipUnit(t, u) ==
    /\ handler[t] = NoUnit /\ u \in toAsk[t] \ Addressed[t]
    /\ toAsk' = [toAsk EXCEPT ![t] = @ \ {u}]
    /\ UNCHANGED <<started, handler, unitVars, ledgerVars, callerVars, outcome>>

\* The handler books the job before it is in the queue.
EnterHandler(t, u) ==
    /\ handler[t] = NoUnit /\ u \in toAsk[t] \cap Addressed[t]
    /\ toAsk' = [toAsk EXCEPT ![t] = @ \ {u}]
    /\ handler' = [handler EXCEPT ![t] = u]
    /\ BeginJob(<<t, u>>)
    /\ UNCHANGED <<started, unitVars, tokens, errs, callerVars>>

\* Mutated: a full queue drops the job.
Enqueue_DropsWhenFull(t) ==
    /\ handler[t] # NoUnit
    /\ queue' = [queue EXCEPT ![handler[t]] =
                    IF Len(@) < QueueCap THEN Append(@, t) ELSE @]
    /\ handler' = [handler EXCEPT ![t] = NoUnit]
    /\ UNCHANGED <<toAsk, started, stopped, worker, running, ledgerVars,
                   callerVars, outcome>>

\* The send is ready whenever the queue has room, also when the worker is gone.
Enqueue(t) ==
    /\ handler[t] # NoUnit
    /\ Len(queue[handler[t]]) < QueueCap
    /\ queue' = [queue EXCEPT ![handler[t]] = Append(@, t)]
    /\ handler' = [handler EXCEPT ![t] = NoUnit]
    /\ UNCHANGED <<toAsk, started, stopped, worker, running, ledgerVars,
                   callerVars, outcome>>

\* Mutated: the handler does not watch the worker's context.
GiveUp_IgnoresWorker(t) ==
    /\ handler[t] # NoUnit
    /\ t \in ended
    /\ Finish(<<t, handler[t]>>, "failed")
    /\ handler' = [handler EXCEPT ![t] = NoUnit]
    /\ toAsk' \in {toAsk, [toAsk EXCEPT ![t] = {}]}
    /\ UNCHANGED <<started, unitVars, tokens>>

\* The handler gives the job up: the unit is stopped or the dispatching context
\* is done.  Its error may end the dispatch or not.
GiveUp(t) ==
    /\ handler[t] # NoUnit
    /\ handler[t] \in stopped \/ t \in ended
    /\ Finish(<<t, handler[t]>>, "failed")
    /\ handler' = [handler EXCEPT ![t] = NoUnit]
    /\ toAsk' \in {toAsk, [toAsk EXCEPT ![t] = {}]}
    /\ UNCHANGED <<started, unitVars, tokens>>

-----------------------------------------------------------------------------
(* The worker of a unit.                                                   *)

\* Mutated: the worker goes back to its queue without the gate.
TakeJob_NoGate(u) ==
    /\ worker[u] = "idle" /\ queue[u] # <<>>
    /\ running' = [running EXCEPT ![u] = Head(queue[u])]
    /\ queue' = [queue EXCEPT ![u] = Tail(@)]
    /\ worker' = [worker EXCEPT ![u] = "running"]
    /\ UNCHANGED <<dispatchVars, stopped, ledgerVars, callerVars, outcome>>

TakeJob(u) ==
    /\ worker[u] = "idle" /\ queue[u] # <<>>
    /\ running' = [running EXCEPT ![u] = Head(queue[u])]
    /\ queue' = [queue EXCEPT ![u] = Tail(@)]
    /\ worker' = [worker EXCEPT ![u] = "acquiring"]
    /\ UNCHANGED <<dispatchVars, stopped, ledgerVars, callerVars, outcome>>

\* A free slot may be taken even when the context is done as well.
AcquireSlot(u) ==
    /\ worker[u] = "acquiring" /\ Acquire
    /\ worker' = [worker EXCEPT ![u] = "running"]
    /\ UNCHANGED <<dispatchVars, stopped, queue, running, pending, errs,
                   callerVars, outcome>>

RefuseJob(u) ==
    /\ worker[u] = "acquiring" /\ u \in stopped
    /\ Finish(<<running[u], u>>, "failed")
    /\ worker' = [worker EXCEPT ![u] = "idle"]
    /\ running' = [running EXCEPT ![u] = NoJob]
    /\ UNCHANGED <<dispatchVars, stopped, queue, tokens>>

\* Mutated: the slot may stay taken, as when only a job that went well gives it back.
ReleaseSlot_Keeps(u) ==
    /\ worker[u] = "running"
    /\ Release \/ (MutexFree /\ UNCHANGED tokens)
    /\ worker' = [worker EXCEPT ![u] = "finishing"]
    /\ UNCHANGED <<dispatchVars, stopped, queue, running, pending, errs,
                   callerVars, outcome>>

\* Handle returns and the slot is free again.
ReleaseSlot(u) ==
    /\ worker[u] = "running" /\ Release
    /\ worker' = [worker EXCEPT ![u] = "finishing"]
    /\ UNCHANGED <<dispatchVars, stopped, queue, running, pending, errs,
                   callerVars, outcome>>

\* Only then is the job finished.
EndJob(u) ==
    /\ worker[u] = "finishing"
    /\ \E end \in {"ok", "failed"} : Finish(<<running[u], u>>, end)
    /\ worker' = [worker EXCEPT ![u] = "idle"]
    /\ running' = [running EXCEPT ![u] = NoJob]
    /\ UNCHANGED <<dispatchVars, stopped, queue, tokens>>

BeginDrain(u) ==
    /\ worker[u] = "idle" /\ u \in stopped
    /\ worker' = [worker EXCEPT ![u] = "draining"]
    /\ UNCHANGED <<dispatchVars, stopped, queue, running, ledgerVars,
                   callerVars, outcome>>

DrainJob(u) ==
    /\ worker[u] = "draining" /\ queue[u] # <<>>
    /\ Finish(<<Head(queue[u]), u>>, "failed")
    /\ queue' = [queue EXCEPT ![u] = Tail(@)]
    /\ UNCHANGED <<dispatchVars, stopped, worker, running, tokens>>

EndDrain(u) ==
    /\ worker[u] = "draining" /\ queue[u] = <<>>
    /\ worker' = [worker EXCEPT ![u] = "exited"]
    /\ UNCHANGED <<dispatchVars, stopped, queue, running, ledgerVars,
                   callerVars, outcome>>

\* The unit is deactivated: the handler is unsubscribed, a call that is under
\* way goes on, and the worker context is cancelled.  In the -once process
\* that happens when it closes, after the pass.
StopUnit(u) ==
    /\ u \notin stopped /\ stopped' = stopped \cup {u}
    /\ Cardinality(stopped) < MaxStops
    /\ Once => exit # "none"
    /\ toAsk' = [t \in Triggers |-> toAsk[t] \ {u}]
    /\ UNCHANGED <<started, handler, queue, worker, running, ledgerVars,
                   callerVars, outcome>>

-----------------------------------------------------------------------------
(* The caller: dispatch the startup trigger, wait, drain the errors.       *)

Dispatched(t) == t \in started /\ toAsk[t] = {} /\ handler[t] = NoUnit

StartWait ==
    /\ Once /\ wait = "before" /\ Dispatched(Startup)
    /\ wait' = "looking"
    /\ UNCHANGED <<dispatchVars, unitVars, ledgerVars, ended, wakeup, exit, outcome>>

\* Mutated: the wait is over when nothing is running, queued jobs or not.
LookAtLedger_IgnoresQueues ==
    /\ wait = "looking"
    /\ wait' = CASE tokens = 0             -> "done"
                 [] tokens > 0 /\ ctxDone -> "interrupted"
                 [] tokens > 0 /\ ~ctxDone -> "locked"
    /\ UNCHANGED <<dispatchVars, unitVars, ledgerVars, ended, wakeup, exit, outcome>>

\* The ledger is empty, or the context is done, or the mutex stays held while
\* the caller joins the condition's waiters.
LookAtLedger ==
    /\ wait = "looking"
    /\ wait' = CASE pending = 0             -> "done"
                 [] pending > 0 /\ ctxDone -> "interrupted"
                 [] pending > 0 /\ ~ctxDone -> "locked"
    /\ UNCHANGED <<dispatchVars, unitVars, ledgerVars, ended, wakeup, exit, outcome>>

FallAsleep ==
    /\ wait = "locked" /\ wait' = "asleep"
    /\ UNCHANGED <<dispatchVars, unitVars, ledgerVars, ended, wakeup, exit, outcome>>

\* A signal ends the context of the pass, a deactivated scheduler or watch the
\* context of its trigger.
EndContext(t) ==
    /\ t \notin ended /\ Cardinality(ended) < MaxEnds
    /\ ended' = ended \cup {t}
    /\ UNCHANGED <<dispatchVars, unitVars, ledgerVars, wait, wakeup, exit, outcome>>

\* The broadcast that follows the end of the context runs on a goroutine of
\* its own and does not take the mutex.
WakeOnCancel ==
    /\ ctxDone /\ wakeup = "armed" /\ wakeup' = "spent"
    /\ wait \in {"looking", "locked", "asleep"}
    /\ wait' = IF wait = "asleep" THEN "looking" ELSE wait
    /\ UNCHANGED <<dispatchVars, unitVars, ledgerVars, ended, exit, outcome>>

\* DrainErrors, and the exit code of the pass.  The error of the dispatch
\* itself is in the ledger too.
EndPass ==
    /\ wait \in {"done", "interrupted"} /\ exit = "none"
    /\ exit' = IF wait = "interrupted" \/ errs # <<>> THEN "nonzero" ELSE "zero"
    /\ errs' = <<>>
    /\ UNCHANGED <<dispatchVars, unitVars, tokens, pending, wait, ended, wakeup, outcome>>

-----------------------------------------------------------------------------

\* Mutated: the handler sends the job first and books it afterwards, as the comment of
\* Begin has it (internal/parallelism/parallelism.go:64).
DispatchStep_BooksLate(t) ==
    LET u == handler[t]
        sent == (\E k \in DOMAIN queue[u] : queue[u][k] = t) \/ running[u] = t
                    \/ outcome[<<t, u>>] \in {"ok", "failed"}
    IN  \/ \E v \in Units : SkipUnit(t, v)
        \/ /\ u = NoUnit
           /\ \E v \in toAsk[t] \cap Addressed[t] :
                  /\ toAsk' = [toAsk EXCEPT ![t] = @ \ {v}]
                  /\ handler' = [handler EXCEPT ![t] = v]
           /\ UNCHANGED <<started, unitVars, ledgerVars, callerVars, outcome>>
        \/ /\ u # NoUnit /\ ~sent
           /\ Len(queue[u]) < QueueCap
           /\ queue' = [queue EXCEPT ![u] = Append(@, t)]
           /\ UNCHANGED <<dispatchVars, stopped, worker, running, ledgerVars, callerVars,
                          outcome>>
        \/ /\ u # NoUnit /\ sent /\ MutexFree
           /\ pending' = pending + 1
           /\ outcome' = [outcome EXCEPT ![<<t, u>>] = IF @ = "none" THEN "inflight" ELSE @]
           /\ handler' = [handler EXCEPT ![t] = NoUnit]
           /\ UNCHANGED <<toAsk, started, unitVars, tokens, errs, callerVars>>

\* One step of the dispatch: the handlers of the units in turn, each of which
\* books its job, sends it to its queue or gives it up.
DispatchStep(t) ==
    \/ \E u \in Units : SkipUnit(t, u) \/ EnterHandler(t, u)
    \/ Enqueue(t) \/ GiveUp(t)

WorkerStep(u) ==
    \/ TakeJob(u) \/ AcquireSlot(u) \/ RefuseJob(u) \/ ReleaseSlot(u) \/ EndJob(u)
    \/ BeginDrain(u) \/ DrainJob(u) \/ EndDrain(u)

WaitStep == StartWait \/ LookAtLedger \/ FallAsleep \/ EndPass

Next ==
    \/ \E t \in Triggers : Dispatch(t) \/ DispatchStep(t) \/ EndContext(t)
    \/ \E u \in Units : WorkerStep(u) \/ StopUnit(u)
    \/ WaitStep \/ WakeOnCancel

Spec == Init /\ [][Next]_vars

-----------------------------------------------------------------------------
(* Properties.                                                             *)

TypeOK ==
    /\ toAsk \in [Triggers -> SUBSET Units] /\ started \subseteq Triggers
    /\ handler \in [Triggers -> Units \cup {NoUnit}]
    /\ stopped \subseteq Units
    /\ queue \in [Units -> Seq(Triggers)]
    /\ \A u \in Units : Len(queue[u]) <= QueueCap
    /\ worker \in [Units -> WorkerPc]
    /\ running \in [Units -> Triggers \cup {NoJob}]
    /\ tokens \in 0..GateSize /\ pending \in Nat
    /\ errs \in Seq(Jobs) /\ Len(errs) <= MaxRetained
    /\ wait \in WaitPc /\ ended \subseteq Triggers
    /\ wakeup \in {"armed", "spent"} /\ exit \in {"none", "zero", "nonzero"}
    /\ outcome \in [Jobs -> {"none", "inflight", "ok", "failed"}]

\* The two counters of internal/parallelism agree with the jobs they count at
\* every step, because the handler books before it sends (component.go:275, not
\* after the send as parallelism.go:64 says): no worker finishes a job that is
\* not counted yet, a job that a blocked handler holds or that was left behind
\* counts as well, and a slot is in use exactly while a worker runs.
CountersMatchJobs ==
    /\ pending = Cardinality({j \in Jobs : outcome[j] = "inflight"})
    /\ tokens = Cardinality({u \in Units : worker[u] = "running"})

\* The exit code of -once is zero only if every unit the startup request was
\* for has collected well, although its error ledger keeps MaxRetained entries
\* and shares them with other triggers.
ExitCodeIsHonest ==
    exit = "zero" => \A u \in Addressed[Startup] : outcome[<<Startup, u>>] = "ok"

\* Whoever sleeps in Wait, or holds the mutex to fall asleep, has a job to wait for:
\* no job ends between the look at the counter and the sleep, and the end of the
\* last one, in whatever hands it is, leaves no sleeper behind.
SleeperAwaitsAJob == wait \in {"locked", "asleep"} => pending > 0

WorkerMoves(u) ==
    \/ worker[u] \in {"running", "finishing", "draining"}
    \/ worker[u] = "acquiring" /\ (tokens < GateSize \/ u \in stopped)
    \/ worker[u] = "idle" /\ queue[u] # <<>>

HandlerMoves(t) ==
    /\ handler[t] # NoUnit
    /\ Len(queue[handler[t]]) < QueueCap \/ handler[t] \in stopped \/ t \in ended

\* In the queue of a worker that has gone (the jobs JobsEnd excepts).
LeftBehind(t, u) == worker[u] = "exited" /\ \E k \in DOMAIN queue[u] : queue[u][k] = t

\* While a job is in flight and not left behind, a handler or a worker can take a
\* step: full queues, blocked handlers and the gate never wait for each other in a
\* circle, and no slot is lost to a unit that is stopped.
SomebodyMoves ==
    (\E t \in Triggers, u \in Units : outcome[<<t, u>>] = "inflight" /\ ~LeftBehind(t, u)) =>
        (\E u \in Units : WorkerMoves(u)) \/ (\E t \in Triggers : HandlerMoves(t))

\* The counter, the condition variable and the queues implement the ledger of
\* jobs: the wait is over only when no job at all is in flight.
JL == INSTANCE JobLedger
      WITH wait <- IF wait \in {"looking", "locked", "asleep"} THEN "waiting" ELSE wait
ImplementsJobLedger == JL!Spec

\* Fairness: goroutines run, a running job ends, and the -once process dispatches.
\* That a job ends is an assumption about its surroundings: the probe of the host
\* and the database calls have a time limit or a context, plain calls of the
\* operating system on a share that hangs have not.
Fairness ==
    /\ \A t \in Triggers : WF_vars(DispatchStep(t))
    /\ \A u \in Units : WF_vars(WorkerStep(u))
    /\ Once => WF_vars(Dispatch(Startup))
    /\ WF_vars(WaitStep) /\ WF_vars(WakeOnCancel)

FairSpec == Spec /\ Fairness

\* A pass comes to its end, however its jobs, the other triggers, the gate and
\* the full queues interleave, and whether or not it is interrupted.
PassEnds == Once => <>(exit # "none")

\* A dispatch gets through to all units: a full queue holds it up only for a
\* while, and no cycle of blocked handlers and waiting workers forms.
DispatchEnds == \A t \in Triggers : t \in started ~> Dispatched(t)

\* A booked job ends, unless its unit is stopped.
JobsEnd ==
    \A t \in Triggers : \A u \in Addressed[t] :
        outcome[<<t, u>>] = "inflight"
            ~> outcome[<<t, u>>] \in {"ok", "failed"} \/ u \in stopped
-----------------------------------------------------------------------------
(* What the comments promise and the code does not do.                     *)

\* components/sourceunit/component.go:311, the worker settles what is left in
\* its queue, "the ledger has to return to zero".  A handler that is inside its
\* select may still put a job in the queue of a worker that has exited.
ExitedUnitOwesNothing ==
    \A u \in Units :
        worker[u] = "exited" /\ (\A t \in Triggers : handler[t] # u)
            => \A t \in Triggers : outcome[<<t, u>>] # "inflight"

\* internal/parallelism/parallelism.go:94, Wait blocks until the ledger is
\* empty and returns the error of its context when that is cancelled.  The
\* broadcast may come just before the caller falls asleep.
WaitFairSpec == Spec /\ WF_vars(WaitStep) /\ WF_vars(WakeOnCancel)

WaitHonorsCancel ==
    ctxDone /\ wait \in {"looking", "locked", "asleep"} ~> wait \in {"done", "interrupted"}
=============================================================================

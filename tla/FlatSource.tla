------------------------------ MODULE FlatSource ------------------------------
(***************************************************************************)
(* A flat source with its watch trigger: one file that an instrument       *)
(* rewrites (layout = flat), the trigger that watches it (components/      *)
(* watchtrigger), and the source unit that collects it under the date of   *)
(* the run, deduplicated by content hash (app/source, listFlat).           *)
(*                                                                         *)
(* The hash of the last discovered content lives in the source object, the *)
(* ledger in the state file: a process restart or a replaced component     *)
(* forgets the first, a reapplied component neither.  Discovery remembers  *)
(* the hash before the collection it starts has claimed its date.          *)
(*                                                                         *)
(* Size and mtime are compared until the file is open and not any more, so *)
(* a write meets the file before the open, where it is noticed, or while   *)
(* it is read, where it is not.  What Collector models in detail is one    *)
(* step here: the file's batches, and the saves of the ledger, which       *)
(* succeed.  There is no local copy.                                       *)
(*                                                                         *)
(* Bounds: MaxWrites writes of the file, MaxFaults cancellations, crashes, *)
(* failures of share and storage, MaxDay days.                             *)
(***************************************************************************)
EXTENDS RecoveryPlanner

CONSTANTS
    QueueCap,   \* jobs the unit's queue holds (8 in the code)
    MaxWrites,  \* bound: writes and removals of the file
    MaxFaults   \* bound: cancellations, crashes and failures

ASSUME FlatAssumption ==
    /\ \E p \in Paths : Paths = {p}
    /\ QueueCap \in Nat \ {0}
    /\ MaxWrites \in Nat
    /\ MaxFaults \in Nat

VARIABLES
    (* the file and the calendar *)
    content,    \* the file's content, Absent when there is no file
    young,      \* its mtime is inside the stable window
    writes,     \* writes so far
    today,      \* the current business date
    (* the watch loop *)
    event,      \* the watcher holds an event the loop has not read
    timer,      \* the debounce timer is armed
    token,      \* the debounce channel holds its one element
    loop,       \* where the loop is
    owed,       \* history: an event was read and no request delivered since
    (* the unit *)
    queue,      \* jobs in its queue
    pc,         \* where its worker is
    todo,       \* planned dates not yet attempted
    cur,        \* date under collection
    found,      \* content under collection, Absent otherwise
    touched,    \* the file was written since discovery saw its size and mtime, and
                \* is not open yet
    cancelled,  \* the unit's context is done
    lastHash,   \* the source's memory of the last discovered content
    (* the ledger and the sink *)
    mem,        \* the ledger, in memory and in the state file
    stored,     \* <<date, content>> pairs recorded, by the content's identity
    takes,      \* history: recordings since the content last changed or the
                \* source was created
    early,      \* history: one of them was begun under the content before it
    missed,     \* history: the attempt that set lastHash ended without a record
    faults

fileVars  == <<content, young, writes, today>>
watchVars == <<event, timer, token, loop, owed>>
unitVars  == <<queue, pc, todo, cur, found, touched, cancelled, lastHash>>
sinkVars  == <<mem, stored, takes, early, missed>>
vars == <<fileVars, watchVars, unitVars, sinkVars, faults>>

Absent == 0
NoDate == 0

Contents == Versions

\* A hashed identity is source, path and content.
Id(c) == <<CHOOSE p \in Paths : TRUE, c>>

Loop == {"select", "dispatching", "ended"}

Pc == {"down", "idle", "next", "hashing", "opening", "reading"}

Fault == faults < MaxFaults /\ faults' = faults + 1

Init ==
    /\ content \in Contents \cup {Absent} /\ young = FALSE /\ writes = 0 /\ today = 1
    /\ event = FALSE /\ timer = FALSE /\ token = FALSE
    /\ loop = "select" /\ owed = FALSE
    /\ queue = 0 /\ pc = "down" /\ todo = {} /\ cur = NoDate
    /\ found = Absent /\ touched = FALSE /\ cancelled = FALSE
    /\ lastHash = Absent
    /\ mem = EmptyLedger /\ stored = {}
    /\ takes = 0 /\ early = FALSE /\ missed = FALSE
    /\ faults = 0

-----------------------------------------------------------------------------
(* The file.                                                               *)

\* The instrument writes the file, with the same or another content, or
\* removes it.  A removal is no event the loop asks for.
Write(c) ==
    /\ writes < MaxWrites /\ writes' = writes + 1
    /\ c = Absent => content # Absent
    /\ content' = c
    /\ young' = (c # Absent)
    /\ touched' = (pc \in {"hashing", "opening"})
    /\ takes' = IF c = content THEN takes ELSE 0
    /\ early' = (c = content /\ early)
    /\ event' = (event \/ (c # Absent /\ loop # "ended"))
    /\ UNCHANGED <<today, timer, token, loop, owed, queue, pc, todo, cur, found,
                   cancelled, lastHash, mem, stored, missed, faults>>

Settle ==
    /\ young /\ young' = FALSE
    /\ UNCHANGED <<content, writes, today, watchVars, unitVars, sinkVars, faults>>

NextDay ==
    /\ today < MaxDay /\ today' = today + 1
    /\ UNCHANGED <<content, young, writes, watchVars, unitVars, sinkVars, faults>>

\* A lease of 24 hours that began on date d or later runs out on a later day.
LeaseExpires(d) ==
    /\ d < today /\ mem # ExpireIn(mem, d)
    /\ mem' = ExpireIn(mem, d)
    /\ UNCHANGED <<fileVars, watchVars, unitVars, stored, takes, early, missed, faults>>

-----------------------------------------------------------------------------
(* The watch loop.                                                         *)

\* An event of the file (re)arms the debounce timer.
ReadEvent ==
    /\ loop = "select" /\ event
    /\ event' = FALSE /\ timer' = TRUE /\ owed' = TRUE
    /\ UNCHANGED <<fileVars, token, loop, unitVars, sinkVars, faults>>

\* The timer's goroutine sends into a channel of one and drops what does not
\* fit: then an element is waiting anyway.
TimerFires ==
    /\ timer /\ timer' = FALSE
    /\ token' = TRUE
    /\ UNCHANGED <<fileVars, event, loop, owed, unitVars, sinkVars, faults>>

\* The element is taken and whatever timer is armed by now is stopped, even if
\* it is younger than the element; a timer that is just firing still sends.
TakeToken ==
    /\ loop = "select" /\ token
    /\ token' \in {FALSE, timer} /\ timer' = FALSE
    /\ loop' = "dispatching"
    /\ UNCHANGED <<fileVars, event, owed, unitVars, sinkVars, faults>>

\* Mutated: the channel is taken to be unbounded.
DispatchQueued_NoBound ==
    /\ loop = "dispatching" /\ pc # "down"
    /\ queue' = queue + 1
    /\ loop' = "select" /\ owed' = FALSE
    /\ UNCHANGED <<fileVars, event, timer, token, pc, todo, cur, found,
                   touched, cancelled, lastHash, sinkVars, faults>>

\* Mutated: the handler gives up on a full queue.
DispatchQueued_DropsWhenFull ==
    /\ loop = "dispatching" /\ pc # "down"
    /\ queue' = IF queue < QueueCap THEN queue + 1 ELSE queue
    /\ owed' = (queue = QueueCap)
    /\ loop' = "select"
    /\ UNCHANGED <<fileVars, event, timer, token, pc, todo, cur, found, touched,
                   cancelled, lastHash, sinkVars, faults>>

\* The unit's handler puts the request in its queue; a full queue blocks it.
DispatchQueued ==
    /\ loop = "dispatching" /\ pc # "down"
    /\ queue < QueueCap /\ queue' = queue + 1
    /\ loop' = "select" /\ owed' = FALSE
    /\ UNCHANGED <<fileVars, event, timer, token, pc, todo, cur, found, touched,
                   cancelled, lastHash, sinkVars, faults>>

\* No unit listens: the dispatch returns at once and the change is left to the
\* schedule.
DispatchUnheard ==
    /\ loop = "dispatching" /\ pc = "down"
    /\ loop' = "select" /\ owed' = FALSE
    /\ UNCHANGED <<fileVars, event, timer, token, unitVars, sinkVars, faults>>

\* The handler meets the end of its worker and returns the error: the loop
\* returns too, for good.
DispatchRefused ==
    /\ loop = "dispatching" /\ cancelled
    /\ loop' = "ended"
    /\ event' = FALSE /\ timer' = FALSE /\ token' = FALSE
    /\ UNCHANGED <<fileVars, owed, unitVars, sinkVars, faults>>

-----------------------------------------------------------------------------
(* The unit: activation and planning.                                      *)

\* The schedule asks again and again; its request waits while the queue is full.
ScheduleFires ==
    /\ pc # "down" /\ ~cancelled
    /\ queue < QueueCap /\ queue' = queue + 1
    /\ UNCHANGED <<fileVars, watchVars, pc, todo, cur, found, touched, cancelled,
                   lastHash, sinkVars, faults>>

\* The component is applied: with the source object it had when it is the same
\* component, with a new one when it was replaced.
Activate ==
    /\ pc = "down" /\ pc' = "idle"
    /\ \/ UNCHANGED <<lastHash, takes, early, missed>>
       \/ lastHash' = Absent /\ takes' = 0 /\ early' = FALSE /\ missed' = FALSE
    /\ UNCHANGED <<fileVars, watchVars, queue, todo, cur, found, touched,
                   cancelled, mem, stored, faults>>

TakeJob ==
    /\ pc = "idle" /\ ~cancelled /\ queue > 0
    /\ queue' = queue - 1
    /\ todo' = Attempted(mem, today)
    /\ pc' = "next"
    /\ UNCHANGED <<fileVars, watchVars, cur, found, touched, cancelled, lastHash,
                   sinkVars, faults>>

EndOfRun ==
    /\ pc = "next" /\ todo = {}
    /\ pc' = "idle" /\ cur' = NoDate
    /\ UNCHANGED <<fileVars, watchVars, queue, todo, found, touched, cancelled,
                   lastHash, sinkVars, faults>>

\* A cancelled worker settles what is queued and exits.
Stop ==
    /\ cancelled
    /\ pc = "idle" \/ (pc = "next" /\ todo # {})
    /\ pc' = "down" /\ queue' = 0 /\ todo' = {} /\ cur' = NoDate
    /\ cancelled' = FALSE
    /\ UNCHANGED <<fileVars, watchVars, found, touched, lastHash, sinkVars, faults>>

Cancel ==
    /\ pc # "down" /\ ~cancelled /\ Fault
    /\ cancelled' = TRUE
    /\ UNCHANGED <<fileVars, watchVars, queue, pc, todo, cur, found, touched,
                   lastHash, sinkVars>>

\* The process dies and starts again: file, ledger and database remain.
Restart ==
    /\ Fault
    /\ event' = FALSE /\ timer' = FALSE /\ token' = FALSE
    /\ loop' = "select" /\ owed' = FALSE
    /\ queue' = 0 /\ pc' = "down" /\ todo' = {} /\ cur' = NoDate
    /\ found' = Absent /\ touched' = FALSE /\ cancelled' = FALSE
    /\ lastHash' = Absent /\ takes' = 0 /\ early' = FALSE /\ missed' = FALSE
    /\ UNCHANGED <<fileVars, mem, stored>>

-----------------------------------------------------------------------------
(* Discovery.                                                              *)

Probe(d) ==
    /\ pc = "next" /\ ~cancelled
    /\ d \in todo /\ \A e \in todo : d <= e
    /\ todo' = todo \ {d} /\ cur' = d
    /\ UNCHANGED <<fileVars, watchVars, queue, found, cancelled, stored, takes,
                   early>>

\* There is no file, so there is no data for this date.
ProbeNotFound(d) ==
    /\ Probe(d)
    /\ content = Absent
    /\ mem' = DropIn(mem, d)
    /\ UNCHANGED <<pc, touched, lastHash, missed, faults>>

\* Mutated: the instability is folded into an empty success.
ProbeUnstable_Succeeds(d) ==
    /\ Probe(d)
    /\ content # Absent /\ young
    /\ mem' = EndIn(mem, d, "succeeded")
    /\ UNCHANGED <<pc, touched, lastHash, missed, faults>>

\* Mutated: the hash is taken before the window is looked at.
ProbeUnstable_Remembers(d) ==
    /\ Probe(d)
    /\ content # Absent /\ young
    /\ lastHash' = content
    /\ UNCHANGED <<pc, mem, touched, missed, faults>>

\* Still being written: no record, and the next trigger looks again.
ProbeUnstable(d) ==
    /\ Probe(d)
    /\ content # Absent /\ young
    /\ UNCHANGED <<pc, mem, touched, lastHash, missed, faults>>

\* The share cannot be read: the date is claimed and closed as failed.
ProbeUnavailable(d) ==
    /\ Probe(d) /\ Fault
    /\ mem' = IF Claimable(mem, d) THEN EndIn(BeginIn(mem, d), d, "failed") ELSE mem
    /\ UNCHANGED <<pc, touched, lastHash, missed>>

\* Size and mtime are settled; the content is hashed next.
ProbeStable(d) ==
    /\ Probe(d)
    /\ content # Absent /\ ~young
    /\ pc' = "hashing"
    /\ UNCHANGED <<mem, touched, lastHash, missed, faults>>

InAttempt == UNCHANGED <<fileVars, watchVars, queue, todo, cur, cancelled>>

\* On to the next date.
Leave == pc' = "next" /\ found' = Absent /\ touched' = FALSE

\* The file went away before it could be hashed.
HashFails ==
    /\ pc = "hashing" /\ content = Absent
    /\ mem' = IF cancelled THEN mem ELSE DropIn(mem, cur)
    /\ Leave /\ InAttempt
    /\ UNCHANGED <<lastHash, stored, takes, early, missed, faults>>

\* The known content: nothing to record.
HashKnown ==
    /\ pc = "hashing" /\ content # Absent /\ content = lastHash
    /\ Leave /\ InAttempt
    /\ UNCHANGED <<lastHash, sinkVars, faults>>

\* The attempt is over without a record.
Miss ==
    /\ Leave /\ missed' = TRUE
    /\ UNCHANGED <<stored, takes, early>>

\* A new content is to be collected: the date is claimed, or Begin refuses it
\* because it is closed, leased or the context is done.
Claim(c) ==
    \/ /\ ~cancelled /\ Claimable(mem, cur)
       /\ mem' = BeginIn(mem, cur)
       /\ found' = c /\ missed' = FALSE
       /\ pc' = "opening"
       /\ UNCHANGED <<touched, stored, takes, early>>
    \/ /\ cancelled \/ ~Claimable(mem, cur)
       /\ UNCHANGED mem
       /\ Miss

\* Mutated: the hash is compared but not remembered.
HashNew_Forgets ==
    /\ pc = "hashing" /\ content # Absent /\ content # lastHash
    /\ Claim(content)
    /\ InAttempt
    /\ UNCHANGED <<lastHash, faults>>

\* The content is remembered before the collection has claimed its date.
HashNew ==
    /\ pc = "hashing" /\ content # Absent /\ content # lastHash
    /\ lastHash' = content
    /\ Claim(content)
    /\ InAttempt
    /\ UNCHANGED faults

-----------------------------------------------------------------------------
(* Collection.                                                             *)

\* The context ends before the file is through: nothing can be saved any more.
Interrupted ==
    /\ pc \in {"opening", "reading"} /\ cancelled
    /\ Miss /\ InAttempt
    /\ UNCHANGED <<lastHash, mem, faults>>

\* The ledger has the content already: the date closes without a look at the file.
Skip ==
    /\ pc = "opening" /\ ~cancelled
    /\ FileCompleted(mem, cur, Id(found))
    /\ mem' = EndIn(mem, cur, "succeeded")
    /\ Leave /\ InAttempt
    /\ UNCHANGED <<lastHash, stored, takes, early, missed, faults>>

\* The file is opened, its size and mtime before and after being those that
\* discovery saw.
Open ==
    /\ pc = "opening" /\ ~cancelled
    /\ ~FileCompleted(mem, cur, Id(found)) /\ ~touched
    /\ pc' = "reading"
    /\ InAttempt
    /\ UNCHANGED <<found, touched, lastHash, sinkVars, faults>>

Failed == EndIn(MarkFailedIn(mem, cur, Id(found)), cur, "failed")

\* Size or mtime are no longer what discovery saw.
OpenChanged ==
    /\ pc = "opening" /\ ~cancelled
    /\ ~FileCompleted(mem, cur, Id(found)) /\ touched
    /\ mem' = Failed
    /\ Miss /\ InAttempt
    /\ UNCHANGED <<lastHash, faults>>

\* The file cannot be opened, read, parsed or stored.
ReadFails ==
    /\ pc \in {"opening", "reading"} /\ ~cancelled
    /\ ~FileCompleted(mem, cur, Id(found)) /\ Fault
    /\ mem' = Failed
    /\ Miss /\ InAttempt
    /\ UNCHANGED lastHash

\* What was read is in the database and on the ledger, under the hash discovery
\* took, whatever was written to the file since it was opened.
Collect ==
    /\ pc = "reading" /\ ~cancelled
    /\ stored' = stored \cup {<<cur, found>>}
    /\ takes' = takes + 1
    /\ early' = (early \/ content # found)
    /\ mem' = EndIn(MarkCompletedIn(mem, cur, Id(found)), cur, "succeeded")
    /\ Leave /\ InAttempt
    /\ UNCHANGED <<lastHash, missed, faults>>

-----------------------------------------------------------------------------

Watch ==
    \/ ReadEvent \/ TakeToken
    \/ DispatchQueued \/ DispatchUnheard \/ DispatchRefused

Unit ==
    \/ Activate \/ TakeJob \/ EndOfRun \/ Stop
    \/ \E d \in Dates : \/ ProbeNotFound(d) \/ ProbeUnstable(d)
                        \/ ProbeUnavailable(d) \/ ProbeStable(d)
    \/ HashFails \/ HashKnown \/ HashNew
    \/ Skip \/ Open \/ OpenChanged
    \/ Interrupted \/ ReadFails \/ Collect

Environment ==
    \/ \E c \in Contents \cup {Absent} : Write(c)
    \/ \E d \in Dates : LeaseExpires(d)
    \/ NextDay \/ Cancel \/ Restart

Next == Watch \/ TimerFires \/ Unit \/ ScheduleFires \/ Settle \/ Environment

\* The unit's worker runs, timers fire, the stable window passes and the schedule
\* asks again.  The watch loop runs too, and its request, blocked in the handler
\* while the queue is full, is ahead of later senders when there is room (strong
\* fairness).  The instrument, faults and the calendar owe nothing.
Fairness ==
    /\ WF_vars(Unit) /\ SF_vars(Watch)
    /\ WF_vars(TimerFires) /\ WF_vars(Settle) /\ WF_vars(ScheduleFires)

Spec == Init /\ [][Next]_vars /\ Fairness
-----------------------------------------------------------------------------
(* Properties.                                                             *)

TypeOK ==
    /\ content \in Contents \cup {Absent} /\ young \in BOOLEAN
    /\ writes \in 0..MaxWrites /\ today \in Dates
    /\ event \in BOOLEAN /\ timer \in BOOLEAN /\ token \in BOOLEAN
    /\ loop \in Loop /\ owed \in BOOLEAN
    /\ queue \in 0..QueueCap /\ pc \in Pc
    /\ todo \subseteq Dates /\ cur \in Dates \cup {NoDate}
    /\ found \in Contents \cup {Absent} /\ touched \in BOOLEAN
    /\ cancelled \in BOOLEAN /\ lastHash \in Contents \cup {Absent}
    /\ mem \in Ledger /\ stored \subseteq Dates \X Contents
    /\ takes \in Nat /\ early \in BOOLEAN /\ missed \in BOOLEAN
    /\ faults \in 0..MaxFaults

\* Content that does not change is recorded at most once in the life of a source
\* object, however many dates a run plans, days pass and triggers come, and
\* whatever is rewritten with it (source.go:29, docs/CONFIGURATION.md:215); and
\* once more only if it came into the file while the content before it was being
\* read, when its rows go in under that one's hash (source.go:437-446).
UnchangedIsRecordedOnce == takes <= (IF early THEN 2 ELSE 1)

\* A flat date only succeeds with a recording: being unstable, unchanged or gone
\* never closes it (source.go:370, "the late file would be lost for good").
SuccessIsRecorded ==
    \A d \in Dates : mem.status[d] = "succeeded" => \E c \in Contents : <<d, c>> \in stored

\* The source ends up knowing the content that stays in the file, and has it
\* recorded, whether the watch loop still runs or only the schedule is left,
\* unless the one attempt made for this content missed: was refused, interrupted,
\* or failed.  Recorded is meant by its hash: what a write during the read mixes
\* into the rows does not show.
SettledContentIsRecorded ==
    \A c \in Contents :
        <>[](content = c)
            => <>[](lastHash = c /\ (missed \/ \E d \in Dates : <<d, c>> \in stored))

\* An event the loop has read and not announced yet is still on its way: the timer is
\* armed, the channel holds its element, or the loop has taken it and dispatches, which
\* it gives up only when it ends.  Stopping the timer, dropping what does not fit
\* in the channel, and a full queue lose nothing.
OwedIsCarried == owed => timer \/ token \/ loop \in {"dispatching", "ended"}

\* Every event the loop has read is followed by a request that reaches the unit's
\* queue, or finds no unit, although the timer drops what does not fit, taking an
\* element stops the timer that is armed, and the queue may be full; unless the
\* dispatch met a worker that was going away, which ends the loop.
EventsAreAnnounced == owed ~> (~owed \/ loop = "ended")
=============================================================================

--------------------------- MODULE FlatSourceProofs ---------------------------
(***************************************************************************)
(* Proofs about the flat source and its watch trigger, for any contents,   *)
(* dates, queue capacity and collection mode, and any number of writes and *)
(* faults.  What becomes of the content that stays and of the events that  *)
(* were read is liveness, and left to model checking.                      *)
(***************************************************************************)
EXTENDS FlatSource, LedgerLemmas

\* The content under collection is the one the source remembers, and unless the file was
\* touched between discovery and the open, the one in the file then; its date is known.
Reading ==
    /\ pc \in {"hashing", "opening", "reading"} => cur \in Dates
    /\ pc \in {"opening", "reading"} => found \in Contents /\ lastHash = found
    /\ pc = "opening" /\ ~touched => content = found

\* The content in the file has been recorded under its own hash.
Own == takes = (IF early THEN 2 ELSE 1)

\* A content that has been recorded under its own hash is the one the source remembers,
\* so there is nothing to read any more until another takes its place; and once it has
\* been recorded under another's hash, what is being read is this content itself.
Recorded ==
    /\ IF early THEN takes \in {1, 2} ELSE takes \in {0, 1}
    /\ Own => lastHash = content /\ pc \notin {"opening", "reading"}
    /\ early /\ pc = "reading" => found = content

\* A content that is on the ledger is in the database.
LedgerIsStored ==
    \A d \in Dates : \A c \in Contents : Id(c) \in mem.completed[d] => <<d, c>> \in stored

IInv == TypeOK /\ Reading /\ Recorded /\ LedgerIsStored /\ SuccessIsRecorded /\ OwedIsCarried

-----------------------------------------------------------------------------
(* Identities and dates.                                                   *)

\* A content has one identity of its own.
LEMMA Identities ==
    /\ \A c \in Contents : Id(c) \in Files
    /\ \A b, c \in Contents : Id(b) = Id(c) => b = c
BY FlatAssumption DEF Id, Files, Contents

\* The dates that are attempted are dates.
LEMMA AttemptedFacts ==
    ASSUME NEW L, NEW t \in Dates
    PROVE  Attempted(L, t) \subseteq Dates
BY DEF Attempted, Plan, Incomplete, Gap, Window, SucceededUpTo

-----------------------------------------------------------------------------
(* The ledger and the database.                                            *)

\* M records no completion and no success that L does not record.
NoGain(M, L) ==
    /\ M \in Ledger /\ Forgets(M, L)
    /\ \A d \in Dates : M.status[d] = "succeeded" => L.status[d] = "succeeded"

\* No operation but the end of a collection gains anything.
LEMMA LossyOperations ==
    ASSUME NEW L \in Ledger, NEW d \in Dates, NEW f \in Files
    PROVE  /\ NoGain(L, L) /\ NoGain(ExpireIn(L, d), L) /\ NoGain(DropIn(L, d), L)
           /\ NoGain(BeginIn(L, d), L)
           /\ NoGain(EndIn(BeginIn(L, d), d, "failed"), L)
           /\ NoGain(EndIn(MarkFailedIn(L, d, f), d, "failed"), L)
<1>1. ASSUME NEW M \in Ledger, NEW s \in {"none", "running", "failed"}, NEW e \in Dates,
             [M.status EXCEPT ![d] = s][e] = "succeeded"
      PROVE  M.status[e] = "succeeded"
  <2>1. M.status \in [Dates -> Status]
    BY DEF Ledger
  <2>2. QED
    BY <1>1, <2>1
<1>2. NoGain(L, L)
  BY DEF NoGain, Forgets
<1>3. NoGain(ExpireIn(L, d), L)
  BY ExpireFacts DEF NoGain
<1>4. NoGain(DropIn(L, d), L)
  <2>1. DropIn(L, d).status = [L.status EXCEPT ![d] = "none"]
    BY DropFacts
  <2>2. QED
    BY <1>1, <2>1, DropFacts DEF NoGain
<1>5. NoGain(BeginIn(L, d), L)
  <2>1. BeginIn(L, d).status = [L.status EXCEPT ![d] = "running"]
    BY BeginFacts
  <2>2. QED
    BY <1>1, <2>1, BeginFacts DEF NoGain
<1>6. ASSUME NEW M \in Ledger, NoGain(M, L) PROVE NoGain(EndIn(M, d, "failed"), L)
  <2>1. /\ EndIn(M, d, "failed") \in Ledger /\ Forgets(EndIn(M, d, "failed"), M)
        /\ EndIn(M, d, "failed").status = [M.status EXCEPT ![d] = "failed"]
    BY EndFacts
  <2>2. Forgets(EndIn(M, d, "failed"), L)
    BY <1>6, <2>1 DEF NoGain, Forgets
  <2>3. QED
    BY <1>1, <1>6, <2>1, <2>2 DEF NoGain
<1>7. NoGain(MarkFailedIn(L, d, f), L)
  BY MarkFailedFacts DEF NoGain, Forgets
<1>8. QED
  BY <1>2, <1>3, <1>4, <1>5, <1>6, <1>7 DEF NoGain

\* Every step but Collect and Skip leaves the database alone, and the ledger gains nothing.
LEMMA OtherSteps ==
    ASSUME TypeOK, Reading, [Next]_vars, ~Collect, ~Skip
    PROVE  NoGain(mem', mem) /\ UNCHANGED stored
<1> DEFINE Kept == NoGain(mem', mem) /\ UNCHANGED stored
<1>1. mem \in Ledger /\ NoGain(mem, mem)
  BY DEF TypeOK, NoGain, Forgets
<1>2. \A d \in Dates, f \in Files :
          /\ NoGain(ExpireIn(mem, d), mem) /\ NoGain(DropIn(mem, d), mem)
          /\ NoGain(BeginIn(mem, d), mem)
          /\ NoGain(EndIn(BeginIn(mem, d), d, "failed"), mem)
          /\ NoGain(EndIn(MarkFailedIn(mem, d, f), d, "failed"), mem)
  BY <1>1, LossyOperations
<1>3. \E f \in Files : TRUE
  BY Identities, LedgerAssumption DEF Contents, Versions
<1>4. ASSUME Watch \/ TimerFires \/ ScheduleFires \/ Settle PROVE Kept
  BY <1>1, <1>4 DEF Watch, ReadEvent, TakeToken, DispatchQueued, DispatchUnheard, DispatchRefused,
                    TimerFires, ScheduleFires, Settle, sinkVars
<1>5. ASSUME NEW c, Write(c) PROVE Kept
  BY <1>1, <1>5 DEF Write
<1>6. ASSUME NEW d \in Dates, LeaseExpires(d) PROVE Kept
  BY <1>2, <1>3, <1>6 DEF LeaseExpires
<1>7. ASSUME NextDay \/ Cancel \/ Restart PROVE Kept
  BY <1>1, <1>7 DEF NextDay, Cancel, Restart, sinkVars
<1>8. ASSUME Activate \/ TakeJob \/ EndOfRun \/ Stop PROVE Kept
  BY <1>1, <1>8 DEF Activate, TakeJob, EndOfRun, Stop, sinkVars
<1>9. ASSUME NEW d \in Dates, ProbeNotFound(d) PROVE Kept
  BY <1>2, <1>3, <1>9 DEF ProbeNotFound, Probe
<1>10. ASSUME NEW d \in Dates, ProbeUnavailable(d) PROVE Kept
  BY <1>1, <1>2, <1>3, <1>10 DEF ProbeUnavailable, Probe
<1>11. ASSUME NEW d \in Dates, ProbeUnstable(d) \/ ProbeStable(d) PROVE Kept
  BY <1>1, <1>11 DEF ProbeUnstable, ProbeStable, Probe
<1>12. ASSUME pc \in {"hashing", "opening", "reading"} PROVE cur \in Dates
  BY <1>12 DEF Reading
<1>13. ASSUME HashFails PROVE Kept
  BY <1>1, <1>2, <1>3, <1>12, <1>13 DEF HashFails
<1>14. ASSUME HashKnown PROVE Kept
  BY <1>1, <1>14 DEF HashKnown, sinkVars
<1>15. ASSUME HashNew PROVE Kept
  BY <1>1, <1>2, <1>3, <1>12, <1>15 DEF HashNew, Claim, Miss
<1>16. ASSUME Interrupted \/ Open PROVE Kept
  BY <1>1, <1>16 DEF Interrupted, Miss, Open, sinkVars
<1>17. ASSUME OpenChanged \/ ReadFails PROVE Kept
  <2>1. cur \in Dates /\ Id(found) \in Files
    BY <1>12, <1>17, Identities DEF OpenChanged, ReadFails, Reading
  <2>2. mem' = Failed /\ UNCHANGED stored
    BY <1>17 DEF OpenChanged, ReadFails, Miss
  <2>3. QED
    BY <1>2, <2>1, <2>2 DEF Failed
<1>18. CASE UNCHANGED vars
  BY <1>1, <1>18 DEF vars, sinkVars
<1>19. QED
  BY <1>4, <1>5, <1>6, <1>7, <1>8, <1>9, <1>10, <1>11, <1>13, <1>14, <1>15, <1>16, <1>17, <1>18
  DEF Next, Unit, Environment

\* Collect puts the content on the ledger and in the database.
LEMMA CollectStores ==
    ASSUME TypeOK, Reading, LedgerIsStored, Collect
    PROVE  /\ mem' \in Ledger /\ stored' \subseteq Dates \X Contents
           /\ stored \subseteq stored' /\ <<cur, found>> \in stored'
           /\ \A d \in Dates, c \in Contents :
                  Id(c) \in mem'.completed[d] =>
                      Id(c) \in mem.completed[d] \/ <<d, c>> = <<cur, found>>
           /\ \A d \in Dates :
                  mem'.status[d] = "succeeded" => mem.status[d] = "succeeded" \/ d = cur
<1> DEFINE marked == MarkCompletedIn(mem, cur, Id(found))
<1>1. cur \in Dates /\ found \in Contents /\ Id(found) \in Files
  BY Identities DEF Reading, Collect
<1>2. mem \in Ledger /\ stored \subseteq Dates \X Contents
  BY DEF TypeOK
<1>3. /\ marked \in Ledger /\ marked.status = mem.status
      /\ marked.completed = [mem.completed EXCEPT ![cur] = @ \cup {Id(found)}]
  BY <1>1, <1>2, MarkCompletedFacts
<1>4. mem' = EndIn(marked, cur, "succeeded")
  BY DEF Collect
<1> HIDE DEF marked
<1>5. /\ mem' \in Ledger /\ Forgets(mem', marked)
      /\ mem'.status = [marked.status EXCEPT ![cur] = "succeeded"]
  BY <1>1, <1>3, <1>4, EndFacts
<1>6. stored' = stored \cup {<<cur, found>>}
  BY DEF Collect
<1>7. ASSUME NEW d \in Dates, NEW c \in Contents, Id(c) \in mem'.completed[d]
      PROVE  Id(c) \in mem.completed[d] \/ <<d, c>> = <<cur, found>>
  <2>1. Id(c) \in marked.completed[d]
    BY <1>5, <1>7 DEF Forgets
  <2>2. mem.completed \in [Dates -> SUBSET Files]
    BY <1>2 DEF Ledger
  <2>3. CASE d # cur
    BY <1>3, <2>1, <2>2, <2>3
  <2>4. CASE d = cur
    BY <1>1, <1>3, <2>1, <2>2, <2>4, Identities
  <2>5. QED
    BY <2>3, <2>4
<1>8. ASSUME NEW d \in Dates, mem'.status[d] = "succeeded"
      PROVE  mem.status[d] = "succeeded" \/ d = cur
  <2>1. mem.status \in [Dates -> Status]
    BY <1>2 DEF Ledger
  <2>2. QED
    BY <1>3, <1>5, <1>8, <2>1
<1>9. QED
  BY <1>1, <1>2, <1>5, <1>6, <1>7, <1>8

\* Skip closes a date whose content is on the ledger.
LEMMA SkipCloses ==
    ASSUME TypeOK, Reading, LedgerIsStored, SuccessIsRecorded, Skip
    PROVE  /\ mem' \in Ledger /\ stored' = stored
           /\ LedgerIsStored' /\ SuccessIsRecorded'
<1>1. cur \in Dates /\ found \in Contents /\ mem \in Ledger /\ UNCHANGED stored
  BY DEF Reading, Skip, TypeOK
<1>2. /\ mem' \in Ledger /\ Forgets(mem', mem)
      /\ mem'.status = [mem.status EXCEPT ![cur] = "succeeded"]
  BY <1>1, EndFacts DEF Skip
<1>3. LedgerIsStored'
  BY <1>1, <1>2 DEF LedgerIsStored, Forgets
<1>4. <<cur, found>> \in stored
  BY <1>1 DEF Skip, FileCompleted, LedgerIsStored
<1>5. ASSUME NEW d \in Dates, mem'.status[d] = "succeeded"
      PROVE  mem.status[d] = "succeeded" \/ d = cur
  <2>1. mem.status \in [Dates -> Status]
    BY <1>1 DEF Ledger
  <2>2. QED
    BY <1>2, <1>5, <2>1
<1>6. SuccessIsRecorded'
  BY <1>1, <1>4, <1>5 DEF SuccessIsRecorded
<1>7. QED
  BY <1>1, <1>2, <1>3, <1>6

LEMMA LedgerStep ==
    ASSUME IInv, [Next]_vars
    PROVE  /\ mem' \in Ledger /\ stored' \subseteq Dates \X Contents
           /\ LedgerIsStored' /\ SuccessIsRecorded'
<1>1. TypeOK /\ Reading /\ LedgerIsStored /\ SuccessIsRecorded
  BY DEF IInv
<1>2. CASE ~Collect /\ ~Skip
  BY <1>1, <1>2, OtherSteps DEF NoGain, Forgets, LedgerIsStored, SuccessIsRecorded, TypeOK
<1>3. CASE Collect
  <2>1. LedgerIsStored'
    BY <1>1, <1>3, CollectStores DEF LedgerIsStored
  <2>2. SuccessIsRecorded'
    BY <1>1, <1>3, CollectStores DEF SuccessIsRecorded, Reading, Collect
  <2>3. QED
    BY <1>1, <1>3, <2>1, <2>2, CollectStores
<1>4. CASE Skip
  BY <1>1, <1>4, SkipCloses DEF TypeOK
<1>5. QED
  BY <1>2, <1>3, <1>4

-----------------------------------------------------------------------------
(* The types of the rest.                                                  *)

LEMMA FileTypes ==
    ASSUME TypeOK, [Next]_vars
    PROVE  /\ content' \in Contents \cup {Absent} /\ young' \in BOOLEAN
           /\ writes' \in 0..MaxWrites /\ today' \in Dates
<1> DEFINE T == /\ content' \in Contents \cup {Absent} /\ young' \in BOOLEAN
                /\ writes' \in 0..MaxWrites /\ today' \in Dates
<1>1. /\ content \in Contents \cup {Absent} /\ young \in BOOLEAN
      /\ writes \in 0..MaxWrites /\ today \in Dates
      /\ MaxWrites \in Nat /\ MaxDay \in Nat
  BY FlatAssumption, LedgerAssumption DEF TypeOK
<1>2. ASSUME NEW c \in Contents \cup {Absent}, Write(c) PROVE T
  BY <1>1, <1>2 DEF Write
<1>3. CASE Settle
  BY <1>1, <1>3 DEF Settle
<1>4. CASE NextDay
  BY <1>1, <1>4 DEF NextDay, Dates
<1>5. CASE UNCHANGED fileVars
  BY <1>1, <1>5 DEF fileVars
<1>6. ASSUME NEW d \in Dates, LeaseExpires(d) \/ Probe(d) PROVE UNCHANGED fileVars
  BY <1>6 DEF LeaseExpires, Probe
<1>7. ASSUME Cancel \/ Restart \/ Watch \/ TimerFires \/ ScheduleFires \/ UNCHANGED vars
      PROVE  UNCHANGED fileVars
  BY <1>7 DEF Cancel, Restart, Watch, ReadEvent, TakeToken, DispatchQueued, DispatchUnheard,
              DispatchRefused, TimerFires, ScheduleFires, vars
<1>8. ASSUME Unit PROVE UNCHANGED fileVars
  BY <1>6, <1>8 DEF Unit, Activate, TakeJob, EndOfRun, Stop, ProbeNotFound, ProbeUnstable,
                    ProbeUnavailable, ProbeStable, HashFails, HashKnown, HashNew, Interrupted,
                    Skip, Open, OpenChanged, ReadFails, Collect, InAttempt
<1>9. QED
  BY <1>2, <1>3, <1>4, <1>5, <1>6, <1>7, <1>8 DEF Next, Environment

\* No step but those of the watch loop, its timer, the file and a restart touch the watch.
LEMMA WatchMoves ==
    ASSUME [Next]_vars
    PROVE  \/ \E c \in Contents \cup {Absent} : Write(c)
           \/ Watch \/ TimerFires \/ Restart
           \/ UNCHANGED watchVars
<1>1. ASSUME NEW d \in Dates, LeaseExpires(d) \/ Probe(d) PROVE UNCHANGED watchVars
  BY <1>1 DEF LeaseExpires, Probe
<1>2. ASSUME Settle \/ NextDay \/ Cancel \/ ScheduleFires \/ UNCHANGED vars
      PROVE  UNCHANGED watchVars
  BY <1>2 DEF Settle, NextDay, Cancel, ScheduleFires, vars
<1>3. ASSUME Unit PROVE UNCHANGED watchVars
  BY <1>1, <1>3 DEF Unit, Activate, TakeJob, EndOfRun, Stop, ProbeNotFound, ProbeUnstable,
                    ProbeUnavailable, ProbeStable, HashFails, HashKnown, HashNew, Interrupted,
                    Skip, Open, OpenChanged, ReadFails, Collect, InAttempt
<1>4. QED
  BY <1>1, <1>2, <1>3 DEF Next, Environment

LEMMA WatchTypes ==
    ASSUME TypeOK, [Next]_vars
    PROVE  /\ event' \in BOOLEAN /\ timer' \in BOOLEAN /\ token' \in BOOLEAN
           /\ loop' \in Loop /\ owed' \in BOOLEAN
<1> DEFINE T == /\ event' \in BOOLEAN /\ timer' \in BOOLEAN /\ token' \in BOOLEAN
                /\ loop' \in Loop /\ owed' \in BOOLEAN
<1>1. /\ event \in BOOLEAN /\ timer \in BOOLEAN /\ token \in BOOLEAN
      /\ loop \in Loop /\ owed \in BOOLEAN
  BY DEF TypeOK
<1>2. ASSUME NEW c \in Contents \cup {Absent}, Write(c) PROVE T
  BY <1>1, <1>2 DEF Write
<1>3. CASE Watch
  BY <1>1, <1>3 DEF Watch, ReadEvent, TakeToken, DispatchQueued, DispatchUnheard,
                    DispatchRefused, Loop
<1>4. CASE TimerFires \/ Restart
  BY <1>1, <1>4 DEF TimerFires, Restart, Loop
<1>5. CASE UNCHANGED watchVars
  BY <1>1, <1>5 DEF watchVars
<1>6. QED
  BY <1>2, <1>3, <1>4, <1>5, WatchMoves

LEMMA CarriedStep ==
    ASSUME TypeOK, OwedIsCarried, [Next]_vars
    PROVE  OwedIsCarried'
<1>1. loop \in Loop
  BY DEF TypeOK
<1>2. ASSUME NEW c \in Contents \cup {Absent}, Write(c) PROVE OwedIsCarried'
  BY <1>2 DEF Write, OwedIsCarried
<1>3. CASE Watch
  BY <1>1, <1>3 DEF Watch, ReadEvent, TakeToken, DispatchQueued, DispatchUnheard,
                    DispatchRefused, Loop, OwedIsCarried
<1>4. CASE TimerFires \/ Restart
  BY <1>4 DEF TimerFires, Restart, OwedIsCarried
<1>5. CASE UNCHANGED watchVars
  BY <1>5 DEF watchVars, OwedIsCarried
<1>6. QED
  BY <1>2, <1>3, <1>4, <1>5, WatchMoves

\* Where the unit is, and what the history of its attempt says.
UnitTypes ==
    /\ queue \in 0..QueueCap /\ pc \in Pc
    /\ todo \subseteq Dates /\ cur \in Dates \cup {NoDate}
    /\ found \in Contents \cup {Absent} /\ touched \in BOOLEAN
    /\ cancelled \in BOOLEAN /\ lastHash \in Contents \cup {Absent}
    /\ takes \in Nat /\ early \in BOOLEAN /\ missed \in BOOLEAN
    /\ faults \in 0..MaxFaults

LEMMA UnitTypesStep ==
    ASSUME TypeOK, [Next]_vars
    PROVE  UnitTypes'
<1>1. /\ queue \in 0..QueueCap /\ pc \in Pc
      /\ todo \subseteq Dates /\ cur \in Dates \cup {NoDate}
      /\ found \in Contents \cup {Absent} /\ touched \in BOOLEAN
      /\ cancelled \in BOOLEAN /\ lastHash \in Contents \cup {Absent}
      /\ takes \in Nat /\ early \in BOOLEAN /\ missed \in BOOLEAN
      /\ faults \in 0..MaxFaults
      /\ content \in Contents \cup {Absent} /\ today \in Dates
      /\ QueueCap \in Nat \ {0} /\ MaxFaults \in Nat
      /\ 0 \in 0..QueueCap /\ 0 \in Nat
  BY FlatAssumption DEF TypeOK
<1> USE DEF UnitTypes
<1>2. ASSUME NEW c \in Contents \cup {Absent}, Write(c) PROVE UnitTypes'
  BY <1>1, <1>2 DEF Write
<1>3. CASE ReadEvent \/ TakeToken \/ DispatchUnheard \/ DispatchRefused \/ TimerFires \/ Settle
  BY <1>1, <1>3 DEF ReadEvent, TakeToken, DispatchUnheard, DispatchRefused, TimerFires, Settle,
                    unitVars, sinkVars
<1>4. CASE DispatchQueued \/ ScheduleFires
  BY <1>1, <1>4 DEF DispatchQueued, ScheduleFires, sinkVars
<1>5. ASSUME NEW d \in Dates, LeaseExpires(d) PROVE UnitTypes'
  BY <1>1, <1>5 DEF LeaseExpires, unitVars
<1>6. CASE NextDay
  BY <1>1, <1>6 DEF NextDay, unitVars, sinkVars
<1>0. Fault => faults' \in 0..MaxFaults
  BY <1>1 DEF Fault
<1>7. CASE Cancel \/ Restart
  <2>1. faults' \in 0..MaxFaults
    BY <1>0, <1>7 DEF Cancel, Restart
  <2>2. CASE Cancel
    BY <1>1, <2>1, <2>2 DEF Cancel, sinkVars
  <2>3. CASE Restart
    BY <1>1, <2>1, <2>3 DEF Restart, Pc
  <2>4. QED
    BY <1>7, <2>2, <2>3
<1>8. CASE Activate \/ EndOfRun \/ Stop
  <2>1. CASE Activate
    BY <1>1, <2>1 DEF Activate, Pc
  <2>2. CASE EndOfRun
    BY <1>1, <2>2 DEF EndOfRun, Pc, sinkVars
  <2>3. CASE Stop
    BY <1>1, <2>3 DEF Stop, Pc, sinkVars
  <2>4. QED
    BY <1>8, <2>1, <2>2, <2>3
<1>9. CASE TakeJob
  BY <1>1, <1>9, AttemptedFacts DEF TakeJob, Pc, sinkVars
<1>10. ASSUME NEW d \in Dates, ProbeNotFound(d) \/ ProbeUnstable(d) \/ ProbeStable(d)
       PROVE  UnitTypes'
  BY <1>1, <1>10 DEF ProbeNotFound, ProbeUnstable, ProbeStable, Probe, Pc
<1>11. ASSUME NEW d \in Dates, ProbeUnavailable(d) PROVE UnitTypes'
  BY <1>1, <1>11 DEF ProbeUnavailable, Probe, Fault
<1>12. CASE HashFails \/ HashKnown
  BY <1>1, <1>12 DEF HashFails, HashKnown, Leave, InAttempt, Pc, sinkVars
<1>13. CASE HashNew
  BY <1>1, <1>13 DEF HashNew, Claim, Miss, Leave, InAttempt, Pc
<1>14. CASE Interrupted \/ Skip \/ Open \/ OpenChanged
  BY <1>1, <1>14 DEF Interrupted, Skip, Open, OpenChanged, Miss, Leave, InAttempt, Pc, sinkVars
<1>15. CASE ReadFails
  BY <1>0, <1>1, <1>15 DEF ReadFails, Miss, Leave, InAttempt, Pc
<1>16. CASE Collect
  <2>1. takes' \in Nat
    BY <1>1, <1>16 DEF Collect
  <2>2. QED
    BY <1>1, <1>16, <2>1 DEF Collect, Leave, InAttempt, Pc
<1>17. CASE UNCHANGED vars
  BY <1>1, <1>17 DEF vars, unitVars, sinkVars
<1>18. QED
  BY <1>2, <1>3, <1>4, <1>5, <1>6, <1>7, <1>8, <1>9, <1>10, <1>11, <1>12, <1>13, <1>14, <1>15,
     <1>16, <1>17 DEF Next, Watch, Unit, Environment

-----------------------------------------------------------------------------
(* Reading and recording.                                                  *)

LEMMA ReadingStep ==
    ASSUME IInv, [Next]_vars
    PROVE  Reading' /\ Recorded'
<1>1. /\ Reading /\ Recorded /\ content \in Contents \cup {Absent}
      /\ takes \in Nat /\ early \in BOOLEAN
  BY DEF IInv, TypeOK
<1> USE DEF Reading, Recorded, Own
<1>2. ASSUME NEW c \in Contents \cup {Absent}, Write(c) PROVE Reading' /\ Recorded'
  <2>1. UNCHANGED <<pc, cur, found, lastHash>> /\ content' = c
    BY <1>2 DEF Write
  <2>2. Reading'
    BY <1>1, <1>2, <2>1 DEF Write
  <2>3. CASE c = content
    <3>1. takes' = takes /\ early' = early /\ content' = content
      BY <1>1, <1>2, <2>3 DEF Write
    <3>2. QED
      BY <1>1, <2>1, <2>2, <3>1
  <2>4. CASE c # content
    <3>1. takes' = 0 /\ early' = FALSE
      BY <1>2, <2>4 DEF Write
    <3>2. QED
      BY <2>2, <3>1
  <2>5. QED
    BY <2>2, <2>3, <2>4
<1>3. ASSUME UNCHANGED <<content, pc, cur, found, touched, lastHash, takes, early>>
      PROVE  Reading' /\ Recorded'
  BY <1>1, <1>3
<1>4. ASSUME Watch \/ TimerFires \/ ScheduleFires \/ Settle \/ NextDay \/ Cancel
      PROVE  Reading' /\ Recorded'
  BY <1>3, <1>4 DEF Watch, ReadEvent, TakeToken, DispatchQueued, DispatchUnheard, DispatchRefused,
                    TimerFires, ScheduleFires, Settle, NextDay, Cancel, fileVars, unitVars, sinkVars
<1>5. ASSUME NEW d \in Dates, LeaseExpires(d) PROVE Reading' /\ Recorded'
  BY <1>3, <1>5 DEF LeaseExpires, fileVars, unitVars
<1>6. ASSUME Restart \/ Activate \/ TakeJob \/ EndOfRun \/ Stop PROVE Reading' /\ Recorded'
  <2>1. CASE Restart
    BY <2>1 DEF Restart
  <2>2. CASE Activate
    BY <1>1, <2>2 DEF Activate, fileVars
  <2>3. CASE TakeJob \/ EndOfRun \/ Stop
    BY <1>1, <2>3 DEF TakeJob, EndOfRun, Stop, fileVars, sinkVars
  <2>4. QED
    BY <1>6, <2>1, <2>2, <2>3
<1>7. ASSUME NEW d \in Dates,
             \/ ProbeNotFound(d) \/ ProbeUnstable(d) \/ ProbeUnavailable(d) \/ ProbeStable(d)
      PROVE  Reading' /\ Recorded'
  BY <1>1, <1>7 DEF ProbeNotFound, ProbeUnstable, ProbeUnavailable, ProbeStable, Probe, fileVars
<1>8. ASSUME \/ HashFails \/ HashKnown \/ Interrupted \/ Skip \/ Open \/ OpenChanged
             \/ ReadFails
      PROVE  Reading' /\ Recorded'
  BY <1>1, <1>8 DEF HashFails, HashKnown, Interrupted, Skip, Open, OpenChanged, ReadFails,
                    Miss, Leave, InAttempt, fileVars, sinkVars
<1>9. CASE HashNew
  BY <1>1, <1>9 DEF HashNew, Claim, Miss, Leave, InAttempt, fileVars
<1>10. CASE Collect
  <2>1. /\ pc = "reading" /\ pc' = "next" /\ takes' = takes + 1
        /\ UNCHANGED <<content, cur, lastHash>>
    BY <1>10 DEF Collect, Leave, InAttempt, fileVars
  <2>2. ~Own /\ lastHash = found
    BY <1>1, <2>1
  <2>3. CASE content = found
    <3>1. early' = early
      BY <1>1, <1>10, <2>3 DEF Collect
    <3>2. QED
      BY <1>1, <2>1, <2>2, <2>3, <3>1
  <2>4. CASE content # found
    <3>1. early' = TRUE /\ takes = 0
      BY <1>1, <1>10, <2>1, <2>2, <2>4 DEF Collect
    <3>2. QED
      BY <2>1, <3>1
  <2>5. QED
    BY <2>3, <2>4
<1>11. CASE UNCHANGED vars
  BY <1>3, <1>11 DEF vars, fileVars, unitVars, sinkVars
<1>12. QED
  BY <1>2, <1>4, <1>5, <1>6, <1>7, <1>8, <1>9, <1>10, <1>11 DEF Next, Unit, Environment

-----------------------------------------------------------------------------
(* The theorems.                                                           *)

LEMMA InvariantInit == Init => IInv
<1> SUFFICES ASSUME Init PROVE IInv
  OBVIOUS
<1>1. TypeOK
  <2>1. /\ 0 \in 0..MaxWrites /\ 0 \in 0..MaxFaults /\ 0 \in 0..QueueCap
        /\ 1 \in Dates /\ EmptyLedger \in Ledger
    BY FlatAssumption, LedgerAssumption, EmptyLedgerFacts DEF Dates
  <2>2. QED
    BY <2>1 DEF Init, TypeOK, Loop, Pc
<1>2. Reading /\ Recorded
  BY DEF Init, Reading, Recorded, Own
<1>3. LedgerIsStored
  BY EmptyLedgerFacts DEF Init, LedgerIsStored
<1>4. SuccessIsRecorded
  BY DEF Init, SuccessIsRecorded, EmptyLedger
<1>5. OwedIsCarried
  BY DEF Init, OwedIsCarried
<1>6. QED
  BY <1>1, <1>2, <1>3, <1>4, <1>5 DEF IInv

\* What is read is what the source remembers, what was recorded is not read again, and
\* what is on the ledger is in the database.
THEOREM FlatSourceInvariant == Spec => []IInv
<1>1. ASSUME IInv, [Next]_vars PROVE IInv'
  <2>1. TypeOK'
    BY <1>1, FileTypes, WatchTypes, UnitTypesStep, LedgerStep DEF IInv, TypeOK, UnitTypes
  <2>2. QED
    BY <1>1, <2>1, ReadingStep, LedgerStep, CarriedStep DEF IInv
<1>2. QED
  BY InvariantInit, <1>1, PTL DEF Spec

\* The variables keep their types: the queue is never longer than its capacity, and the
\* ledger stays a ledger.
THEOREM FlatSourceTypes == Spec => []TypeOK
<1>1. IInv => TypeOK
  BY DEF IInv
<1>2. QED
  BY FlatSourceInvariant, <1>1, PTL

\* Unchanged content is recorded at most once by a source object, whatever is written,
\* triggered, interrupted or planned meanwhile, and once more only under the hash of the
\* content it replaced while that was being read.
THEOREM RecordedOnce == Spec => []UnchangedIsRecordedOnce
<1>1. IInv => UnchangedIsRecordedOnce
  BY DEF IInv, TypeOK, Recorded, Own, UnchangedIsRecordedOnce
<1>2. QED
  BY FlatSourceInvariant, <1>1, PTL

\* No date of a flat source succeeds without a recording.
THEOREM SuccessRecorded == Spec => []SuccessIsRecorded
<1>1. IInv => SuccessIsRecorded
  BY DEF IInv
<1>2. QED
  BY FlatSourceInvariant, <1>1, PTL

\* An event that was read is never lost between the debounce timer, its channel and the
\* dispatch, however many events and full queues come together.
THEOREM EventsAreCarried == Spec => []OwedIsCarried
<1>1. IInv => OwedIsCarried
  BY DEF IInv
<1>2. QED
  BY FlatSourceInvariant, <1>1, PTL

=============================================================================

-------------------------- MODULE CollectionLedger --------------------------
(***************************************************************************)
(* The collection ledger of one source (app/state): for every business     *)
(* date at most one collection record, the files completed under it and    *)
(* the files whose last attempt failed.  This module holds the ledger as a *)
(* value and what each operation of MemoryState does to it; the modules    *)
(* that run the operations decide when the value reaches the disk.         *)
(*                                                                         *)
(* A file identity is a pair <<path, version>>: source, path, size and     *)
(* mtime identify a file, so a rewrite of the same path is a new identity. *)
(* Timestamps, notes, error texts and attempt counters are left out; of    *)
(* StartedAt only "the lease has run out" is kept (field expired).         *)
(***************************************************************************)
EXTENDS Integers, FiniteSets

CONSTANTS
    MaxDay,      \* business dates are 1..MaxDay
    Paths,       \* paths a date directory may hold
    MaxVersion,  \* a path is rewritten at most MaxVersion - 1 times
    AppendMode   \* collection_mode = "append": success does not close a date

ASSUME LedgerAssumption ==
    /\ MaxDay \in Nat \ {0}
    /\ MaxVersion \in Nat \ {0}
    /\ AppendMode \in BOOLEAN

Dates    == 1..MaxDay
Versions == 1..MaxVersion
Files    == Paths \X Versions

\* "none" is a date without a record.  "skipped" and "pending" are only read
\* from state files an older release wrote.
Status == {"none", "pending", "running", "succeeded", "failed", "skipped"}

Ledger == [status    : [Dates -> Status],
           expired   : [Dates -> BOOLEAN],
           completed : [Dates -> SUBSET Files],
           failed    : [Dates -> SUBSET Files]]

EmptyLedger == [status    |-> [d \in Dates |-> "none"],
                expired   |-> [d \in Dates |-> FALSE],
                completed |-> [d \in Dates |-> {}],
                failed    |-> [d \in Dates |-> {}]]

-----------------------------------------------------------------------------
(* Claiming and closing a collection.                                      *)

\* Mutated: a Running record is never reclaimed.
Claimable_NoLease(L, d) ==
    /\ L.status[d] = "succeeded" => AppendMode
    /\ L.status[d] # "running"

\* A succeeded date is closed (unless appending) and a running one is leased.
Claimable(L, d) ==
    /\ L.status[d] = "succeeded" => AppendMode
    /\ L.status[d] = "running" => L.expired[d]

BeginIn(L, d) == [L EXCEPT !.status[d] = "running", !.expired[d] = FALSE]

\* Mutated: success keeps the failures.
EndIn_KeepsFailures(L, d, status) == [L EXCEPT !.status[d] = status]

\* Success clears the failures that are left: they belong to files that are
\* no longer listed.
EndIn(L, d, status) ==
    [L EXCEPT !.status[d] = status,
              !.failed[d] = IF status = "succeeded" THEN {} ELSE @]

DropIn(L, d) ==
    [L EXCEPT !.status[d] = "none",   !.expired[d] = FALSE,
              !.completed[d] = {},    !.failed[d] = {}]

\* A Running record outlives its lease.
ExpireIn(L, d) ==
    [L EXCEPT !.expired[d] = @ \/ L.status[d] = "running"]

-----------------------------------------------------------------------------
(* Files.                                                                  *)

HasRecord(L, d) == L.status[d] # "none"

FileCompleted(L, d, f) == HasRecord(L, d) /\ f \in L.completed[d]

\* Mutated: the mark takes the place of the path's other marks as well.
MarkCompletedIn_Replaces(L, d, f) ==
    [L EXCEPT !.completed[d] = {g \in @ : g[1] # f[1]} \cup {f},
              !.failed[d] = {g \in @ : g[1] # f[1]}]

\* A completed file retires the failures of every version of its path.
MarkCompletedIn(L, d, f) ==
    [L EXCEPT !.completed[d] = @ \cup {f},
              !.failed[d] = {g \in @ : g[1] # f[1]}]

MarkFailedIn(L, d, f) == [L EXCEPT !.failed[d] = @ \cup {f}]

-----------------------------------------------------------------------------
(* What the planner asks.                                                  *)

\* Mutated: a Running record is never work, stale or not.
Incomplete_NoStale(L, until) ==
    {d \in Dates : d <= until /\ L.status[d] \in {"pending", "failed"}}

\* Dates up to `until` that are work: neither succeeded nor skipped, and not
\* running under a live lease.
Incomplete(L, until) ==
    {d \in Dates : /\ d <= until
                   /\ L.status[d] \in {"pending", "running", "failed"}
                   /\ L.status[d] = "running" => L.expired[d]}

SucceededUpTo(L, before) ==
    {d \in Dates : d <= before /\ L.status[d] = "succeeded"}

-----------------------------------------------------------------------------
(* Loading a state file: records of older releases are converted.          *)

Migrated(L) ==
    [status    |-> [d \in Dates |-> CASE L.status[d] = "skipped" -> "none"
                                      [] L.status[d] = "pending" -> "failed"
                                      [] OTHER -> L.status[d]],
     expired   |-> L.expired,
     completed |-> [d \in Dates |-> IF L.status[d] = "skipped"
                                    THEN {} ELSE L.completed[d]],
     failed    |-> [d \in Dates |-> IF L.status[d] \in {"skipped", "succeeded"}
                                    THEN {} ELSE L.failed[d]]]

\* NewSourceUnit forgets what lies before the start of the source's life.
SweptBefore(L, since) ==
    [status    |-> [d \in Dates |-> IF d < since THEN "none" ELSE L.status[d]],
     expired   |-> [d \in Dates |-> d >= since /\ L.expired[d]],
     completed |-> [d \in Dates |-> IF d < since THEN {} ELSE L.completed[d]],
     failed    |-> [d \in Dates |-> IF d < since THEN {} ELSE L.failed[d]]]
=============================================================================

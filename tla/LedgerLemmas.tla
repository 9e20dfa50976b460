---------------------------- MODULE LedgerLemmas ----------------------------
(***************************************************************************)
(* What each operation of the ledger does to a ledger: it yields a ledger, *)
(* and this is how it changes the status, the completed files and the      *)
(* failures of every date.  The proofs about the collector use these facts *)
(* and never the definitions of the operations.                            *)
(***************************************************************************)
EXTENDS CollectionLedger, TLAPS

\* M records no completion that L does not record.
Forgets(M, L) == \A e \in Dates : M.completed[e] \subseteq L.completed[e]

\* No date of L that succeeded has a failed file.
Clean(L) == \A e \in Dates : L.status[e] = "succeeded" => L.failed[e] = {}

LEMMA EmptyLedgerFacts ==
    /\ EmptyLedger \in Ledger
    /\ \A e \in Dates : EmptyLedger.completed[e] = {}
    /\ Clean(EmptyLedger)
BY DEF EmptyLedger, Ledger, Status, Clean

\* Begin: the date is running and nothing is lost.
LEMMA BeginFacts ==
    ASSUME NEW L \in Ledger, NEW d \in Dates
    PROVE  /\ BeginIn(L, d) \in Ledger
           /\ BeginIn(L, d).status = [L.status EXCEPT ![d] = "running"]
           /\ BeginIn(L, d).status[d] = "running"
           /\ Forgets(BeginIn(L, d), L)
           /\ Clean(L) => Clean(BeginIn(L, d))
BY DEF BeginIn, Ledger, Status, Forgets, Clean

\* End: success clears the failures.
LEMMA EndFacts ==
    ASSUME NEW L \in Ledger, NEW d \in Dates, NEW s \in {"succeeded", "failed"}
    PROVE  /\ EndIn(L, d, s) \in Ledger
           /\ EndIn(L, d, s).status = [L.status EXCEPT ![d] = s]
           /\ Forgets(EndIn(L, d, s), L)
           /\ Clean(L) => Clean(EndIn(L, d, s))
BY DEF EndIn, Ledger, Status, Forgets, Clean

\* Drop: the date is gone.
LEMMA DropFacts ==
    ASSUME NEW L \in Ledger, NEW d \in Dates
    PROVE  /\ DropIn(L, d) \in Ledger
           /\ DropIn(L, d).status = [L.status EXCEPT ![d] = "none"]
           /\ Forgets(DropIn(L, d), L)
           /\ Clean(L) => Clean(DropIn(L, d))
BY DEF DropIn, Ledger, Status, Forgets, Clean

\* The lease: only the expired field changes.
LEMMA ExpireFacts ==
    ASSUME NEW L \in Ledger, NEW d \in Dates
    PROVE  /\ ExpireIn(L, d) \in Ledger
           /\ ExpireIn(L, d).status = L.status
           /\ Forgets(ExpireIn(L, d), L)
           /\ Clean(L) => Clean(ExpireIn(L, d))
<1> DEFINE b == L.expired[d] \/ L.status[d] = "running"
<1>1. ExpireIn(L, d) = [L EXCEPT !.expired[d] = b]
  BY DEF ExpireIn
<1>2. b \in BOOLEAN
  OBVIOUS
<1> HIDE DEF b
<1>3. QED
  BY <1>1, <1>2 DEF Ledger, Status, Forgets, Clean

\* MarkFileCompleted: one more completed file, fewer failures.
LEMMA MarkCompletedFacts ==
    ASSUME NEW L \in Ledger, NEW d \in Dates, NEW f \in Files
    PROVE  /\ MarkCompletedIn(L, d, f) \in Ledger
           /\ MarkCompletedIn(L, d, f).status = L.status
           /\ MarkCompletedIn(L, d, f).completed =
                [L.completed EXCEPT ![d] = @ \cup {f}]
           /\ Clean(L) => Clean(MarkCompletedIn(L, d, f))
<1> DEFINE c == [L.completed EXCEPT ![d] = @ \cup {f}]
           g == [L.failed EXCEPT ![d] = {x \in @ : x[1] # f[1]}]
           M == MarkCompletedIn(L, d, f)
<1>1. M = [L EXCEPT !.completed = c, !.failed = g]
  BY DEF MarkCompletedIn, Ledger
<1>2. L.completed \in [Dates -> SUBSET Files] /\ L.failed \in [Dates -> SUBSET Files]
  BY DEF Ledger
<1>3. c \in [Dates -> SUBSET Files]
  BY <1>2
<1>4. g \in [Dates -> SUBSET Files] /\ \A e \in Dates : g[e] \subseteq L.failed[e]
  BY <1>2
<1> HIDE DEF c, g, M
<1>5. M \in Ledger /\ M.status = L.status /\ M.completed = c /\ M.failed = g
  BY <1>1, <1>3, <1>4 DEF Ledger
<1>6. Clean(L) => Clean(M)
  BY <1>4, <1>5 DEF Clean
<1>7. QED
  BY <1>5, <1>6 DEF c, M

\* MarkFileFailed: one more failed file of that date.
LEMMA MarkFailedFacts ==
    ASSUME NEW L \in Ledger, NEW d \in Dates, NEW f \in Files
    PROVE  /\ MarkFailedIn(L, d, f) \in Ledger
           /\ MarkFailedIn(L, d, f).status = L.status
           /\ MarkFailedIn(L, d, f).completed = L.completed
           /\ Clean(L) /\ L.status[d] # "succeeded" => Clean(MarkFailedIn(L, d, f))
BY DEF MarkFailedIn, Ledger, Status, Clean

\* Loading: nothing is completed that was not, and succeeded dates come clean.
LEMMA MigratedFacts ==
    ASSUME NEW L \in Ledger
    PROVE  /\ Migrated(L) \in Ledger
           /\ Forgets(Migrated(L), L)
           /\ Clean(Migrated(L))
BY DEF Migrated, Ledger, Status, Forgets, Clean

\* The sweep of an activation keeps the dates from since on as they are.
LEMMA SweptFacts ==
    ASSUME NEW L \in Ledger, NEW since \in Nat
    PROVE  /\ SweptBefore(L, since) \in Ledger
           /\ Forgets(SweptBefore(L, since), L)
           /\ Clean(L) => Clean(SweptBefore(L, since))
BY DEF SweptBefore, Ledger, Status, Forgets, Clean
=============================================================================

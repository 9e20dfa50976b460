---------------------------- MODULE ConsoleProofs ----------------------------
(***************************************************************************)
(* Proofs about the console: what its pages show, and what its commands    *)
(* leave of the desired state, for any number of operators, components and *)
(* operations.                                                             *)
(*                                                                         *)
(* Two inductive invariants.  PageInv, of the pages: a load is asked for   *)
(* together and shown together, and a chart that is not stale was drawn    *)
(* from the collections on the page.  OverlayInv, of the host, is that of  *)
(* HostOverlayProofs, with a lemma there for each of the host's steps; here*)
(* the steps are put together.                                             *)
(*                                                                         *)
(* What the page computes from its rows are folds.  The library proves     *)
(* induction over data of a predicate parameter, which the provers here    *)
(* cannot instantiate; the first section states it of sets instead, from   *)
(* WFMin (a non-empty set of numbers has a least element).                 *)
(***************************************************************************)
EXTENDS Console, HostOverlayProofs, WellFoundedInduction

-----------------------------------------------------------------------------
(* Folds, sums and sorted sets.                                            *)

\* Stated of sets of numbers, not of a predicate, so that it can be used.
LEMMA Least ==
    ASSUME NEW T \in SUBSET Nat, T # {} PROVE \E m \in T : \A n \in T : m <= n
<1> DEFINE R == {ss \in Nat \X Nat : ss[1] < ss[2]}
<1>1. IsWellFoundedOn(R, Nat)
  BY NatLessThanWellFounded DEF OpToRel
<1>2. \E m \in T : \A n \in T : <<n, m>> \notin R
  <2> HIDE DEF R
  <2>1. QED
    BY <1>1, WFMin
<1>3. \A m, n \in Nat : <<n, m>> \notin R => m <= n
  OBVIOUS
<1>4. QED
  BY <1>2, <1>3

\* Induction over a finite set D, the hypothesis being a set T of its subsets.
LEMMA FiniteInduction ==
    ASSUME NEW D, IsFiniteSet(D), NEW T, {} \in T,
           \A s \in SUBSET D : s \in T => \A x \in D \ s : s \cup {x} \in T
    PROVE D \in T
<1> DEFINE Rest(s) == Cardinality(D \ s)
           C == {Rest(s) : s \in (SUBSET D) \cap T}
<1>1. \A s \in SUBSET D : IsFiniteSet(D \ s) /\ Rest(s) \in Nat
  BY FS_Subset, FS_CardinalityType
<1>2. C \in SUBSET Nat /\ C # {}
  BY <1>1
<1>3. PICK m \in C : \A n \in C : m <= n
  <2> HIDE DEF C
  <2>1. QED
    BY <1>2, Least
<1>4. PICK s \in (SUBSET D) \cap T : Rest(s) = m
  OBVIOUS
<1>5. CASE s = D
  BY <1>5
<1>6. CASE s # D
  <2>1. PICK x \in D \ s : TRUE
    BY <1>4, <1>6
  <2>2. s \cup {x} \in (SUBSET D) \cap T
    BY <2>1, <1>4
  <2>3. D \ (s \cup {x}) = (D \ s) \ {x}
    OBVIOUS
  <2>4. Cardinality((D \ s) \ {x}) = Cardinality(D \ s) - 1
    BY <2>1, <1>1, FS_RemoveElement
  <2>5. Rest(s \cup {x}) = Rest(s) - 1
    BY <2>4, <2>3
  <2>6. Rest(s \cup {x}) \in C
    BY <2>2
  <2>7. Rest(s) \in Nat
    BY <1>1, <1>4
  <2> HIDE DEF Rest, C
  <2>8. QED
    BY <2>5, <2>6, <2>7, <1>3, <1>4
<1>7. QED
  BY <1>5, <1>6

\* Two functions of the subsets of D are equal ...
\* Two functions on the subsets of D agree on a set if they do on one that has an
\* element less.  Folds are such functions, and so is what they are said to compute.
AgreeByStep(F, G, D) ==
    /\ F[{}] = G[{}]
    /\ \A s \in SUBSET D :
           s # {} => \E x \in s : F[s \ {x}] = G[s \ {x}] => F[s] = G[s]

LEMMA SameOnSubsets ==
    ASSUME NEW D, IsFiniteSet(D), NEW F, NEW G, AgreeByStep(F, G, D)
    PROVE  \A s \in SUBSET D : F[s] = G[s]
<1> DEFINE Bad == {s \in SUBSET D : F[s] # G[s]}
           C == {Cardinality(s) : s \in Bad}
<1>1. \A s \in SUBSET D : IsFiniteSet(s) /\ Cardinality(s) \in Nat
  BY FS_Subset, FS_CardinalityType
<1>2. SUFFICES ASSUME Bad # {} PROVE FALSE
  OBVIOUS
<1>3. C \in SUBSET Nat /\ C # {}
  BY <1>1, <1>2
<1>4. PICK m \in C : \A n \in C : m <= n
  <2> HIDE DEF C
  <2>1. QED
    BY <1>3, Least
<1>5. PICK s \in Bad : Cardinality(s) = m
  OBVIOUS
<1>6. s \in SUBSET D /\ s # {}
  BY DEF AgreeByStep
<1>7. PICK x \in s : F[s \ {x}] = G[s \ {x}] => F[s] = G[s]
  BY <1>6 DEF AgreeByStep
<1>8. s \ {x} \in Bad
  BY <1>7
<1>9. Cardinality(s \ {x}) \in C
  BY <1>8
<1>10. Cardinality(s \ {x}) = Cardinality(s) - 1
  BY <1>1, <1>6, <1>7, FS_RemoveElement
<1> HIDE DEF C
<1>11. QED
  BY <1>1, <1>4, <1>5, <1>6, <1>9, <1>10

\* A function that sums up f over the subsets of D.
SumsUp(F, f, D) ==
    /\ F \in [SUBSET D -> Nat]
    /\ F[{}] = 0
    /\ \A s \in SUBSET D : \A x \in s : F[s] = f[x] + F[s \ {x}]

LEMMA SumExists ==
    ASSUME NEW D, IsFiniteSet(D), NEW f \in [D -> Nat]
    PROVE  \E F : SumsUp(F, f, D)
<1> DEFINE Sums(E, F) == F[{}] = 0 /\ \A s \in SUBSET E : \A x \in s : F[s] = f[x] + F[s \ {x}]
           T == {E \in SUBSET D : \E F \in [SUBSET E -> Nat] : Sums(E, F)}
<1>1. {} \in T
  <2>1. [s \in SUBSET {} |-> 0] \in [SUBSET {} -> Nat] /\ Sums({}, [s \in SUBSET {} |-> 0])
    OBVIOUS
  <2>2. QED
    BY <2>1
<1>2. ASSUME NEW E \in SUBSET D, E \in T, NEW x \in D \ E PROVE E \cup {x} \in T
  <2>1. PICK F \in [SUBSET E -> Nat] : Sums(E, F)
    BY <1>2
  <2> DEFINE G == [s \in SUBSET (E \cup {x}) |-> IF x \in s THEN f[x] + F[s \ {x}] ELSE F[s]]
  <2>2. \A s \in SUBSET (E \cup {x}) : s \ {x} \in SUBSET E /\ (x \notin s => s \in SUBSET E)
    OBVIOUS
  <2>3. f[x] \in Nat /\ \A y \in E : f[y] \in Nat
    BY <1>2
  <2>4. G \in [SUBSET (E \cup {x}) -> Nat]
    BY <2>2, <2>3
  <2>5. G[{}] = 0
    BY <2>1
  <2>6. ASSUME NEW s \in SUBSET (E \cup {x}), NEW y \in s PROVE G[s] = f[y] + G[s \ {y}]
    <3>1. CASE y = x
      <4>1. G[s] = f[x] + F[s \ {x}]
        BY <2>6, <3>1
      <4>2. G[s \ {y}] = F[s \ {x}]
        BY <2>6, <3>1
      <4>3. QED
        BY <4>1, <4>2, <3>1
    <3>2. CASE y # x /\ x \in s
      <4>1. G[s] = f[x] + F[s \ {x}]
        BY <2>6, <3>2
      <4>2. F[s \ {x}] = f[y] + F[(s \ {x}) \ {y}]
        BY <2>1, <2>2, <2>6, <3>2
      <4>3. G[s \ {y}] = f[x] + F[(s \ {y}) \ {x}]
        BY <2>6, <3>2
      <4>4. (s \ {y}) \ {x} = (s \ {x}) \ {y} /\ (s \ {x}) \ {y} \in SUBSET E /\ y \in E
        BY <2>2, <2>6, <3>2
      <4>5. F[(s \ {x}) \ {y}] \in Nat /\ f[y] \in Nat
        BY <4>4, <2>3
      <4>6. f[x] \in Nat
        BY <2>3
      <4>7. G[s \ {y}] = f[x] + F[(s \ {x}) \ {y}]
        BY <4>3, <4>4
      <4>8. PICK n \in Nat : n = F[(s \ {x}) \ {y}]
        BY <4>5
      <4>9. G[s] = f[x] + (f[y] + n) /\ G[s \ {y}] = f[x] + n
        BY <4>1, <4>2, <4>7, <4>8
      <4>10. f[x] + (f[y] + n) = f[y] + (f[x] + n)
        BY <4>5, <4>6
      <4>11. QED
        BY <4>9, <4>10
    <3>3. CASE x \notin s
      <4>1. G[s] = F[s] /\ G[s \ {y}] = F[s \ {y}]
        BY <2>6, <3>3
      <4>2. F[s] = f[y] + F[s \ {y}]
        BY <2>1, <2>2, <2>6, <3>3
      <4>3. QED
        BY <4>1, <4>2
    <3>4. QED
      BY <3>1, <3>2, <3>3
  <2>7. Sums(E \cup {x}, G)
    BY <2>5, <2>6
  <2> HIDE DEF G, Sums
  <2>8. QED
    BY <2>4, <2>7, <1>2
<1>3. D \in T
  <2> HIDE DEF T
  <2>1. QED
    BY <1>1, <1>2, FiniteInduction
<1>4. QED
  BY <1>3 DEF SumsUp

\* A fold over a sequence takes the last position first.
LEMMA Greatest ==
    ASSUME NEW S \in SUBSET Nat, IsFiniteSet(S), S # {}
    PROVE  Max(S) \in S /\ \A j \in S : j <= Max(S)
<1> DEFINE T == {t \in SUBSET S : t = {} \/ \E m \in t : \A j \in t : j <= m}
<1>1. {} \in T
  OBVIOUS
<1>2. ASSUME NEW t \in SUBSET S, t \in T, NEW x \in S \ t PROVE t \cup {x} \in T
  <2>1. CASE t = {}
    <3>1. \A j \in t \cup {x} : j <= x
      BY <2>1
    <3>2. QED
      BY <3>1, <1>2
  <2>2. CASE t # {}
    <3>1. PICK m \in t : \A j \in t : j <= m
      BY <1>2, <2>2
    <3>2. x \in Nat /\ m \in Nat /\ \A j \in t : j \in Nat
      BY <1>2
    <3>3. CASE x <= m
      <4>1. \A j \in t \cup {x} : j <= m
        BY <3>1, <3>3
      <4>2. QED
        BY <4>1, <1>2
    <3>4. CASE m <= x
      <4>1. \A j \in t \cup {x} : j <= x
        BY <3>1, <3>2, <3>4
      <4>2. QED
        BY <4>1, <1>2
    <3>5. QED
      BY <3>2, <3>3, <3>4
  <2>3. QED
    BY <2>1, <2>2
<1>3. S \in T
  <2> HIDE DEF T
  <2>1. QED
    BY <1>1, <1>2, FiniteInduction
<1>4. PICK m \in S : \A j \in S : j <= m
  BY <1>3
<1>5. \A j \in S : m >= j
  BY <1>4
<1>6. Max(S) \in S /\ \A j \in S : Max(S) >= j
  BY <1>5 DEF Max
<1>7. QED
  BY <1>6

\* The library's sum of a function is what sums it up, in whatever order it adds.
LEMMA SumIs ==
    ASSUME NEW D, IsFiniteSet(D), NEW f, NEW R, SumsUp(R, f, D), NEW S \in SUBSET D
    PROVE  SumFunctionOnSet(f, S) = R[S]
<1> DEFINE Pick(s) == CHOOSE x \in s : TRUE
           Step(F, s) == IF s = {} THEN 0 ELSE f[Pick(s)] + F[s \ {Pick(s)}]
           Folds(F) == F = [s \in SUBSET S |-> Step(F, s)]
           G == [s \in SUBSET S |-> R[s]]
           F == CHOOSE F : Folds(F)
<1>1. SumFunctionOnSet(f, S) = F[S]
  BY DEF SumFunctionOnSet, FoldFunctionOnSet, MapThenFoldSet
<1>2. IsFiniteSet(S)
  BY FS_Subset
<1>3. ASSUME NEW s \in SUBSET S PROVE G[s] = Step(G, s)
  <2>1. CASE s = {}
    BY <2>1 DEF SumsUp
  <2>2. CASE s # {}
    <3>1. Pick(s) \in s
      BY <2>2
    <3> HIDE DEF Pick
    <3>2. s \in SUBSET D /\ s \ {Pick(s)} \in SUBSET S
      OBVIOUS
    <3>3. R[s] = f[Pick(s)] + R[s \ {Pick(s)}]
      BY <3>1, <3>2 DEF SumsUp
    <3>4. QED
      BY <2>2, <3>2, <3>3
  <2>3. QED
    BY <2>1, <2>2
<1>4. Folds(G)
  <2> HIDE DEF Step
  <2>1. G = [s \in SUBSET S |-> G[s]]
    OBVIOUS
  <2>2. QED
    BY <1>3, <2>1
<1>5. Folds(F)
  <2> HIDE DEF Folds, G
  <2>1. QED
    BY <1>4
<1>6. \A s \in SUBSET S : F[s] = Step(F, s)
  <2> HIDE DEF F, Step
  <2>1. QED
    BY <1>5
<1>7. AgreeByStep(F, G, S)
  <2>1. F[{}] = G[{}]
    BY <1>3, <1>6
  <2>2. ASSUME NEW s \in SUBSET S, s # {}
        PROVE  \E x \in s : F[s \ {x}] = G[s \ {x}] => F[s] = G[s]
    <3>1. Pick(s) \in s
      BY <2>2
    <3> HIDE DEF Pick
    <3>2. F[s \ {Pick(s)}] = G[s \ {Pick(s)}] => Step(F, s) = Step(G, s)
      <4> HIDE DEF F, G
      <4>1. QED
        BY <2>2
    <3> HIDE DEF F, G, Step
    <3>3. QED
      BY <1>3, <1>6, <2>2, <3>1, <3>2
  <2> HIDE DEF F, G
  <2>3. QED
    BY <2>1, <2>2 DEF AgreeByStep
<1>8. F[S] = G[S]
  <2> HIDE DEF F, G
  <2>1. QED
    BY <1>2, <1>7, SameOnSubsets
<1> HIDE DEF F
<1>9. QED
  BY <1>1, <1>8

\* The cards count the rows of their level.
LEMMA CardsCount ==
    ASSUME NEW n \in Nat, NEW rows, DOMAIN rows = 1..n
    PROVE  \A l \in Levels : Cards(rows)[l] = Cardinality({i \in DOMAIN rows : rows[i].level = l})
<1> DEFINE D == 1..n
           Of(s, l) == {i \in s : rows[i].level = l}
           Step(F, s) == IF s = {} THEN [l \in Levels |-> 0]
                         ELSE IF rows[Max(s)].level \in Levels
                              THEN [F[s \ {Max(s)}] EXCEPT ![rows[Max(s)].level] = @ + 1]
                              ELSE F[s \ {Max(s)}]
           Folds(F) == F = [s \in SUBSET D |-> Step(F, s)]
           G == [s \in SUBSET D |-> [l \in Levels |-> Cardinality(Of(s, l))]]
<1>1. Cards(rows) = (CHOOSE F : Folds(F))[D]
  BY DEF Cards, FoldLeft, MapThenFoldSet
<1>2. IsFiniteSet(D) /\ D \in SUBSET Nat
  BY FS_Interval
<1>3. ASSUME NEW s \in SUBSET D, s # {} PROVE G[s] = Step(G, s)
  <2> DEFINE x == Max(s)
             r == s \ {x}
  <2>1. x \in s
    BY <1>2, <1>3, FS_Subset, Greatest
  <2>2. r \in SUBSET D
    OBVIOUS
  <2> HIDE DEF x
  <2>3. ASSUME NEW l \in Levels
        PROVE  Cardinality(Of(s, l)) = IF rows[x].level = l THEN Cardinality(Of(r, l)) + 1
                                       ELSE Cardinality(Of(r, l))
    <3>1. IsFiniteSet(Of(r, l)) /\ Of(r, l) \subseteq r /\ x \notin Of(r, l)
      BY <1>2, <2>2, FS_Subset
    <3>2. CASE rows[x].level = l
      <4>1. Of(s, l) = Of(r, l) \cup {x}
        BY <2>1, <3>2
      <4> HIDE DEF Of
      <4>2. QED
        BY <3>1, <3>2, <4>1, FS_AddElement
    <3>3. CASE rows[x].level # l
      <4>1. Of(s, l) = Of(r, l)
        BY <2>1, <3>3
      <4>2. QED
        BY <3>3, <4>1
    <3>4. QED
      BY <3>2, <3>3
  <2> HIDE DEF Of
  <2>4. G[s] = [l \in Levels |-> Cardinality(Of(s, l))] /\ G[r] = [l \in Levels |-> Cardinality(Of(r, l))]
    BY <2>2
  <2>5. Step(G, s) = IF rows[x].level \in Levels THEN [G[r] EXCEPT ![rows[x].level] = @ + 1] ELSE G[r]
    BY <1>3 DEF x
  <2> HIDE DEF G, Step, r
  <2>6. QED
    BY <2>3, <2>4, <2>5
<1>4. G[{}] = Step(G, {})
  <2>1. \A l \in Levels : Of({}, l) = {}
    OBVIOUS
  <2> HIDE DEF Of
  <2>2. QED
    BY <2>1, FS_EmptySet
<1>5. Folds(G)
  <2> HIDE DEF Step
  <2>1. \A s \in SUBSET D : G[s] = Step(G, s)
    BY <1>3, <1>4
  <2>2. G = [s \in SUBSET D |-> G[s]]
    OBVIOUS
  <2>3. QED
    BY <2>1, <2>2
<1> DEFINE F == CHOOSE F : Folds(F)
<1>6. Folds(F)
  <2> HIDE DEF Folds, G
  <2>1. QED
    BY <1>5
<1>7. \A s \in SUBSET D : F[s] = Step(F, s)
  <2> HIDE DEF F, Step
  <2>1. QED
    BY <1>6
<1>8. \A s \in SUBSET D : F[s] = G[s]
  <2>1. F[{}] = G[{}]
    BY <1>4, <1>7
  <2>2. ASSUME NEW s \in SUBSET D, s # {}
        PROVE  \E x \in s : F[s \ {x}] = G[s \ {x}] => F[s] = G[s]
    <3>1. Max(s) \in s
      BY <1>2, <2>2, FS_Subset, Greatest
    <3>2. F[s \ {Max(s)}] = G[s \ {Max(s)}] => Step(F, s) = Step(G, s)
      <4> HIDE DEF F, G
      <4>1. QED
        BY <2>2
    <3> HIDE DEF F, G, Step
    <3>3. QED
      BY <1>3, <1>7, <2>2, <3>1, <3>2
  <2> HIDE DEF D, F, G
  <2>3. AgreeByStep(F, G, D)
    BY <2>1, <2>2 DEF AgreeByStep
  <2>4. IsFiniteSet(D)
    BY <1>2
  <2>5. QED
    BY <2>3, <2>4, SameOnSubsets
<1>9. Cards(rows) = [l \in Levels |-> Cardinality(Of(D, l))]
  <2>1. Cards(rows) = F[D]
    BY <1>1
  <2>2. F[D] = G[D]
    <3> HIDE DEF F, G
    <3>1. QED
      BY <1>8
  <2> HIDE DEF F
  <2>3. QED
    BY <2>1, <2>2
<1>10. QED
  BY <1>9

CollectionRow == [date : Nat, records : Nat, filesFailed : Nat]

LEMMA RowsFacts ==
    ASSUME NEW rows \in Seq(CollectionRow)
    PROVE  /\ IsFiniteSet(DOMAIN rows)
           /\ \A i \in DOMAIN rows :
                /\ Records(rows)[i] = rows[i].records /\ rows[i].records \in Nat
                /\ FailedFiles(rows)[i] = rows[i].filesFailed /\ rows[i].filesFailed \in Nat
           /\ DOMAIN rows \in SUBSET Nat
           /\ \E R : SumsUp(R, Records(rows), DOMAIN rows)
           /\ \E Q : SumsUp(Q, FailedFiles(rows), DOMAIN rows)
<1>1. DOMAIN rows = 1..Len(rows) /\ Len(rows) \in Nat
  OBVIOUS
<1>2. IsFiniteSet(DOMAIN rows)
  BY <1>1, UpTo
<1>3. \A i \in DOMAIN rows : rows[i] \in CollectionRow
  OBVIOUS
<1>4. \A i \in DOMAIN rows :
          /\ Records(rows)[i] = rows[i].records /\ rows[i].records \in Nat
          /\ FailedFiles(rows)[i] = rows[i].filesFailed /\ rows[i].filesFailed \in Nat
  BY <1>3 DEF Records, FailedFiles, CollectionRow
<1>5. Records(rows) \in [DOMAIN rows -> Nat] /\ FailedFiles(rows) \in [DOMAIN rows -> Nat]
  BY <1>4 DEF Records, FailedFiles
<1>6. DOMAIN rows \in SUBSET Nat
  BY <1>1
<1>7. PICK R : SumsUp(R, Records(rows), DOMAIN rows)
  BY <1>2, <1>5, SumExists
<1>8. PICK Q : SumsUp(Q, FailedFiles(rows), DOMAIN rows)
  BY <1>2, <1>5, SumExists
<1>9. QED
  BY <1>2, <1>4, <1>6, <1>7, <1>8

\* What the page adds up for a date, row by row, is the sum over the date's rows.
LEMMA DateSums ==
    ASSUME NEW rows \in Seq(CollectionRow), NEW d \in DOMAIN ByDate(rows)
    PROVE  ByDate(rows)[d] = Total(rows, RowsOf(rows, d))
<1> DEFINE D == DOMAIN rows
           Of(s) == {i \in s : rows[i].date = d}
           Zero == [records |-> 0, failed |-> 0]
           Step(F, s) == IF s = {} THEN Zero
                         ELSE IF rows[Max(s)].date = d THEN Add(F[s \ {Max(s)}], rows[Max(s)])
                              ELSE F[s \ {Max(s)}]
           Folds(F) == F = [s \in SUBSET D |-> Step(F, s)]
           F == CHOOSE F : Folds(F)
<1>1. ByDate(rows)[d] = F[D]
  BY DEF ByDate, FoldLeft, MapThenFoldSet
<1>2. IsFiniteSet(D) /\ D \in SUBSET Nat
  BY RowsFacts
<1>3. PICK R : SumsUp(R, Records(rows), D)
  BY RowsFacts
<1>4. PICK Q : SumsUp(Q, FailedFiles(rows), D)
  BY RowsFacts
<1> DEFINE G == [s \in SUBSET D |-> [records |-> R[Of(s)], failed |-> Q[Of(s)]]]
<1>5. ASSUME NEW s \in SUBSET D, s # {} PROVE G[s] = Step(G, s) /\ Max(s) \in s
  <2> DEFINE x == Max(s)
             r == s \ {x}
  <2>1. x \in s
    BY <1>2, <1>5, FS_Subset, Greatest
  <2> HIDE DEF x
  <2>2. r \in SUBSET D /\ Of(r) \in SUBSET D /\ Of(s) \in SUBSET D
    OBVIOUS
  <2>3. CASE rows[x].date = d
    <3>1. x \in Of(s) /\ Of(s) \ {x} = Of(r)
      BY <2>1, <2>3
    <3> HIDE DEF Of
    <3>2. /\ R[Of(s)] = Records(rows)[x] + R[Of(r)] /\ R[Of(r)] \in Nat
          /\ Q[Of(s)] = FailedFiles(rows)[x] + Q[Of(r)] /\ Q[Of(r)] \in Nat
      <4>1. R[Of(s)] = Records(rows)[x] + R[Of(s) \ {x}] /\ R[Of(r)] \in Nat
        BY <1>3, <2>2, <3>1 DEF SumsUp
      <4>2. Q[Of(s)] = FailedFiles(rows)[x] + Q[Of(s) \ {x}] /\ Q[Of(r)] \in Nat
        BY <1>4, <2>2, <3>1 DEF SumsUp
      <4>3. QED
        BY <4>1, <4>2, <3>1
    <3>3. /\ Records(rows)[x] = rows[x].records /\ rows[x].records \in Nat
          /\ FailedFiles(rows)[x] = rows[x].filesFailed /\ rows[x].filesFailed \in Nat
      BY <2>1, RowsFacts
    <3>4. G[s] = [records |-> R[Of(r)] + rows[x].records, failed |-> Q[Of(r)] + rows[x].filesFailed]
      BY <3>2, <3>3
    <3>5. G[r] = [records |-> R[Of(r)], failed |-> Q[Of(r)]]
      BY <2>2
    <3>6. Add(G[r], rows[x]) = G[s]
      <4> HIDE DEF G
      <4>1. QED
        BY <3>4, <3>5 DEF Add
    <3> HIDE DEF G
    <3>7. Step(G, s) = Add(G[r], rows[x])
      BY <1>5, <2>3 DEF x
    <3>8. QED
      BY <2>1, <3>6, <3>7 DEF x
  <2>4. CASE rows[x].date # d
    <3>1. Of(s) = Of(r)
      BY <2>1, <2>4
    <3> HIDE DEF Of
    <3>2. G[s] = G[r]
      BY <2>2, <3>1
    <3> HIDE DEF G
    <3>3. Step(G, s) = G[r]
      BY <1>5, <2>4 DEF x
    <3>4. QED
      BY <2>1, <3>2, <3>3 DEF x
  <2>5. QED
    BY <2>3, <2>4
<1>6. G[{}] = Step(G, {})
  <2>1. Of({}) = {}
    OBVIOUS
  <2> HIDE DEF Of
  <2>2. QED
    BY <1>3, <1>4, <2>1 DEF SumsUp
<1>7. Folds(G)
  <2> HIDE DEF Step
  <2>1. \A s \in SUBSET D : G[s] = Step(G, s)
    BY <1>5, <1>6
  <2>2. G = [s \in SUBSET D |-> G[s]]
    OBVIOUS
  <2>3. QED
    BY <2>1, <2>2
<1>8. Folds(F)
  <2> HIDE DEF Folds, G
  <2>1. QED
    BY <1>7
<1>9. \A s \in SUBSET D : F[s] = Step(F, s)
  <2> HIDE DEF F, Step
  <2>1. QED
    BY <1>8
<1>10. AgreeByStep(F, G, D)
  <2>1. F[{}] = G[{}]
    BY <1>6, <1>9
  <2>2. ASSUME NEW s \in SUBSET D, s # {}
        PROVE  \E x \in s : F[s \ {x}] = G[s \ {x}] => F[s] = G[s]
    <3>1. F[s \ {Max(s)}] = G[s \ {Max(s)}] => Step(F, s) = Step(G, s)
      <4> HIDE DEF F, G
      <4>1. QED
        BY <2>2
    <3> HIDE DEF F, G, Step
    <3>2. QED
      BY <1>5, <1>9, <2>2, <3>1
  <2> HIDE DEF F, G
  <2>3. QED
    BY <2>1, <2>2 DEF AgreeByStep
<1>11. F[D] = G[D]
  <2> HIDE DEF F, G
  <2>1. QED
    BY <1>2, <1>10, SameOnSubsets
<1>12. G[D] = [records |-> R[Of(D)], failed |-> Q[Of(D)]]
  OBVIOUS
<1>13. Of(D) = RowsOf(rows, d) /\ Of(D) \in SUBSET D
  BY DEF RowsOf
<1>14. Total(rows, RowsOf(rows, d)) = [records |-> R[Of(D)], failed |-> Q[Of(D)]]
  <2> HIDE DEF Of, D
  <2>1. QED
    BY <1>2, <1>3, <1>4, <1>13, SumIs DEF Total
<1> HIDE DEF F, G
<1>15. QED
  BY <1>1, <1>11, <1>12, <1>14

\* s lists S in order.
Lists(s, S) ==
    /\ s \in [1..Cardinality(S) -> S]
    /\ \A i, j \in 1..Cardinality(S) : i < j => s[i] < s[j]

\* Of the least set without a list, the rest without its greatest element has one.
LEMMA ListExists ==
    ASSUME NEW S \in SUBSET Nat, IsFiniteSet(S)
    PROVE  \E s : Lists(s, S)
<1> DEFINE Bad == {A \in SUBSET S : ~ \E s : Lists(s, A)}
           C == {Cardinality(A) : A \in Bad}
<1>1. \A A \in SUBSET S : IsFiniteSet(A) /\ Cardinality(A) \in Nat
  BY FS_Subset, FS_CardinalityType
<1>2. SUFFICES ASSUME Bad # {} PROVE FALSE
  OBVIOUS
<1>3. C \in SUBSET Nat /\ C # {}
  BY <1>1, <1>2
<1>4. PICK m \in C : \A n \in C : m <= n
  <2> HIDE DEF C
  <2>1. QED
    BY <1>3, Least
<1>5. PICK A \in Bad : Cardinality(A) = m
  OBVIOUS
<1>6. A # {}
  <2>1. Lists([i \in 1..0 |-> 0], {})
    BY FS_EmptySet DEF Lists
  <2>2. QED
    BY <2>1
<1> DEFINE x == Max(A)
           B == A \ {x}
<1>7. x \in A /\ (\A j \in A : j <= x) /\ \A j \in A : j \in Nat
  BY <1>1, <1>6, Greatest
<1> HIDE DEF x
<1>8. Cardinality(B) = m - 1 /\ m \in Nat /\ Cardinality(B) \in Nat
  BY <1>1, <1>5, <1>7, FS_RemoveElement
<1>9. B \notin Bad
  <2>1. B \in Bad => Cardinality(B) \in C
    OBVIOUS
  <2> HIDE DEF C, Bad
  <2>2. QED
    BY <1>4, <1>8, <2>1
<1>10. PICK s : Lists(s, B)
  BY <1>9
<1> DEFINE t == [i \in 1..m |-> IF i = m THEN x ELSE s[i]]
<1>11. ASSUME NEW i \in 1..m, i # m PROVE i \in 1..Cardinality(B) /\ s[i] \in B /\ s[i] < x
  <2>1. i \in 1..Cardinality(B)
    BY <1>8, <1>11
  <2>2. s[i] \in B
    BY <1>10, <2>1 DEF Lists
  <2>3. s[i] \in A /\ s[i] # x
    BY <2>2
  <2>4. s[i] \in Nat /\ x \in Nat /\ s[i] <= x
    BY <2>3, <1>7
  <2>5. s[i] < x
    BY <2>3, <2>4
  <2> HIDE DEF B
  <2>6. QED
    BY <2>1, <2>2, <2>5
<1>12. t \in [1..m -> A]
  BY <1>7, <1>11
<1>13. ASSUME NEW i \in 1..m, NEW j \in 1..m, i < j PROVE t[i] < t[j]
  <2>1. CASE j = m
    BY <1>8, <1>11, <1>13, <2>1
  <2>2. CASE j # m
    <3>1. i # m
      BY <1>8, <1>13
    <3>2. s[i] < s[j]
      BY <1>10, <1>11, <1>13, <2>2, <3>1 DEF Lists
    <3>3. QED
      BY <2>2, <3>1, <3>2
  <2>3. QED
    BY <2>1, <2>2
<1>14. Lists(t, A)
  <2> HIDE DEF t
  <2>1. QED
    BY <1>5, <1>12, <1>13 DEF Lists
<1>15. QED
  BY <1>14

\* A sorted set of dates has every date once.
LEMMA InOrderLists ==
    ASSUME NEW S \in SUBSET Nat, IsFiniteSet(S)
    PROVE  Lists(InOrder(S), S) /\ \A d \in S : \E i \in DOMAIN InOrder(S) : InOrder(S)[i] = d
<1> DEFINE s == InOrder(S)
           c == Cardinality(S)
<1>1. c \in Nat
  BY FS_CardinalityType
<1>2. Lists(s, S)
  <2>1. \E o \in [1..c -> S] : \A i, j \in DOMAIN o : i < j => o[i] < o[j]
    BY ListExists DEF Lists
  <2>2. QED
    BY <2>1 DEF InOrder, Lists
<1> HIDE DEF s
<1>3. s \in Injection(1..c, S)
  <2>1. ASSUME NEW i \in 1..c, NEW j \in 1..c, s[i] = s[j] PROVE i = j
    <3>1. s[i] \in Nat /\ s[j] \in Nat
      BY <1>2 DEF Lists
    <3>2. ~(i < j) /\ ~(j < i)
      BY <1>2, <2>1, <3>1 DEF Lists
    <3>3. QED
      BY <3>2
  <2>2. QED
    BY <1>2, <2>1 DEF Injection, IsInjective, Lists
<1>4. IsFiniteSet(1..c) /\ Cardinality(1..c) = c
  BY <1>1, UpTo
<1>5. s \in Surjection(1..c, S)
  BY <1>3, <1>4, FS_Injection
<1>6. \A d \in S : \E i \in DOMAIN s : s[i] = d
  BY <1>2, <1>5 DEF Surjection, Lists
<1>7. QED
  BY <1>2, <1>6 DEF s

DatesOf(rows) == {rows[i].date : i \in DOMAIN rows}

LEMMA DatesFinite ==
    ASSUME NEW rows \in Seq(CollectionRow)
    PROVE  DatesOf(rows) \in SUBSET Nat /\ IsFiniteSet(DatesOf(rows)) /\ DOMAIN ByDate(rows) = DatesOf(rows)
<1>1. \A i \in DOMAIN rows : rows[i].date \in Nat
  <2>1. \A i \in DOMAIN rows : rows[i] \in CollectionRow
    OBVIOUS
  <2>2. QED
    BY <2>1 DEF CollectionRow
<1> DEFINE f == [i \in DOMAIN rows |-> rows[i].date]
<1>2. f \in Surjection(DOMAIN rows, DatesOf(rows))
  BY DEF Surjection, DatesOf
<1>3. IsFiniteSet(DatesOf(rows))
  <2> HIDE DEF f
  <2>1. QED
    BY <1>2, RowsFacts, FS_Surjection
<1>4. QED
  BY <1>1, <1>3 DEF DatesOf, ByDate

\* The chart option has every date of the rows once, in order, with its sums.
Charts(opt, rows) ==
    /\ \A i, j \in DOMAIN opt.dates : i < j => opt.dates[i] < opt.dates[j]
    /\ \A i \in DOMAIN rows : Contains(opt.dates, rows[i].date)
    /\ \A i \in DOMAIN opt.dates :
          [records |-> opt.records[i], failed |-> opt.failed[i]]
              = Total(rows, RowsOf(rows, opt.dates[i]))

LEMMA OptionCharts ==
    ASSUME NEW rows \in Seq(CollectionRow)
    PROVE  Charts(ChartOption(rows), rows)
<1> DEFINE opt == ChartOption(rows)
           S == DatesOf(rows)
           s == InOrder(S)
<1>1. S \in SUBSET Nat /\ IsFiniteSet(S) /\ DOMAIN ByDate(rows) = S
  BY DatesFinite
<1>2. Lists(s, S) /\ \A d \in S : \E i \in DOMAIN s : s[i] = d
  BY <1>1, InOrderLists
<1>3. opt = [dates   |-> s,
             records |-> [i \in DOMAIN s |-> ByDate(rows)[s[i]].records],
             failed  |-> [i \in DOMAIN s |-> ByDate(rows)[s[i]].failed]]
  BY <1>1 DEF ChartOption
<1> HIDE DEF opt, s
<1>4. \A i, j \in DOMAIN s : i < j => s[i] < s[j]
  BY <1>2 DEF Lists
<1>5. ASSUME NEW i \in DOMAIN rows PROVE Contains(s, rows[i].date)
  <2>1. Cardinality(S) \in Nat /\ s \in [1..Cardinality(S) -> S]
    BY <1>1, <1>2, FS_CardinalityType DEF Lists
  <2>2. Len(s) = Cardinality(S) /\ DOMAIN s = 1..Cardinality(S)
    <3> HIDE DEF S
    <3>1. QED
      BY <2>1
  <2>3. rows[i].date \in S
    BY DEF DatesOf
  <2>4. QED
    BY <1>2, <2>2, <2>3 DEF Contains
<1>6. ASSUME NEW i \in DOMAIN s
      PROVE  [records |-> opt.records[i], failed |-> opt.failed[i]] = Total(rows, RowsOf(rows, s[i]))
  <2>1. s[i] \in DOMAIN ByDate(rows)
    BY <1>1, <1>2 DEF Lists
  <2>2. ByDate(rows)[s[i]] = Total(rows, RowsOf(rows, s[i]))
    BY <2>1, DateSums
  <2>3. opt.records[i] = ByDate(rows)[s[i]].records /\ opt.failed[i] = ByDate(rows)[s[i]].failed
    BY <1>3
  <2>4. QED
    BY <2>2, <2>3 DEF Total
<1>7. QED
  BY <1>3, <1>4, <1>5, <1>6 DEF Charts, opt

-----------------------------------------------------------------------------
(* The pages.                                                              *)

Answers == {<<>>} \cup AlarmAnswers \cup FailureAnswers \cup CollectionAnswers

Shown == {<<>>} \cup {Rows(p, a) : p \in Pages, a \in Answers}

Options == {ChartOption(a) : a \in Answers}

PageRecord ==
    [mounted : BOOLEAN, rows : Shown, collections : Answers,
     from : [Queries -> 0..MaxLoads], loading : BOOLEAN, error : BOOLEAN, busy : BOOLEAN]

QueryRecord == [state : {"none", "asked", "answered"}, data : Answers]

ChartRecord == [live : BOOLEAN, stale : BOOLEAN, option : Options]

PageTypes ==
    /\ page \in [Pages -> PageRecord]
    /\ request \in [Pages -> [Queries -> QueryRecord]]
    /\ chart \in [Pages -> ChartRecord]
    /\ loads \in [Pages -> 0..MaxLoads]
    /\ served \in [Pages -> BOOLEAN]

Asked(r) == \E q \in Queries : r[q].state = "asked"

\* A load under way has sent every query and waits for one of them at least.
Together(r) ==
    \/ \A q \in Queries : r[q].state = "none"
    \/ Asked(r) /\ \A q \in Queries : r[q].state # "none"

\* A page that shows pg, waits for rq, has the chart ch and has begun ld loads,
\* sv telling whether the plugin was there since the last.
Facts(p, pg, rq, ch, ld, sv) ==
    /\ ch.live = pg.mounted
    /\ ~pg.mounted => ld = 0 /\ ~pg.loading
    /\ Together(rq)
    /\ pg.loading <=> Asked(rq)
    /\ \A q, r \in Queries : pg.from[q] = pg.from[r]
    /\ pg.mounted /\ ~pg.loading /\ ~pg.error => \A q \in Queries : pg.from[q] = ld
    /\ rq["collections"].data \in Seq(CollectionRow) /\ pg.collections \in Seq(CollectionRow)
    /\ pg.mounted /\ ~ch.stale => ch.option = ChartOption(pg.collections)
    /\ p = "AlarmPage" /\ rq["rows"].state = "answered" => sv
    /\ p = "AlarmPage" /\ pg.mounted /\ ~pg.loading /\ ~pg.error => sv

PageFacts(p) == Facts(p, page[p], request[p], chart[p], loads[p], served[p])

PageInv == PageTypes /\ \A p \in Pages : PageFacts(p)

-----------------------------------------------------------------------------

LEMMA EmptyCollected == <<>> \in Seq(CollectionRow)
OBVIOUS

LEMMA NothingAsked ==
    /\ NotAsked \in [Queries -> QueryRecord]
    /\ Together(NotAsked) /\ ~Asked(NotAsked)
    /\ NotAsked["rows"].state = "none"
    /\ NotAsked["collections"].data \in Seq(CollectionRow)
<1>1. /\ NotAsked \in [Queries -> QueryRecord]
      /\ Together(NotAsked) /\ ~Asked(NotAsked)
      /\ NotAsked["rows"].state = "none"
  BY DEF NotAsked, QueryRecord, Answers, Together, Asked, Queries
<1>2. NotAsked["collections"].data = <<>>
  BY DEF NotAsked, Queries
<1>3. QED
  BY <1>1, <1>2, EmptyCollected

\* What a page shows as rows is a list, whichever answer it was made of.
LEMMA ShownAreLists ==
    ASSUME NEW rows \in Shown
    PROVE  \E n \in Nat : DOMAIN rows = 1..n
<1>1. ASSUME NEW a \in Answers PROVE \E n \in Nat : DOMAIN a = 1..n
  <2>1. \/ a = <<>> \/ a \in Seq([level : STRING]) \/ a \in Seq([attempts : Nat])
        \/ a \in Seq(CollectionRow)
    BY <1>1, AlarmConsoleAssumption DEF AlarmConsoleAssumption, Answers, CollectionRow
  <2>2. DOMAIN a = 1..Len(a) /\ Len(a) \in Nat
    BY <2>1
  <2>3. QED
    BY <2>2
<1>2. ASSUME NEW p, NEW a \in Answers PROVE DOMAIN Rows(p, a) = DOMAIN a
  BY DEF Rows
<1>3. <<>> \in Answers
  BY DEF Answers
<1>4. QED
  BY <1>1, <1>2, <1>3 DEF Shown

LEMMA BlankTyped ==
    ASSUME NEW m \in BOOLEAN
    PROVE  Blank(m) \in PageRecord
<1>1. <<>> \in Shown /\ <<>> \in Answers
  BY DEF Shown, Answers
<1>2. [q \in Queries |-> 0] \in [Queries -> 0..MaxLoads]
  BY AlarmConsoleAssumption DEF AlarmConsoleAssumption
<1>3. QED
  BY <1>1, <1>2 DEF Blank, PageRecord

LEMMA NoChartTyped == NoChart \in ChartRecord
BY DEF NoChart, ChartRecord, Options, Answers

LEMMA PageInitially == Init => PageInv
<1>1. SUFFICES ASSUME Init PROVE PageInv
  OBVIOUS
<1>2. PageTypes
  <2>1. 0 \in 0..MaxLoads
    BY AlarmConsoleAssumption DEF AlarmConsoleAssumption
  <2>2. Blank(FALSE) \in PageRecord
    BY BlankTyped
  <2>3. QED
    BY <1>1, <2>1, <2>2, NothingAsked, NoChartTyped DEF Init, PageInit, PageTypes
<1>3. ASSUME NEW p \in Pages PROVE PageFacts(p)
  BY <1>1, NothingAsked, EmptyCollected DEF Init, PageInit, PageFacts, Facts, Blank, NoChart, Queries
<1>4. QED
  BY <1>2, <1>3 DEF PageInv

\* The facts hold of the page, whether the plugin was there until now or not.
Suits(p, pg, rq, ch, ld) ==
    \A sv \in BOOLEAN :
        (Serving => sv) /\ (served[p] /\ ld <= loads[p] => sv) => Facts(p, pg, rq, ch, ld, sv)

\* A page p moves, the others do not.
LEMMA OnePageMoves ==
    ASSUME PageInv, NEW p \in Pages,
           NEW pg \in PageRecord, page' = [page EXCEPT ![p] = pg],
           NEW rq \in [Queries -> QueryRecord], request' = [request EXCEPT ![p] = rq],
           NEW ch \in ChartRecord, chart' = [chart EXCEPT ![p] = ch],
           NEW ld \in 0..MaxLoads, loads' = [loads EXCEPT ![p] = ld],
           SeePlugin, UNCHANGED runtime,
           Suits(p, pg, rq, ch, ld)
    PROVE  PageInv'
<1>1. PageTypes
  BY DEF PageInv
<1>2. served' \in [Pages -> BOOLEAN]
  BY DEF SeePlugin, Serving
<1>3. PageTypes'
  BY <1>1, <1>2 DEF PageTypes
<1>4. ASSUME NEW o \in Pages, o # p PROVE PageFacts(o)'
  <2>1. page'[o] = page[o] /\ request'[o] = request[o] /\ chart'[o] = chart[o] /\ loads'[o] = loads[o]
    BY <1>1, <1>4 DEF PageTypes
  <2>2. served[o] => served'[o]
    BY <1>1, <2>1 DEF SeePlugin, PageTypes
  <2>3. PageFacts(o)
    BY DEF PageInv
  <2>4. QED
    BY <2>1, <2>2, <2>3 DEF PageFacts, Facts
<1>5. page'[p] = pg /\ request'[p] = rq /\ chart'[p] = ch /\ loads'[p] = ld
  BY <1>1 DEF PageTypes
<1>6. (Serving => served'[p]) /\ (served[p] /\ ld <= loads[p] => served'[p])
  BY <1>1, <1>5 DEF SeePlugin, Serving
<1>7. PageFacts(p)'
  BY <1>2, <1>5, <1>6 DEF PageFacts, Suits
<1>8. QED
  BY <1>3, <1>4, <1>7 DEF PageInv

\* What a step leaves alone, in the form of the lemma above.
LEMMA SameEverywhere ==
    ASSUME PageInv, NEW p \in Pages
    PROVE  /\ page = [page EXCEPT ![p] = page[p]] /\ page[p] \in PageRecord
           /\ request = [request EXCEPT ![p] = request[p]]
           /\ request[p] \in [Queries -> QueryRecord]
           /\ chart = [chart EXCEPT ![p] = chart[p]] /\ chart[p] \in ChartRecord
           /\ loads = [loads EXCEPT ![p] = loads[p]] /\ loads[p] \in 0..MaxLoads
BY DEF PageInv, PageTypes

AllAsked == [q \in Queries |-> [state |-> "asked", data |-> <<>>]]

LEMMA EverythingAsked ==
    /\ AllAsked \in [Queries -> QueryRecord]
    /\ Together(AllAsked) /\ Asked(AllAsked)
    /\ AllAsked["rows"].state = "asked"
    /\ AllAsked["collections"].data \in Seq(CollectionRow)
<1>1. /\ AllAsked \in [Queries -> QueryRecord]
      /\ Together(AllAsked) /\ Asked(AllAsked)
      /\ AllAsked["rows"].state = "asked"
  BY DEF AllAsked, QueryRecord, Answers, Together, Asked, Queries
<1>2. AllAsked["collections"].data = <<>>
  BY DEF AllAsked, Queries
<1>3. QED
  BY <1>1, <1>2, EmptyCollected

LEMMA OpenPageStep ==
    ASSUME PageInv, NEW p \in Pages, OpenPage(p), SeePlugin, UNCHANGED runtime
    PROVE  PageInv'
<1> DEFINE pg == Blank(TRUE)
           ch == [NoChart EXCEPT !.live = TRUE]
           ld == loads[p] + 1
<1>1. pg \in PageRecord /\ ch \in ChartRecord
  BY BlankTyped, NoChartTyped DEF ChartRecord
<1>2. ld \in 0..MaxLoads
  <2>1. loads[p] = 0
    BY DEF OpenPage, PageInv, PageFacts, Facts
  <2>2. 1 \in 0..MaxLoads
    BY AlarmConsoleAssumption DEF AlarmConsoleAssumption
  <2>3. QED
    BY <2>1, <2>2
<1>3. /\ page' = [page EXCEPT ![p] = pg] /\ chart' = [chart EXCEPT ![p] = ch]
      /\ request' = [request EXCEPT ![p] = AllAsked] /\ loads' = [loads EXCEPT ![p] = ld]
  BY DEF OpenPage, BeginLoad, AllAsked
<1>4. /\ pg.mounted = TRUE /\ pg.loading = TRUE /\ ch.live = TRUE
      /\ \A q \in Queries : pg.from[q] = 0
      /\ pg.collections = <<>> /\ ch.option = ChartOption(<<>>)
  BY NoChartTyped DEF Blank, ChartRecord, NoChart
<1> HIDE DEF pg, ch, ld
<1>5. Suits(p, pg, AllAsked, ch, ld)
  BY <1>4, EverythingAsked, EmptyCollected DEF Suits, Facts
<1>6. QED
  BY <1>1, <1>2, <1>3, <1>5, OnePageMoves, EverythingAsked

LEMMA ClosePageStep ==
    ASSUME PageInv, NEW p \in Pages, ClosePage(p), SeePlugin, UNCHANGED runtime
    PROVE  PageInv'
<1> DEFINE pg == Blank(FALSE)
<1>1. pg \in PageRecord /\ 0 \in 0..MaxLoads
  <2>1. MaxLoads \in Nat
    BY AlarmConsoleAssumption DEF AlarmConsoleAssumption
  <2>2. 0 \in 0..MaxLoads
    BY <2>1
  <2>3. QED
    BY <2>2, BlankTyped
<1>2. /\ page' = [page EXCEPT ![p] = pg] /\ chart' = [chart EXCEPT ![p] = NoChart]
      /\ request' = [request EXCEPT ![p] = NotAsked] /\ loads' = [loads EXCEPT ![p] = 0]
  BY DEF ClosePage
<1>3. /\ pg.mounted = FALSE /\ pg.loading = FALSE /\ NoChart.live = FALSE
      /\ pg.collections = <<>> /\ \A q \in Queries : pg.from[q] = 0
  BY DEF Blank, NoChart
<1> HIDE DEF pg
<1>4. Suits(p, pg, NotAsked, NoChart, 0)
  BY <1>3, NothingAsked, EmptyCollected DEF Suits, Facts
<1>5. QED
  BY <1>1, <1>2, <1>4, OnePageMoves, NothingAsked, NoChartTyped

LEMMA RefreshStep ==
    ASSUME PageInv, NEW p \in Pages, Refresh(p), SeePlugin, UNCHANGED runtime
    PROVE  PageInv'
<1> DEFINE pg == [page[p] EXCEPT !.loading = TRUE]
           ld == loads[p] + 1
<1>1. PageFacts(p) /\ page[p] \in PageRecord /\ chart[p] \in ChartRecord
  BY SameEverywhere DEF PageInv
<1>2. pg \in PageRecord
  BY <1>1 DEF PageRecord
<1>3. ld \in 0..MaxLoads
  <2>1. loads[p] \in 0..MaxLoads /\ loads[p] < MaxLoads
    BY SameEverywhere DEF Refresh
  <2>2. MaxLoads \in Nat
    BY AlarmConsoleAssumption DEF AlarmConsoleAssumption
  <2>3. QED
    BY <2>1, <2>2
<1>4. /\ page' = [page EXCEPT ![p] = pg] /\ chart' = [chart EXCEPT ![p] = chart[p]]
      /\ request' = [request EXCEPT ![p] = AllAsked] /\ loads' = [loads EXCEPT ![p] = ld]
  BY SameEverywhere DEF Refresh, BeginLoad, AllAsked
<1>5. /\ pg.mounted = TRUE /\ pg.loading = TRUE /\ pg.from = page[p].from /\ page[p].mounted = TRUE
      /\ pg.collections = page[p].collections
  BY <1>1 DEF PageRecord, Refresh
<1> HIDE DEF pg, ld
<1>6. Suits(p, pg, AllAsked, chart[p], ld)
  <2>1. /\ chart[p].live = page[p].mounted
        /\ \A q, r \in Queries : page[p].from[q] = page[p].from[r]
        /\ page[p].collections \in Seq(CollectionRow)
        /\ page[p].mounted /\ ~chart[p].stale
             => chart[p].option = ChartOption(page[p].collections)
    BY <1>1 DEF PageFacts, Facts
  <2>2. /\ Together(AllAsked) /\ Asked(AllAsked) /\ AllAsked["rows"].state # "answered"
        /\ AllAsked["collections"].data \in Seq(CollectionRow)
    BY EverythingAsked
  <2>3. ASSUME NEW sv \in BOOLEAN PROVE Facts(p, pg, AllAsked, chart[p], ld, sv)
    BY <1>5, <2>1, <2>2 DEF Facts
  <2>4. QED
    BY <2>3 DEF Suits
<1>7. QED
  BY <1>1, <1>2, <1>3, <1>4, <1>6, OnePageMoves, EverythingAsked

\* The page's rows, its chart's state and its loads stay; so does what is asked.
LEMMA NothingAskedOrShown ==
    ASSUME PageInv, NEW p \in Pages, SeePlugin, UNCHANGED <<request, loads, runtime>>,
           NEW pg \in PageRecord, page' = [page EXCEPT ![p] = pg],
           pg.mounted = page[p].mounted, pg.loading = page[p].loading,
           pg.error = page[p].error, pg.from = page[p].from, pg.collections = page[p].collections,
           NEW ch \in ChartRecord, chart' = [chart EXCEPT ![p] = ch], ch.live = chart[p].live,
           ch = chart[p] \/ ch.option = ChartOption(pg.collections)
    PROVE  PageInv'
<1>1. PageFacts(p) /\ loads[p] \in 0..MaxLoads /\ request[p] \in [Queries -> QueryRecord]
  BY SameEverywhere DEF PageInv
<1>2. request' = [request EXCEPT ![p] = request[p]] /\ loads' = [loads EXCEPT ![p] = loads[p]]
  BY SameEverywhere
<1>3. ASSUME NEW sv \in BOOLEAN, served[p] => sv PROVE Facts(p, pg, request[p], ch, loads[p], sv)
  BY <1>1, <1>3 DEF Facts, PageFacts
<1>4. Suits(p, pg, request[p], ch, loads[p])
  BY <1>1, <1>3 DEF Suits
<1>5. QED
  BY <1>1, <1>2, <1>4, OnePageMoves

LEMMA DrawChartStep ==
    ASSUME PageInv, NEW p \in Pages, DrawChart(p), SeePlugin, UNCHANGED runtime
    PROVE  PageInv'
<1> DEFINE ch == [chart[p] EXCEPT !.option = ChartOption(page[p].collections), !.stale = FALSE]
<1>1. page[p] \in PageRecord /\ chart[p] \in ChartRecord
  BY SameEverywhere
<1>2. ChartOption(page[p].collections) \in Options
  BY <1>1 DEF PageRecord, Options
<1>3. ch \in ChartRecord /\ ch.live = chart[p].live /\ ch.option = ChartOption(page[p].collections)
  BY <1>1, <1>2 DEF ChartRecord
<1>4. chart' = [chart EXCEPT ![p] = ch] /\ page' = [page EXCEPT ![p] = page[p]]
  BY SameEverywhere DEF DrawChart
<1> HIDE DEF ch
<1>5. QED
  BY <1>1, <1>3, <1>4, NothingAskedOrShown DEF DrawChart

LEMMA TriggerStep ==
    ASSUME PageInv, NEW p \in Pages, TriggerCollection(p) \/ TriggerAnswered(p),
           SeePlugin, UNCHANGED runtime
    PROVE  PageInv'
<1>1. page[p] \in PageRecord /\ chart[p] \in ChartRecord
  BY SameEverywhere
<1>2. chart' = [chart EXCEPT ![p] = chart[p]]
  BY SameEverywhere DEF TriggerCollection, TriggerAnswered
<1>3. PICK b \in BOOLEAN : page' = [page EXCEPT ![p].busy = b]
  BY DEF TriggerCollection, TriggerAnswered
<1> DEFINE pg == [page[p] EXCEPT !.busy = b]
<1>4. /\ pg \in PageRecord /\ pg.mounted = page[p].mounted /\ pg.loading = page[p].loading
      /\ pg.error = page[p].error /\ pg.from = page[p].from
      /\ pg.collections = page[p].collections
  BY <1>1 DEF PageRecord
<1>5. page' = [page EXCEPT ![p] = pg]
  BY <1>3
<1> HIDE DEF pg
<1>6. UNCHANGED <<request, loads>>
  BY DEF TriggerCollection, TriggerAnswered
<1>7. QED
  BY <1>1, <1>2, <1>4, <1>5, <1>6, NothingAskedOrShown

LEMMA RefusedStep ==
    ASSUME PageInv, NEW p \in Pages, NEW q \in Queries, Refused(p, q),
           SeePlugin, UNCHANGED runtime
    PROVE  PageInv'
<1> DEFINE pg == [page[p] EXCEPT !.error = TRUE, !.loading = FALSE]
<1>1. /\ PageFacts(p) /\ page[p] \in PageRecord /\ chart[p] \in ChartRecord
      /\ loads[p] \in 0..MaxLoads
  BY SameEverywhere DEF PageInv
<1>2. /\ pg \in PageRecord /\ pg.mounted = page[p].mounted /\ pg.loading = FALSE
      /\ pg.error = TRUE /\ pg.from = page[p].from /\ pg.collections = page[p].collections
  BY <1>1 DEF PageRecord
<1>3. /\ page' = [page EXCEPT ![p] = pg] /\ chart' = [chart EXCEPT ![p] = chart[p]]
      /\ request' = [request EXCEPT ![p] = NotAsked] /\ loads' = [loads EXCEPT ![p] = loads[p]]
  BY SameEverywhere DEF Refused
<1> HIDE DEF pg
<1>4. Suits(p, pg, NotAsked, chart[p], loads[p])
  BY <1>1, <1>2, NothingAsked DEF Suits, Facts, PageFacts
<1>5. QED
  BY <1>1, <1>2, <1>3, <1>4, OnePageMoves, NothingAsked

\* The data of every query of a load.
LEMMA AnswersTyped ==
    ASSUME NEW p, NEW q \in Queries, NEW a \in AnswersTo(p, q)
    PROVE  a \in Answers
BY DEF AnswersTo, Answers, Queries

\* What "then" shows of a request that is answered.
LEMMA ShowStep ==
    ASSUME PageInv, NEW p \in Pages, NEW rq \in [Queries -> QueryRecord], Show(p, rq),
           page[p].loading, rq["collections"].data \in Seq(CollectionRow),
           p = "AlarmPage" => served[p] \/ Serving,
           SeePlugin, UNCHANGED <<runtime, loads>>
    PROVE  PageInv'
<1> DEFINE pg == [page[p] EXCEPT !.rows = Rows(p, rq["rows"].data),
                                 !.collections = rq["collections"].data,
                                 !.from = [q \in Queries |-> loads[p]],
                                 !.error = FALSE, !.loading = FALSE]
           ch == [chart[p] EXCEPT !.stale = TRUE]
<1>1. /\ PageFacts(p) /\ page[p] \in PageRecord /\ chart[p] \in ChartRecord
      /\ loads[p] \in 0..MaxLoads
  BY SameEverywhere DEF PageInv
<1>2. page[p].mounted = TRUE
  BY <1>1 DEF PageFacts, Facts, PageRecord
<1>3. rq["rows"].data \in Answers /\ rq["collections"].data \in Answers
  BY DEF QueryRecord, Queries
<1>4. Rows(p, rq["rows"].data) \in Shown
  BY <1>3 DEF Shown
<1>5. [q \in Queries |-> loads[p]] \in [Queries -> 0..MaxLoads]
  BY <1>1
<1>6. /\ pg \in PageRecord /\ pg.mounted = TRUE /\ pg.loading = FALSE
      /\ (\A q \in Queries : pg.from[q] = loads[p]) /\ pg.collections = rq["collections"].data
  BY <1>1, <1>2, <1>3, <1>4, <1>5 DEF PageRecord
<1>7. ch \in ChartRecord /\ ch.live = chart[p].live /\ ch.stale = TRUE
  BY <1>1 DEF ChartRecord
<1>8. /\ page' = [page EXCEPT ![p] = pg] /\ chart' = [chart EXCEPT ![p] = ch]
      /\ request' = [request EXCEPT ![p] = NotAsked] /\ loads' = [loads EXCEPT ![p] = loads[p]]
  BY SameEverywhere DEF Show
<1> HIDE DEF pg, ch
<1>9. ASSUME NEW sv \in BOOLEAN, Serving => sv, served[p] => sv
      PROVE  Facts(p, pg, NotAsked, ch, loads[p], sv)
  BY <1>1, <1>2, <1>6, <1>7, <1>9, NothingAsked DEF Facts, PageFacts
<1>10. Suits(p, pg, NotAsked, ch, loads[p])
  BY <1>1, <1>9 DEF Suits
<1>11. QED
  BY <1>1, <1>6, <1>7, <1>8, <1>10, OnePageMoves, NothingAsked

LEMMA CollectionsTyped ==
    ASSUME NEW p, NEW a \in AnswersTo(p, "collections")
    PROVE  a \in Seq(CollectionRow)
BY AlarmConsoleAssumption DEF AnswersTo, AlarmConsoleAssumption, CollectionRow

LEMMA AnsweredStep ==
    ASSUME PageInv, NEW p \in Pages, NEW q \in Queries, NEW a \in AnswersTo(p, q),
           Serves(p, q), Answered(p, q, a), SeePlugin, UNCHANGED runtime
    PROVE  PageInv'
<1> DEFINE rq == [request[p] EXCEPT ![q] = [state |-> "answered", data |-> a]]
<1>1. /\ PageFacts(p) /\ page[p] \in PageRecord /\ chart[p] \in ChartRecord
      /\ loads[p] \in 0..MaxLoads /\ request[p] \in [Queries -> QueryRecord]
  BY SameEverywhere DEF PageInv
<1>2. request[p][q].state = "asked" /\ UNCHANGED loads
  BY DEF Answered
<1>3. Asked(request[p]) /\ (\A r \in Queries : request[p][r].state # "none") /\ page[p].loading
  BY <1>1, <1>2 DEF PageFacts, Facts, Together, Asked
<1>4. [state |-> "answered", data |-> a] \in QueryRecord
  BY AnswersTyped DEF QueryRecord
<1>5. rq \in [Queries -> QueryRecord]
  BY <1>1, <1>4
<1>6. /\ rq[q].state = "answered"
      /\ \A r \in Queries \ {q} : rq[r] = request[p][r]
  BY <1>1
<1>7. ASSUME p = "AlarmPage", rq["rows"].state = "answered" PROVE served[p] \/ Serving
  <2>1. CASE q = "rows"
    BY <1>7, <2>1 DEF Serves
  <2>2. CASE q # "rows"
    BY <1>1, <1>6, <1>7, <2>2 DEF PageFacts, Facts, Queries
  <2>3. QED
    BY <2>1, <2>2
<1>8. rq["collections"].data \in Seq(CollectionRow)
  <2>1. CASE q = "collections"
    BY <1>1, <2>1, CollectionsTyped
  <2>2. CASE q # "collections"
    BY <1>1, <1>6, <2>2 DEF PageFacts, Facts, Queries
  <2>3. QED
    BY <2>1, <2>2
<1>9. CASE \A r \in Queries : rq[r].state = "answered"
  <2>1. Show(p, rq)
    BY <1>9 DEF Answered
  <2>2. p = "AlarmPage" => served[p] \/ Serving
    BY <1>7, <1>9 DEF Queries
  <2> HIDE DEF rq
  <2>3. QED
    BY <1>2, <1>3, <1>5, <1>8, <2>1, <2>2, ShowStep
<1>10. CASE ~(\A r \in Queries : rq[r].state = "answered")
  <2>1. request' = [request EXCEPT ![p] = rq] /\ UNCHANGED <<page, chart>>
    BY <1>10 DEF Answered
  <2>2. PICK r \in Queries : rq[r].state # "answered"
    BY <1>10
  <2>3. r # q /\ rq[r].state = "asked"
    BY <1>1, <1>3, <1>6, <2>2 DEF QueryRecord
  <2>4. Asked(rq) /\ \A s \in Queries : rq[s].state # "none"
    BY <1>3, <1>6, <2>3 DEF Asked
  <2> HIDE DEF rq
  <2>5. ASSUME NEW sv \in BOOLEAN, Serving => sv, served[p] => sv
        PROVE  Facts(p, page[p], rq, chart[p], loads[p], sv)
    BY <1>1, <1>3, <1>7, <1>8, <2>4, <2>5 DEF Facts, PageFacts, Together
  <2>6. Suits(p, page[p], rq, chart[p], loads[p])
    BY <1>1, <2>5 DEF Suits
  <2>7. /\ page' = [page EXCEPT ![p] = page[p]] /\ chart' = [chart EXCEPT ![p] = chart[p]]
        /\ loads' = [loads EXCEPT ![p] = loads[p]]
    BY <1>2, <2>1, SameEverywhere
  <2>8. QED
    BY <1>1, <1>5, <2>1, <2>6, <2>7, OnePageMoves
<1>11. QED
  BY <1>9, <1>10

\* An overlay step, or none, leaves the pages alone.
LEMMA PagesLeftAlone ==
    ASSUME PageInv, UNCHANGED pageVars, SeePlugin \/ UNCHANGED served
    PROVE  PageInv'
<1>1. UNCHANGED <<page, request, chart, loads>>
  BY DEF pageVars
<1>2. ASSUME NEW p \in Pages PROVE loads'[p] <= loads[p]
  BY <1>1 DEF PageInv, PageTypes
<1>3. served' \in [Pages -> BOOLEAN] /\ \A p \in Pages : served[p] => served'[p]
  BY <1>2 DEF PageInv, PageTypes, SeePlugin, Serving
<1>4. ASSUME NEW p \in Pages PROVE PageFacts(p)'
  BY <1>1, <1>3 DEF PageInv, PageFacts, Facts
<1>5. QED
  BY <1>1, <1>3, <1>4 DEF PageInv, PageTypes

LEMMA PageInvKept == PageInv /\ [Next]_vars => PageInv'
<1>1. SUFFICES ASSUME PageInv, [Next]_vars PROVE PageInv'
  OBVIOUS
<1>2. CASE Next /\ OverlayStep /\ UNCHANGED pageVars
  BY <1>1, <1>2, PagesLeftAlone DEF Next
<1>3. CASE UNCHANGED vars
  BY <1>1, <1>3, PagesLeftAlone DEF vars
<1>4. CASE Next /\ PageStep /\ UNCHANGED overlayVars
  <2>1. SeePlugin /\ UNCHANGED runtime
    BY <1>4 DEF Next, overlayVars, hostVars
  <2>2. PICK p \in Pages :
            \/ OpenPage(p) \/ ClosePage(p) \/ Refresh(p) \/ TriggerCollection(p)
            \/ (\E q \in Queries : Answer(p, q)) \/ DrawChart(p) \/ TriggerAnswered(p)
    BY <1>4 DEF PageStep
  <2>3. ASSUME NEW q \in Queries, Answer(p, q) PROVE PageInv'
    BY <1>1, <2>1, <2>3, AnsweredStep, RefusedStep DEF Answer
  <2>4. QED
    BY <1>1, <2>1, <2>2, <2>3, OpenPageStep, ClosePageStep, RefreshStep, TriggerStep, DrawChartStep
<1>5. QED
  BY <1>1, <1>2, <1>3, <1>4 DEF Next

-----------------------------------------------------------------------------
(* The desired state.                                                      *)

LEMMA AdvanceStep ==
    ASSUME OverlayInv, NEW e \in Editors, Advance(e)
    PROVE  OverlayInv'
<1>1. e \in Procs
  BY ProcsAre
<1>2. QED
  BY <1>1, SetRemovalStep, SnapshotStep, WriteStep, WriteFailsStep, ReadBaseStep, SetBaseStep,
     ComputeOverlayStep, ApplyStep, UndoStep DEF Advance

LEMMA ChangeFileStep ==
    ASSUME OverlayInv, NEW f \in Files, ChangeFile(f) \/ FleetMutate(f)
    PROVE  OverlayInv'
BY SameOverlay DEF ChangeFile, FleetMutate

LEMMA OverlayInvKept == OverlayInv /\ [Next]_vars => OverlayInv'
<1>1. SUFFICES ASSUME OverlayInv, [Next]_vars PROVE OverlayInv'
  OBVIOUS
<1>2. CASE OverlayStep
  <2>1. ASSUME NEW e \in Editors, Command(e) PROVE OverlayInv'
    BY <1>1, <2>1, EditStep, UninstallStep, InstallStep DEF Command
  <2>2. Watcher \in Procs
    BY ProcsAre
  <2>3. CASE Reload
    BY <1>1, <2>2, <2>3, ParseStep, ComputeOverlayStep, ApplyStep DEF Reload
  <2>4. QED
    BY <1>1, <1>2, <2>1, <2>3, AdvanceStep, RestartStep, ChangeFileStep DEF OverlayStep
<1>3. CASE UNCHANGED overlayVars
  <2>1. declared' \in Files
    BY <1>1, <1>3 DEF overlayVars, hostVars, OverlayInv, OverlayTypes
  <2>2. QED
    BY <1>1, <1>3, <2>1, SameOverlay DEF overlayVars, hostVars
<1>4. QED
  BY <1>1, <1>2, <1>3 DEF Next, vars

\* Nothing under way: no step waits, none is held.
LEMMA QuietMeans ==
    ASSUME OverlayInv, Quiet
    PROVE  /\ \A p \in Procs : pc[p] = "idle" /\ AtRest(p)
           /\ \A e \in Editors : pc[e] = "idle"
           /\ pc[Watcher] = "idle" /\ local[Watcher].desired = declared
BY ProcsAre DEF Quiet, Idle, AtRest

-----------------------------------------------------------------------------
(* What is proved of every behaviour.                                      *)

\* The pages' inductive invariant holds: the three queries of a load are sent
\* together and given up together, so that a page waits exactly while one of them
\* is unanswered, and what it shows has one load as its source (load in src/ui.tsx).
THEOREM PagesInvariant == Spec => []PageInv
<1>1. Init => PageInv
  BY PageInitially
<1>2. PageInv /\ [Next]_vars => PageInv'
  BY PageInvKept
<1>3. QED
  BY <1>1, <1>2, PTL DEF Spec

\* A page never mixes the answers of two loads, and once it is neither loading nor
\* showing an error it shows its last one, in whatever order the answers arrive
\* and whichever fails (load in src/ui.tsx: Promise.all and its setters).
THEOREM OneLoadShown == Spec => []PageShowsOneLoad
<1>1. PageInv => PageShowsOneLoad
  BY DEF PageInv, PageFacts, Facts, PageShowsOneLoad
<1>2. QED
  BY <1>1, PagesInvariant, PTL

\* The cards and the chart agree with the rows under them, whatever the answers:
\* each card counts the rows of its level, and a chart that is drawn has every date
\* of the collections once, in order, with the sums over all of its sources
\* (CollectionTrend's byDate, sort and series; the filters of the cards).
THEOREM SummariesMatch == Spec => []SummariesMatchRows
<1>1. ASSUME PageInv, NEW p \in Pages, NEW l \in Levels
      PROVE  Cards(page[p].rows)[l]
                 = Cardinality({i \in DOMAIN page[p].rows : page[p].rows[i].level = l})
  <2>1. page[p].rows \in Shown
    BY <1>1, SameEverywhere DEF PageRecord
  <2>2. \E n \in Nat : DOMAIN page[p].rows = 1..n
    BY <2>1, ShownAreLists
  <2>3. QED
    BY <2>2, CardsCount
<1>2. ASSUME PageInv, NEW p \in Pages, page[p].mounted, ~chart[p].stale
      PROVE  Charts(chart[p].option, page[p].collections)
  BY <1>2, OptionCharts DEF PageInv, PageFacts, Facts
<1>3. PageInv => SummariesMatchRows
  BY <1>1, <1>2 DEF SummariesMatchRows, Charts
<1>4. QED
  BY <1>3, PagesInvariant, PTL

\* A page is loading exactly while an answer is still to come: no failure leaves
\* the refresh button out of use for ever (load in src/ui.tsx: the finally).
THEOREM LoadsAreAsked == Spec => []LoadingMeansAsked
<1>1. PageInv => LoadingMeansAsked
  BY DEF PageInv, PageFacts, Facts, LoadingMeansAsked, Asked
<1>2. QED
  BY <1>1, PagesInvariant, PTL

\* Alarms shown without an error were given by a plugin that was in the runtime
\* since the page was opened or refreshed for them, whatever is edited, uninstalled
\* or restarted meanwhile (the hub's query of a component that was removed is gone).
THEOREM AlarmsFromThePlugin == Spec => []AlarmsComeFromThePlugin
<1>1. PageInv => AlarmsComeFromThePlugin
  BY DEF PageInv, PageFacts, Facts, AlarmsComeFromThePlugin
<1>2. QED
  BY <1>1, PagesInvariant, PTL

\* The inductive invariant of the desired state holds: whatever commands, reloads
\* and restarts interleave, each is at a step its kind has, the watcher's copy of
\* the file is the base unless a reload was overwritten, the newest snapshot is
\* where its writer says, an edit under way can still be undone, and a reconcile
\* nothing disturbs leads where the base and the patches say (app/host/host.go).
THEOREM OverlayInvariant == Spec => []OverlayInv
<1>1. Init => OverlayInv
  BY OverlayInitially DEF Init
<1>2. OverlayInv /\ [Next]_vars => OverlayInv'
  BY OverlayInvKept
<1>3. QED
  BY <1>1, <1>2, PTL DEF Spec

\* Commands on a component that do not overlap among themselves leave it the
\* patches that running them one by one would, a rejected edit no trace, whatever
\* any number of other commands do to other components meanwhile: a patch is
\* replaced, dropped and restored in place (setPatchLocked, SetComponentConfig).
THEOREM EditsIsolated == Spec => []EditsAreIsolated
<1>1. OverlayInv => EditsAreIsolated
  BY DEF OverlayInv, Isolated
<1>2. QED
  BY <1>1, OverlayInvariant, PTL

\* At rest, when the newest snapshot was the last one written, the overlay file is
\* whole and holds the patches in memory, however many saves overlapped before
\* (persistOverlay copies under the lock and writes without it).
THEOREM NewestSurvives == Spec => []NewestSnapshotSurvives
<1>1. OverlayInv => NewestSnapshotSurvives
  <2>1. SUFFICES ASSUME OverlayInv, Quiet, newest = "disk" PROVE ~disk.torn /\ disk.list = patches
    BY DEF NewestSnapshotSurvives
  <2>2. \A e \in Editors : pc[e] # "save"
    BY <2>1, QuietMeans
  <2>3. QED
    BY <2>1, <2>2 DEF OverlayInv, NewestHeld
<1>2. QED
  BY <1>1, OverlayInvariant, PTL

\* At rest the runtime is the base with every patch in force, when no command or
\* reload overlapped another and none failed for good: an edit that is rejected
\* and undone brings back exactly the composition that still runs (Reconcile,
\* SetComponentConfig's undo, which does not reconcile again).
THEOREM RuntimeFollows == Spec => []RuntimeFollowsOverlay
<1>1. OverlayInv => RuntimeFollowsOverlay
  <2>1. SUFFICES ASSUME OverlayInv, Quiet, undisturbed
                 PROVE  Overlay(base, patches).ok /\ Overlay(base, patches).rows = runtime
    BY DEF RuntimeFollowsOverlay
  <2>2. pc[Watcher] # "start" /\ \A p \in Procs : AtRest(p)
    BY <2>1, QuietMeans
  <2>3. QED
    BY <2>1, <2>2 DEF OverlayInv, Reconciled, Settled, Follows
<1>2. QED
  BY <1>1, OverlayInvariant, PTL

\* At rest the base is what the file declares now, unless a reload fell between a
\* command's read of the base and its write (lastDesired is read without the lock
\* and written back by setBaseDesired).
THEOREM BaseFollows == Spec => []BaseFollowsFile
<1>1. OverlayInv => BaseFollowsFile
  BY QuietMeans DEF OverlayInv, BaseKept, BaseFollowsFile
<1>2. QED
  BY <1>1, OverlayInvariant, PTL

\* Every part of the console's state keeps its type.
THEOREM ConsoleTypes == Spec => []TypeOK
<1> DEFINE Counted == work \in [Kinds -> Nat]
<1>1. Init => Counted
  BY DEF Init
<1>2. Counted /\ [Next]_vars => Counted'
  <2>1. ASSUME Counted, NEW kind \in Kinds, Starts(kind) PROVE Counted'
    <3>1. work[kind] + 1 \in Nat
      BY <2>1
    <3>2. QED
      BY <2>1, <3>1 DEF Starts
  <2>2. ASSUME Counted, Keeps \/ UNCHANGED vars PROVE Counted'
    BY <2>2 DEF Keeps, vars
  <2>3. QED
    BY <2>1, <2>2 DEF Next, OverlayStep, PageStep, Kinds
<1>3. OverlayInv => OverlayTypeOK
  <2>1. SUFFICES ASSUME OverlayInv PROVE OverlayTypeOK
    OBVIOUS
  <2>2. patches \in Seq(Patch) /\ disk.list \in Seq(Patch)
    BY <2>1 DEF OverlayInv, OverlayTypes
  <2>3. /\ \A k \in DOMAIN patches : patches[k] \in Patch
        /\ \A k \in DOMAIN disk.list : disk.list[k] \in Patch
    BY <2>2
  <2>4. QED
    BY <2>1, <2>3 DEF OverlayInv, OverlayTypes, OverlayTypeOK, Steps
<1>4. PageInv => PageTypeOK
  <2>1. SUFFICES ASSUME PageInv PROVE PageTypeOK
    OBVIOUS
  <2>2. ASSUME NEW p \in Pages
        PROVE  /\ page[p].mounted \in BOOLEAN /\ page[p].loading \in BOOLEAN
               /\ page[p].error \in BOOLEAN /\ page[p].busy \in BOOLEAN
               /\ page[p].from \in [Queries -> 0..MaxLoads]
               /\ \A q \in Queries : request[p][q].state \in {"none", "asked", "answered"}
               /\ chart[p].live = page[p].mounted
    <3>1. page[p] \in PageRecord /\ request[p] \in [Queries -> QueryRecord] /\ PageFacts(p)
      BY <2>1, SameEverywhere DEF PageInv
    <3>2. QED
      BY <3>1 DEF PageRecord, QueryRecord, PageFacts, Facts
  <2>3. QED
    BY <2>1, <2>2 DEF PageInv, PageTypes, PageTypeOK
<1> HIDE DEF Counted
<1>5. OverlayInv /\ PageInv /\ Counted => TypeOK
  BY <1>3, <1>4 DEF TypeOK, Counted
<1>6. QED
  BY <1>1, <1>2, <1>5, OverlayInvariant, PagesInvariant, PTL DEF Spec

=============================================================================

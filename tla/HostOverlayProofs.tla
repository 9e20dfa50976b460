-------------------------- MODULE HostOverlayProofs --------------------------
(***************************************************************************)
(* Lemmas about the list of patches and about the steps of the overlay.    *)
(***************************************************************************)
EXTENDS HostOverlay, FiniteSetTheorems, SequenceTheorems, TLAPS

-----------------------------------------------------------------------------
(* Ranks: the positions K of a list, renumbered from 1.                    *)

Below(K, k) == {j \in K : j <= k}

LEMMA UpTo ==
    ASSUME NEW n \in Nat
    PROVE  IsFiniteSet(1..n) /\ Cardinality(1..n) = n
<1>1. 1 \in Int /\ n \in Int
  OBVIOUS
<1>2. IsFiniteSet(1..n) /\ Cardinality(1..n) = IF 1 > n THEN 0 ELSE n - 1 + 1
  BY <1>1, FS_Interval
<1>3. QED
  BY <1>2

LEMMA RankType ==
    ASSUME NEW n \in Nat, NEW K \in SUBSET (1..n)
    PROVE  /\ IsFiniteSet(K) /\ Cardinality(K) \in Nat
           /\ \A k \in K : Rank(K, k) \in 1..Cardinality(K) /\ Rank(K, k) \in Nat /\ k \in Nat
<1>1. IsFiniteSet(1..n)
  BY UpTo
<1>2. IsFiniteSet(K) /\ Cardinality(K) \in Nat
  BY <1>1, FS_Subset, FS_CardinalityType
<1>3. ASSUME NEW k \in K PROVE Rank(K, k) \in 1..Cardinality(K)
  <2>1. Below(K, k) \in SUBSET K /\ k \in Below(K, k)
    BY <1>3 DEF Below
  <2>2. IsFiniteSet(Below(K, k)) /\ Cardinality(Below(K, k)) <= Cardinality(K)
    BY <1>2, <2>1, FS_Subset
  <2>3. Cardinality(Below(K, k)) \in Nat /\ Cardinality(Below(K, k)) # 0
    BY <2>1, <2>2, FS_CardinalityType, FS_EmptySet
  <2>4. Rank(K, k) = Cardinality(Below(K, k))
    BY DEF Rank, Below
  <2>5. QED
    BY <1>2, <2>2, <2>3, <2>4
<1>4. QED
  BY <1>2, <1>3

LEMMA RankIncreases ==
    ASSUME NEW n \in Nat, NEW K \in SUBSET (1..n), NEW j \in K, NEW k \in K, j < k
    PROVE  Rank(K, j) < Rank(K, k)
<1>1. IsFiniteSet(K) /\ Rank(K, j) \in Nat /\ Rank(K, k) \in Nat /\ j \in Nat /\ k \in Nat
  BY RankType
<1>2. Below(K, k) \in SUBSET K /\ Below(K, j) \in SUBSET Below(K, k)
  <2>1. \A i \in K : i \in Nat
    BY RankType
  <2>2. \A i \in K : i <= j => i <= k
    BY <1>1, <2>1
  <2>3. QED
    BY <2>2 DEF Below
<1>3. k \in Below(K, k) /\ k \notin Below(K, j)
  BY <1>1 DEF Below
<1>4. Below(K, k) # Below(K, j)
  BY <1>3
<1>5. IsFiniteSet(Below(K, k))
  BY <1>1, <1>2, FS_Subset
<1>6. Cardinality(Below(K, j)) <= Cardinality(Below(K, k))
      /\ Cardinality(Below(K, j)) # Cardinality(Below(K, k))
  BY <1>2, <1>4, <1>5, FS_Subset
<1>7. Rank(K, j) = Cardinality(Below(K, j)) /\ Rank(K, k) = Cardinality(Below(K, k))
  BY DEF Rank, Below
<1>8. QED
  BY <1>1, <1>6, <1>7

LEMMA RankInjective ==
    ASSUME NEW n \in Nat, NEW K \in SUBSET (1..n), NEW j \in K, NEW k \in K,
           Rank(K, j) = Rank(K, k)
    PROVE  j = k
<1>1. j \in Nat /\ k \in Nat /\ Rank(K, j) \in Nat
  BY RankType
<1>2. CASE j < k
  <2>1. Rank(K, j) < Rank(K, k)
    BY <1>2, RankIncreases
  <2>2. QED
    BY <1>1, <2>1
<1>3. CASE k < j
  <2>1. Rank(K, k) < Rank(K, j)
    BY <1>3, RankIncreases
  <2>2. QED
    BY <1>1, <2>1
<1>4. QED
  BY <1>1, <1>2, <1>3

LEMMA RankBijective ==
    ASSUME NEW n \in Nat, NEW K \in SUBSET (1..n)
    PROVE  [k \in K |-> Rank(K, k)] \in Bijection(K, 1..Cardinality(K))
<1> DEFINE f == [k \in K |-> Rank(K, k)]
           c == Cardinality(K)
<1>1. IsFiniteSet(K) /\ c \in Nat /\ f \in [K -> 1..c]
  BY RankType
<1>2. f \in Injection(K, 1..c)
  BY <1>1, RankInjective DEF Injection, IsInjective
<1>3. IsFiniteSet(1..c) /\ Cardinality(1..c) = c
  BY <1>1, UpTo
<1>4. f \in Surjection(K, 1..c)
  BY <1>1, <1>2, <1>3, FS_Injection
<1>5. QED
  BY <1>2, <1>4 DEF Bijection

LEMMA RankOnto ==
    ASSUME NEW n \in Nat, NEW K \in SUBSET (1..n), NEW r \in 1..Cardinality(K)
    PROVE  \E k \in K : Rank(K, k) = r
BY RankBijective DEF Bijection, Surjection

\* Onto, and in order.
Maps(f, K, J) ==
    /\ \A i \in J : \E k \in K : f[k] = i
    /\ \A j, k \in K : j < k => f[j] < f[k]

\* A set that is mapped onto another in order is ranked as the other is.
LEMMA Renumbered ==
    ASSUME NEW m \in Nat, NEW n \in Nat, NEW K \in SUBSET (1..n), NEW J \in SUBSET (1..m),
           NEW f \in [K -> J], Maps(f, K, J)
    PROVE  /\ Cardinality(K) = Cardinality(J)
           /\ \A k \in K : Rank(K, k) = Rank(J, f[k])
<1>1. \A k \in K : k \in Nat
  OBVIOUS
<1>2. \A i \in J : i \in Nat
  OBVIOUS
<1>3. \A k \in K : f[k] \in J /\ f[k] \in Nat
  <2>1. ASSUME NEW k \in K PROVE f[k] \in J
    OBVIOUS
  <2>2. QED
    BY <1>2, <2>1
<1>4. ASSUME NEW j \in K, NEW k \in K, f[j] = f[k] PROVE j = k
  <2>1. ~(j < k) /\ ~(k < j)
    BY <1>2, <1>3, <1>4 DEF Maps
  <2>2. QED
    BY <1>1, <2>1
<1>5. IsFiniteSet(K)
  BY RankType
<1>6. f \in Bijection(K, J)
  BY <1>4 DEF Maps, Bijection, Injection, Surjection, IsInjective
<1>7. Cardinality(K) = Cardinality(J)
  BY <1>5, <1>6, FS_Bijection DEF ExistsBijection
<1>8. ASSUME NEW k \in K PROVE Rank(K, k) = Rank(J, f[k])
  <2> DEFINE g == [j \in Below(K, k) |-> f[j]]
  <2>1. IsFiniteSet(Below(K, k))
    BY <1>5, FS_Subset DEF Below
  <2>2. ASSUME NEW j \in K PROVE j <= k <=> f[j] <= f[k]
    <3>1. j \in Nat /\ k \in Nat /\ f[j] \in Nat /\ f[k] \in Nat
      BY <1>1, <1>2, <1>3
    <3>2. CASE j < k
      BY <3>1, <3>2 DEF Maps
    <3>3. CASE j = k
      BY <3>1, <3>3
    <3>4. CASE k < j
      <4>1. f[k] < f[j]
        BY <3>4 DEF Maps
      <4>2. QED
        BY <3>1, <3>4, <4>1
    <3>5. QED
      BY <3>1, <3>2, <3>3, <3>4
  <2>3. g \in [Below(K, k) -> Below(J, f[k])]
    BY <1>3, <2>2 DEF Below
  <2>4. \A i \in Below(J, f[k]) : \E j \in Below(K, k) : g[j] = i
    BY <2>2 DEF Below, Maps
  <2>5. \A i, j \in Below(K, k) : g[i] = g[j] => i = j
    BY <1>4 DEF Below
  <2>6. g \in Bijection(Below(K, k), Below(J, f[k]))
    BY <2>3, <2>4, <2>5 DEF Bijection, Injection, Surjection, IsInjective
  <2>7. Cardinality(Below(K, k)) = Cardinality(Below(J, f[k]))
    BY <2>1, <2>6, FS_Bijection DEF ExistsBijection
  <2>8. QED
    BY <2>7 DEF Rank, Below
<1>9. QED
  BY <1>7, <1>8

-----------------------------------------------------------------------------
(* The elements of a list at some of its positions.                        *)

LEMMA AtRanks ==
    ASSUME NEW S, NEW list \in Seq(S), NEW K \in SUBSET DOMAIN list
    PROVE  /\ At(list, K) \in Seq(S)
           /\ Len(At(list, K)) = Cardinality(K) /\ DOMAIN At(list, K) = 1..Cardinality(K)
           /\ \A k \in K : At(list, K)[Rank(K, k)] = list[k]
<1> DEFINE c == Cardinality(K)
<1>1. Len(list) \in Nat /\ DOMAIN list = 1..Len(list) /\ \A k \in DOMAIN list : list[k] \in S
  BY LenProperties, ElementOfSeq
<1>2. K \in SUBSET (1..Len(list))
  BY <1>1
<1>3. c \in Nat /\ \A k \in K : Rank(K, k) \in 1..c
  BY <1>1, <1>2, RankType
<1>4. ASSUME NEW k \in K PROVE At(list, K)[Rank(K, k)] = list[k]
  <2> DEFINE x == CHOOSE j \in K : Rank(K, j) = Rank(K, k)
  <2>1. x \in K /\ Rank(K, x) = Rank(K, k)
    OBVIOUS
  <2> HIDE DEF x
  <2>2. x = k
    BY <1>1, <1>2, <2>1, RankInjective
  <2>3. At(list, K)[Rank(K, k)] = list[x]
    BY <1>3 DEF At, x
  <2>4. QED
    BY <2>2, <2>3
<1>5. ASSUME NEW r \in 1..c PROVE At(list, K)[r] \in S
  <2>1. PICK k \in K : Rank(K, k) = r
    BY <1>1, <1>2, RankOnto
  <2>2. QED
    BY <1>1, <1>4, <2>1
<1>6. At(list, K) \in [1..c -> S] /\ DOMAIN At(list, K) = 1..c
  BY <1>5 DEF At
<1>7. At(list, K) \in Seq(S)
  BY <1>3, <1>6, SeqDef
<1>8. Len(At(list, K)) = c
  BY <1>3, <1>6, <1>7, LenProperties
<1>9. QED
  BY <1>4, <1>6, <1>7, <1>8

\* s is what a list holds at the positions K.
Holds(s, list, K) == Len(s) = Cardinality(K) /\ \A k \in K : s[Rank(K, k)] = list[k]

LEMMA AtIs ==
    ASSUME NEW S, NEW list \in Seq(S), NEW K \in SUBSET DOMAIN list,
           NEW s \in Seq(S), Holds(s, list, K)
    PROVE  At(list, K) = s
<1>1. Len(list) \in Nat /\ K \in SUBSET (1..Len(list))
  BY LenProperties
<1>2. /\ At(list, K) \in Seq(S) /\ Len(At(list, K)) = Cardinality(K)
      /\ \A k \in K : At(list, K)[Rank(K, k)] = list[k]
  BY AtRanks
<1>3. ASSUME NEW r \in 1..Cardinality(K) PROVE At(list, K)[r] = s[r]
  <2>1. PICK k \in K : Rank(K, k) = r
    BY <1>1, RankOnto
  <2>2. QED
    BY <1>2, <2>1 DEF Holds
<1>4. Len(s) = Cardinality(K)
  BY DEF Holds
<1>5. QED
  BY <1>2, <1>3, <1>4, SeqEqual

\* Two lists hold the same in the same order.
Renumbers(f, list, K, other, J) ==
    /\ Maps(f, K, J)
    /\ \A k \in K : list[k] = other[f[k]]

LEMMA AtRenumbered ==
    ASSUME NEW S, NEW list \in Seq(S), NEW other \in Seq(S),
           NEW K \in SUBSET DOMAIN list, NEW J \in SUBSET DOMAIN other, NEW f \in [K -> J],
           Renumbers(f, list, K, other, J)
    PROVE  At(list, K) = At(other, J)
<1>1. /\ Len(list) \in Nat /\ K \in SUBSET (1..Len(list))
      /\ Len(other) \in Nat /\ J \in SUBSET (1..Len(other))
  BY LenProperties
<1>2. Cardinality(K) = Cardinality(J) /\ \A k \in K : Rank(K, k) = Rank(J, f[k])
  BY <1>1, Renumbered DEF Renumbers
<1>3. /\ At(other, J) \in Seq(S) /\ Len(At(other, J)) = Cardinality(J)
      /\ \A i \in J : At(other, J)[Rank(J, i)] = other[i]
  BY AtRanks
<1>4. Holds(At(other, J), list, K)
  BY <1>2, <1>3 DEF Holds, Renumbers
<1>5. QED
  BY <1>3, <1>4, AtIs

LEMMA AtAll ==
    ASSUME NEW S, NEW list \in Seq(S)
    PROVE  At(list, DOMAIN list) = list
<1> DEFINE n == Len(list)
<1>1. n \in Nat /\ DOMAIN list = 1..n
  BY LenProperties
<1>2. Cardinality(1..n) = n
  BY <1>1, UpTo
<1>3. ASSUME NEW k \in 1..n PROVE Rank(1..n, k) = k
  <2>1. {j \in 1..n : j <= k} = 1..k
    BY <1>1
  <2>2. Cardinality(1..k) = k
    BY <1>1, UpTo
  <2>3. QED
    BY <2>1, <2>2 DEF Rank
<1>4. Holds(list, list, 1..n)
  BY <1>2, <1>3 DEF Holds
<1>5. QED
  BY <1>1, <1>4, AtIs

LEMMA AtAt ==
    ASSUME NEW S, NEW list \in Seq(S), NEW K \in SUBSET DOMAIN list,
           NEW J \in SUBSET (1..Cardinality(K))
    PROVE  At(At(list, K), J) = At(list, {k \in K : Rank(K, k) \in J})
<1> DEFINE H == {k \in K : Rank(K, k) \in J}
           f == [k \in H |-> Rank(K, k)]
           part == At(list, K)
<1>1. Len(list) \in Nat /\ K \in SUBSET (1..Len(list))
  BY LenProperties
<1>2. /\ part \in Seq(S) /\ DOMAIN part = 1..Cardinality(K)
      /\ \A k \in K : part[Rank(K, k)] = list[k]
  BY AtRanks
<1>3. ASSUME NEW i \in J PROVE \E k \in H : f[k] = i
  BY <1>1, RankOnto
<1>4. \A j, k \in H : j < k => f[j] < f[k]
  BY <1>1, RankIncreases
<1>5. \A k \in H : list[k] = part[f[k]]
  BY <1>2
<1>6. Renumbers(f, list, H, part, J)
  BY <1>3, <1>4, <1>5 DEF Renumbers, Maps
<1>7. /\ H \in SUBSET DOMAIN list
      /\ J \in SUBSET DOMAIN part
      /\ f \in [H -> J]
  BY <1>2
<1> HIDE DEF f, H, part
<1>8. part \in Seq(S)
  BY <1>2
<1>9. At(list, H) = At(part, J)
  BY <1>6, <1>7, <1>8, AtRenumbered
<1>10. QED
  BY <1>9 DEF H, part

\* Positions at which two lists agree.
LEMMA AtSame ==
    ASSUME NEW S, NEW list \in Seq(S), NEW other \in Seq(S),
           NEW K \in SUBSET DOMAIN list, K \subseteq DOMAIN other,
           \A k \in K : list[k] = other[k]
    PROVE  At(list, K) = At(other, K)
<1> DEFINE f == [k \in K |-> k]
<1>1. f \in [K -> K] /\ Renumbers(f, list, K, other, K)
  BY DEF Renumbers, Maps
<1> HIDE DEF f
<1>2. K \in SUBSET DOMAIN other
  OBVIOUS
<1>3. QED
  BY <1>1, <1>2, AtRenumbered

LEMMA AppendFacts ==
    ASSUME NEW S, NEW list \in Seq(S), NEW q \in S
    PROVE  /\ Append(list, q) \in Seq(S) /\ Len(Append(list, q)) = Len(list) + 1
           /\ DOMAIN Append(list, q) = DOMAIN list \cup {Len(list) + 1}
           /\ Len(list) + 1 \notin DOMAIN list
           /\ \A k \in DOMAIN list : Append(list, q)[k] = list[k]
           /\ Append(list, q)[Len(list) + 1] = q
<1>1. Len(list) \in Nat /\ DOMAIN list = 1..Len(list)
  BY LenProperties
<1>2. /\ Append(list, q) \in Seq(S) /\ Len(Append(list, q)) = Len(list) + 1
      /\ \A k \in 1..Len(list) : Append(list, q)[k] = list[k]
      /\ Append(list, q)[Len(list) + 1] = q
  BY <1>1
<1>3. DOMAIN Append(list, q) = 1..(Len(list) + 1)
  BY <1>2, LenProperties
<1>4. 1..(Len(list) + 1) = (1..Len(list)) \cup {Len(list) + 1}
  BY <1>1
<1>5. QED
  BY <1>1, <1>2, <1>3, <1>4

LEMMA AtAppend ==
    ASSUME NEW S, NEW list \in Seq(S), NEW q \in S, NEW K \in SUBSET DOMAIN list
    PROVE  At(Append(list, q), K \cup {Len(list) + 1}) = Append(At(list, K), q)
<1> DEFINE n == Len(list)
           J == K \cup {n + 1}
           c == Cardinality(K)
<1>1. n \in Nat /\ K \in SUBSET (1..n) /\ n + 1 \notin K
  BY LenProperties
<1>2. IsFiniteSet(K) /\ c \in Nat /\ \A k \in K : Rank(K, k) \in 1..c
  BY <1>1, RankType
<1>3. Cardinality(J) = c + 1
  BY <1>1, <1>2, FS_AddElement
<1>4. ASSUME NEW k \in K PROVE Rank(J, k) = Rank(K, k)
  <2>1. k <= n /\ k \in Nat
    BY <1>1
  <2>2. ~(n + 1 <= k)
    BY <1>1, <2>1
  <2>3. {j \in J : j <= k} = {j \in K : j <= k}
    BY <2>2
  <2>4. QED
    BY <2>3 DEF Rank
<1>5. Rank(J, n + 1) = c + 1
  <2>1. \A j \in K : j <= n + 1
    BY <1>1
  <2>2. n + 1 <= n + 1
    BY <1>1
  <2>3. {j \in J : j <= n + 1} = J
    BY <2>1, <2>2
  <2>4. QED
    BY <1>3, <2>3 DEF Rank
<1>6. /\ At(list, K) \in Seq(S) /\ Len(At(list, K)) = c /\ DOMAIN At(list, K) = 1..c
      /\ \A k \in K : At(list, K)[Rank(K, k)] = list[k]
  BY AtRanks
<1>7. /\ Append(At(list, K), q) \in Seq(S) /\ Len(Append(At(list, K), q)) = c + 1
      /\ \A r \in 1..c : Append(At(list, K), q)[r] = At(list, K)[r]
      /\ Append(At(list, K), q)[c + 1] = q
  BY <1>6, AppendFacts
<1>8. /\ Append(list, q) \in Seq(S) /\ J \in SUBSET DOMAIN Append(list, q)
      /\ (\A k \in K : Append(list, q)[k] = list[k]) /\ Append(list, q)[n + 1] = q
  BY AppendFacts
<1>9. ASSUME NEW k \in J PROVE Append(At(list, K), q)[Rank(J, k)] = Append(list, q)[k]
  <2>1. CASE k \in K
    BY <1>2, <1>4, <1>6, <1>7, <1>8, <2>1
  <2>2. CASE k = n + 1
    BY <1>5, <1>7, <1>8, <2>2
  <2>3. QED
    BY <2>1, <2>2
<1> HIDE DEF J
<1>10. Holds(Append(At(list, K), q), Append(list, q), J)
  BY <1>3, <1>7, <1>9 DEF Holds
<1>11. At(Append(list, q), J) = Append(At(list, K), q)
  BY <1>7, <1>8, <1>10, AtIs
<1>12. QED
  BY <1>11 DEF J

LEMMA AtExcept ==
    ASSUME NEW S, NEW list \in Seq(S), NEW q \in S, NEW K \in SUBSET DOMAIN list, NEW x \in K
    PROVE  At([list EXCEPT ![x] = q], K) = [At(list, K) EXCEPT ![Rank(K, x)] = q]
<1> DEFINE other == [list EXCEPT ![x] = q]
           s == [At(list, K) EXCEPT ![Rank(K, x)] = q]
<1>1. Len(list) \in Nat /\ DOMAIN list = 1..Len(list) /\ K \in SUBSET (1..Len(list))
  BY LenProperties
<1>2. /\ other \in Seq(S) /\ DOMAIN other = DOMAIN list
      /\ \A k \in K : other[k] = IF k = x THEN q ELSE list[k]
  BY <1>1, ExceptSeq
<1>3. /\ At(list, K) \in Seq(S) /\ Len(At(list, K)) = Cardinality(K)
      /\ \A k \in K : At(list, K)[Rank(K, k)] = list[k]
  BY AtRanks
<1>4. \A k \in K : Rank(K, k) \in 1..Cardinality(K)
  BY <1>1, RankType
<1>5. /\ s \in Seq(S) /\ Len(s) = Cardinality(K)
      /\ \A r \in 1..Cardinality(K) : s[r] = IF r = Rank(K, x) THEN q ELSE At(list, K)[r]
  BY <1>3, <1>4, ExceptSeq
<1> HIDE DEF s, other
<1>6. ASSUME NEW k \in K PROVE s[Rank(K, k)] = other[k]
  <2>1. CASE k = x
    BY <1>2, <1>4, <1>5, <2>1
  <2>2. CASE k # x
    <3>1. Rank(K, k) # Rank(K, x)
      BY <1>1, <2>2, RankInjective
    <3>2. QED
      BY <1>2, <1>3, <1>4, <1>5, <2>2, <3>1
  <2>3. QED
    BY <2>1, <2>2
<1>7. Holds(s, other, K)
  BY <1>5, <1>6 DEF Holds
<1>8. At(other, K) = s
  BY <1>2, <1>5, <1>7, AtIs
<1>9. QED
  BY <1>8 DEF other, s

-----------------------------------------------------------------------------
(* Patches.                                                                *)

LEMMA LastPatchFacts ==
    ASSUME NEW S, NEW list \in Seq(S), NEW op, NEW id, HasPatch(list, op, id)
    PROVE  /\ LastPatch(list, op, id) \in DOMAIN list
           /\ IsPatch(list[LastPatch(list, op, id)], op, id)
           /\ \A j \in DOMAIN list : IsPatch(list[j], op, id) => j <= LastPatch(list, op, id)
<1> DEFINE M == {k \in DOMAIN list : IsPatch(list[k], op, id)}
           c == Cardinality(M)
<1>1. Len(list) \in Nat /\ M \in SUBSET (1..Len(list)) /\ M # {}
  BY LenProperties DEF HasPatch
<1>2. \A k \in M : k \in Nat /\ Rank(M, k) \in 1..c /\ Rank(M, k) \in Nat
  BY <1>1, RankType
<1>3. IsFiniteSet(M) /\ c \in Nat /\ c # 0
  BY <1>1, RankType, FS_EmptySet
<1>4. c \in 1..c
  BY <1>3
<1>5. PICK k \in M : Rank(M, k) = c
  BY <1>1, <1>4, RankOnto
<1>6. ASSUME NEW j \in M PROVE j <= k
  <2>1. CASE k < j
    <3>1. Rank(M, k) < Rank(M, j)
      BY <1>1, <2>1, RankIncreases
    <3>2. QED
      BY <1>2, <1>3, <1>5, <3>1
  <2>2. QED
    BY <1>2, <2>1
<1>7. /\ k \in DOMAIN list /\ IsPatch(list[k], op, id)
      /\ \A j \in DOMAIN list : IsPatch(list[j], op, id) => j <= k
  BY <1>6
<1>8. QED
  BY <1>7 DEF LastPatch

LEMMA LastPatchIs ==
    ASSUME NEW S, NEW list \in Seq(S), NEW op, NEW id, NEW k \in DOMAIN list,
           IsPatch(list[k], op, id),
           \A j \in DOMAIN list : IsPatch(list[j], op, id) => j <= k
    PROVE  HasPatch(list, op, id) /\ LastPatch(list, op, id) = k
<1> DEFINE l == LastPatch(list, op, id)
<1>1. HasPatch(list, op, id)
  BY DEF HasPatch
<1>2. /\ l \in DOMAIN list /\ IsPatch(list[l], op, id)
      /\ \A j \in DOMAIN list : IsPatch(list[j], op, id) => j <= l
  BY <1>1, LastPatchFacts
<1>3. l <= k /\ k <= l
  BY <1>2
<1>4. l \in Nat /\ k \in Nat
  BY <1>2, LenProperties
<1>5. QED
  BY <1>1, <1>3, <1>4

OfId(list, id) == {k \in DOMAIN list : list[k].id = id}

LEMMA PatchesOfRanks ==
    ASSUME NEW S, NEW list \in Seq(S), NEW i
    PROVE  /\ PatchesOf(list, i) = At(list, OfId(list, i))
           /\ PatchesOf(list, i) \in Seq(S)
           /\ DOMAIN PatchesOf(list, i) = 1..Cardinality(OfId(list, i))
           /\ Len(list) \in Nat /\ OfId(list, i) \in SUBSET (1..Len(list))
           /\ \A k \in OfId(list, i) :
                  /\ Rank(OfId(list, i), k) \in DOMAIN PatchesOf(list, i)
                  /\ PatchesOf(list, i)[Rank(OfId(list, i), k)] = list[k]
           /\ \A r \in DOMAIN PatchesOf(list, i) :
                  \E k \in OfId(list, i) : Rank(OfId(list, i), k) = r
<1>1. PatchesOf(list, i) = At(list, OfId(list, i))
  BY DEF PatchesOf, OfId
<1>2. Len(list) \in Nat /\ OfId(list, i) \in SUBSET DOMAIN list /\ DOMAIN list = 1..Len(list)
  BY LenProperties DEF OfId
<1>3. \A k \in OfId(list, i) : Rank(OfId(list, i), k) \in 1..Cardinality(OfId(list, i))
  BY <1>2, RankType
<1>4. \A r \in 1..Cardinality(OfId(list, i)) :
          \E k \in OfId(list, i) : Rank(OfId(list, i), k) = r
  BY <1>2, RankOnto
<1>5. QED
  BY <1>1, <1>2, <1>3, <1>4, AtRanks

\* The last patch of a component is the last among its patches.
LEMMA LastPatchOf ==
    ASSUME NEW S, NEW list \in Seq(S), NEW op, NEW i, HasPatch(list, op, i)
    PROVE  /\ LastPatch(list, op, i) \in OfId(list, i)
           /\ HasPatch(PatchesOf(list, i), op, i)
           /\ LastPatch(PatchesOf(list, i), op, i) = Rank(OfId(list, i), LastPatch(list, op, i))
<1> DEFINE K == OfId(list, i)
           l == LastPatch(list, op, i)
           part == PatchesOf(list, i)
<1>1. /\ l \in DOMAIN list /\ IsPatch(list[l], op, i)
      /\ \A j \in DOMAIN list : IsPatch(list[j], op, i) => j <= l
  BY LastPatchFacts
<1>2. l \in K
  BY <1>1 DEF OfId, IsPatch
<1>3. /\ part \in Seq(S) /\ Len(list) \in Nat /\ K \in SUBSET (1..Len(list))
      /\ \A k \in K : Rank(K, k) \in DOMAIN part /\ part[Rank(K, k)] = list[k]
      /\ \A r \in DOMAIN part : \E k \in K : Rank(K, k) = r
  BY PatchesOfRanks
<1>4. Rank(K, l) \in DOMAIN part /\ IsPatch(part[Rank(K, l)], op, i)
  BY <1>1, <1>2, <1>3
<1>5. ASSUME NEW r \in DOMAIN part, IsPatch(part[r], op, i) PROVE r <= Rank(K, l)
  <2>1. PICK k \in K : Rank(K, k) = r
    BY <1>3
  <2>2. k \in DOMAIN list /\ part[r] = list[k]
    BY <1>3, <2>1 DEF OfId
  <2>3. k <= l
    BY <1>1, <1>5, <2>2
  <2>4. k \in Nat /\ l \in Nat /\ Rank(K, k) \in Nat /\ Rank(K, l) \in Nat
    BY <1>2, <1>3, RankType
  <2>5. CASE k = l
    BY <2>1, <2>4, <2>5
  <2>6. CASE k < l
    <3>1. Rank(K, k) < Rank(K, l)
      BY <1>2, <1>3, <2>6, RankIncreases
    <3>2. QED
      BY <2>1, <2>4, <3>1
  <2>7. QED
    BY <2>3, <2>4, <2>5, <2>6
<1> HIDE DEF K, part
<1>6. HasPatch(part, op, i) /\ LastPatch(part, op, i) = Rank(K, l)
  BY <1>3, <1>4, <1>5, LastPatchIs
<1>7. QED
  BY <1>2, <1>6 DEF K, part

LEMMA HasPatchOf ==
    ASSUME NEW S, NEW list \in Seq(S), NEW op, NEW i
    PROVE  HasPatch(PatchesOf(list, i), op, i) <=> HasPatch(list, op, i)
<1>1. ASSUME HasPatch(PatchesOf(list, i), op, i) PROVE HasPatch(list, op, i)
  <2>1. PICK r \in DOMAIN PatchesOf(list, i) : IsPatch(PatchesOf(list, i)[r], op, i)
    BY <1>1 DEF HasPatch
  <2>2. PICK k \in OfId(list, i) : Rank(OfId(list, i), k) = r
    BY PatchesOfRanks
  <2>3. PatchesOf(list, i)[Rank(OfId(list, i), k)] = list[k]
    BY PatchesOfRanks
  <2>4. k \in DOMAIN list
    BY DEF OfId
  <2>5. QED
    BY <2>1, <2>2, <2>3, <2>4 DEF HasPatch
<1>2. QED
  BY <1>1, LastPatchOf

LEMMA SetPatchTyped ==
    ASSUME NEW S, NEW list \in Seq(S), NEW q \in S
    PROVE  SetPatch(list, q) \in Seq(S)
<1>1. CASE HasPatch(list, q.op, q.id)
  <2>1. LastPatch(list, q.op, q.id) \in 1..Len(list)
    BY <1>1, LastPatchFacts, LenProperties
  <2>2. [list EXCEPT ![LastPatch(list, q.op, q.id)] = q] \in Seq(S)
    BY <2>1, ExceptSeq
  <2>3. QED
    BY <1>1, <2>2 DEF SetPatch
<1>2. CASE ~HasPatch(list, q.op, q.id)
  BY <1>2, AppendFacts DEF SetPatch
<1>3. QED
  BY <1>1, <1>2

LEMMA AtTyped ==
    ASSUME NEW S, NEW list \in Seq(S), NEW op, NEW id
    PROVE  /\ RemovePatch(list, op, id) \in Seq(S)
           /\ Drop(list, op, id) \in Seq(S)
           /\ PatchesOf(list, id) \in Seq(S)
<1>1. At(list, {k \in DOMAIN list : ~IsPatch(list[k], op, id)}) \in Seq(S)
  BY AtRanks
<1>2. At(list, DOMAIN list \ {LastPatch(list, op, id)}) \in Seq(S)
  BY AtRanks
<1>3. QED
  BY <1>1, <1>2, PatchesOfRanks DEF RemovePatch, Drop

\* A change of one component's patches: what it does to them, and to the others'.
LEMMA SetPatchOf ==
    ASSUME NEW S, NEW list \in Seq(S), NEW q \in S, NEW i
    PROVE  PatchesOf(SetPatch(list, q), i) =
               IF q.id = i THEN SetPatch(PatchesOf(list, i), q) ELSE PatchesOf(list, i)
<1> DEFINE K == OfId(list, i)
           l == LastPatch(list, q.op, q.id)
<1>1. Len(list) \in Nat /\ DOMAIN list = 1..Len(list) /\ K \in SUBSET DOMAIN list
  BY LenProperties DEF OfId
<1>2. PatchesOf(list, i) = At(list, K)
  BY PatchesOfRanks
<1>3. CASE HasPatch(list, q.op, q.id)
  <2> DEFINE other == [list EXCEPT ![l] = q]
  <2>1. l \in DOMAIN list /\ list[l].id = q.id
    BY <1>3, LastPatchFacts DEF IsPatch
  <2>2. /\ other \in Seq(S) /\ DOMAIN other = DOMAIN list
        /\ \A k \in DOMAIN list : other[k] = IF k = l THEN q ELSE list[k]
    BY <1>1, <2>1, ExceptSeq
  <2>3. SetPatch(list, q) = other
    BY <1>3 DEF SetPatch
  <2>4. OfId(other, i) = K
    BY <2>1, <2>2 DEF OfId
  <2> HIDE DEF other
  <2>5. PatchesOf(other, i) = At(other, K)
    BY <2>2, <2>4, PatchesOfRanks
  <2>6. CASE q.id # i
    <3>1. \A k \in K : list[k] = other[k]
      BY <2>1, <2>2, <2>6 DEF OfId
    <3>2. At(list, K) = At(other, K)
      BY <1>1, <2>2, <3>1, AtSame
    <3>3. QED
      BY <1>2, <2>3, <2>5, <2>6, <3>2
  <2>7. CASE q.id = i
    <3>1. l \in K /\ HasPatch(At(list, K), q.op, i)
          /\ LastPatch(At(list, K), q.op, i) = Rank(K, l)
      BY <1>2, <1>3, <2>7, LastPatchOf
    <3>2. At(other, K) = [At(list, K) EXCEPT ![Rank(K, l)] = q]
      <4>1. l \in K /\ K \in SUBSET DOMAIN list
        BY <1>1, <3>1
      <4> HIDE DEF K, l
      <4>2. QED
        BY <4>1, AtExcept DEF other
    <3>3. SetPatch(At(list, K), q) = [At(list, K) EXCEPT ![Rank(K, l)] = q]
      BY <2>7, <3>1 DEF SetPatch
    <3>4. QED
      BY <1>2, <2>3, <2>5, <2>7, <3>2, <3>3
  <2>8. QED
    BY <2>6, <2>7
<1>4. CASE ~HasPatch(list, q.op, q.id)
  <2> DEFINE other == Append(list, q)
             n == Len(list) + 1
  <2>1. /\ other \in Seq(S) /\ DOMAIN other = DOMAIN list \cup {n} /\ n \notin DOMAIN list
        /\ (\A k \in DOMAIN list : other[k] = list[k]) /\ other[n] = q
    BY AppendFacts
  <2>2. SetPatch(list, q) = other
    BY <1>4 DEF SetPatch
  <2>3. PatchesOf(other, i) = At(other, OfId(other, i))
    BY <2>1, PatchesOfRanks
  <2>4. CASE q.id # i
    <3>1. OfId(other, i) = K
      BY <2>1, <2>4 DEF OfId
    <3>2. At(list, K) = At(other, K)
      <4> HIDE DEF other, n
      <4>1. K \subseteq DOMAIN other /\ \A k \in K : list[k] = other[k]
        BY <1>1, <2>1
      <4>2. QED
        BY <1>1, <2>1, <4>1, AtSame
    <3>3. QED
      BY <1>2, <2>2, <2>3, <2>4, <3>1, <3>2
  <2>5. CASE q.id = i
    <3>1. OfId(other, i) = K \cup {n}
      BY <2>1, <2>5 DEF OfId
    <3>2. At(other, K \cup {n}) = Append(At(list, K), q)
      <4>1. K \in SUBSET DOMAIN list
        BY <1>1
      <4> HIDE DEF K
      <4>2. QED
        BY <4>1, AtAppend
    <3>3. ~HasPatch(At(list, K), q.op, i)
      BY <1>2, <1>4, <2>5, HasPatchOf
    <3>4. SetPatch(At(list, K), q) = Append(At(list, K), q)
      BY <2>5, <3>3 DEF SetPatch
    <3>5. QED
      BY <1>2, <2>2, <2>3, <2>5, <3>1, <3>2, <3>4
  <2>6. QED
    BY <2>4, <2>5
<1>5. QED
  BY <1>3, <1>4

\* Taking some elements out of a list and out of a component's part of it.
LEMMA OfIdOfAt ==
    ASSUME NEW S, NEW list \in Seq(S), NEW K \in SUBSET DOMAIN list, NEW i
    PROVE  PatchesOf(At(list, K), i) = At(list, K \cap OfId(list, i))
<1> DEFINE part == At(list, K)
           J == OfId(part, i)
<1>1. /\ part \in Seq(S) /\ DOMAIN part = 1..Cardinality(K)
      /\ \A k \in K : part[Rank(K, k)] = list[k]
  BY AtRanks
<1>2. \A k \in K : Rank(K, k) \in 1..Cardinality(K)
  BY RankType, LenProperties
<1>3. J \in SUBSET (1..Cardinality(K))
  BY <1>1 DEF OfId
<1>4. {k \in K : Rank(K, k) \in J} = K \cap OfId(list, i)
  BY <1>1, <1>2 DEF OfId
<1>5. PatchesOf(part, i) = At(part, J)
  BY <1>1, PatchesOfRanks
<1>6. At(part, J) = At(list, {k \in K : Rank(K, k) \in J})
  BY <1>3, AtAt
<1>7. QED
  BY <1>4, <1>5, <1>6

LEMMA DropOf ==
    ASSUME NEW S, NEW list \in Seq(S), NEW op, NEW id, NEW i
    PROVE  PatchesOf(Drop(list, op, id), i) =
               IF id = i THEN Drop(PatchesOf(list, i), op, i) ELSE PatchesOf(list, i)
<1> DEFINE D == {k \in DOMAIN list : ~IsPatch(list[k], op, id)}
           K == OfId(list, i)
           part == PatchesOf(list, i)
           J == {r \in DOMAIN part : ~IsPatch(part[r], op, i)}
<1>1. D \in SUBSET DOMAIN list /\ K \in SUBSET DOMAIN list
  BY DEF OfId
<1>2. PatchesOf(Drop(list, op, id), i) = At(list, D \cap K)
  BY <1>1, OfIdOfAt DEF Drop
<1>3. /\ part = At(list, K) /\ DOMAIN part = 1..Cardinality(K)
      /\ \A k \in K : Rank(K, k) \in DOMAIN part /\ part[Rank(K, k)] = list[k]
  BY PatchesOfRanks
<1>4. CASE id # i
  <2>1. D \cap K = K
    BY <1>4 DEF OfId, IsPatch
  <2>2. QED
    BY <1>2, <1>3, <1>4, <2>1
<1>5. CASE id = i
  <2>1. {k \in K : Rank(K, k) \in J} = D \cap K
    BY <1>1, <1>3, <1>5
  <2>2. J \in SUBSET (1..Cardinality(K))
    BY <1>3
  <2>3. At(At(list, K), J) = At(list, {k \in K : Rank(K, k) \in J})
    BY <1>1, <2>2, AtAt
  <2>4. Drop(part, op, i) = At(part, J)
    BY DEF Drop
  <2>5. QED
    BY <1>2, <1>3, <1>5, <2>1, <2>3, <2>4
<1>6. QED
  BY <1>4, <1>5

LEMMA RemovePatchOf ==
    ASSUME NEW S, NEW list \in Seq(S), NEW op, NEW id, NEW i
    PROVE  PatchesOf(RemovePatch(list, op, id), i) =
               IF id = i THEN RemovePatch(PatchesOf(list, i), op, i) ELSE PatchesOf(list, i)
<1> DEFINE l == LastPatch(list, op, id)
           D == DOMAIN list \ {l}
           K == OfId(list, i)
           part == PatchesOf(list, i)
<1>1. CASE ~HasPatch(list, op, id)
  <2>1. id = i => ~HasPatch(part, op, i)
    BY <1>1, HasPatchOf
  <2>2. QED
    BY <1>1, <2>1 DEF RemovePatch
<1>2. CASE HasPatch(list, op, id)
  <2>1. l \in DOMAIN list /\ list[l].id = id
    BY <1>2, LastPatchFacts DEF IsPatch
  <2>2. K \in SUBSET DOMAIN list /\ D \in SUBSET DOMAIN list
    BY DEF OfId
  <2>3. PatchesOf(RemovePatch(list, op, id), i) = At(list, D \cap K)
    BY <1>2, <2>2, OfIdOfAt DEF RemovePatch
  <2>4. /\ part = At(list, K) /\ DOMAIN part = 1..Cardinality(K)
        /\ Len(list) \in Nat /\ K \in SUBSET (1..Len(list))
        /\ \A k \in K : Rank(K, k) \in DOMAIN part
    BY PatchesOfRanks
  <2>5. CASE id # i
    <3>1. D \cap K = K
      BY <2>1, <2>2, <2>5 DEF OfId
    <3>2. QED
      BY <2>3, <2>4, <2>5, <3>1
  <2>6. CASE id = i
    <3> DEFINE J == DOMAIN part \ {Rank(K, l)}
    <3>1. l \in K /\ HasPatch(part, op, i) /\ LastPatch(part, op, i) = Rank(K, l)
      BY <1>2, <2>6, LastPatchOf
    <3>2. \A k \in K : Rank(K, k) = Rank(K, l) => k = l
      BY <2>4, <3>1, RankInjective
    <3>3. {k \in K : Rank(K, k) \in J} = D \cap K
      BY <2>2, <2>4, <3>2
    <3>4. J \in SUBSET (1..Cardinality(K))
      BY <2>4
    <3>5. At(At(list, K), J) = At(list, {k \in K : Rank(K, k) \in J})
      BY <2>2, <3>4, AtAt
    <3>6. RemovePatch(part, op, i) = At(part, J)
      BY <3>1 DEF RemovePatch
    <3>7. QED
      BY <2>3, <2>4, <2>6, <3>3, <3>5, <3>6
  <2>7. QED
    BY <2>5, <2>6
<1>3. QED
  BY <1>1, <1>2

LEMMA UndoingTyped ==
    ASSUME NEW S, NEW list \in Seq(S), NEW c, c.undo = <<>> \/ c.undo[1] \in S
    PROVE  Undoing(list, c) \in Seq(S)
BY SetPatchTyped, AtTyped DEF Undoing

\* Undoing an edit changes the patches of its component only.
LEMMA UndoingOf ==
    ASSUME NEW S, NEW list \in Seq(S), NEW c, NEW i,
           c.undo = <<>> \/ (c.undo[1] \in S /\ c.undo[1].id = c.id)
    PROVE  PatchesOf(Undoing(list, c), i) =
               IF c.id = i THEN Undoing(PatchesOf(list, i), c) ELSE PatchesOf(list, i)
<1>1. CASE c.undo # <<>>
  <2>1. PatchesOf(SetPatch(list, c.undo[1]), i) =
            IF c.id = i THEN SetPatch(PatchesOf(list, i), c.undo[1]) ELSE PatchesOf(list, i)
    BY <1>1, SetPatchOf
  <2>2. QED
    BY <1>1, <2>1 DEF Undoing
<1>2. CASE c.undo = <<>>
  <2>1. PatchesOf(RemovePatch(list, "replace", c.id), i) =
            IF c.id = i THEN RemovePatch(PatchesOf(list, i), "replace", i) ELSE PatchesOf(list, i)
    BY RemovePatchOf
  <2>2. QED
    BY <1>2, <2>1 DEF Undoing
<1>3. QED
  BY <1>1, <1>2

\* What setPatchLocked replaced, as SetComponentConfig remembers it.
Replaced(list, id) ==
    IF HasPatch(list, "replace", id) THEN <<list[LastPatch(list, "replace", id)]>> ELSE <<>>

LEMMA ReplacedTyped ==
    ASSUME NEW S, NEW list \in Seq(S), NEW id
    PROVE  /\ Replaced(list, id) \in {<<>>} \cup {<<q>> : q \in S}
           /\ Replaced(list, id) # <<>> => IsPatch(Replaced(list, id)[1], "replace", id)
<1>1. CASE HasPatch(list, "replace", id)
  <2> DEFINE l == LastPatch(list, "replace", id)
  <2>1. l \in DOMAIN list /\ IsPatch(list[l], "replace", id)
    BY <1>1, LastPatchFacts
  <2>2. list[l] \in S
    BY <2>1, LenProperties, ElementOfSeq
  <2> HIDE DEF l
  <2>3. Replaced(list, id) = <<list[l]>>
    BY <1>1 DEF Replaced, l
  <2>4. QED
    BY <2>1, <2>2, <2>3
<1>2. CASE ~HasPatch(list, "replace", id)
  BY <1>2 DEF Replaced
<1>3. QED
  BY <1>1, <1>2

LEMMA ReplacedOf ==
    ASSUME NEW S, NEW list \in Seq(S), NEW i
    PROVE  Replaced(PatchesOf(list, i), i) = Replaced(list, i)
<1> DEFINE l == LastPatch(list, "replace", i)
           part == PatchesOf(list, i)
<1>1. CASE HasPatch(list, "replace", i)
  <2>1. /\ l \in OfId(list, i) /\ HasPatch(part, "replace", i)
        /\ LastPatch(part, "replace", i) = Rank(OfId(list, i), l)
    BY <1>1, LastPatchOf
  <2>2. part[Rank(OfId(list, i), l)] = list[l]
    BY <2>1, PatchesOfRanks
  <2>3. QED
    BY <1>1, <2>1, <2>2 DEF Replaced
<1>2. CASE ~HasPatch(list, "replace", i)
  BY <1>2, HasPatchOf DEF Replaced
<1>3. QED
  BY <1>1, <1>2

\* The undo of an edit leaves the list as it was before it.
LEMMA UndoneIsBefore ==
    ASSUME NEW S, NEW list \in Seq(S), NEW q \in S, NEW c,
           q.op = "replace", q.id = c.id, c.undo = Replaced(list, c.id)
    PROVE  Undoing(SetPatch(list, q), c) = list
<1> DEFINE l == LastPatch(list, "replace", c.id)
<1>1. Len(list) \in Nat /\ DOMAIN list = 1..Len(list) /\ list \in [1..Len(list) -> S]
  BY LenProperties
<1>2. CASE HasPatch(list, "replace", c.id)
  <2> DEFINE other == [list EXCEPT ![l] = q]
  <2>1. /\ l \in DOMAIN list /\ IsPatch(list[l], "replace", c.id)
        /\ \A j \in DOMAIN list : IsPatch(list[j], "replace", c.id) => j <= l
    BY <1>2, LastPatchFacts
  <2>2. /\ other \in Seq(S) /\ DOMAIN other = DOMAIN list
        /\ \A k \in DOMAIN list : other[k] = IF k = l THEN q ELSE list[k]
    BY <1>1, <2>1, ExceptSeq
  <2>3. IsPatch(other[l], "replace", c.id)
    BY <2>1, <2>2 DEF IsPatch
  <2>4. \A j \in DOMAIN other : IsPatch(other[j], "replace", c.id) => j <= l
    BY <1>1, <2>1, <2>2
  <2>5. SetPatch(list, q) = other
    BY <1>2 DEF SetPatch
  <2>6. c.undo = <<list[l]>>
    BY <1>2 DEF Replaced
  <2>7. list[l].op = "replace" /\ list[l].id = c.id
    BY <2>1 DEF IsPatch
  <2> HIDE DEF l, other
  <2>8. HasPatch(other, "replace", c.id) /\ LastPatch(other, "replace", c.id) = l
    BY <2>1, <2>2, <2>3, <2>4, LastPatchIs
  <2>9. SetPatch(other, list[l]) = [other EXCEPT ![l] = list[l]]
    BY <2>7, <2>8 DEF SetPatch
  <2>10. Undoing(other, c) = SetPatch(other, list[l])
    BY <2>6 DEF Undoing
  <2>11. [other EXCEPT ![l] = list[l]] = list
    BY <1>1, <2>1 DEF other
  <2>12. QED
    BY <2>5, <2>9, <2>10, <2>11
<1>3. CASE ~HasPatch(list, "replace", c.id)
  <2> DEFINE other == Append(list, q)
             n == Len(list) + 1
  <2>1. /\ other \in Seq(S) /\ DOMAIN other = DOMAIN list \cup {n} /\ n \notin DOMAIN list
        /\ (\A k \in DOMAIN list : other[k] = list[k]) /\ other[n] = q
    BY AppendFacts
  <2>2. SetPatch(list, q) = other
    BY <1>3 DEF SetPatch
  <2>3. IsPatch(other[n], "replace", c.id) /\ n \in DOMAIN other
    BY <2>1 DEF IsPatch
  <2>4. \A j \in DOMAIN other : j <= n
    BY <1>1, <2>1
  <2> HIDE DEF other, n
  <2>5. HasPatch(other, "replace", c.id) /\ LastPatch(other, "replace", c.id) = n
    BY <2>1, <2>3, <2>4, LastPatchIs
  <2>6. DOMAIN other \ {n} = DOMAIN list
    BY <2>1
  <2>7. RemovePatch(other, "replace", c.id) = At(other, DOMAIN list)
    BY <2>5, <2>6 DEF RemovePatch
  <2>8. At(list, DOMAIN list) = At(other, DOMAIN list)
    BY <2>1, AtSame
  <2>9. At(list, DOMAIN list) = list
    BY AtAll
  <2>10. c.undo = <<>>
    BY <1>3 DEF Replaced
  <2>11. QED
    BY <2>2, <2>7, <2>8, <2>9, <2>10 DEF Undoing
<1>4. QED
  BY <1>2, <1>3

-----------------------------------------------------------------------------
(* The inductive invariant.                                                *)

Desired == Files \cup {NoRows}

\* Whatever compositions the overlay may give.
Outcomes == {NoRows} \cup {Overlay(d, l).rows : d \in Desired, l \in Seq(Patch)}

Commands ==
    [op : {None, "edit", "uninstall", "install"}, id : Ids \cup {NoCmd.id},
     undo : {<<>>} \cup {<<q>> : q \in Patch}, failed : BOOLEAN, before : Seq(Patch)]

Locals == [snapshot : Seq(Patch), desired : Desired, rows : Outcomes]

Steps == {"start", "idle", "remove", "save", "write", "base", "set", "overlay", "apply", "undo"}

OverlayTypes ==
    /\ declared \in Files /\ base \in Desired /\ runtime \in Outcomes
    /\ patches \in Seq(Patch)
    /\ disk \in [torn : BOOLEAN, list : Seq(Patch)]
    /\ pc \in [Procs -> Steps]
    /\ cmd \in [Editors -> Commands]
    /\ local \in [Procs -> Locals]
    /\ newest \in Editors \cup {"disk", None}
    /\ alone \subseteq Ids
    /\ promised \in [Ids -> Seq(Patch)]
    /\ undisturbed \in BOOLEAN /\ raced \in BOOLEAN

\* The edit of e is in the list: it was made, and has not been undone.
Made(e) == cmd[e].op = "edit" /\ (~cmd[e].failed \/ pc[e] = "undo")

\* Where the steps of the commands and of the watcher may be.
Control ==
    /\ pc[Watcher] \in {"start", "idle", "overlay", "apply"}
    /\ \A e \in Editors :
           /\ pc[e] # "start"
           /\ ~Idle(e) => cmd[e].id \in Ids /\ cmd[e].op # None
           /\ pc[e] = "undo" => cmd[e].op = "edit" /\ cmd[e].failed
           /\ cmd[e].failed => pc[e] \in {"save", "write", "undo"}
           /\ cmd[e].undo # <<>> => IsPatch(cmd[e].undo[1], "replace", cmd[e].id)

BaseKept ==
    ~raced =>
        /\ base = local[Watcher].desired
        /\ \A e \in Editors : pc[e] = "set" => local[e].desired = base

\* The newest snapshot is in memory, in the hands of its writer or on disk,
\* when no change still waits for its snapshot.
NewestHeld ==
    /\ \A e \in Editors : newest = e => pc[e] = "write"
    /\ (\A e \in Editors : pc[e] # "save") =>
           /\ newest = "disk" => ~disk.torn /\ disk.list = patches
           /\ \A e \in Editors : newest = e => local[e].snapshot = patches

Isolated ==
    /\ EditsAreIsolated
    /\ \A e, o \in Editors :
           /\ ~AtRest(e) /\ ~AtRest(o) /\ cmd[e].id = cmd[o].id /\ cmd[e].id \in alone => e = o
    /\ \A e \in Editors :
           ~AtRest(e) /\ Made(e) /\ cmd[e].id \in alone =>
               Undoing(promised[cmd[e].id], cmd[e]) = cmd[e].before

\* The runtime is what the base and a list say.
Follows(list) == Overlay(base, list).ok /\ Overlay(base, list).rows = runtime

OneAtWork == \A p, o \in Procs : AtRest(p) \/ AtRest(o) \/ p = o

Settled == pc[Watcher] # "start" /\ (\A p \in Procs : AtRest(p)) => Follows(patches)

\* What p holds is what the base and the patches say; undoing its edit would bring
\* back what the runtime follows.
Consistent(p) ==
    /\ pc[p] \in {"set", "overlay"} => local[p].desired = base
    /\ pc[p] = "apply" =>
           Overlay(base, patches).ok /\ Overlay(base, patches).rows = local[p].rows
    /\ pc[Watcher] # "start" /\ p \in Editors /\ ~AtRest(p) =>
           /\ Made(p) => Follows(Undoing(patches, cmd[p]))
           /\ cmd[p].failed /\ pc[p] # "undo" => Follows(patches)

Reconciled == undisturbed => OneAtWork /\ Settled /\ \A p \in Procs : Consistent(p)

OverlayInv ==
    /\ OverlayTypes /\ Control /\ BaseKept /\ NewestHeld /\ Isolated /\ Reconciled

-----------------------------------------------------------------------------
(* What one command, or the watcher, changes of the control.               *)

LEMMA ProcsAre ==
    /\ Watcher \in Procs /\ Watcher \notin Editors
    /\ \A e \in Editors : e \in Procs /\ e # Watcher /\ e # "disk" /\ e # None
BY HostOverlayAssumption DEF HostOverlayAssumption, Procs, None

LEMMA Nothing ==
    /\ NoCmd \in Commands /\ NoCmd.op = None /\ NoCmd.failed = FALSE /\ NoCmd.undo = <<>>
    /\ NoLocal \in Locals /\ NoLocal.desired = NoRows
    /\ NoRows \in Desired /\ NoRows \in Outcomes /\ <<>> \in Seq(Patch)
<1>1. <<>> \in Seq(Patch)
  BY EmptySeq
<1>2. NoRows \in Desired /\ NoRows \in Outcomes
  BY DEF Desired, Outcomes
<1>3. QED
  BY <1>1, <1>2 DEF NoCmd, Commands, NoLocal, Locals, None

\* The others stay where they are.
Only(p) ==
    /\ pc' \in [Procs -> Steps] /\ cmd' \in [Editors -> Commands]
    /\ \A o \in Procs : o # p => pc'[o] = pc[o]
    /\ \A o \in Editors : o # p => cmd'[o] = cmd[o]

LEMMA GoesTo ==
    ASSUME OverlayTypes, NEW p \in Procs, NEW step \in Steps, Goto(p, step), UNCHANGED cmd
    PROVE  Only(p) /\ pc'[p] = step
BY DEF OverlayTypes, Goto, Only

LEMMA Returns ==
    ASSUME OverlayTypes, NEW p \in Procs, Return(p)
    PROVE  Only(p) /\ pc'[p] = "idle" /\ (p \in Editors => cmd'[p] = NoCmd)
<1>1. Goto(p, "idle") /\ cmd' = IF p \in Editors THEN [cmd EXCEPT ![p] = NoCmd] ELSE cmd
  BY DEF Return
<1>2. /\ pc' \in [Procs -> Steps] /\ pc'[p] = "idle"
      /\ \A o \in Procs : o # p => pc'[o] = pc[o]
  BY <1>1 DEF OverlayTypes, Goto, Steps
<1>3. /\ cmd' \in [Editors -> Commands] /\ (\A o \in Editors : o # p => cmd'[o] = cmd[o])
      /\ (p \in Editors => cmd'[p] = NoCmd)
  BY <1>1, Nothing DEF OverlayTypes
<1>4. QED
  BY <1>2, <1>3 DEF Only

Fails(p) ==
    /\ p \in Editors /\ cmd[p].op = "edit" /\ pc'[p] = "undo"
    /\ cmd'[p] = [cmd[p] EXCEPT !.failed = TRUE]

Ends(p) == pc'[p] = "idle" /\ (p \in Editors => cmd'[p] = NoCmd)

LEMMA IsRejected ==
    ASSUME OverlayTypes, NEW p \in Procs, Rejected(p)
    PROVE  Only(p) /\ (Fails(p) \/ Ends(p))
<1>1. CASE p \in Editors /\ cmd[p].op = "edit"
  <2>1. cmd' = [cmd EXCEPT ![p].failed = TRUE] /\ Goto(p, "undo")
    BY <1>1 DEF Rejected
  <2>2. cmd[p] \in Commands
    BY <1>1 DEF OverlayTypes
  <2>3. [cmd[p] EXCEPT !.failed = TRUE] \in Commands
    BY <2>2 DEF Commands
  <2>4. /\ cmd' \in [Editors -> Commands] /\ (\A o \in Editors : o # p => cmd'[o] = cmd[o])
        /\ cmd'[p] = [cmd[p] EXCEPT !.failed = TRUE]
    BY <1>1, <2>1, <2>3 DEF OverlayTypes
  <2>5. /\ pc' \in [Procs -> Steps] /\ pc'[p] = "undo"
        /\ \A o \in Procs : o # p => pc'[o] = pc[o]
    BY <2>1 DEF OverlayTypes, Goto, Steps
  <2>6. QED
    BY <1>1, <2>4, <2>5 DEF Only, Fails
<1>2. CASE ~(p \in Editors /\ cmd[p].op = "edit")
  <2>1. Return(p)
    BY <1>2 DEF Rejected
  <2>2. QED
    BY <2>1, Returns DEF Ends
<1>3. QED
  BY <1>1, <1>2

\* The commands go on: none begins, none comes back to an edit it has undone.
GoOn ==
    \A o \in Editors :
        ~AtRest(o)' =>
            /\ ~AtRest(o)
            /\ cmd'[o].id = cmd[o].id /\ cmd'[o].op = cmd[o].op
            /\ cmd'[o].undo = cmd[o].undo /\ cmd'[o].before = cmd[o].before
            /\ Made(o)' => Made(o)

LEMMA SameUndo ==
    ASSUME NEW list, NEW c, NEW d, c.undo = d.undo, c.id = d.id
    PROVE  Undoing(list, c) = Undoing(list, d)
BY DEF Undoing

LEMMA IsolatedGoesOn ==
    ASSUME Isolated, GoOn, UNCHANGED <<patches, alone, promised>>
    PROVE  Isolated'
<1>1. EditsAreIsolated'
  BY DEF Isolated, EditsAreIsolated
<1>2. ASSUME NEW e \in Editors, NEW o \in Editors,
             ~AtRest(e)', ~AtRest(o)', cmd'[e].id = cmd'[o].id, cmd'[e].id \in alone'
      PROVE  e = o
  BY <1>2 DEF Isolated, AtRest, GoOn, Idle
<1>3. ASSUME NEW e \in Editors, ~AtRest(e)', Made(e)', cmd'[e].id \in alone'
      PROVE  Undoing(promised'[cmd'[e].id], cmd'[e]) = cmd'[e].before
  <2>1. /\ ~AtRest(e) /\ Made(e) /\ cmd[e].id \in alone /\ cmd'[e].id = cmd[e].id
        /\ cmd'[e].undo = cmd[e].undo /\ cmd'[e].before = cmd[e].before
    BY <1>3 DEF GoOn
  <2>2. Undoing(promised[cmd[e].id], cmd[e]) = cmd[e].before
    BY <2>1 DEF Isolated, AtRest, Idle
  <2>3. Undoing(promised[cmd[e].id], cmd'[e]) = Undoing(promised[cmd[e].id], cmd[e])
    BY <2>1, SameUndo
  <2>4. QED
    BY <2>1, <2>2, <2>3
<1>4. QED
  BY <1>1, <1>2, <1>3 DEF Isolated, AtRest, Idle

\* A step that does not reach "set", and leaves the base and the watcher's copy.
LEMMA BaseKeptOn ==
    ASSUME BaseKept, UNCHANGED <<base, raced>>,
           local'[Watcher].desired = local[Watcher].desired,
           \A e \in Editors : pc'[e] = "set" => pc[e] = "set" /\ local'[e] = local[e]
    PROVE  BaseKept'
BY DEF BaseKept

\* A step of a command that neither waits to save nor writes.
LEMMA NewestHeldOn ==
    ASSUME NewestHeld, UNCHANGED <<patches, disk, newest>>,
           \A e \in Editors : pc[e] = "save" => pc'[e] = "save",
           \A e \in Editors : pc[e] = "write" => pc'[e] = "write" /\ local'[e] = local[e]
    PROVE  NewestHeld'
BY DEF NewestHeld

\* A step of p, the others at rest, if nothing was disturbed.
LEMMA ReconciledOn ==
    ASSUME Control, NEW p \in Procs, Only(p),
           undisturbed' =>
               Consistent(p)' /\ Settled' /\ \A o \in Procs : o # p => AtRest(o)
    PROVE  Reconciled'
<1>1. SUFFICES ASSUME undisturbed' PROVE OneAtWork' /\ Settled' /\ \A o \in Procs : Consistent(o)'
  BY DEF Reconciled
<1>2. \A o \in Procs : o # p => AtRest(o) /\ pc'[o] = pc[o] /\ AtRest(o)'
  BY <1>1 DEF Only, AtRest
<1>3. OneAtWork'
  BY <1>2 DEF OneAtWork
<1>4. ASSUME NEW o \in Procs, o # p PROVE Consistent(o)'
  <2>1. AtRest(o)' /\ pc'[o] \in {"start", "idle", "remove"}
    BY <1>2, <1>4 DEF AtRest, Control
  <2>2. QED
    BY <2>1 DEF Consistent, Idle, AtRest
<1>5. QED
  BY <1>1, <1>3, <1>4

\* The others are at rest while p is at work.
LEMMA OthersRest ==
    ASSUME Reconciled, undisturbed, NEW p \in Procs, ~AtRest(p)
    PROVE  /\ Consistent(p)
           /\ \A o \in Procs : o # p => AtRest(o)
BY DEF Reconciled, OneAtWork

LEMMA OverlayInitially == OverlayInit => OverlayInv
<1>1. SUFFICES ASSUME OverlayInit PROVE OverlayInv
  OBVIOUS
<1>2. /\ pc \in [Procs -> Steps] /\ pc[Watcher] = "start"
      /\ \A e \in Editors : pc[e] = "idle" /\ cmd[e] = NoCmd
  BY <1>1, ProcsAre DEF OverlayInit, AtStart, Steps
<1>3. \A p \in Procs : local[p] = NoLocal /\ AtRest(p)
  BY <1>1, <1>2 DEF OverlayInit, AtRest, Procs
<1>4. OverlayTypes
  BY <1>1, <1>2, Nothing DEF OverlayInit, OverlayTypes
<1>5. Control
  BY <1>2, Nothing DEF Control, Idle
<1>6. BaseKept
  BY <1>1, <1>2, <1>3, ProcsAre, Nothing DEF OverlayInit, BaseKept
<1>7. NewestHeld
  BY <1>1, <1>2, ProcsAre DEF OverlayInit, NewestHeld
<1>8. Isolated
  <2>1. ASSUME NEW i \in Ids PROVE PatchesOf(<<>>, i) = <<>>
    <3>1. DOMAIN <<>> = {}
      OBVIOUS
    <3>2. {k \in DOMAIN <<>> : <<>>[k].id = i} = DOMAIN <<>>
      BY <3>1
    <3>3. At(<<>>, DOMAIN <<>>) = <<>>
      BY Nothing, AtAll
    <3>4. QED
      BY <3>2, <3>3 DEF PatchesOf
  <2>2. EditsAreIsolated
    BY <1>1, <2>1 DEF OverlayInit, EditsAreIsolated
  <2>3. QED
    BY <1>2, <2>2 DEF Isolated, AtRest, Idle
<1>9. Reconciled
  BY <1>2, <1>3 DEF Reconciled, OneAtWork, Settled, Consistent, AtRest, Idle
<1>10. QED
  BY <1>4, <1>5, <1>6, <1>7, <1>8, <1>9 DEF OverlayInv

LEMMA SnapshotStep ==
    ASSUME OverlayInv, NEW e \in Editors, Snapshot(e)
    PROVE  OverlayInv'
<1> USE DEF OverlayInv
<1>1. /\ e \in Procs /\ pc[e] = "save" /\ Goto(e, "write") /\ newest' = e
      /\ local' = [local EXCEPT ![e].snapshot = patches]
      /\ UNCHANGED <<declared, base, patches, disk, runtime, cmd, alone, promised, undisturbed, raced>>
  BY ProcsAre DEF Snapshot
<1>2. Only(e) /\ pc'[e] = "write"
  BY <1>1, GoesTo DEF Steps
<1>3. /\ local' \in [Procs -> Locals] /\ local'[e].snapshot = patches
      /\ local'[e].desired = local[e].desired /\ local'[e].rows = local[e].rows
      /\ \A o \in Procs : o # e => local'[o] = local[o]
  <2>1. patches \in Seq(Patch) /\ local \in [Procs -> Locals]
    BY DEF OverlayTypes
  <2>2. QED
    BY <1>1, <2>1 DEF Locals
<1>4. OverlayTypes'
  BY <1>1, <1>2, <1>3 DEF OverlayTypes, Only
<1>5. Control'
  BY <1>1, <1>2, ProcsAre DEF Control, Only, Idle
<1>6. BaseKept'
  <2>1. \A o \in Editors : pc'[o] = "set" => pc[o] = "set" /\ local'[o] = local[o]
    BY <1>2, <1>3, ProcsAre DEF Only
  <2>2. local'[Watcher].desired = local[Watcher].desired
    BY <1>3, ProcsAre
  <2>3. QED
    BY <1>1, <2>1, <2>2, BaseKeptOn
<1>7. NewestHeld'
  BY <1>1, <1>2, <1>3, ProcsAre DEF NewestHeld
<1>8. Isolated'
  <2>1. GoOn
    BY <1>1, <1>2, ProcsAre DEF GoOn, Only, Made, AtRest
  <2>2. QED
    BY <1>1, <2>1, IsolatedGoesOn
<1>9. Reconciled'
  <2>1. ASSUME undisturbed
        PROVE  Consistent(e)' /\ Settled' /\ \A o \in Procs : o # e => AtRest(o)
    <3>1. Consistent(e) /\ \A o \in Procs : o # e => AtRest(o)
      BY <1>1, <2>1, OthersRest DEF AtRest
    <3>2. pc'[Watcher] = pc[Watcher]
      BY <1>2, ProcsAre DEF Only
    <3>3. Consistent(e)'
      BY <1>1, <1>2, <3>1, <3>2 DEF Consistent, Idle, AtRest, Made, Follows
    <3>4. Settled'
      BY <1>1, <1>2 DEF Settled, AtRest
    <3>5. QED
      BY <3>1, <3>3, <3>4
  <2>2. QED
    BY <1>1, <1>2, <2>1, ReconciledOn
<1>10. QED
  BY <1>4, <1>5, <1>6, <1>7, <1>8, <1>9

\* What AfterWrite, and a return, leave in local.
LEMMA NothingHeld ==
    ASSUME OverlayTypes, NEW e \in Editors, local' = [local EXCEPT ![e] = NoLocal]
    PROVE  /\ local' \in [Procs -> Locals]
           /\ \A o \in Procs : o # e => local'[o] = local[o]
BY ProcsAre, Nothing DEF OverlayTypes

LEMMA WriteEnds ==
    ASSUME OverlayTypes, NEW e \in Editors, AfterWrite(e)
    PROVE  /\ Only(e)
           /\ cmd[e].failed => pc'[e] = "idle" /\ cmd'[e] = NoCmd
           /\ ~cmd[e].failed => pc'[e] = "base" /\ cmd' = cmd
           /\ local' = [local EXCEPT ![e] = NoLocal]
<1>1. CASE cmd[e].failed
  BY <1>1, Returns, ProcsAre DEF AfterWrite
<1>2. CASE ~cmd[e].failed
  BY <1>2, GoesTo, ProcsAre DEF AfterWrite, Steps
<1>3. QED
  BY <1>1, <1>2 DEF AfterWrite

LEMMA WriteStep ==
    ASSUME OverlayInv, NEW e \in Editors, Write(e)
    PROVE  OverlayInv'
<1> USE DEF OverlayInv
<1>1. /\ e \in Procs /\ pc[e] = "write" /\ AfterWrite(e) /\ local' = [local EXCEPT ![e] = NoLocal]
      /\ UNCHANGED <<declared, base, patches, runtime, alone, promised, undisturbed, raced>>
  BY ProcsAre DEF Write, AfterWrite
<1>2. PICK torn \in BOOLEAN :
          /\ disk' = [torn |-> torn, list |-> IF torn THEN <<>> ELSE local[e].snapshot]
          /\ newest' = IF newest = e /\ ~torn THEN "disk"
                       ELSE IF newest \in {e, "disk"} THEN None ELSE newest
  BY DEF Write
<1>3. /\ Only(e) /\ (cmd[e].failed => pc'[e] = "idle" /\ cmd'[e] = NoCmd)
      /\ (~cmd[e].failed => pc'[e] = "base" /\ cmd' = cmd)
  BY <1>1, WriteEnds
<1>4. local' \in [Procs -> Locals] /\ \A o \in Procs : o # e => local'[o] = local[o]
  BY <1>1, NothingHeld
<1>5. OverlayTypes'
  <2>1. local[e].snapshot \in Seq(Patch)
    BY <1>1 DEF OverlayTypes, Locals
  <2>2. disk' \in [torn : BOOLEAN, list : Seq(Patch)]
    BY <1>2, <2>1, Nothing
  <2>3. newest' \in Editors \cup {"disk", None}
    BY <1>2 DEF OverlayTypes
  <2>4. QED
    BY <1>1, <1>3, <1>4, <2>2, <2>3 DEF OverlayTypes, Only
<1>6. Control'
  BY <1>1, <1>3, ProcsAre, Nothing DEF Control, Only, Idle
<1>7. BaseKept'
  <2>1. \A o \in Editors : pc'[o] = "set" => pc[o] = "set" /\ local'[o] = local[o]
    BY <1>3, <1>4, ProcsAre DEF Only
  <2>2. local'[Watcher].desired = local[Watcher].desired
    BY <1>4, ProcsAre
  <2>3. QED
    BY <1>1, <2>1, <2>2, BaseKeptOn
<1>8. NewestHeld'
  <2>1. ASSUME NEW o \in Editors, newest' = o PROVE pc'[o] = "write" /\ o # e /\ newest = o
    BY <1>1, <1>2, <1>3, <2>1, ProcsAre DEF NewestHeld, Only
  <2>2. ASSUME \A o \in Editors : pc'[o] # "save"
        PROVE  /\ newest' = "disk" => ~disk'.torn /\ disk'.list = patches'
               /\ \A o \in Editors : newest' = o => local'[o].snapshot = patches'
    <3>1. \A o \in Editors : pc[o] # "save"
      BY <1>1, <1>3, <2>2, ProcsAre DEF Only
    <3>2. ASSUME newest' = "disk" PROVE ~torn /\ newest = e
      BY <1>2, <3>2, ProcsAre DEF None
    <3>3. newest' = "disk" => ~disk'.torn /\ disk'.list = patches'
      BY <1>1, <1>2, <3>1, <3>2 DEF NewestHeld
    <3>4. \A o \in Editors : newest' = o => local'[o].snapshot = patches'
      BY <1>1, <1>4, <2>1, <3>1, ProcsAre DEF NewestHeld
    <3>5. QED
      BY <3>3, <3>4
  <2>3. QED
    BY <2>1, <2>2 DEF NewestHeld
<1>9. Isolated'
  <2>1. GoOn
    BY <1>1, <1>3, ProcsAre DEF GoOn, Only, Made, AtRest
  <2>2. QED
    BY <1>1, <2>1, IsolatedGoesOn
<1>10. Reconciled'
  <2>1. ASSUME undisturbed
        PROVE  Consistent(e)' /\ Settled' /\ \A o \in Procs : o # e => AtRest(o)
    <3>1. Consistent(e) /\ \A o \in Procs : o # e => AtRest(o)
      BY <1>1, <2>1, OthersRest DEF AtRest
    <3>2. pc'[Watcher] = pc[Watcher]
      BY <1>3, ProcsAre DEF Only
    <3>3. Consistent(e)'
      BY <1>1, <1>3, <3>1, <3>2 DEF Consistent, Idle, AtRest, Made, Follows
    <3>4. Settled'
      BY <1>1, <1>3, <3>1, <3>2 DEF Settled, AtRest, Consistent, Idle, Follows
    <3>5. QED
      BY <3>1, <3>3, <3>4
  <2>2. QED
    BY <1>1, <1>3, <2>1, ReconciledOn
<1>11. QED
  BY <1>5, <1>6, <1>7, <1>8, <1>9, <1>10

LEMMA WriteFailsStep ==
    ASSUME OverlayInv, NEW e \in Editors, WriteFails(e)
    PROVE  OverlayInv'
<1> USE DEF OverlayInv
<1>1. /\ e \in Procs /\ pc[e] = "write" /\ Return(e) /\ local' = [local EXCEPT ![e] = NoLocal]
      /\ disk' \in {disk, [torn |-> TRUE, list |-> <<>>]} /\ undisturbed' = FALSE
      /\ newest' = IF newest = e \/ (newest = "disk" /\ disk'.torn) THEN None ELSE newest
      /\ UNCHANGED <<declared, base, patches, runtime, alone, promised, raced>>
  BY ProcsAre DEF WriteFails
<1>2. Only(e) /\ pc'[e] = "idle" /\ cmd'[e] = NoCmd
  BY <1>1, Returns
<1>3. local' \in [Procs -> Locals] /\ \A o \in Procs : o # e => local'[o] = local[o]
  BY <1>1, NothingHeld
<1>4. OverlayTypes'
  <2>1. disk' \in [torn : BOOLEAN, list : Seq(Patch)]
    <3>1. [torn |-> TRUE, list |-> <<>>] \in [torn : BOOLEAN, list : Seq(Patch)]
      BY Nothing
    <3>2. QED
      BY <1>1, <3>1 DEF OverlayTypes
  <2>2. newest' \in Editors \cup {"disk", None}
    BY <1>1 DEF OverlayTypes
  <2>3. QED
    BY <1>1, <1>2, <1>3, <2>1, <2>2 DEF OverlayTypes, Only
<1>5. Control'
  BY <1>1, <1>2, ProcsAre, Nothing DEF Control, Only, Idle
<1>6. BaseKept'
  <2>1. \A o \in Editors : pc'[o] = "set" => pc[o] = "set" /\ local'[o] = local[o]
    BY <1>2, <1>3, ProcsAre DEF Only
  <2>2. local'[Watcher].desired = local[Watcher].desired
    BY <1>3, ProcsAre
  <2>3. QED
    BY <1>1, <2>1, <2>2, BaseKeptOn
<1>7. NewestHeld'
  <2>1. ASSUME NEW o \in Editors, newest' = o PROVE pc'[o] = "write" /\ o # e /\ newest = o
    BY <1>1, <1>2, <2>1, ProcsAre DEF NewestHeld, Only
  <2>2. ASSUME newest' = "disk" PROVE newest = "disk" /\ ~disk'.torn /\ disk' = disk
    <3>1. newest = "disk" /\ ~disk'.torn
      BY <1>1, <2>2 DEF None
    <3>2. QED
      BY <1>1, <3>1
  <2>3. (\A o \in Editors : pc'[o] # "save") => \A o \in Editors : pc[o] # "save"
    BY <1>1, <1>2, ProcsAre DEF Only
  <2>4. QED
    BY <1>1, <1>3, <2>1, <2>2, <2>3, ProcsAre DEF NewestHeld
<1>8. Isolated'
  <2>1. GoOn
    BY <1>1, <1>2, ProcsAre DEF GoOn, Only, Made, AtRest
  <2>2. QED
    BY <1>1, <2>1, IsolatedGoesOn
<1>9. Reconciled'
  BY <1>1 DEF Reconciled
<1>10. QED
  BY <1>4, <1>5, <1>6, <1>7, <1>8, <1>9

LEMMA ReadBaseStep ==
    ASSUME OverlayInv, NEW e \in Editors, ReadBase(e)
    PROVE  OverlayInv'
<1> USE DEF OverlayInv
<1>1. /\ e \in Procs /\ pc[e] = "base" /\ Goto(e, "set")
      /\ local' = [local EXCEPT ![e].desired = base]
      /\ UNCHANGED <<declared, base, patches, disk, runtime, cmd, newest, alone, promised,
                     undisturbed, raced>>
  BY ProcsAre DEF ReadBase, historyVars
<1>2. Only(e) /\ pc'[e] = "set"
  BY <1>1, GoesTo DEF Steps
<1>3. /\ local' \in [Procs -> Locals] /\ local'[e].desired = base
      /\ \A o \in Procs : o # e => local'[o] = local[o]
  <2>1. base \in Desired /\ local \in [Procs -> Locals]
    BY DEF OverlayTypes
  <2>2. QED
    BY <1>1, <2>1 DEF Locals
<1>4. OverlayTypes'
  BY <1>1, <1>2, <1>3 DEF OverlayTypes, Only
<1>5. Control'
  BY <1>1, <1>2, ProcsAre DEF Control, Only, Idle
<1>6. BaseKept'
  <2>1. ASSUME NEW o \in Editors, pc'[o] = "set"
        PROVE  o = e \/ (o # e /\ pc[o] = "set" /\ local'[o] = local[o])
    BY <1>2, <1>3, <2>1, ProcsAre DEF Only
  <2>2. local'[Watcher] = local[Watcher]
    BY <1>3, ProcsAre
  <2>3. QED
    BY <1>1, <1>3, <2>1, <2>2 DEF BaseKept
<1>7. NewestHeld'
  <2>1. /\ \A o \in Editors : pc[o] = "save" => pc'[o] = "save"
        /\ \A o \in Editors : pc[o] = "write" => pc'[o] = "write" /\ local'[o] = local[o]
    BY <1>1, <1>2, <1>3, ProcsAre DEF Only
  <2>2. QED
    BY <1>1, <2>1, NewestHeldOn
<1>8. Isolated'
  <2>1. GoOn
    BY <1>1, <1>2, ProcsAre DEF GoOn, Only, Made, AtRest
  <2>2. QED
    BY <1>1, <2>1, IsolatedGoesOn
<1>9. Reconciled'
  <2>1. ASSUME undisturbed
        PROVE  Consistent(e)' /\ Settled' /\ \A o \in Procs : o # e => AtRest(o)
    <3>1. Consistent(e) /\ \A o \in Procs : o # e => AtRest(o)
      BY <1>1, <2>1, OthersRest DEF AtRest
    <3>2. pc'[Watcher] = pc[Watcher]
      BY <1>2, ProcsAre DEF Only
    <3>3. Consistent(e)'
      BY <1>1, <1>2, <1>3, <3>1, <3>2 DEF Consistent, Idle, AtRest, Made, Follows
    <3>4. Settled'
      BY <1>1, <1>2 DEF Settled, AtRest
    <3>5. QED
      BY <3>1, <3>3, <3>4
  <2>2. QED
    BY <1>1, <1>2, <2>1, ReconciledOn
<1>10. QED
  BY <1>4, <1>5, <1>6, <1>7, <1>8, <1>9

LEMMA SetBaseStep ==
    ASSUME OverlayInv, NEW e \in Editors, SetBase(e)
    PROVE  OverlayInv'
<1> USE DEF OverlayInv
<1>1. /\ e \in Procs /\ pc[e] = "set" /\ Goto(e, "overlay") /\ base' = local[e].desired
      /\ UNCHANGED <<declared, patches, disk, runtime, cmd, local, newest, alone, promised,
                     undisturbed, raced>>
  BY ProcsAre DEF SetBase, historyVars
<1>2. Only(e) /\ pc'[e] = "overlay"
  BY <1>1, GoesTo DEF Steps
<1>3. OverlayTypes'
  <2>1. local[e].desired \in Desired
    BY <1>1 DEF OverlayTypes, Locals
  <2>2. QED
    BY <1>1, <1>2, <2>1 DEF OverlayTypes, Only
<1>4. Control'
  BY <1>1, <1>2, ProcsAre DEF Control, Only, Idle
<1>5. BaseKept'
  <2>1. \A o \in Editors : pc'[o] = "set" => pc[o] = "set"
    BY <1>2, ProcsAre DEF Only
  <2>2. QED
    BY <1>1, <2>1 DEF BaseKept
<1>6. NewestHeld'
  <2>1. /\ \A o \in Editors : pc[o] = "save" => pc'[o] = "save"
        /\ \A o \in Editors : pc[o] = "write" => pc'[o] = "write" /\ local'[o] = local[o]
    BY <1>1, <1>2, ProcsAre DEF Only
  <2>2. QED
    BY <1>1, <2>1, NewestHeldOn
<1>7. Isolated'
  <2>1. GoOn
    BY <1>1, <1>2, ProcsAre DEF GoOn, Only, Made, AtRest
  <2>2. QED
    BY <1>1, <2>1, IsolatedGoesOn
<1>8. Reconciled'
  <2>1. ASSUME undisturbed
        PROVE  Consistent(e)' /\ Settled' /\ \A o \in Procs : o # e => AtRest(o)
    <3>1. Consistent(e) /\ \A o \in Procs : o # e => AtRest(o)
      BY <1>1, <2>1, OthersRest DEF AtRest
    <3>2. pc'[Watcher] = pc[Watcher]
      BY <1>2, ProcsAre DEF Only
    <3>3. base' = base
      BY <1>1, <3>1 DEF Consistent
    <3>4. Consistent(e)'
      BY <1>1, <1>2, <3>1, <3>2, <3>3 DEF Consistent, Idle, AtRest, Made, Follows
    <3>5. Settled'
      BY <1>1, <1>2 DEF Settled, AtRest
    <3>6. QED
      BY <3>1, <3>4, <3>5
  <2>2. QED
    BY <1>1, <1>2, <2>1, ReconciledOn
<1>9. QED
  BY <1>3, <1>4, <1>5, <1>6, <1>7, <1>8

LEMMA ParseStep ==
    ASSUME OverlayInv, Parse
    PROVE  OverlayInv'
<1> USE DEF OverlayInv
<1>1. /\ Watcher \in Procs /\ AtRest(Watcher) /\ Goto(Watcher, "overlay") /\ base' = declared
      /\ local' = [local EXCEPT ![Watcher].desired = declared]
      /\ raced' = (\E e \in Editors : pc[e] = "set")
      /\ undisturbed' = (undisturbed /\ \A e \in Editors : AtRest(e))
      /\ UNCHANGED <<declared, patches, disk, runtime, cmd, newest, alone, promised>>
  BY ProcsAre DEF Parse, AtRest, Idle
<1>2. Only(Watcher) /\ pc'[Watcher] = "overlay"
  BY <1>1, GoesTo DEF Steps
<1>3. declared \in Desired
  BY DEF OverlayTypes, Desired
<1>4. /\ local' \in [Procs -> Locals] /\ local'[Watcher].desired = declared
      /\ \A o \in Procs : o # Watcher => local'[o] = local[o]
  <2>1. local \in [Procs -> Locals]
    BY DEF OverlayTypes
  <2>2. QED
    BY <1>1, <1>3, <2>1 DEF Locals
<1>5. OverlayTypes'
  <2>1. raced' \in BOOLEAN /\ undisturbed' \in BOOLEAN
    BY <1>1
  <2>2. QED
    BY <1>1, <1>2, <1>3, <1>4, <2>1 DEF OverlayTypes, Only
<1>6. Control'
  BY <1>1, <1>2, ProcsAre DEF Control, Only, Idle
<1>7. BaseKept'
  <2>1. \A e \in Editors : pc'[e] = pc[e]
    BY <1>2, ProcsAre DEF Only
  <2>2. ~raced' => \A e \in Editors : pc'[e] # "set"
    BY <1>1, <2>1
  <2>3. QED
    BY <1>1, <1>4, <2>2 DEF BaseKept
<1>8. NewestHeld'
  <2>1. /\ \A o \in Editors : pc[o] = "save" => pc'[o] = "save"
        /\ \A o \in Editors : pc[o] = "write" => pc'[o] = "write" /\ local'[o] = local[o]
    BY <1>2, <1>4, ProcsAre DEF Only
  <2>2. QED
    BY <1>1, <2>1, NewestHeldOn
<1>9. Isolated'
  <2>1. GoOn
    BY <1>1, <1>2, ProcsAre DEF GoOn, Only, Made, AtRest
  <2>2. QED
    BY <1>1, <2>1, IsolatedGoesOn
<1>10. Reconciled'
  <2>1. ASSUME undisturbed'
        PROVE  Consistent(Watcher)' /\ Settled' /\ \A o \in Procs : o # Watcher => AtRest(o)
    <3>1. \A o \in Procs : o # Watcher => AtRest(o)
      BY <1>1, <2>1 DEF Procs, AtRest, Idle
    <3>2. Consistent(Watcher)'
      BY <1>1, <1>2, <1>4, ProcsAre DEF Consistent
    <3>3. Settled'
      BY <1>1, <1>2 DEF Settled, AtRest
    <3>4. QED
      BY <3>1, <3>2, <3>3
  <2>2. QED
    BY <1>1, <1>2, <2>1, ReconciledOn
<1>11. QED
  BY <1>5, <1>6, <1>7, <1>8, <1>9, <1>10

LEMMA KeptFacts ==
    ASSUME OverlayTypes, NEW p \in Procs
    PROVE  Kept(p) \in Locals /\ (p = Watcher => Kept(p).desired = local[p].desired)
<1>1. local[p] \in Locals
  BY DEF OverlayTypes
<1>2. QED
  BY <1>1, Nothing DEF Kept, Locals

\* A step of a reconcile: to the next, or out of it.
Reconciles(p) ==
    /\ pc[p] \in {"overlay", "apply"}
    /\ Only(p)
    /\ (pc'[p] = "apply" /\ cmd' = cmd) \/ Fails(p) \/ Ends(p)
    /\ undisturbed' \in BOOLEAN
    /\ UNCHANGED <<declared, base, patches, disk, newest, alone, promised, raced>>

LEMMA ReconcileLeaves ==
    ASSUME OverlayInv, NEW p \in Procs, Reconciles(p), runtime' \in Outcomes,
           NEW l \in Locals, local' = [local EXCEPT ![p] = l],
           p = Watcher => l.desired = local[Watcher].desired
    PROVE  OverlayTypes' /\ Control' /\ BaseKept' /\ NewestHeld' /\ Isolated'
<1> USE DEF OverlayInv
<1>1. /\ Only(p) /\ pc[p] \in {"overlay", "apply"}
      /\ UNCHANGED <<declared, base, patches, disk, newest, alone, promised, raced>>
  BY DEF Reconciles
<1>2. pc'[p] \in {"apply", "undo", "idle"} /\ (p = Watcher => pc'[p] # "undo")
  BY ProcsAre DEF Reconciles, Fails, Ends
<1>3. /\ local' \in [Procs -> Locals] /\ local'[p] = l
      /\ \A o \in Procs : o # p => local'[o] = local[o]
  BY DEF OverlayTypes
<1>4. ASSUME p \in Editors, pc'[p] # "idle"
      PROVE  /\ cmd'[p].id = cmd[p].id /\ cmd'[p].op = cmd[p].op
             /\ cmd'[p].undo = cmd[p].undo /\ cmd'[p].before = cmd[p].before
             /\ cmd'[p].failed <=> cmd[p].failed \/ pc'[p] = "undo"
             /\ pc'[p] = "undo" => cmd[p].op = "edit"
  <2>1. cmd[p] \in Commands /\ ~cmd[p].failed
    BY <1>1, <1>4 DEF OverlayTypes, Control
  <2>2. CASE Fails(p)
    <3>1. pc'[p] = "undo" /\ cmd[p].op = "edit" /\ cmd'[p] = [cmd[p] EXCEPT !.failed = TRUE]
      BY <2>2 DEF Fails
    <3>2. QED
      BY <2>1, <3>1 DEF Commands
  <2>3. CASE pc'[p] = "apply" /\ cmd' = cmd
    BY <2>1, <2>3
  <2>4. QED
    BY <1>4, <2>2, <2>3 DEF Reconciles, Ends
<1>5. OverlayTypes'
  BY <1>1, <1>3 DEF OverlayTypes, Only, Reconciles
<1>6. Control'
  <2>1. pc'[Watcher] \in {"start", "idle", "overlay", "apply"}
    BY <1>1, <1>2, ProcsAre DEF Control, Only
  <2>2. ASSUME NEW e \in Editors, e # p
        PROVE  pc'[e] = pc[e] /\ cmd'[e] = cmd[e]
    BY <1>1, <2>2, ProcsAre DEF Only
  <2>3. ASSUME p \in Editors
        PROVE  /\ pc'[p] # "idle" => cmd'[p].id \in Ids /\ cmd'[p].op # None
               /\ pc'[p] = "undo" => cmd'[p].op = "edit" /\ cmd'[p].failed
               /\ cmd'[p].failed => pc'[p] \in {"save", "write", "undo"}
               /\ cmd'[p].undo # <<>> => IsPatch(cmd'[p].undo[1], "replace", cmd'[p].id)
    <3>1. CASE pc'[p] = "idle"
      <4>1. Ends(p)
        BY <3>1 DEF Reconciles, Fails, Ends
      <4>2. QED
        BY <2>3, <3>1, <4>1, Nothing DEF Ends
    <3>2. CASE pc'[p] # "idle"
      BY <1>1, <1>4, <2>3, <3>2 DEF Control, Idle
    <3>3. QED
      BY <3>1, <3>2
  <2>4. QED
    BY <1>2, <2>1, <2>2, <2>3 DEF Control, Idle
<1>7. BaseKept'
  <2>1. \A o \in Editors : pc'[o] = "set" => pc[o] = "set" /\ local'[o] = local[o]
    BY <1>1, <1>2, <1>3, ProcsAre DEF Only
  <2>2. local'[Watcher].desired = local[Watcher].desired
    BY <1>3, ProcsAre
  <2>3. QED
    BY <1>1, <2>1, <2>2, BaseKeptOn
<1>8. NewestHeld'
  <2>1. /\ \A o \in Editors : pc[o] = "save" => pc'[o] = "save"
        /\ \A o \in Editors : pc[o] = "write" => pc'[o] = "write" /\ local'[o] = local[o]
    BY <1>1, <1>3, ProcsAre DEF Only
  <2>2. QED
    BY <1>1, <2>1, NewestHeldOn
<1>9. Isolated'
  <2>1. GoOn
    <3>1. ASSUME NEW o \in Editors, o # p PROVE pc'[o] = pc[o] /\ cmd'[o] = cmd[o]
      BY <1>1, <3>1, ProcsAre DEF Only
    <3>2. ASSUME p \in Editors, ~AtRest(p)' PROVE Made(p)' => Made(p)
      BY <1>1, <1>4, <3>2 DEF Made, Control, AtRest
    <3>3. QED
      BY <1>1, <1>4, <3>1, <3>2 DEF GoOn, Made, AtRest
  <2>2. QED
    BY <1>1, <2>1, IsolatedGoesOn
<1>10. QED
  BY <1>5, <1>6, <1>7, <1>8, <1>9

LEMMA ComputeOverlayStep ==
    ASSUME OverlayInv, NEW p \in Procs, ComputeOverlay(p)
    PROVE  OverlayInv'
<1> USE DEF OverlayInv
<1> DEFINE c == Overlay(local[p].desired, patches)
<1>1. /\ pc[p] = "overlay"
      /\ UNCHANGED <<declared, base, patches, disk, runtime, newest, alone, promised, raced>>
  BY DEF ComputeOverlay
<1>2. runtime' \in Outcomes /\ c.rows \in Outcomes
  BY <1>1 DEF OverlayTypes, Locals, Outcomes
<1>3. Kept(p) \in Locals /\ (p = Watcher => Kept(p).desired = local[p].desired)
  BY KeptFacts
<1>4. CASE Accepted(c)
  <2> DEFINE l == [Kept(p) EXCEPT !.rows = c.rows]
  <2>1. local' = [local EXCEPT ![p] = l] /\ Goto(p, "apply") /\ UNCHANGED <<cmd, undisturbed>>
    BY <1>4 DEF ComputeOverlay
  <2>2. /\ l \in Locals /\ l.rows = c.rows /\ (p = Watcher => l.desired = local[Watcher].desired)
    BY <1>2, <1>3 DEF Locals
  <2>3. Only(p) /\ pc'[p] = "apply"
    BY <2>1, GoesTo DEF Steps
  <2>4. undisturbed' \in BOOLEAN
    BY <2>1 DEF OverlayTypes
  <2>5. Reconciles(p)
    BY <1>1, <2>1, <2>3, <2>4 DEF Reconciles
  <2>6. local'[p] = l
    BY <2>1 DEF OverlayTypes
  <2> HIDE DEF l
  <2>7. OverlayTypes' /\ Control' /\ BaseKept' /\ NewestHeld' /\ Isolated'
    BY <1>2, <2>1, <2>2, <2>5, ReconcileLeaves
  <2>8. Reconciled'
    <3>1. ASSUME undisturbed
          PROVE  Consistent(p)' /\ Settled' /\ \A o \in Procs : o # p => AtRest(o)
      <4>1. Consistent(p) /\ \A o \in Procs : o # p => AtRest(o)
        BY <1>1, <3>1, OthersRest DEF AtRest
      <4>2. pc[Watcher] # "start" \/ pc'[Watcher] = pc[Watcher]
        BY <1>1, <2>3, ProcsAre DEF Only
      <4>3. local[p].desired = base /\ Overlay(base, patches).ok
        BY <1>1, <1>4, <4>1 DEF Consistent, Accepted
      <4>4. Consistent(p)'
        BY <1>1, <2>1, <2>2, <2>3, <2>6, <4>1, <4>2, <4>3, ProcsAre
           DEF Consistent, Idle, AtRest, Made, Follows, Only
      <4>5. Settled'
        BY <2>3 DEF Settled, AtRest
      <4>6. QED
        BY <4>1, <4>4, <4>5
    <3>2. QED
      BY <2>1, <2>3, <3>1, ReconciledOn
  <2>9. QED
    BY <2>7, <2>8
<1>5. CASE ~Accepted(c)
  <2>1. /\ Rejected(p) /\ undisturbed' = (undisturbed /\ pc'[p] = "undo")
        /\ local' = [local EXCEPT ![p] = Kept(p)]
    BY <1>5 DEF ComputeOverlay
  <2>2. Only(p) /\ (Fails(p) \/ Ends(p))
    BY <2>1, IsRejected
  <2>3. undisturbed' \in BOOLEAN
    BY <2>1
  <2>4. Reconciles(p)
    BY <1>1, <2>2, <2>3 DEF Reconciles
  <2>5. OverlayTypes' /\ Control' /\ BaseKept' /\ NewestHeld' /\ Isolated'
    BY <1>2, <1>3, <2>1, <2>4, ReconcileLeaves
  <2>6. Reconciled'
    <3>1. ASSUME undisturbed'
          PROVE  Consistent(p)' /\ Settled' /\ \A o \in Procs : o # p => AtRest(o)
      <4>1. undisturbed /\ pc'[p] = "undo"
        BY <2>1, <3>1
      <4>2. Consistent(p) /\ \A o \in Procs : o # p => AtRest(o)
        BY <1>1, <4>1, OthersRest DEF AtRest
      <4>3. p \in Editors /\ cmd[p].op = "edit" /\ cmd'[p] = [cmd[p] EXCEPT !.failed = TRUE]
        BY <2>2, <4>1 DEF Fails, Ends
      <4>4. cmd[p] \in Commands /\ ~cmd[p].failed
        BY <1>1, <4>3 DEF OverlayTypes, Control
      <4>5. cmd'[p].undo = cmd[p].undo /\ cmd'[p].id = cmd[p].id
        BY <4>3, <4>4 DEF Commands
      <4>6. Undoing(patches, cmd'[p]) = Undoing(patches, cmd[p])
        BY <4>5, SameUndo
      <4>7. pc'[Watcher] = pc[Watcher]
        BY <2>2, <4>3, ProcsAre DEF Only
      <4>8. pc[Watcher] # "start" => Follows(Undoing(patches, cmd[p]))
        BY <1>1, <4>2, <4>3, <4>4 DEF Consistent, Made, Idle, AtRest
      <4>9. Follows(Undoing(patches, cmd[p])) => Follows(Undoing(patches, cmd[p]))'
        BY <1>1, <4>6 DEF Follows
      <4>10. Consistent(p)'
        BY <1>1, <4>1, <4>7, <4>8, <4>9 DEF Consistent
      <4>11. Settled'
        BY <4>1 DEF Settled, AtRest
      <4>12. QED
        BY <4>2, <4>10, <4>11
    <3>2. QED
      BY <2>2, <3>1, ReconciledOn
  <2>7. QED
    BY <2>5, <2>6
<1>6. QED
  BY <1>4, <1>5

LEMMA ApplyStep ==
    ASSUME OverlayInv, NEW p \in Procs, Apply(p)
    PROVE  OverlayInv'
<1> USE DEF OverlayInv
<1> DEFINE ready == \A i \in Ids : local[p].rows[i] \notin NeverReady
<1>1. /\ pc[p] = "apply" /\ runtime' = local[p].rows /\ local' = [local EXCEPT ![p] = Kept(p)]
      /\ undisturbed' = (undisturbed /\ ready)
      /\ IF ready THEN Return(p) ELSE Rejected(p)
      /\ UNCHANGED <<declared, base, patches, disk, newest, alone, promised, raced>>
  BY DEF Apply
<1> HIDE DEF ready
<1>2. runtime' \in Outcomes
  BY <1>1 DEF OverlayTypes, Locals
<1>3. Kept(p) \in Locals /\ (p = Watcher => Kept(p).desired = local[p].desired)
  BY KeptFacts
<1>4. Only(p) /\ (Fails(p) \/ Ends(p)) /\ (ready => Ends(p))
  BY <1>1, Returns, IsRejected DEF Ends
<1>5. undisturbed' \in BOOLEAN
  BY <1>1
<1>6. Reconciles(p)
  BY <1>1, <1>4, <1>5 DEF Reconciles
<1>7. OverlayTypes' /\ Control' /\ BaseKept' /\ NewestHeld' /\ Isolated'
  BY <1>1, <1>2, <1>3, <1>6, ReconcileLeaves
<1>8. Reconciled'
  <2>1. ASSUME undisturbed'
        PROVE  Consistent(p)' /\ Settled' /\ \A o \in Procs : o # p => AtRest(o)
    <3>1. undisturbed /\ pc'[p] = "idle"
      BY <1>1, <1>4, <2>1 DEF Ends
    <3>2. Consistent(p) /\ \A o \in Procs : o # p => AtRest(o)
      BY <1>1, <3>1, OthersRest DEF AtRest
    <3>3. Overlay(base, patches).ok /\ Overlay(base, patches).rows = local[p].rows
      BY <1>1, <3>2 DEF Consistent
    <3>4. Follows(patches)'
      BY <1>1, <3>3 DEF Follows
    <3>5. Consistent(p)' /\ Settled'
      BY <3>1, <3>4 DEF Consistent, Settled, Idle, AtRest
    <3>6. QED
      BY <3>2, <3>5
  <2>2. QED
    BY <1>4, <2>1, ReconciledOn
<1>9. QED
  BY <1>7, <1>8

\* What a command undoes is a patch of its own component.
LEMMA UndoTyped ==
    ASSUME OverlayTypes, Control, NEW e \in Editors
    PROVE  cmd[e].undo = <<>> \/ (cmd[e].undo[1] \in Patch /\ cmd[e].undo[1].id = cmd[e].id)
<1>1. cmd[e] \in Commands
  BY DEF OverlayTypes
<1>2. cmd[e].undo \in {<<>>} \cup {<<q>> : q \in Patch}
  BY <1>1 DEF Commands
<1>3. CASE cmd[e].undo # <<>>
  <2>1. PICK q \in Patch : cmd[e].undo = <<q>>
    BY <1>2, <1>3
  <2>2. cmd[e].undo[1] = q
    BY <2>1
  <2>3. IsPatch(cmd[e].undo[1], "replace", cmd[e].id)
    BY <1>3 DEF Control
  <2>4. QED
    BY <2>2, <2>3 DEF IsPatch
<1>4. QED
  BY <1>3

LEMMA UndoStep ==
    ASSUME OverlayInv, NEW e \in Editors, Undo(e)
    PROVE  OverlayInv'
<1> USE DEF OverlayInv
<1> DEFINE id == cmd[e].id
<1>1. /\ e \in Procs /\ pc[e] = "undo" /\ Goto(e, "save") /\ patches' = Undoing(patches, cmd[e])
      /\ promised' = [promised EXCEPT ![id] = cmd[e].before]
      /\ UNCHANGED <<declared, base, disk, runtime, cmd, local, newest, alone, undisturbed, raced>>
  BY ProcsAre DEF Undo, Undone
<1>2. Only(e) /\ pc'[e] = "save"
  BY <1>1, GoesTo DEF Steps
<1>3. /\ cmd[e] \in Commands /\ cmd[e].before \in Seq(Patch) /\ id \in Ids /\ cmd[e].op = "edit"
      /\ Made(e) /\ ~AtRest(e)
  BY <1>1 DEF OverlayTypes, Control, Idle, AtRest, Commands, Made
<1>4. cmd[e].undo = <<>> \/ (cmd[e].undo[1] \in Patch /\ cmd[e].undo[1].id = id)
  BY UndoTyped
<1>5. patches \in Seq(Patch) /\ patches' \in Seq(Patch)
  BY <1>1, <1>4, UndoingTyped DEF OverlayTypes
<1>6. /\ promised' \in [Ids -> Seq(Patch)] /\ promised'[id] = cmd[e].before
      /\ \A i \in Ids : i # id => promised'[i] = promised[i]
  BY <1>1, <1>3 DEF OverlayTypes
<1>7. OverlayTypes'
  BY <1>1, <1>2, <1>5, <1>6 DEF OverlayTypes, Only
<1>8. Control'
  BY <1>1, <1>2, <1>3, ProcsAre DEF Control, Only, Idle
<1>9. BaseKept'
  <2>1. \A o \in Editors : pc'[o] = "set" => pc[o] = "set" /\ local'[o] = local[o]
    BY <1>1, <1>2, ProcsAre DEF Only
  <2>2. QED
    BY <1>1, <2>1, BaseKeptOn
<1>10. NewestHeld'
  BY <1>1, <1>2, ProcsAre DEF NewestHeld, Only
<1>11. Isolated'
  <2>1. ASSUME NEW i \in alone PROVE PatchesOf(patches', i) = promised'[i]
    <3>1. i \in Ids /\ PatchesOf(patches, i) = promised[i]
      BY DEF OverlayTypes, Isolated, EditsAreIsolated
    <3>2. PatchesOf(patches', i) =
              IF id = i THEN Undoing(PatchesOf(patches, i), cmd[e]) ELSE PatchesOf(patches, i)
      BY <1>1, <1>4, <1>5, UndoingOf
    <3>3. id \in alone => Undoing(promised[id], cmd[e]) = cmd[e].before
      BY <1>3 DEF Isolated
    <3>4. QED
      BY <1>6, <3>1, <3>2, <3>3
  <2>2. EditsAreIsolated'
    BY <1>1, <2>1 DEF EditsAreIsolated
  <2>3. ASSUME NEW o \in Editors PROVE ~AtRest(o)' => ~AtRest(o)
    BY <1>1, <1>2, ProcsAre DEF Only, AtRest
  <2>4. ASSUME NEW o \in Editors, ~AtRest(o)', Made(o)', cmd'[o].id \in alone'
        PROVE  Undoing(promised'[cmd'[o].id], cmd'[o]) = cmd'[o].before
    <3>1. cmd[e].failed
      BY <1>1, <1>3 DEF Control, Made
    <3>2. o # e
      BY <1>1, <1>2, <2>4, <3>1 DEF Made
    <3>3. ~AtRest(o) /\ Made(o) /\ cmd[o].id \in alone /\ cmd[o].id \in Ids
      BY <1>1, <1>2, <2>4, <3>2, ProcsAre DEF Made, Only, Idle, AtRest, OverlayTypes
    <3>4. cmd[o].id # id
      BY <1>3, <3>2, <3>3 DEF Isolated
    <3>5. promised'[cmd[o].id] = promised[cmd[o].id]
      BY <1>6, <3>3, <3>4
    <3>6. Undoing(promised[cmd[o].id], cmd[o]) = cmd[o].before
      BY <3>3 DEF Isolated
    <3>7. QED
      BY <1>1, <3>5, <3>6
  <2>5. QED
    BY <1>1, <2>2, <2>3, <2>4 DEF Isolated, AtRest, Idle
<1>12. Reconciled'
  <2>1. ASSUME undisturbed
        PROVE  Consistent(e)' /\ Settled' /\ \A o \in Procs : o # e => AtRest(o)
    <3>1. Consistent(e) /\ \A o \in Procs : o # e => AtRest(o)
      BY <1>1, <2>1, OthersRest DEF AtRest
    <3>2. pc'[Watcher] = pc[Watcher]
      BY <1>2, ProcsAre DEF Only
    <3>3. pc[Watcher] # "start" => Follows(patches)'
      BY <1>1, <1>3, <3>1 DEF Consistent, Follows
    <3>4. cmd'[e].failed /\ cmd'[e] = cmd[e]
      BY <1>1, <1>3 DEF Control, Made
    <3>5. Consistent(e)'
      BY <1>2, <3>2, <3>3, <3>4 DEF Consistent, Made
    <3>6. Settled'
      BY <1>1, <1>2 DEF Settled, AtRest
    <3>7. QED
      BY <3>1, <3>5, <3>6
  <2>2. QED
    BY <1>1, <1>2, <2>1, ReconciledOn
<1>13. QED
  BY <1>7, <1>8, <1>9, <1>10, <1>11, <1>12

-----------------------------------------------------------------------------
(* A command begins.                                                       *)

\* The list and the promise a command on id leaves; what undoes an edit brings
\* both back.
Changes(op, id, undo, list, expected) ==
    /\ list \in Seq(Patch) /\ expected \in Seq(Patch)
    /\ \A i \in Ids : i # id => PatchesOf(list, i) = PatchesOf(patches, i)
    /\ PatchesOf(patches, id) = promised[id] => PatchesOf(list, id) = expected
    /\ undo \in {<<>>} \cup {<<q>> : q \in Patch}
    /\ undo # <<>> => IsPatch(undo[1], "replace", id)
    /\ op = "edit" =>
           \A c \in Commands :
               c.undo = undo /\ c.id = id =>
                   /\ Undoing(list, c) = patches
                   /\ PatchesOf(patches, id) = promised[id] => Undoing(expected, c) = promised[id]

LEMMA BeginsStep ==
    ASSUME OverlayInv, NEW e \in Editors, AtRest(e), NEW op \in {"edit", "uninstall", "install"},
           NEW id \in Ids, NEW undo, NEW expected, Begins(e, op, id, undo, expected),
           Changes(op, id, undo, patches', expected)
    PROVE  OverlayInv'
<1> USE DEF OverlayInv
<1> DEFINE c == [op |-> op, id |-> id, undo |-> undo, failed |-> FALSE, before |-> promised[id]]
<1>1. /\ e \in Procs /\ AtRest(e) /\ Goto(e, "save") /\ cmd' = [cmd EXCEPT ![e] = c]
      /\ alone' = IF Busy(id) = {} THEN alone ELSE alone \ {id}
      /\ promised' = [promised EXCEPT ![id] = expected]
      /\ undisturbed' = (undisturbed /\ \A p \in Procs : AtRest(p))
      /\ UNCHANGED <<declared, base, disk, runtime, local, newest, raced>>
  BY ProcsAre DEF Begins, Idle
<1>2. c \in Commands
  BY DEF Commands, OverlayTypes, Changes
<1>3. /\ c.op = op /\ c.id = id /\ c.undo = undo /\ c.failed = FALSE /\ c.before = promised[id]
  OBVIOUS
<1> HIDE DEF c
<1>4. /\ cmd' \in [Editors -> Commands] /\ cmd'[e] = c
      /\ \A o \in Editors : o # e => cmd'[o] = cmd[o]
  BY <1>1, <1>2 DEF OverlayTypes
<1>5. /\ pc' \in [Procs -> Steps] /\ pc'[e] = "save"
      /\ \A o \in Procs : o # e => pc'[o] = pc[o]
  BY <1>1 DEF OverlayTypes, Goto, Steps
<1>6. Only(e)
  BY <1>4, <1>5 DEF Only
<1>7. /\ promised' \in [Ids -> Seq(Patch)] /\ promised'[id] = expected
      /\ \A i \in Ids : i # id => promised'[i] = promised[i]
  BY <1>1 DEF OverlayTypes, Changes
<1>8. alone' \subseteq alone /\ (id \in alone' => Busy(id) = {})
  BY <1>1
<1>9. OverlayTypes'
  <2>1. undisturbed' \in BOOLEAN /\ patches' \in Seq(Patch)
    BY <1>1 DEF Changes
  <2>2. alone' \subseteq Ids
    BY <1>8 DEF OverlayTypes
  <2>3. QED
    BY <1>1, <1>4, <1>5, <1>7, <2>1, <2>2 DEF OverlayTypes
<1>10. Control'
  <2>1. pc'[Watcher] = pc[Watcher]
    BY <1>5, ProcsAre
  <2>2. ASSUME NEW o \in Editors, o # e PROVE pc'[o] = pc[o] /\ cmd'[o] = cmd[o]
    BY <1>4, <1>5, <2>2, ProcsAre
  <2>3. /\ cmd'[e].id \in Ids /\ cmd'[e].op # None /\ ~cmd'[e].failed
        /\ cmd'[e].undo # <<>> => IsPatch(cmd'[e].undo[1], "replace", cmd'[e].id)
    BY <1>3, <1>4 DEF Changes, None
  <2>4. QED
    BY <1>5, <2>1, <2>2, <2>3 DEF Control, Idle
<1>11. BaseKept'
  <2>1. \A o \in Editors : pc'[o] = "set" => pc[o] = "set" /\ local'[o] = local[o]
    BY <1>1, <1>5, ProcsAre
  <2>2. QED
    BY <1>1, <2>1, BaseKeptOn
<1>12. NewestHeld'
  BY <1>1, <1>5, ProcsAre DEF NewestHeld, AtRest
<1>13. Isolated'
  <2>1. ASSUME NEW i \in alone' PROVE PatchesOf(patches', i) = promised'[i]
    <3>1. i \in Ids /\ PatchesOf(patches, i) = promised[i]
      BY <1>8 DEF OverlayTypes, Isolated, EditsAreIsolated
    <3>2. QED
      BY <1>7, <3>1 DEF Changes
  <2>2. EditsAreIsolated'
    BY <2>1 DEF EditsAreIsolated
  <2>3. ASSUME NEW o \in Editors, o # e, ~AtRest(o)', cmd'[o].id \in alone'
        PROVE  ~AtRest(o) /\ cmd'[o] = cmd[o] /\ cmd[o].id \in alone /\ cmd[o].id # id /\ cmd[o].id \in Ids
    <3>1. ~AtRest(o) /\ cmd'[o] = cmd[o]
      BY <1>4, <1>5, <2>3, ProcsAre DEF Idle, AtRest
    <3>2. cmd[o].id \in alone /\ cmd[o].id \in Ids
      BY <1>8, <2>3, <3>1 DEF OverlayTypes
    <3>3. ASSUME cmd[o].id = id PROVE FALSE
      <4>1. o \in Busy(id)
        BY <3>1, <3>3 DEF Busy
      <4>2. id \in alone'
        BY <2>3, <3>1, <3>3
      <4>3. QED
        BY <1>8, <4>1, <4>2
    <3>4. QED
      BY <3>1, <3>2, <3>3
  <2>4. ASSUME NEW o \in Editors, NEW u \in Editors, ~AtRest(o)', ~AtRest(u)',
               cmd'[o].id = cmd'[u].id, cmd'[o].id \in alone'
        PROVE  o = u
    <3>1. CASE o = e /\ u # e
      BY <1>3, <1>4, <2>3, <2>4, <3>1
    <3>2. CASE o # e /\ u = e
      BY <1>3, <1>4, <2>3, <2>4, <3>2
    <3>3. CASE o # e /\ u # e
      BY <2>3, <2>4, <3>3 DEF Isolated
    <3>4. QED
      BY <3>1, <3>2, <3>3
  <2>5. ASSUME NEW o \in Editors, ~AtRest(o)', Made(o)', cmd'[o].id \in alone'
        PROVE  Undoing(promised'[cmd'[o].id], cmd'[o]) = cmd'[o].before
    <3>1. CASE o = e
      <4>1. op = "edit" /\ id \in alone
        BY <1>3, <1>4, <1>8, <2>5, <3>1 DEF Made
      <4>2. PatchesOf(patches, id) = promised[id]
        BY <4>1 DEF Isolated, EditsAreIsolated
      <4>3. Undoing(expected, c) = promised[id]
        BY <1>2, <1>3, <4>1, <4>2 DEF Changes
      <4>4. QED
        BY <1>3, <1>4, <1>7, <3>1, <4>3
    <3>2. CASE o # e
      <4>1. /\ ~AtRest(o) /\ cmd'[o] = cmd[o] /\ cmd[o].id \in alone /\ cmd[o].id # id
            /\ cmd[o].id \in Ids
        BY <2>3, <2>5, <3>2
      <4>2. Made(o)
        BY <1>5, <2>5, <3>2, <4>1, ProcsAre DEF Made
      <4>3. Undoing(promised[cmd[o].id], cmd[o]) = cmd[o].before
        BY <4>1, <4>2 DEF Isolated
      <4>4. QED
        BY <1>7, <4>1, <4>3
    <3>3. QED
      BY <3>1, <3>2
  <2>6. QED
    BY <2>2, <2>4, <2>5 DEF Isolated
<1>14. Reconciled'
  <2>1. ASSUME undisturbed'
        PROVE  Consistent(e)' /\ Settled' /\ \A o \in Procs : o # e => AtRest(o)
    <3>1. undisturbed /\ \A p \in Procs : AtRest(p)
      BY <1>1, <2>1 DEF AtRest, Idle
    <3>2. pc[Watcher] # "start" => Follows(patches)
      BY <3>1 DEF Reconciled, Settled
    <3>3. pc'[Watcher] = pc[Watcher]
      BY <1>5, ProcsAre
    <3>4. op = "edit" => Undoing(patches', c) = patches
      BY <1>2, <1>3 DEF Changes
    <3>5. cmd'[e] = c /\ cmd'[e].op = op /\ ~cmd'[e].failed
      BY <1>3, <1>4
    <3>6. pc'[Watcher] # "start" /\ Made(e)' => Follows(Undoing(patches, cmd[e]))'
      BY <1>1, <3>2, <3>3, <3>4, <3>5 DEF Made, Follows
    <3>7. Consistent(e)'
      BY <1>5, <3>5, <3>6 DEF Consistent
    <3>8. Settled'
      BY <1>1, <1>5 DEF Settled, AtRest
    <3>9. QED
      BY <3>1, <3>7, <3>8
  <2>2. QED
    BY <1>1, <1>6, <2>1, ReconciledOn
<1>15. QED
  BY <1>9, <1>10, <1>11, <1>12, <1>13, <1>14

LEMMA EditStep ==
    ASSUME OverlayInv, NEW e \in Editors, NEW id \in Ids, NEW value \in EditValues,
           Edit(e, id, value)
    PROVE  OverlayInv'
<1> USE DEF OverlayInv
<1> DEFINE q == [op |-> "replace", id |-> id, value |-> value]
           undo == Replaced(patches, id)
           expected == SetPatch(promised[id], q)
<1>1. /\ AtRest(e) /\ patches' = SetPatch(patches, q)
      /\ Begins(e, "edit", id, undo, expected)
  BY DEF Edit, Replaced, Idle, AtRest
<1>2. q \in Patch /\ q.op = "replace" /\ q.id = id
  <2>1. value \in Values \cup {Absent}
    BY DEF Values
  <2>2. QED
    BY <2>1 DEF Patch
<1>3. patches \in Seq(Patch) /\ promised[id] \in Seq(Patch)
  BY DEF OverlayTypes
<1> HIDE DEF q
<1>4. patches' \in Seq(Patch) /\ expected \in Seq(Patch)
  BY <1>1, <1>2, <1>3, SetPatchTyped
<1>5. \A i \in Ids : PatchesOf(patches', i) =
                         IF id = i THEN SetPatch(PatchesOf(patches, i), q) ELSE PatchesOf(patches, i)
  BY <1>1, <1>2, <1>3, SetPatchOf
<1>6. /\ undo \in {<<>>} \cup {<<p>> : p \in Patch}
      /\ undo # <<>> => IsPatch(undo[1], "replace", id)
  BY <1>3, ReplacedTyped
<1>7. ASSUME NEW c \in Commands, c.undo = undo, c.id = id
      PROVE  /\ Undoing(patches', c) = patches
             /\ PatchesOf(patches, id) = promised[id] => Undoing(expected, c) = promised[id]
  <2>1. Undoing(patches', c) = patches
    BY <1>1, <1>2, <1>3, <1>7, UndoneIsBefore
  <2>2. ASSUME PatchesOf(patches, id) = promised[id] PROVE Undoing(expected, c) = promised[id]
    <3>1. c.undo = Replaced(promised[id], c.id)
      BY <1>3, <1>7, <2>2, ReplacedOf
    <3>2. QED
      BY <1>2, <1>3, <1>7, <3>1, UndoneIsBefore
  <2>3. QED
    BY <2>1, <2>2
<1> HIDE DEF undo
<1>8. Changes("edit", id, undo, patches', expected)
  BY <1>4, <1>5, <1>6, <1>7 DEF Changes
<1> HIDE DEF expected
<1>9. QED
  BY <1>1, <1>8, BeginsStep

\* The look for the component changes nothing that counts.
LEMMA UninstallStep ==
    ASSUME OverlayInv, NEW e \in Editors, NEW id \in Ids, Uninstall(e, id)
    PROVE  OverlayInv'
<1> USE DEF OverlayInv
<1> DEFINE c == [NoCmd EXCEPT !.op = "uninstall", !.id = id]
<1>1. /\ e \in Procs /\ pc[e] = "idle" /\ Goto(e, "remove") /\ cmd' = [cmd EXCEPT ![e] = c]
      /\ UNCHANGED <<declared, base, patches, disk, runtime, local, newest, alone,
                     promised, undisturbed, raced>>
  BY ProcsAre DEF Uninstall, Idle, historyVars
<1>2. /\ c \in Commands /\ c.id = id /\ c.op = "uninstall" /\ c.op # None
      /\ ~c.failed /\ c.undo = <<>>
  BY Nothing DEF Commands, NoCmd, None
<1> HIDE DEF c
<1>3. /\ cmd' \in [Editors -> Commands] /\ cmd'[e] = c
      /\ \A o \in Editors : o # e => cmd'[o] = cmd[o]
  BY <1>1, <1>2 DEF OverlayTypes
<1>4. /\ pc' \in [Procs -> Steps] /\ pc'[e] = "remove"
      /\ \A o \in Procs : o # e => pc'[o] = pc[o]
  BY <1>1 DEF OverlayTypes, Goto, Steps
<1>5. \A o \in Procs : AtRest(o)' <=> AtRest(o)
  BY <1>1, <1>4 DEF AtRest
<1>6. OverlayTypes'
  BY <1>1, <1>3, <1>4 DEF OverlayTypes
<1>7. Control'
  <2>1. pc'[Watcher] = pc[Watcher]
    BY <1>4, ProcsAre
  <2>2. ASSUME NEW o \in Editors, o # e PROVE pc'[o] = pc[o] /\ cmd'[o] = cmd[o]
    BY <1>3, <1>4, <2>2, ProcsAre
  <2>3. QED
    BY <1>2, <1>3, <1>4, <2>1, <2>2 DEF Control, Idle
<1>8. BaseKept'
  BY <1>1, <1>4, BaseKeptOn, ProcsAre
<1>9. NewestHeld'
  BY <1>1, <1>4, NewestHeldOn, ProcsAre
<1>10. Isolated'
  <2>1. GoOn
    BY <1>3, <1>4, <1>5, ProcsAre DEF GoOn, Made, AtRest
  <2>2. QED
    BY <1>1, <2>1, IsolatedGoesOn
<1>11. Reconciled'
  <2>1. SUFFICES ASSUME undisturbed PROVE OneAtWork' /\ Settled' /\ \A o \in Procs : Consistent(o)'
    BY <1>1 DEF Reconciled
  <2>2. OneAtWork'
    BY <1>5, <2>1 DEF Reconciled, OneAtWork
  <2>3. pc'[Watcher] = pc[Watcher]
    BY <1>4, ProcsAre
  <2>4. Settled'
    BY <1>1, <1>5, <2>1, <2>3 DEF Reconciled, Settled, Follows
  <2>5. ASSUME NEW o \in Procs PROVE Consistent(o)'
    <3>1. CASE o = e
      BY <1>4, <3>1 DEF Consistent, AtRest
    <3>2. CASE o # e
      <4>1. Consistent(o) /\ pc'[o] = pc[o] /\ (o \in Editors => cmd'[o] = cmd[o])
        BY <1>3, <1>4, <2>1, <3>2 DEF Reconciled
      <4>2. QED
        BY <1>1, <2>3, <4>1 DEF Consistent, AtRest, Made, Follows
    <3>3. QED
      BY <3>1, <3>2
  <2>6. QED
    BY <2>2, <2>4, <2>5
<1>12. QED
  BY <1>6, <1>7, <1>8, <1>9, <1>10, <1>11

LEMMA SetRemovalStep ==
    ASSUME OverlayInv, NEW e \in Editors, SetRemoval(e)
    PROVE  OverlayInv'
<1> USE DEF OverlayInv
<1> DEFINE id == cmd[e].id
           q == [op |-> "remove", id |-> id, value |-> Absent]
           expected == SetPatch(promised[id], q)
<1>1. /\ AtRest(e) /\ patches' = SetPatch(patches, q)
      /\ Begins(e, "uninstall", id, <<>>, expected)
  BY DEF SetRemoval, AtRest
<1>2. id \in Ids
  BY DEF SetRemoval, Control, Idle
<1> HIDE DEF id
<1>3. q \in Patch /\ q.id = id
  BY <1>2 DEF Patch
<1>4. patches \in Seq(Patch) /\ promised[id] \in Seq(Patch)
  BY <1>2 DEF OverlayTypes
<1> HIDE DEF q
<1>5. patches' \in Seq(Patch) /\ expected \in Seq(Patch)
  BY <1>1, <1>3, <1>4, SetPatchTyped
<1>6. \A i \in Ids : PatchesOf(patches', i) =
                         IF id = i THEN SetPatch(PatchesOf(patches, i), q) ELSE PatchesOf(patches, i)
  BY <1>1, <1>3, <1>4, SetPatchOf
<1>7. Changes("uninstall", id, <<>>, patches', expected)
  BY <1>2, <1>5, <1>6 DEF Changes
<1> HIDE DEF expected
<1>8. QED
  BY <1>1, <1>2, <1>7, BeginsStep

LEMMA InstallStep ==
    ASSUME OverlayInv, NEW e \in Editors, NEW id \in Ids, Install(e, id)
    PROVE  OverlayInv'
<1> USE DEF OverlayInv
<1> DEFINE expected == Drop(promised[id], "remove", id)
<1>1. /\ AtRest(e) /\ patches' = Drop(patches, "remove", id)
      /\ Begins(e, "install", id, <<>>, expected)
  BY DEF Install, Idle, AtRest
<1>2. patches \in Seq(Patch) /\ promised[id] \in Seq(Patch)
  BY DEF OverlayTypes
<1>3. patches' \in Seq(Patch) /\ expected \in Seq(Patch)
  BY <1>1, <1>2, AtTyped
<1>4. \A i \in Ids : PatchesOf(patches', i) =
          IF id = i THEN Drop(PatchesOf(patches, i), "remove", i) ELSE PatchesOf(patches, i)
  BY <1>1, <1>2, DropOf
<1>5. Changes("install", id, <<>>, patches', expected)
  BY <1>3, <1>4 DEF Changes
<1> HIDE DEF expected
<1>6. QED
  BY <1>1, <1>5, BeginsStep

-----------------------------------------------------------------------------
(* The outside.                                                            *)

LEMMA SameOverlay ==
    ASSUME OverlayInv, declared' \in Files,
           UNCHANGED <<base, patches, disk, runtime, pc, cmd, local, historyVars>>
    PROVE  OverlayInv'
<1> USE DEF OverlayInv
<1>1. UNCHANGED <<base, patches, disk, runtime, pc, cmd, local, newest, alone, promised, undisturbed, raced>>
  BY DEF historyVars
<1>2. OverlayTypes'
  BY <1>1 DEF OverlayTypes
<1>3. Control'
  BY <1>1 DEF Control, Idle
<1>4. BaseKept' /\ NewestHeld'
  BY <1>1 DEF BaseKept, NewestHeld
<1>5. Isolated'
  <2>1. GoOn
    BY <1>1 DEF GoOn, Made, AtRest
  <2>2. QED
    BY <1>1, <2>1, IsolatedGoesOn
<1>6. Reconciled'
  BY <1>1 DEF Reconciled, OneAtWork, Settled, Consistent, AtRest, Follows, Idle, Made
<1>7. QED
  BY <1>2, <1>3, <1>4, <1>5, <1>6

LEMMA RestartStep ==
    ASSUME OverlayInv, Restart
    PROVE  OverlayInv'
<1> USE DEF OverlayInv
<1>1. /\ patches' = disk'.list /\ base' = NoRows /\ runtime' = NoRows /\ pc' = AtStart
      /\ cmd' = [e \in Editors |-> NoCmd] /\ local' = [p \in Procs |-> NoLocal]
      /\ newest' = IF disk'.torn THEN None ELSE "disk"
      /\ alone' = Ids /\ promised' = [i \in Ids |-> PatchesOf(patches', i)]
      /\ undisturbed' = TRUE /\ raced' = FALSE /\ declared' = declared
  BY DEF Restart
<1>2. disk' \in [torn : BOOLEAN, list : Seq(Patch)]
  <2>1. disk' = disk \/ disk' = [torn |-> TRUE, list |-> <<>>]
    BY DEF Restart
  <2>2. [torn |-> TRUE, list |-> <<>>] \in [torn : BOOLEAN, list : Seq(Patch)]
    BY Nothing
  <2>3. QED
    BY <2>1, <2>2 DEF OverlayTypes
<1>3. /\ pc' \in [Procs -> Steps] /\ pc'[Watcher] = "start"
      /\ \A e \in Editors : pc'[e] = "idle" /\ cmd'[e] = NoCmd
  BY <1>1, ProcsAre DEF AtStart, Steps
<1>4. \A p \in Procs : local'[p] = NoLocal /\ pc'[p] \in {"start", "idle"}
  BY <1>1, <1>3 DEF Procs
<1>5. OverlayTypes'
  <2>1. patches' \in Seq(Patch)
    BY <1>1, <1>2
  <2>2. promised' \in [Ids -> Seq(Patch)]
    BY <1>1, <2>1, AtTyped
  <2>3. declared' \in Files /\ base' \in Desired /\ runtime' \in Outcomes
    BY <1>1, Nothing DEF OverlayTypes
  <2>4. cmd' \in [Editors -> Commands] /\ local' \in [Procs -> Locals]
    BY <1>1, Nothing
  <2>5. QED
    BY <1>1, <1>2, <1>3, <2>1, <2>2, <2>3, <2>4 DEF OverlayTypes
<1>6. Control'
  BY <1>3, Nothing DEF Control, Idle
<1>7. BaseKept'
  BY <1>1, <1>3, <1>4, ProcsAre, Nothing DEF BaseKept
<1>8. NewestHeld'
  BY <1>1, ProcsAre DEF NewestHeld, None
<1>9. Isolated'
  <2>1. EditsAreIsolated'
    BY <1>1 DEF EditsAreIsolated
  <2>2. QED
    BY <1>3, <2>1 DEF Isolated, AtRest, Idle
<1>10. Reconciled'
  BY <1>3, <1>4 DEF Reconciled, OneAtWork, Settled, Consistent, AtRest, Idle
<1>11. QED
  BY <1>5, <1>6, <1>7, <1>8, <1>9, <1>10

=============================================================================

--------------------------- MODULE TableSinkProofs ---------------------------
(***************************************************************************)
(* Proofs about the table sink, for any number of sinks, writers and files,*)
(* any headers, any registry to start from, and with no bound on writes.   *)
(* Each part strengthens one property to an inductive invariant; the parts *)
(* are Types (the rest of the type invariant), Pool, Columns, Keys, Rows.  *)
(***************************************************************************)
EXTENDS TableSink, FiniteSetTheorems, TLAPS

Fields == UNION {Header[f] : f \in Files}

\* The type invariant, without refs, which needs Pool, and without the counter,
\* the registry, the rows and the writers' keys, which need KeyInv; and the types of the column sets.
Types ==
    /\ dialect \in Dialects
    /\ open \subseteq Sinks /\ leaked \in Nat
    /\ autoCols \in [Sinks -> SUBSET Fields]
    /\ evolving \in [Sinks -> Writers \cup {Nobody}]
    /\ tables \in BOOLEAN
    /\ rowLock \in Writers \cup {Nobody}
    /\ pc \in [Writers -> {"idle", "ping", "schema", "evolve", "alter", "begin",
                           "advance", "enter", "insert"}]
    /\ job \in [Writers -> Files]
    /\ prev \in [Writers -> SUBSET Fields]
    /\ mode \in [Writers -> {"keep", "register", "backfill"}]
    /\ contended \subseteq Files /\ unmade \subseteq Sinks

Pinging == {w \in Writers : pc[w] = "ping"}

Pool == refs = Cardinality(open) + Cardinality(Pinging) + leaked

-----------------------------------------------------------------------------
(* The next-state relation, split by actions.                              *)

LEMMA InitTypes == Init => Types
BY SinkAssumption DEF Init, Types

LEMMA TypesStep == Types /\ [Next]_vars => Types'
<1> SUFFICES ASSUME Types, [Next]_vars PROVE Types'
  OBVIOUS
<1> USE SinkAssumption DEF Types, Goto, sinkVars, dbVars, txVars, boundVars
<1>1. ASSUME NEW w \in Writers, NEW f \in Files, StartWrite(w, f) PROVE Types'
  BY <1>1 DEF StartWrite
<1>2. ASSUME NEW w \in Writers, PingFails(w) PROVE Types'
  BY <1>2 DEF PingFails
<1>3. ASSUME NEW w \in Writers, Connected(w) PROVE Types'
  BY <1>3 DEF Connected
<1>4. ASSUME NEW w \in Writers, SchemaMade(w) PROVE Types'
  BY <1>4 DEF SchemaMade, EnsureSchema
<1>5. ASSUME NEW w \in Writers, SchemaFails(w) PROVE Types'
  BY <1>5 DEF SchemaFails, SchemaStops
<1>6. ASSUME NEW w \in Writers, Evolve(w) PROVE Types'
  <2>1. Header[job[w]] \subseteq Fields
    BY DEF Fields
  <2>2. autoCols[SinkOf[w]] \cup Header[job[w]] \subseteq Fields
    BY <2>1
  <2>3. QED
    BY <1>6, <2>2 DEF Evolve
<1>7. ASSUME NEW w \in Writers, Altered(w) PROVE Types'
  BY <1>7 DEF Altered, EnsureSchema
<1>8. ASSUME NEW w \in Writers, AlterFails(w) PROVE Types'
  BY <1>8 DEF AlterFails, SchemaStops
<1>9. ASSUME NEW w \in Writers, Lookup(w) PROVE Types'
  BY <1>9 DEF Lookup, ReadColumns
<1>10. ASSUME NEW w \in Writers, NextKey(w) PROVE Types'
  BY <1>10 DEF NextKey
<1>11. ASSUME NEW w \in Writers, EnterKey(w) PROVE Types'
  BY <1>11 DEF EnterKey, ReadColumns
<1>12. ASSUME NEW w \in Writers, InsertAndCommit(w) PROVE Types'
  BY <1>12 DEF InsertAndCommit, EndTx
<1>13. ASSUME NEW w \in Writers, Rollback(w) PROVE Types'
  BY <1>13 DEF Rollback, EndTx
<1>14. ASSUME NEW s \in Sinks, CloseSink(s) PROVE Types'
  BY <1>14 DEF CloseSink
<1>15. CASE UNCHANGED vars
  BY <1>15 DEF vars
<1>16. QED
  BY <1>1, <1>2, <1>3, <1>4, <1>5, <1>6, <1>7, <1>8, <1>9, <1>10, <1>11, <1>12,
     <1>13, <1>14, <1>15 DEF Next, Step

-----------------------------------------------------------------------------
(* The pool.                                                               *)

LEMMA InitPool == Init => Pool
<1> SUFFICES ASSUME Init PROVE Pool
  OBVIOUS
<1>1. Pinging = {}
  BY DEF Init, Pinging
<1>2. open = {} /\ refs = 0 /\ leaked = 0
  BY DEF Init
<1>3. QED
  BY <1>1, <1>2, FS_EmptySet DEF Pool

\* The sets the counts are taken of are finite.
LEMMA PoolFinite ==
    ASSUME Types
    PROVE  /\ IsFiniteSet(open) /\ Cardinality(open) \in Nat
           /\ IsFiniteSet(Pinging) /\ Cardinality(Pinging) \in Nat
<1>1. IsFiniteSet(open) /\ IsFiniteSet(Pinging)
  BY FS_Subset, SinkAssumption DEF Types, Pinging
<1>2. QED
  BY <1>1, FS_CardinalityType

LEMMA PoolStep == Types /\ Pool /\ [Next]_vars => Pool'
<1> SUFFICES ASSUME Types, Pool, [Next]_vars PROVE Pool'
  OBVIOUS
<1> USE DEF Goto, sinkVars, dbVars, txVars, boundVars
<1>a. /\ IsFiniteSet(open) /\ Cardinality(open) \in Nat
      /\ IsFiniteSet(Pinging) /\ Cardinality(Pinging) \in Nat
      /\ leaked \in Nat
  BY PoolFinite DEF Types
\* A step that opens, closes and pings nothing.
<1>b. ASSUME open' = open, refs' = refs, leaked' = leaked, Pinging' = Pinging PROVE Pool'
  BY <1>b DEF Pool
<1>c. ASSUME NEW w \in Writers, NEW step \in {"idle", "schema", "evolve", "alter", "begin", "advance", "enter", "insert"},
             pc[w] # "ping", pc' = [pc EXCEPT ![w] = step]
      PROVE  Pinging' = Pinging
  BY <1>c DEF Types, Pinging
<1>1. ASSUME NEW w \in Writers, NEW f \in Files, StartWrite(w, f) PROVE Pool'
  <2>1. CASE SinkOf[w] \in open
    <3>1. Pinging' = Pinging
      BY <1>1, <2>1, <1>c DEF StartWrite
    <3>2. QED
      BY <1>1, <2>1, <3>1, <1>b DEF StartWrite
  <2>2. CASE SinkOf[w] \notin open
    <3>1. Pinging' = Pinging \cup {w} /\ w \notin Pinging
      BY <1>1, <2>2 DEF StartWrite, Types, Pinging
    <3>2. Cardinality(Pinging') = Cardinality(Pinging) + 1
      BY <3>1, <1>a, FS_AddElement
    <3>3. open' = open /\ refs' = refs + 1 /\ leaked' = leaked
      BY <1>1, <2>2 DEF StartWrite
    <3>4. QED
      BY <3>2, <3>3, <1>a DEF Pool
  <2>3. QED
    BY <2>1, <2>2
<1>2. ASSUME NEW w \in Writers, PingFails(w) PROVE Pool'
  <2>1. Pinging' = Pinging \ {w} /\ w \in Pinging
    BY <1>2 DEF PingFails, Types, Pinging
  <2>2. Cardinality(Pinging') = Cardinality(Pinging) - 1
    BY <2>1, <1>a, FS_RemoveElement
  <2>3. open' = open /\ refs' = refs - 1 /\ leaked' = leaked
    BY <1>2 DEF PingFails
  <2>4. QED
    BY <2>2, <2>3, <1>a DEF Pool
<1>3. ASSUME NEW w \in Writers, Connected(w) PROVE Pool'
  <2>1. Pinging' = Pinging \ {w} /\ w \in Pinging
    BY <1>3 DEF Connected, Types, Pinging
  <2>2. Cardinality(Pinging') = Cardinality(Pinging) - 1
    BY <2>1, <1>a, FS_RemoveElement
  <2>3. /\ open' = open \cup {SinkOf[w]} /\ refs' = refs
        /\ leaked' = IF SinkOf[w] \in open THEN leaked + 1 ELSE leaked
    BY <1>3 DEF Connected
  <2>4. Cardinality(open') = IF SinkOf[w] \in open THEN Cardinality(open) ELSE Cardinality(open) + 1
    BY <2>3, <1>a, FS_AddElement
  <2>5. Cardinality(open') + leaked' = Cardinality(open) + leaked + 1
    <3>1. CASE SinkOf[w] \in open
      BY <3>1, <2>3, <2>4, <1>a
    <3>2. CASE SinkOf[w] \notin open
      BY <3>2, <2>3, <2>4, <1>a
    <3>3. QED
      BY <3>1, <3>2
  <2>6. Cardinality(open') \in Nat /\ leaked' \in Nat
    BY <2>3, <2>4, <1>a
  <2>7. QED
    BY <2>2, <2>3, <2>5, <2>6, <1>a DEF Pool
<1>4. ASSUME NEW w \in Writers, SchemaMade(w) PROVE Pool'
  BY <1>4, <1>b, <1>c DEF SchemaMade
<1>5. ASSUME NEW w \in Writers, SchemaFails(w) PROVE Pool'
  BY <1>5, <1>b, <1>c DEF SchemaFails
<1>6. ASSUME NEW w \in Writers, Evolve(w) PROVE Pool'
  BY <1>6, <1>b, <1>c DEF Evolve
<1>7. ASSUME NEW w \in Writers, Altered(w) PROVE Pool'
  BY <1>7, <1>b, <1>c DEF Altered
<1>8. ASSUME NEW w \in Writers, AlterFails(w) PROVE Pool'
  BY <1>8, <1>b, <1>c DEF AlterFails
<1>9. ASSUME NEW w \in Writers, Lookup(w) PROVE Pool'
  BY <1>9, <1>b, <1>c DEF Lookup
<1>10. ASSUME NEW w \in Writers, NextKey(w) PROVE Pool'
  BY <1>10, <1>b, <1>c DEF NextKey
<1>11. ASSUME NEW w \in Writers, EnterKey(w) PROVE Pool'
  BY <1>11, <1>b, <1>c DEF EnterKey
<1>12. ASSUME NEW w \in Writers, InsertAndCommit(w) PROVE Pool'
  BY <1>12, <1>b, <1>c DEF InsertAndCommit, EndTx
<1>13. ASSUME NEW w \in Writers, Rollback(w) PROVE Pool'
  BY <1>13, <1>b, <1>c DEF Rollback, EndTx, InTx
<1>14. ASSUME NEW s \in Sinks, CloseSink(s) PROVE Pool'
  <2>1. open' = open \ {s} /\ s \in open /\ refs' = refs - 1 /\ leaked' = leaked
    BY <1>14 DEF CloseSink
  <2>2. Cardinality(open') = Cardinality(open) - 1
    BY <2>1, <1>a, FS_RemoveElement
  <2>3. Pinging' = Pinging
    BY <1>14 DEF CloseSink, Pinging
  <2>4. QED
    BY <2>1, <2>2, <2>3, <1>a DEF Pool
<1>15. CASE UNCHANGED vars
  BY <1>15, <1>b DEF vars, Pinging
<1>16. QED
  BY <1>1, <1>2, <1>3, <1>4, <1>5, <1>6, <1>7, <1>8, <1>9, <1>10, <1>11, <1>12,
     <1>13, <1>14, <1>15 DEF Next, Step

-----------------------------------------------------------------------------
(* The columns.                                                            *)

\* The schema of s is there, or being made, or making it failed.
SchemaThere(s) ==
    \/ s \in AutoSinks
    \/ Declared \subseteq columns
    \/ s \in unmade
    \/ \E v \in Writers : SinkOf[v] = s /\ pc[v] = "schema"

\* A sink's mapped columns are in the table unless a writer is adding them; that
\* writer holds the lock and can go back to columns that are there.
Mapped == \A s \in Sinks : evolving[s] = Nobody => autoCols[s] \subseteq columns

Locked ==
    \A s \in Sinks, w \in Writers :
        evolving[s] = w <=> pc[w] = "alter" /\ SinkOf[w] = s

Altering ==
    \A w \in Writers : pc[w] = "alter" =>
        /\ SinkOf[w] \in AutoSinks
        /\ prev[w] \subseteq columns
        /\ Header[job[w]] \subseteq autoCols[SinkOf[w]]

OwnThere ==
    \A w \in Writers : pc[w] \in {"begin"} \cup InTx /\ SinkOf[w] \in AutoSinks =>
        Header[job[w]] \subseteq columns

InUse == \A w \in Writers : pc[w] \notin {"idle", "ping"} => SinkOf[w] \in open

Schemas == \A s \in open : SchemaThere(s)

Columns == Mapped /\ Locked /\ Altering /\ OwnThere /\ InUse /\ Schemas

LEMMA InitColumns == Init => Columns
BY SinkAssumption DEF Init, Columns, Mapped, Locked, Altering, OwnThere, InUse, Schemas, InTx

\* A schema stays, unless the one who makes it leaves, or its sink is closed.
LEMMA SchemaStays ==
    ASSUME Types, NEW s \in Sinks, SchemaThere(s), NEW w \in Writers, NEW step,
           pc[w] = "schema" => SinkOf[w] # s,
           pc' = [pc EXCEPT ![w] = step],
           columns \subseteq columns', s \in unmade => s \in unmade'
    PROVE  SchemaThere(s)'
<1>1. CASE \E v \in Writers : SinkOf[v] = s /\ pc[v] = "schema"
  <2>1. PICK v \in Writers : SinkOf[v] = s /\ pc[v] = "schema"
    BY <1>1
  <2>2. pc'[v] = "schema"
    BY <2>1 DEF Types
  <2>3. QED
    BY <2>1, <2>2 DEF SchemaThere
<1>2. CASE s \in AutoSinks \/ Declared \subseteq columns \/ s \in unmade
  BY <1>2 DEF SchemaThere
<1>3. QED
  BY <1>1, <1>2 DEF SchemaThere

\* A step of w that neither evolves nor makes the schema, and stays in use of its
\* sink if it was: the columns and who evolves them stay.
LEMMA ColumnsFrame ==
    ASSUME Types, Columns, NEW w \in Writers,
           NEW step \in {"idle", "ping", "evolve", "begin", "advance", "enter", "insert"},
           pc[w] \notin {"alter", "schema"},
           step \in {"begin"} \cup InTx /\ SinkOf[w] \in AutoSinks => Header[job'[w]] \subseteq columns,
           step \notin {"idle", "ping"} => SinkOf[w] \in open,
           pc' = [pc EXCEPT ![w] = step],
           \A v \in Writers \ {w} : job'[v] = job[v],
           UNCHANGED <<columns, evolving, autoCols, prev, open, unmade>>
    PROVE  Columns'
<1> USE SinkAssumption DEF Types, Columns
<1>1. Mapped'
  BY DEF Mapped
<1>2. Locked'
  BY DEF Locked
<1>3. Altering'
  BY DEF Altering
<1>4. OwnThere'
  <2> SUFFICES ASSUME NEW v \in Writers, pc'[v] \in {"begin"} \cup InTx, SinkOf[v] \in AutoSinks
               PROVE  Header[job'[v]] \subseteq columns
    BY DEF OwnThere, InTx
  <2>1. CASE v = w
    BY <2>1
  <2>2. CASE v # w
    <3>1. pc'[v] = pc[v] /\ job'[v] = job[v]
      BY <2>2
    <3>2. QED
      BY <3>1 DEF OwnThere
  <2>3. QED
    BY <2>1, <2>2
<1>5. InUse'
  BY DEF InUse
<1>6. Schemas'
  <2> SUFFICES ASSUME NEW s \in open PROVE SchemaThere(s)'
    BY DEF Schemas, SchemaThere
  <2>1. SchemaThere(s)
    BY DEF Schemas
  <2>2. QED
    BY <2>1, SchemaStays
<1>7. QED
  BY <1>1, <1>2, <1>3, <1>4, <1>5, <1>6

\* A step of a transaction is one of these.
LEMMA TxKeepsColumns ==
    ASSUME Types, Columns, NEW w \in Writers,
           NEW step \in {"idle", "advance", "enter", "insert"},
           pc[w] \in {"begin"} \cup InTx,
           pc' = [pc EXCEPT ![w] = step],
           UNCHANGED <<columns, evolving, autoCols, prev, job, open, unmade>>
    PROVE  Columns'
<1>1. /\ SinkOf[w] \in AutoSinks => Header[job[w]] \subseteq columns
      /\ SinkOf[w] \in open
  BY DEF Columns, OwnThere, InUse, InTx
<1>2. QED
  BY <1>1, ColumnsFrame DEF InTx

\* The three ways of Evolve: declared columns, a known header, new columns.
LEMMA EvolveCases ==
    ASSUME NEW w \in Writers, Evolve(w)
    PROVE  LET s == SinkOf[w]
               merged == autoCols[s] \cup Header[job[w]]
           IN  /\ pc[w] = "evolve" /\ UNCHANGED <<columns, job, open, unmade>>
               /\ \/ /\ s \notin AutoSinks
                     /\ pc' = [pc EXCEPT ![w] = "begin"]
                     /\ UNCHANGED <<autoCols, evolving, prev>>
                  \/ /\ s \in AutoSinks /\ evolving[s] = Nobody /\ merged = autoCols[s]
                     /\ pc' = [pc EXCEPT ![w] = "begin"]
                     /\ UNCHANGED <<autoCols, evolving, prev>>
                  \/ /\ s \in AutoSinks /\ evolving[s] = Nobody
                     /\ pc' = [pc EXCEPT ![w] = "alter"]
                     /\ evolving' = [evolving EXCEPT ![s] = w]
                     /\ prev' = [prev EXCEPT ![w] = autoCols[s]]
                     /\ autoCols' = [autoCols EXCEPT ![s] = merged]
BY Zenon DEF Evolve, Goto, dbVars, txVars, boundVars

LEMMA ColumnsStep == Types /\ Columns /\ [Next]_vars => Columns'
<1> SUFFICES ASSUME Types, Columns, [Next]_vars PROVE Columns'
  OBVIOUS
<1> USE SinkAssumption DEF Goto, sinkVars, dbVars, txVars, boundVars
<1>1. ASSUME NEW w \in Writers, NEW f \in Files, StartWrite(w, f) PROVE Columns'
  <2>1. \A v \in Writers \ {w} : job'[v] = job[v]
    BY <1>1 DEF StartWrite, Types
  <2>2. CASE SinkOf[w] \in open
    BY <1>1, <2>1, <2>2, ColumnsFrame DEF StartWrite, InTx
  <2>3. CASE SinkOf[w] \notin open
    BY <1>1, <2>1, <2>3, ColumnsFrame DEF StartWrite, InTx
  <2>4. QED
    BY <2>2, <2>3
<1>2. ASSUME NEW w \in Writers, PingFails(w) PROVE Columns'
  BY <1>2, ColumnsFrame DEF PingFails, InTx
<1>3. ASSUME NEW w \in Writers, Connected(w) PROVE Columns'
  <2> USE DEF Connected, Types
  <2>1. Mapped' /\ Altering'
    BY <1>3 DEF Columns, Mapped, Altering
  <2>2. Locked'
    BY <1>3 DEF Columns, Locked
  <2>3. OwnThere' /\ InUse'
    BY <1>3 DEF Columns, OwnThere, InUse, InTx
  <2>4. ASSUME NEW s \in open' PROVE SchemaThere(s)'
    <3>1. CASE s = SinkOf[w]
      BY <1>3, <3>1 DEF SchemaThere
    <3>2. CASE s # SinkOf[w]
      BY <1>3, <3>2, <2>4, SchemaStays DEF Columns, Schemas
    <3>3. QED
      BY <3>1, <3>2
  <2>5. QED
    BY <2>1, <2>2, <2>3, <2>4 DEF Columns, Schemas
<1>4. ASSUME NEW w \in Writers, SchemaMade(w) PROVE Columns'
  <2> USE DEF SchemaMade, EnsureSchema, Types
  <2>1. Mapped' /\ Altering'
    BY <1>4 DEF Columns, Mapped, Altering
  <2>2. Locked'
    BY <1>4 DEF Columns, Locked
  <2>3. OwnThere' /\ InUse'
    BY <1>4 DEF Columns, OwnThere, InUse, InTx
  <2>4. ASSUME NEW s \in open' PROVE SchemaThere(s)'
    <3>1. CASE s = SinkOf[w]
      <4>1. s \notin AutoSinks => Declared \subseteq columns'
        BY <1>4, <3>1 DEF Effective
      <4>2. QED
        BY <4>1 DEF SchemaThere
    <3>2. CASE s # SinkOf[w]
      BY <1>4, <3>2, <2>4, SchemaStays DEF Columns, Schemas
    <3>3. QED
      BY <3>1, <3>2
  <2>5. QED
    BY <2>1, <2>2, <2>3, <2>4 DEF Columns, Schemas
<1>5. ASSUME NEW w \in Writers, SchemaFails(w) PROVE Columns'
  <2> USE DEF SchemaFails, SchemaStops, Types
  <2>1. Mapped' /\ Altering'
    BY <1>5 DEF Columns, Mapped, Altering
  <2>2. Locked'
    BY <1>5 DEF Columns, Locked
  <2>3. OwnThere' /\ InUse'
    BY <1>5 DEF Columns, OwnThere, InUse, InTx
  <2>4. ASSUME NEW s \in open' PROVE SchemaThere(s)'
    <3>1. CASE s = SinkOf[w]
      BY <1>5, <3>1 DEF SchemaThere
    <3>2. CASE s # SinkOf[w]
      BY <1>5, <3>2, <2>4, SchemaStays DEF Columns, Schemas
    <3>3. QED
      BY <3>1, <3>2
  <2>5. QED
    BY <2>1, <2>2, <2>3, <2>4 DEF Columns, Schemas
<1>6. ASSUME NEW w \in Writers, Evolve(w) PROVE Columns'
  <2> DEFINE s == SinkOf[w]
             merged == autoCols[s] \cup Header[job[w]]
  <2>1. pc[w] = "evolve" /\ UNCHANGED <<columns, job, open, unmade>>
    BY <1>6, EvolveCases
  <2>a. s \in open /\ s \in Sinks
    BY <2>1 DEF Columns, InUse, Types
  <2>2. CASE /\ s \notin AutoSinks
             /\ pc' = [pc EXCEPT ![w] = "begin"]
             /\ UNCHANGED <<autoCols, evolving, prev>>
    BY <2>1, <2>a, <2>2, ColumnsFrame DEF InTx
  <2>3. CASE /\ s \in AutoSinks /\ evolving[s] = Nobody /\ merged = autoCols[s]
             /\ pc' = [pc EXCEPT ![w] = "begin"]
             /\ UNCHANGED <<autoCols, evolving, prev>>
    <3>1. autoCols[s] \subseteq columns
      BY <2>a, <2>3 DEF Columns, Mapped
    <3>2. Header[job[w]] \subseteq columns
      BY <2>3, <3>1
    <3>3. QED
      BY <2>1, <2>a, <2>3, <3>2, ColumnsFrame DEF InTx
  <2>4. CASE /\ s \in AutoSinks /\ evolving[s] = Nobody
             /\ pc' = [pc EXCEPT ![w] = "alter"]
             /\ evolving' = [evolving EXCEPT ![s] = w]
             /\ prev' = [prev EXCEPT ![w] = autoCols[s]]
             /\ autoCols' = [autoCols EXCEPT ![s] = merged]
    <3> USE DEF Types
    <3>2. Mapped'
      BY <2>1, <2>a, <2>4 DEF Columns, Mapped
    <3>3. Locked'
      BY <2>1, <2>a, <2>4 DEF Columns, Locked
    <3>4. Altering'
      <4> SUFFICES ASSUME NEW v \in Writers, pc'[v] = "alter"
                   PROVE  /\ SinkOf[v] \in AutoSinks
                          /\ prev'[v] \subseteq columns
                          /\ Header[job[v]] \subseteq autoCols'[SinkOf[v]]
        BY <2>1, <2>4 DEF Altering
      <4>1. CASE v = w
        BY <2>1, <2>a, <2>4, <4>1 DEF Columns, Mapped
      <4>2. CASE v # w
        BY <2>1, <2>a, <2>4, <4>2 DEF Columns, Altering
      <4>3. QED
        BY <4>1, <4>2
    <3>5. OwnThere' /\ InUse'
      BY <2>1, <2>a, <2>4 DEF Columns, OwnThere, InUse, InTx
    <3>6. ASSUME NEW t \in open' PROVE SchemaThere(t)'
      BY <2>1, <2>4, <3>6, SchemaStays DEF Columns, Schemas
    <3>7. QED
      BY <3>2, <3>3, <3>4, <3>5, <3>6 DEF Columns, Schemas
  <2>5. QED
    BY <1>6, <2>2, <2>3, <2>4, EvolveCases
<1>7. ASSUME NEW w \in Writers, Altered(w) PROVE Columns'
  <2> DEFINE s == SinkOf[w]
  <2>1. /\ pc[w] = "alter" /\ evolving[s] = w /\ s \in AutoSinks /\ s \in Sinks /\ s \in open
        /\ Header[job[w]] \subseteq autoCols[s]
        /\ columns' = columns \cup autoCols[s]
        /\ evolving' = [evolving EXCEPT ![s] = Nobody]
        /\ pc' = [pc EXCEPT ![w] = "begin"]
        /\ UNCHANGED <<autoCols, prev, job, open, unmade>>
    <3>1. pc[w] = "alter" /\ s \in Sinks
      BY <1>7 DEF Altered, Types
    <3>2. evolving[s] = w /\ s \in AutoSinks /\ Header[job[w]] \subseteq autoCols[s] /\ s \in open
      BY <3>1 DEF Columns, Locked, Altering, InUse
    <3>3. Effective(s) = autoCols[s]
      BY <3>2 DEF Effective
    <3>4. QED
      BY <1>7, <3>1, <3>2, <3>3 DEF Altered, EnsureSchema
  <2> USE DEF Types
  <2>2. Mapped'
    BY <2>1 DEF Columns, Mapped
  <2>3. Locked'
    BY <2>1 DEF Columns, Locked
  <2>4. Altering' /\ InUse'
    BY <2>1 DEF Columns, Altering, InUse
  <2>5. OwnThere'
    BY <2>1 DEF Columns, OwnThere, InTx
  <2>6. ASSUME NEW t \in open' PROVE SchemaThere(t)'
    BY <2>1, <2>6, SchemaStays DEF Columns, Schemas
  <2>7. QED
    BY <2>2, <2>3, <2>4, <2>5, <2>6 DEF Columns, Schemas
<1>8. ASSUME NEW w \in Writers, AlterFails(w) PROVE Columns'
  <2> DEFINE s == SinkOf[w]
  <2>1. /\ pc[w] = "alter" /\ evolving[s] = w /\ s \in Sinks /\ prev[w] \subseteq columns
        /\ columns' = columns
        /\ evolving' = [evolving EXCEPT ![s] = Nobody]
        /\ autoCols' = [autoCols EXCEPT ![s] = prev[w]]
        /\ pc' = [pc EXCEPT ![w] = "idle"]
        /\ UNCHANGED <<prev, job, open, unmade>>
    BY <1>8 DEF AlterFails, SchemaStops, Types, Columns, Locked, Altering
  <2> USE DEF Types
  <2>2. Mapped'
    BY <2>1 DEF Columns, Mapped
  <2>3. Locked'
    BY <2>1 DEF Columns, Locked
  <2>4. Altering'
    <3> SUFFICES ASSUME NEW v \in Writers, pc'[v] = "alter"
                 PROVE  /\ SinkOf[v] \in AutoSinks
                        /\ prev'[v] \subseteq columns'
                        /\ Header[job'[v]] \subseteq autoCols'[SinkOf[v]]
      BY DEF Altering
    <3>1. v # w /\ pc[v] = "alter"
      BY <2>1
    <3>2. SinkOf[v] # s
      BY <2>1, <3>1 DEF Columns, Locked
    <3>3. QED
      BY <2>1, <3>1, <3>2 DEF Columns, Altering
  <2>5. OwnThere' /\ InUse'
    BY <2>1 DEF Columns, OwnThere, InUse, InTx
  <2>6. ASSUME NEW t \in open' PROVE SchemaThere(t)'
    BY <2>1, <2>6, SchemaStays DEF Columns, Schemas
  <2>7. QED
    BY <2>2, <2>3, <2>4, <2>5, <2>6 DEF Columns, Schemas
<1>9. ASSUME NEW w \in Writers, Lookup(w) PROVE Columns'
  BY <1>9, TxKeepsColumns DEF Lookup
<1>10. ASSUME NEW w \in Writers, NextKey(w) PROVE Columns'
  BY <1>10, TxKeepsColumns DEF NextKey, InTx
<1>11. ASSUME NEW w \in Writers, EnterKey(w) PROVE Columns'
  BY <1>11, TxKeepsColumns DEF EnterKey, InTx
<1>12. ASSUME NEW w \in Writers, InsertAndCommit(w) PROVE Columns'
  BY <1>12, TxKeepsColumns DEF InsertAndCommit, EndTx, InTx
<1>13. ASSUME NEW w \in Writers, Rollback(w) PROVE Columns'
  BY <1>13, TxKeepsColumns DEF Rollback, EndTx
<1>14. ASSUME NEW s \in Sinks, CloseSink(s) PROVE Columns'
  <2> USE DEF CloseSink, Types
  <2>1. Mapped' /\ Locked'
    BY <1>14 DEF Columns, Mapped, Locked
  <2>2. Altering'
    BY <1>14 DEF Columns, Altering
  <2>3. OwnThere' /\ InUse'
    BY <1>14 DEF Columns, OwnThere, InUse, InTx
  <2>4. Schemas'
    BY <1>14 DEF Columns, Schemas, SchemaThere
  <2>5. QED
    BY <2>1, <2>2, <2>3, <2>4 DEF Columns
<1>15. CASE UNCHANGED vars
  <2>1. Mapped' /\ Locked' /\ Altering' /\ InUse'
    BY <1>15 DEF vars, Columns, Mapped, Locked, Altering, InUse
  <2>2. OwnThere'
    BY <1>15 DEF vars, Columns, OwnThere, InTx
  <2>3. Schemas'
    BY <1>15 DEF vars, Columns, Schemas, SchemaThere
  <2>4. QED
    BY <2>1, <2>2, <2>3 DEF Columns
<1>16. QED
  BY <1>1, <1>2, <1>3, <1>4, <1>5, <1>6, <1>7, <1>8, <1>9, <1>10, <1>11, <1>12,
     <1>13, <1>14, <1>15 DEF Next, Step

-----------------------------------------------------------------------------
(* The keys.                                                               *)

\* What the database and the writers hold is of the right kind.
KeyTypes ==
    /\ counter \in Nat \cup {NoCounter}
    /\ registry \in [Files -> Nat \cup {NoRow, NoKey}]
    /\ rows \subseteq Files \X Nat
    /\ key \in [Writers -> Keys] /\ issued \in [Writers -> Keys]

\* No key in use is greater than the last one issued.
Issued ==
    /\ \A f \in Files : registry[f] \in Nat => registry[f] <= LastKey
    /\ \A f \in Files, k \in Nat : <<f, k>> \in rows => k <= LastKey

\* Only the transaction that holds the counter row has a key of its own, the next
\* one; it has had it since it took the row.
OneIssuer ==
    /\ \A w \in Writers : rowLock = w =>
           pc[w] \in {"enter", "insert"} /\ issued[w] = LastKey + 1
    /\ \A w \in Writers : pc[w] = "enter" => rowLock = w /\ key[w] = issued[w]

\* A writer about to insert has that key, or one that is in use, and enters none then.
KeyInHand ==
    \A w \in Writers : pc[w] = "insert" =>
        \/ rowLock = w /\ key[w] = issued[w]
        \/ key[w] \in Nat /\ key[w] <= LastKey /\ mode[w] = "keep"

\* f has the key k in the registry, in its rows, or in the hands of a writer.
Holds(f, k) ==
    \/ registry[f] = k
    \/ <<f, k>> \in rows
    \/ \E w \in Writers : pc[w] = "insert" /\ job[w] = f /\ key[w] = k

Apart == \A f, g \in Files, k \in Nat : Holds(f, k) /\ Holds(g, k) => f = g

KeyInv == KeyTypes /\ Issued /\ OneIssuer /\ KeyInHand /\ Apart

LEMMA LastKeyType == KeyTypes => LastKey \in Nat
BY RegistryAssumption DEF KeyTypes, LastKey

LEMMA InitKeys == Init => KeyInv
<1> SUFFICES ASSUME Init PROVE KeyInv
  OBVIOUS
<1> USE SinkAssumption, RegistryAssumption
<1>1. LastKey = Baseline
  BY DEF Init, LastKey
<1>2. KeyTypes
  BY DEF Init, KeyTypes, Keys
<1>3. Issued /\ OneIssuer /\ KeyInHand
  BY <1>1 DEF Init, Issued, OneIssuer, KeyInHand
<1>4. Apart
  BY DEF Init, Apart, Holds
<1>5. QED
  BY <1>2, <1>3, <1>4 DEF KeyInv

\* A step of w outside of its transaction's last two statements: no key moves.
LEMMA KeysFrame ==
    ASSUME Types, KeyInv, NEW w \in Writers,
           NEW step \in {"idle", "ping", "schema", "evolve", "alter", "begin", "advance"},
           pc[w] \notin {"enter", "insert"},
           pc' = [pc EXCEPT ![w] = step],
           \A v \in Writers \ {w} : job'[v] = job[v],
           \A v \in Writers \ {w} : mode'[v] = mode[v],
           LastKey' = LastKey, counter' \in Nat \cup {NoCounter},
           UNCHANGED <<registry, rows, key, issued, rowLock>>
    PROVE  KeyInv'
<1> USE DEF Types
<1>1. KeyTypes'
  BY DEF KeyInv, KeyTypes
<1>2. Issued'
  BY DEF KeyInv, Issued
<1>3. OneIssuer'
  BY DEF KeyInv, OneIssuer
<1>4. KeyInHand'
  BY DEF KeyInv, KeyInHand
<1>5. \A f \in Files, k \in Nat : Holds(f, k)' => Holds(f, k)
  BY DEF Holds
<1>6. Apart'
  BY <1>5 DEF KeyInv, Apart
<1>7. QED
  BY <1>1, <1>2, <1>3, <1>4, <1>6 DEF KeyInv

\* Making the schema seeds the counter with the key it would have been read as.
LEMMA SchemaKeepsKeys ==
    ASSUME NEW s, EnsureSchema(s), KeyTypes
    PROVE  LastKey' = LastKey /\ counter' \in Nat \cup {NoCounter}
BY RegistryAssumption DEF EnsureSchema, LastKey, KeyTypes

\* The end of a transaction, for the writers and for the row.
LEMMA EndedTx ==
    ASSUME Types, NEW w \in Writers, EndTx(w)
    PROVE  /\ pc' = [pc EXCEPT ![w] = "idle"]
           /\ \A v \in Writers \ {w} : pc'[v] = pc[v]
           /\ \A v \in Writers : rowLock' = v <=> rowLock = v /\ v # w
           /\ UNCHANGED <<key, issued, mode, job, contended>>
BY SinkAssumption DEF EndTx, Goto, Types, boundVars

\* The unique index has nothing to refuse.
LEMMA NoClash ==
    ASSUME KeyInv, NEW w \in Writers, pc[w] = "insert", job[w] \in Files
    PROVE  ~Clash(w)
<1> SUFFICES ASSUME mode[w] # "keep", NEW f \in Files, registry[f] = key[w] PROVE FALSE
  BY DEF Clash
<1>1. LastKey \in Nat
  BY LastKeyType DEF KeyInv
<1>2. key[w] = LastKey + 1
  BY DEF KeyInv, KeyInHand, OneIssuer
<1>3. QED
  BY <1>1, <1>2 DEF KeyInv, Issued

LEMMA LookupKeeps ==
    ASSUME Types, KeyInv, NEW w \in Writers, Lookup(w)
    PROVE  KeyInv'
<1> USE SinkAssumption, RegistryAssumption DEF Types
<1>0. /\ LastKey' = LastKey /\ LastKey \in Nat /\ job[w] \in Files
      /\ UNCHANGED <<counter, registry, rows, issued, rowLock, job>>
  BY LastKeyType DEF Lookup, dbVars, LastKey, KeyInv
<1>1. CASE registry[job[w]] \in Nat
  <2>1. /\ pc[w] = "begin"
        /\ pc' = [pc EXCEPT ![w] = "insert"]
        /\ key' = [key EXCEPT ![w] = registry[job[w]]]
        /\ mode' = [mode EXCEPT ![w] = "keep"]
    BY <1>1 DEF Lookup, Goto
  <2>2. KeyTypes'
    BY <1>0, <1>1, <2>1 DEF KeyInv, KeyTypes, Keys
  <2>3. Issued' /\ OneIssuer'
    BY <1>0, <2>1 DEF KeyInv, KeyTypes, Issued, OneIssuer
  <2>4. KeyInHand'
    BY <1>0, <1>1, <2>1 DEF KeyInv, KeyTypes, Issued, KeyInHand
  <2>5. \A f \in Files, k \in Nat : Holds(f, k)' => Holds(f, k)
    BY <1>0, <2>1 DEF Holds, KeyInv, KeyTypes
  <2>6. Apart'
    BY <2>5 DEF KeyInv, Apart
  <2>7. QED
    BY <2>2, <2>3, <2>4, <2>6 DEF KeyInv
<1>2. CASE registry[job[w]] \notin Nat
  <2>1. /\ pc[w] = "begin"
        /\ pc' = [pc EXCEPT ![w] = "advance"]
        /\ \A v \in Writers \ {w} : mode'[v] = mode[v]
        /\ key' = key
    BY <1>2 DEF Lookup, Goto
  <2>2. counter' \in Nat \cup {NoCounter}
    BY <1>0 DEF KeyInv, KeyTypes
  <2>3. QED
    BY <1>0, <2>1, <2>2, KeysFrame
<1>3. QED
  BY <1>1, <1>2

LEMMA NextKeyKeeps ==
    ASSUME Types, KeyInv, NEW w \in Writers, NextKey(w)
    PROVE  KeyInv'
<1> USE SinkAssumption DEF Types
<1>1. /\ LastKey' = LastKey /\ LastKey \in Nat
      /\ UNCHANGED <<counter, registry, rows, mode, job>>
      /\ pc[w] = "advance" /\ rowLock = Nobody /\ rowLock' = w
      /\ pc' = [pc EXCEPT ![w] = "enter"]
      /\ key' = [key EXCEPT ![w] = LastKey + 1]
      /\ issued' = [issued EXCEPT ![w] = LastKey + 1]
  BY LastKeyType DEF NextKey, dbVars, LastKey, KeyInv, Goto
<1>2. KeyTypes'
  BY <1>1 DEF KeyInv, KeyTypes, Keys
<1>3. Issued'
  BY <1>1 DEF KeyInv, Issued
<1>4. OneIssuer'
  BY <1>1 DEF KeyInv, KeyTypes, OneIssuer
<1>5. KeyInHand'
  BY <1>1 DEF KeyInv, KeyTypes, KeyInHand
<1>6. \A f \in Files, k \in Nat : Holds(f, k)' => Holds(f, k)
  BY <1>1 DEF Holds, KeyInv, KeyTypes
<1>7. Apart'
  BY <1>6 DEF KeyInv, Apart
<1>8. QED
  BY <1>2, <1>3, <1>4, <1>5, <1>7 DEF KeyInv

LEMMA EnterKeyKeeps ==
    ASSUME Types, KeyInv, NEW w \in Writers, EnterKey(w)
    PROVE  KeyInv'
<1> USE SinkAssumption DEF Types
<1> DEFINE found == registry[job[w]]
           lost == mode[w] = "register" /\ found # NoRow
<1>1. /\ LastKey' = LastKey /\ LastKey \in Nat
      /\ UNCHANGED <<counter, registry, rows, issued, rowLock, job>>
      /\ pc[w] = "enter"
      /\ pc' = [pc EXCEPT ![w] = "insert"]
      /\ lost /\ ReadsBack => found \in Nat
      /\ key' = [key EXCEPT ![w] = IF lost /\ ReadsBack THEN found ELSE key[w]]
      /\ mode' = [mode EXCEPT ![w] = IF lost THEN "keep" ELSE mode[w]]
  BY LastKeyType DEF EnterKey, dbVars, LastKey, KeyInv, Goto
<1>2. rowLock = w /\ key[w] = issued[w] /\ issued[w] = LastKey + 1 /\ job[w] \in Files
  BY <1>1 DEF KeyInv, OneIssuer
<1>3. \/ key'[w] = LastKey + 1
      \/ key'[w] \in Nat /\ key'[w] = found /\ mode'[w] = "keep"
  BY <1>1, <1>2 DEF KeyInv, KeyTypes
<1>4. KeyTypes'
  BY <1>1, <1>2 DEF KeyInv, KeyTypes, Keys
<1>5. Issued'
  BY <1>1 DEF KeyInv, Issued
<1>6. OneIssuer'
  BY <1>1, <1>2 DEF KeyInv, KeyTypes, OneIssuer
<1>a. \A v \in Writers \ {w} : pc'[v] = pc[v] /\ key'[v] = key[v] /\ mode'[v] = mode[v]
  BY <1>1 DEF KeyInv, KeyTypes
<1>7. KeyInHand'
  <2> SUFFICES ASSUME NEW v \in Writers, pc'[v] = "insert"
               PROVE  \/ rowLock' = v /\ key'[v] = issued'[v]
                      \/ key'[v] \in Nat /\ key'[v] <= LastKey' /\ mode'[v] = "keep"
    BY DEF KeyInHand
  <2>1. CASE v = w
    BY <1>1, <1>2, <1>3, <2>1 DEF KeyInv, Issued
  <2>2. CASE v # w
    BY <1>1, <1>a, <2>2 DEF KeyInv, KeyInHand
  <2>3. QED
    BY <2>1, <2>2
\* Before the step nobody else has a key that large.
<1>8. ASSUME NEW f \in Files PROVE ~Holds(f, LastKey + 1)
  <2>1. registry[f] # LastKey + 1
    BY <1>1 DEF KeyInv, Issued
  <2>2. <<f, LastKey + 1>> \notin rows
    BY <1>1 DEF KeyInv, Issued
  <2>3. \A v \in Writers : pc[v] = "insert" => key[v] # LastKey + 1
    BY <1>1, <1>2 DEF KeyInv, KeyInHand
  <2>4. QED
    BY <2>1, <2>2, <2>3 DEF Holds
<1>9. ASSUME NEW f \in Files, NEW k \in Nat, Holds(f, k)'
      PROVE  Holds(f, k) \/ (f = job[w] /\ k = LastKey + 1)
  <2>1. CASE registry[f] = k \/ <<f, k>> \in rows
    BY <2>1 DEF Holds
  <2>2. CASE \E v \in Writers : pc'[v] = "insert" /\ job[v] = f /\ key'[v] = k
    <3>1. PICK v \in Writers : pc'[v] = "insert" /\ job[v] = f /\ key'[v] = k
      BY <2>2
    <3>2. CASE v = w
      BY <3>1, <3>2, <1>3 DEF Holds
    <3>3. CASE v # w
      BY <3>1, <3>3, <1>a DEF Holds
    <3>4. QED
      BY <3>2, <3>3
  <2>3. QED
    BY <1>1, <1>9, <2>1, <2>2 DEF Holds
<1>10. Apart'
  <2> SUFFICES ASSUME NEW f \in Files, NEW h \in Files, NEW k \in Nat,
                      Holds(f, k)', Holds(h, k)'
               PROVE  f = h
    BY DEF Apart
  <2>1. /\ Holds(f, k) \/ (f = job[w] /\ k = LastKey + 1)
        /\ Holds(h, k) \/ (h = job[w] /\ k = LastKey + 1)
    BY <1>9
  <2>2. CASE k = LastKey + 1
    BY <1>8, <2>1, <2>2
  <2>3. CASE k # LastKey + 1
    BY <2>1, <2>3 DEF KeyInv, Apart
  <2>4. QED
    BY <2>2, <2>3
<1>11. QED
  BY <1>4, <1>5, <1>6, <1>7, <1>10 DEF KeyInv

LEMMA CommitKeeps ==
    ASSUME Types, KeyInv, NEW w \in Writers, InsertAndCommit(w)
    PROVE  KeyInv'
<1> USE SinkAssumption, RegistryAssumption DEF Types
<1>1. /\ pc[w] = "insert" /\ job[w] \in Files
      /\ counter' = IF rowLock = w THEN issued[w] ELSE counter
      /\ rows' = rows \cup {<<job[w], key[w]>>}
      /\ EndTx(w)
  BY DEF InsertAndCommit
<1>2. /\ registry' = registry \/ registry' = [registry EXCEPT ![job[w]] = key[w]]
  BY DEF InsertAndCommit
<1>3. /\ LastKey \in Nat
      /\ rowLock = w => issued[w] = LastKey + 1
      /\ key[w] \in Nat
      /\ \/ rowLock = w /\ key[w] = LastKey + 1
         \/ key[w] <= LastKey
  BY <1>1, LastKeyType DEF KeyInv, OneIssuer, KeyInHand
<1>4. LastKey' = IF rowLock = w THEN LastKey + 1 ELSE LastKey
  BY <1>1, <1>3 DEF LastKey
<1>5. /\ pc' = [pc EXCEPT ![w] = "idle"]
      /\ \A v \in Writers \ {w} : pc'[v] = pc[v]
      /\ \A v \in Writers : rowLock' = v <=> rowLock = v /\ v # w
      /\ UNCHANGED <<key, issued, mode, job>>
  BY <1>1, EndedTx
<1>6. KeyTypes'
  BY <1>1, <1>2, <1>3, <1>5 DEF KeyInv, KeyTypes
<1>7. Issued'
  <2>1. ASSUME NEW f \in Files, registry'[f] \in Nat PROVE registry'[f] <= LastKey'
    BY <1>2, <1>3, <1>4, <2>1 DEF KeyInv, KeyTypes, Issued
  <2>2. ASSUME NEW f \in Files, NEW k \in Nat, <<f, k>> \in rows' PROVE k <= LastKey'
    BY <1>1, <1>3, <1>4, <2>2 DEF KeyInv, Issued
  <2>3. QED
    BY <2>1, <2>2 DEF Issued
<1>8. OneIssuer'
  <2>1. \A v \in Writers : rowLock' = v => pc'[v] \in {"enter", "insert"} /\ issued'[v] = LastKey' + 1
    BY <1>4, <1>5 DEF KeyInv, OneIssuer
  <2>2. \A v \in Writers : pc'[v] = "enter" => rowLock' = v /\ key'[v] = issued'[v]
    BY <1>5 DEF KeyInv, OneIssuer
  <2>3. QED
    BY <2>1, <2>2 DEF OneIssuer
<1>9. KeyInHand'
  <2> SUFFICES ASSUME NEW v \in Writers, pc'[v] = "insert"
               PROVE  \/ rowLock' = v /\ key'[v] = issued'[v]
                      \/ key'[v] \in Nat /\ key'[v] <= LastKey' /\ mode'[v] = "keep"
    BY DEF KeyInHand
  <2>1. v # w /\ pc[v] = "insert"
    BY <1>5
  <2>2. QED
    BY <1>3, <1>4, <1>5, <2>1 DEF KeyInv, KeyInHand
<1>10. Holds(job[w], key[w])
  BY <1>1 DEF Holds
<1>11. ASSUME NEW f \in Files, NEW k \in Nat, Holds(f, k)' PROVE Holds(f, k)
  <2>1. CASE registry'[f] = k
    BY <1>2, <1>10, <2>1 DEF KeyInv, KeyTypes, Holds
  <2>2. CASE <<f, k>> \in rows'
    BY <1>1, <1>10, <2>2 DEF Holds
  <2>3. CASE \E v \in Writers : pc'[v] = "insert" /\ job'[v] = f /\ key'[v] = k
    BY <1>5, <2>3 DEF Holds
  <2>4. QED
    BY <1>11, <2>1, <2>2, <2>3 DEF Holds
<1>12. Apart'
  BY <1>11 DEF KeyInv, Apart
<1>13. QED
  BY <1>6, <1>7, <1>8, <1>9, <1>12 DEF KeyInv

LEMMA RollbackKeeps ==
    ASSUME Types, KeyInv, NEW w \in Writers, Rollback(w)
    PROVE  KeyInv'
<1> USE SinkAssumption DEF Types
<1>1. /\ pc' = [pc EXCEPT ![w] = "idle"]
      /\ \A v \in Writers \ {w} : pc'[v] = pc[v]
      /\ \A v \in Writers : rowLock' = v <=> rowLock = v /\ v # w
      /\ UNCHANGED <<key, issued, mode, job, counter, registry, rows>>
      /\ LastKey' = LastKey
  BY EndedTx DEF Rollback, LastKey
<1>2. KeyTypes' /\ Issued'
  BY <1>1 DEF KeyInv, KeyTypes, Issued
<1>3. OneIssuer' /\ KeyInHand'
  BY <1>1 DEF KeyInv, OneIssuer, KeyInHand
<1>4. \A f \in Files, k \in Nat : Holds(f, k)' => Holds(f, k)
  BY <1>1 DEF Holds
<1>5. Apart'
  BY <1>4 DEF KeyInv, Apart
<1>6. QED
  BY <1>2, <1>3, <1>5 DEF KeyInv

LEMMA KeysStep == Types /\ KeyInv /\ [Next]_vars => KeyInv'
<1> SUFFICES ASSUME Types, KeyInv, [Next]_vars PROVE KeyInv'
  OBVIOUS
<1> USE DEF Goto, sinkVars, dbVars, txVars, boundVars, LastKey
<1>a. counter \in Nat \cup {NoCounter} /\ KeyTypes
  BY DEF KeyInv, KeyTypes
<1>1. ASSUME NEW w \in Writers, NEW f \in Files, StartWrite(w, f) PROVE KeyInv'
  <2>1. \A v \in Writers \ {w} : job'[v] = job[v]
    BY <1>1 DEF StartWrite, Types
  <2>2. CASE SinkOf[w] \in open
    BY <1>1, <1>a, <2>1, <2>2, KeysFrame DEF StartWrite
  <2>3. CASE SinkOf[w] \notin open
    BY <1>1, <1>a, <2>1, <2>3, KeysFrame DEF StartWrite
  <2>4. QED
    BY <2>2, <2>3
<1>2. ASSUME NEW w \in Writers, PingFails(w) PROVE KeyInv'
  BY <1>2, <1>a, KeysFrame DEF PingFails
<1>3. ASSUME NEW w \in Writers, Connected(w) PROVE KeyInv'
  BY <1>3, <1>a, KeysFrame DEF Connected
<1>4. ASSUME NEW w \in Writers, SchemaMade(w) PROVE KeyInv'
  <2>1. LastKey' = LastKey /\ counter' \in Nat \cup {NoCounter}
    BY <1>4, <1>a, SchemaKeepsKeys DEF SchemaMade
  <2> HIDE DEF LastKey
  <2>2. QED
    BY <1>4, <2>1, KeysFrame DEF SchemaMade, EnsureSchema
<1>5. ASSUME NEW w \in Writers, SchemaFails(w) PROVE KeyInv'
  BY <1>5, <1>a, KeysFrame DEF SchemaFails, SchemaStops
<1>6. ASSUME NEW w \in Writers, Evolve(w) PROVE KeyInv'
  BY <1>6, <1>a, KeysFrame DEF Evolve
<1>7. ASSUME NEW w \in Writers, Altered(w) PROVE KeyInv'
  <2>1. LastKey' = LastKey /\ counter' \in Nat \cup {NoCounter}
    BY <1>7, <1>a, SchemaKeepsKeys DEF Altered
  <2> HIDE DEF LastKey
  <2>2. QED
    BY <1>7, <2>1, KeysFrame DEF Altered, EnsureSchema
<1>8. ASSUME NEW w \in Writers, AlterFails(w) PROVE KeyInv'
  BY <1>8, <1>a, KeysFrame DEF AlterFails, SchemaStops
<1>9. ASSUME NEW s \in Sinks, CloseSink(s) PROVE KeyInv'
  BY <1>9 DEF CloseSink, KeyInv, KeyTypes, Issued, OneIssuer, KeyInHand, Apart, Holds
<1>10. CASE UNCHANGED vars
  BY <1>10 DEF vars, KeyInv, KeyTypes, Issued, OneIssuer, KeyInHand, Apart, Holds
<1>11. QED
  BY <1>1, <1>2, <1>3, <1>4, <1>5, <1>6, <1>7, <1>8, <1>9, <1>10,
     LookupKeeps, NextKeyKeeps, EnterKeyKeeps, CommitKeeps, RollbackKeeps DEF Next, Step

-----------------------------------------------------------------------------
(* Rows and registry.                                                      *)

\* What RowsFollowTheRegistry says of a row of f under k.
Follows(f, k) ==
    \/ registry[f] = k
    \/ f \in contended /\ (~ReadsBack \/ Registered[f] = NoKey)

\* Rows follow the registry, and their file has a key there.
RowsOK == \A f \in Files, k \in Nat : <<f, k>> \in rows => registry[f] \in Nat /\ Follows(f, k)

\* Entries without a key are old ones.
OldEntries == \A f \in Files : registry[f] = NoKey => Registered[f] = NoKey

\* Registering w: what it found at its lookup still bounds what it may find now.
FoundStays ==
    \A w \in Writers : pc[w] \in InTx =>
        /\ pc[w] # "insert" => mode[w] # "keep"
        /\ mode[w] = "register" => registry[job[w]] # NoKey
        /\ mode[w] = "backfill" => registry[job[w]] # NoRow /\ Registered[job[w]] = NoKey

\* Only one transaction registers a file that is not contended, and the entry is as
\* it found it.
Uncontended ==
    \A w \in Writers : pc[w] \in InTx /\ mode[w] # "keep" /\ job[w] \notin contended =>
        /\ \A v \in Registering(job[w]) : v = w
        /\ mode[w] = "register" => registry[job[w]] = NoRow
        /\ mode[w] = "backfill" => registry[job[w]] = NoKey

\* What w is about to commit: a new entry, or rows that follow the registry.
Committable ==
    \A w \in Writers : pc[w] = "insert" =>
        /\ mode[w] = "register" => registry[job[w]] = NoRow
        /\ mode[w] = "keep" => registry[job[w]] \in Nat /\ Follows(job[w], key[w])

RowInv == RowsOK /\ OldEntries /\ FoundStays /\ Uncontended /\ Committable

LEMMA InitRows == Init => RowInv
<1> USE RegistryAssumption
<1>1. ASSUME Init PROVE RowsOK /\ OldEntries /\ FoundStays /\ Uncontended /\ Committable
  BY <1>1 DEF Init, RowsOK, OldEntries, FoundStays, Uncontended, Committable, InTx
<1>2. QED
  BY <1>1 DEF RowInv

\* A step of w that touches no entry and ends, or takes no part in, a registration.
LEMMA RowsFrame ==
    ASSUME Types, RowInv, NEW w \in Writers,
           NEW step \in {"idle", "ping", "schema", "evolve", "alter", "begin"},
           pc' = [pc EXCEPT ![w] = step],
           \A v \in Writers \ {w} : job'[v] = job[v],
           UNCHANGED <<dialect, registry, rows, key, mode, contended>>
    PROVE  RowInv'
<1> USE DEF Types, RowInv
<1>1. \A v \in Writers : pc'[v] \in InTx' => v # w /\ pc[v] = pc'[v] /\ pc[v] \in InTx /\ job'[v] = job[v]
  BY DEF InTx
<1>2. RowsOK' /\ OldEntries'
  BY DEF RowsOK, OldEntries, Follows, ReadsBack
<1>3. FoundStays'
  BY <1>1 DEF FoundStays
<1>4. \A f \in Files : Registering(f)' \subseteq Registering(f)
  BY <1>1 DEF Registering
<1>5. Uncontended'
  BY <1>1, <1>4 DEF Uncontended
<1>6. Committable'
  BY <1>1 DEF Committable, Follows, ReadsBack, InTx
<1>7. QED
  BY <1>2, <1>3, <1>5, <1>6

LEMMA LookupKeepsRows ==
    ASSUME Types, KeyTypes, RowInv, NEW w \in Writers, Lookup(w)
    PROVE  RowInv'
<1> USE DEF Types, RowInv
<1>1. /\ UNCHANGED <<dialect, registry, rows, job>>
      /\ pc[w] = "begin" /\ job[w] \in Files
      /\ contended \subseteq contended'
  BY DEF Lookup, dbVars
<1>2. RowsOK' /\ OldEntries'
  BY <1>1 DEF RowsOK, OldEntries, Follows, ReadsBack
<1>3. CASE registry[job[w]] \in Nat
  <2>1. /\ pc' = [pc EXCEPT ![w] = "insert"]
        /\ key' = [key EXCEPT ![w] = registry[job[w]]]
        /\ mode' = [mode EXCEPT ![w] = "keep"]
        /\ contended' = contended
    BY <1>3 DEF Lookup, Goto
  <2>2. FoundStays'
    BY <1>1, <2>1 DEF FoundStays, InTx
  <2>3. \A f \in Files : Registering(f)' \subseteq Registering(f)
    BY <1>1, <2>1 DEF Registering, InTx
  <2>4. Uncontended'
    BY <1>1, <2>1, <2>3 DEF Uncontended, InTx
  <2>5. Committable'
    BY <1>1, <1>3, <2>1 DEF Committable, Follows, ReadsBack, KeyTypes
  <2>6. QED
    BY <1>2, <2>2, <2>4, <2>5
<1>4. CASE registry[job[w]] \notin Nat
  <2>1. /\ pc' = [pc EXCEPT ![w] = "advance"]
        /\ mode' = [mode EXCEPT ![w] = IF registry[job[w]] = NoRow THEN "register" ELSE "backfill"]
        /\ contended' = IF Registering(job[w]) = {} THEN contended ELSE contended \cup {job[w]}
        /\ key' = key
    BY <1>4 DEF Lookup, Goto
  <2>2. registry[job[w]] \in {NoRow, NoKey}
    BY <1>1, <1>4 DEF KeyTypes
  <2>3. FoundStays'
    BY <1>1, <2>1, <2>2, RegistryAssumption DEF FoundStays, OldEntries, InTx
  <2>4. \A v \in Writers \ {w} : pc'[v] = pc[v] /\ mode'[v] = mode[v]
    BY <2>1
  <2>5. \A f \in Files : Registering(f)' \subseteq Registering(f) \cup {w}
    BY <1>1, <2>4 DEF Registering, InTx
  <2>6. Uncontended'
    <3> SUFFICES ASSUME NEW v \in Writers, pc'[v] \in InTx, mode'[v] # "keep", job[v] \notin contended'
                 PROVE  /\ \A u \in Registering(job[v])' : u = v
                        /\ mode'[v] = "register" => registry[job[v]] = NoRow
                        /\ mode'[v] = "backfill" => registry[job[v]] = NoKey
      BY <1>1 DEF Uncontended, InTx, Registering
    <3>1. CASE v = w
      <4>1. Registering(job[w]) = {}
        BY <2>1, <3>1
      <4>2. QED
        BY <1>1, <2>1, <2>2, <2>5, <3>1, <4>1
    <3>2. CASE v # w
      <4>1. v \in Registering(job[v])
        BY <2>4, <3>2 DEF Registering
      <4>2. job[v] # job[w]
        BY <2>1, <4>1
      <4>3. w \notin Registering(job[v])'
        BY <1>1, <4>2 DEF Registering
      <4>4. job[v] \notin contended /\ job[v] \in Files
        BY <1>1
      <4>5. /\ \A u \in Registering(job[v]) : u = v
            /\ mode[v] = "register" => registry[job[v]] = NoRow
            /\ mode[v] = "backfill" => registry[job[v]] = NoKey
        BY <2>4, <3>2, <4>4 DEF Uncontended
      <4>6. Registering(job[v])' \subseteq Registering(job[v])
        BY <1>1, <2>4, <4>3 DEF Registering
      <4>7. QED
        BY <2>4, <3>2, <4>5, <4>6
    <3>3. QED
      BY <3>1, <3>2
  <2>7. Committable'
    BY <1>1, <2>1 DEF Committable, Follows, ReadsBack
  <2>8. QED
    BY <1>2, <2>3, <2>6, <2>7
<1>5. QED
  BY <1>3, <1>4

LEMMA NextKeyKeepsRows ==
    ASSUME Types, KeyTypes, RowInv, NEW w \in Writers, NextKey(w)
    PROVE  RowInv'
<1> USE DEF Types, RowInv
<1>1. /\ UNCHANGED <<dialect, registry, rows, job, mode, contended>>
      /\ pc[w] = "advance"
      /\ pc' = [pc EXCEPT ![w] = "enter"]
      /\ \A v \in Writers \ {w} : key'[v] = key[v]
  BY DEF NextKey, dbVars, boundVars, Goto, KeyTypes
<1>2. \A v \in Writers : pc'[v] \in InTx <=> pc[v] \in InTx
  BY <1>1 DEF InTx
<1>3. RowsOK' /\ OldEntries'
  BY <1>1 DEF RowsOK, OldEntries, Follows, ReadsBack
<1>4. FoundStays'
  BY <1>1, <1>2 DEF FoundStays, InTx
<1>5. \A f : Registering(f)' = Registering(f)
  BY <1>1, <1>2 DEF Registering, InTx
<1>6. Uncontended'
  BY <1>1, <1>2, <1>5 DEF Uncontended, InTx
<1>7. Committable'
  BY <1>1 DEF Committable, Follows, ReadsBack
<1>8. QED
  BY <1>3, <1>4, <1>6, <1>7

LEMMA EnterKeyKeepsRows ==
    ASSUME Types, KeyTypes, RowInv, NEW w \in Writers, EnterKey(w)
    PROVE  RowInv'
<1> USE DEF Types, RowInv
<1> DEFINE found == registry[job[w]]
           lost == mode[w] = "register" /\ found # NoRow
<1>1. /\ UNCHANGED <<dialect, registry, rows, job, contended>>
      /\ pc[w] = "enter" /\ job[w] \in Files
      /\ pc' = [pc EXCEPT ![w] = "insert"]
      /\ lost /\ ReadsBack => found \in Nat
      /\ key' = [key EXCEPT ![w] = IF lost /\ ReadsBack THEN found ELSE key[w]]
      /\ mode' = [mode EXCEPT ![w] = IF lost THEN "keep" ELSE mode[w]]
  BY DEF EnterKey, dbVars, boundVars, Goto
<1>2. \A v \in Writers : pc'[v] \in InTx <=> pc[v] \in InTx
  BY <1>1 DEF InTx
<1>a. \A v \in Writers \ {w} : pc'[v] = pc[v] /\ key'[v] = key[v] /\ mode'[v] = mode[v]
  BY <1>1 DEF KeyTypes
<1>b. \A v \in Writers : mode'[v] # "keep" => mode'[v] = mode[v]
  BY <1>1, <1>a
<1>3. RowsOK' /\ OldEntries'
  BY <1>1 DEF RowsOK, OldEntries, Follows, ReadsBack
<1>4. FoundStays'
  BY <1>1, <1>2, <1>b DEF FoundStays, InTx
<1>5. \A f \in Files : Registering(f)' \subseteq Registering(f)
  BY <1>1, <1>2, <1>b DEF Registering, InTx
<1>6. Uncontended'
  BY <1>1, <1>2, <1>5, <1>b DEF Uncontended, InTx
\* A transaction that enters a key enters the first; one that lost was contended.
<1>7. /\ mode'[w] = "register" => found = NoRow
      /\ mode'[w] = "keep" /\ mode[w] # "keep" => found \in Nat /\ Follows(job[w], key'[w])
  <2>1. mode'[w] = "register" => found = NoRow
    BY <1>1
  <2>2. ASSUME mode'[w] = "keep", mode[w] # "keep" PROVE found \in Nat /\ Follows(job[w], key'[w])
    <3>1. lost
      BY <1>1, <2>2
    <3>2. found \in Nat
      BY <1>1, <3>1 DEF FoundStays, InTx, KeyTypes
    <3>3. job[w] \in contended
      BY <1>1, <3>1 DEF Uncontended, InTx
    <3>4. CASE ReadsBack
      BY <1>1, <3>1, <3>4 DEF Follows, KeyTypes
    <3>5. CASE ~ReadsBack
      BY <3>2, <3>3, <3>5 DEF Follows
    <3>6. QED
      BY <3>2, <3>4, <3>5
  <2>3. QED
    BY <2>1, <2>2
<1>8. mode[w] # "keep"
  BY <1>1 DEF FoundStays, InTx
<1>9. Committable'
  BY <1>1, <1>a, <1>7, <1>8 DEF Committable, Follows, ReadsBack
<1>10. QED
  BY <1>3, <1>4, <1>6, <1>9

LEMMA CommitKeepsRows ==
    ASSUME Types, KeyInv, RowInv, NEW w \in Writers, InsertAndCommit(w)
    PROVE  RowInv'
<1> USE RegistryAssumption DEF Types, RowInv
<1> DEFINE f0 == job[w]
           k0 == key[w]
<1>1. /\ pc[w] = "insert" /\ f0 \in Files
      /\ rows' = rows \cup {<<f0, k0>>}
      /\ registry' = IF mode[w] = "keep" \/ Clash(w) THEN registry
                     ELSE [registry EXCEPT ![f0] = k0]
      /\ EndTx(w)
  BY DEF InsertAndCommit
<1>2. registry' = IF mode[w] = "keep" THEN registry ELSE [registry EXCEPT ![f0] = k0]
  BY <1>1, NoClash
<1>3. /\ \A v \in Writers \ {w} : pc'[v] = pc[v]
      /\ pc'[w] = "idle"
      /\ UNCHANGED <<dialect, key, mode, job, contended>>
  BY <1>1, EndedTx DEF EndTx
<1>4. \A v \in Writers : pc'[v] \in InTx => v # w /\ pc[v] = pc'[v] /\ pc[v] \in InTx
  BY <1>3 DEF InTx
<1>6. k0 \in Nat /\ registry \in [Files -> Nat \cup {NoRow, NoKey}]
  BY <1>1, LastKeyType DEF KeyInv, KeyInHand, OneIssuer, KeyTypes
<1>7. CASE mode[w] = "keep"
  <2>1. registry' = registry
    BY <1>2, <1>7
  <2>2. registry[f0] \in Nat /\ Follows(f0, k0)
    BY <1>1, <1>7 DEF Committable
  <2>3. RowsOK' /\ OldEntries'
    BY <1>1, <1>3, <2>1, <2>2 DEF RowsOK, OldEntries, Follows, ReadsBack
  <2>4. FoundStays'
    BY <1>3, <1>4, <2>1 DEF FoundStays, InTx
  <2>5. Uncontended'
    BY <1>3, <1>4, <2>1 DEF Uncontended, Registering, InTx
  <2>6. Committable'
    BY <1>3, <2>1 DEF Committable, Follows, ReadsBack
  <2>7. QED
    BY <2>3, <2>4, <2>5, <2>6
<1>8. CASE mode[w] # "keep"
  <2>1. /\ \A f \in Files \ {f0} : registry'[f] = registry[f]
        /\ registry'[f0] = k0
    BY <1>1, <1>2, <1>6, <1>8
  <2>2. rowLock = w
    BY <1>1, <1>8 DEF KeyInv, KeyInHand
  <2>3. registry[f0] \in Nat => f0 \in contended /\ Registered[f0] = NoKey
    BY <1>1, <1>8 DEF Committable, Uncontended, FoundStays, InTx
  <2>4. RowsOK'
    <3> SUFFICES ASSUME NEW f \in Files, NEW k \in Nat, <<f, k>> \in rows'
                 PROVE  /\ registry'[f] \in Nat
                        /\ \/ registry'[f] = k
                           \/ f \in contended /\ (~ReadsBack \/ Registered[f] = NoKey)
      BY <1>3 DEF RowsOK, Follows, ReadsBack
    <3>1. CASE f # f0
      BY <1>1, <2>1, <3>1 DEF RowsOK, Follows
    <3>2. CASE f = f0 /\ k = k0
      BY <1>6, <2>1, <3>2
    <3>3. CASE f = f0 /\ <<f, k>> \in rows
      BY <1>6, <2>1, <2>3, <3>3 DEF RowsOK
    <3>4. QED
      BY <1>1, <3>1, <3>2, <3>3
  <2>5. OldEntries'
    BY <1>6, <2>1 DEF OldEntries
  <2>6. FoundStays'
    BY <1>3, <1>4, <1>6, <2>1 DEF FoundStays, InTx
  <2>7. Uncontended'
    <3> SUFFICES ASSUME NEW v \in Writers, pc'[v] \in InTx', mode'[v] # "keep", job'[v] \notin contended'
                 PROVE  /\ \A u \in Registering(job[v])' : u = v
                        /\ mode[v] = "register" => registry'[job[v]] = NoRow
                        /\ mode[v] = "backfill" => registry'[job[v]] = NoKey
      BY <1>3 DEF Uncontended, Registering
    <3>1. v # w /\ pc[v] \in InTx /\ mode[v] # "keep" /\ job[v] \notin contended
      BY <1>3, <1>4 DEF InTx
    <3>2. job[v] # f0
      BY <1>1, <1>8, <3>1 DEF Uncontended, Registering, InTx
    <3>3. /\ \A u \in Registering(job[v]) : u = v
          /\ mode[v] = "register" => registry[job[v]] = NoRow
          /\ mode[v] = "backfill" => registry[job[v]] = NoKey
      BY <3>1 DEF Uncontended
    <3>4. \A u \in Registering(job[v])' : u = v
      BY <1>3, <1>4, <3>3 DEF Registering, InTx
    <3>5. QED
      BY <2>1, <3>2, <3>3, <3>4
  <2>8. Committable'
    <3> SUFFICES ASSUME NEW v \in Writers, pc'[v] = "insert"
                 PROVE  /\ mode[v] = "register" => registry'[job[v]] = NoRow
                        /\ mode[v] = "keep" =>
                               /\ registry'[job[v]] \in Nat
                               /\ \/ registry'[job[v]] = key[v]
                                  \/ /\ job[v] \in contended
                                     /\ ~ReadsBack \/ Registered[job[v]] = NoKey
      BY <1>3 DEF Committable, Follows, ReadsBack
    <3>1. v # w /\ pc[v] = "insert"
      BY <1>3
    <3>2. mode[v] = "keep"
      BY <2>2, <3>1 DEF KeyInv, KeyInHand
    <3>3. registry[job[v]] \in Nat /\ Follows(job[v], key[v])
      BY <3>1, <3>2 DEF Committable
    <3>4. CASE job[v] # f0
      BY <2>1, <3>2, <3>3, <3>4 DEF Follows
    <3>5. CASE job[v] = f0
      BY <1>6, <2>1, <2>3, <3>2, <3>3, <3>5
    <3>6. QED
      BY <3>4, <3>5
  <2>9. QED
    BY <2>4, <2>5, <2>6, <2>7, <2>8
<1>9. QED
  BY <1>7, <1>8

LEMMA RowsStep == Types /\ KeyInv /\ RowInv /\ [Next]_vars => RowInv'
<1> SUFFICES ASSUME Types, KeyInv, RowInv, [Next]_vars PROVE RowInv'
  OBVIOUS
<1> USE DEF Goto, sinkVars, dbVars, txVars, boundVars
<1>a. KeyTypes
  BY DEF KeyInv
<1>1. ASSUME NEW w \in Writers, NEW f \in Files, StartWrite(w, f) PROVE RowInv'
  <2>1. \A v \in Writers \ {w} : job'[v] = job[v]
    BY <1>1 DEF StartWrite, Types
  <2>2. CASE SinkOf[w] \in open
    BY <1>1, <2>1, <2>2, RowsFrame DEF StartWrite
  <2>3. CASE SinkOf[w] \notin open
    BY <1>1, <2>1, <2>3, RowsFrame DEF StartWrite
  <2>4. QED
    BY <2>2, <2>3
<1>2. ASSUME NEW w \in Writers, PingFails(w) PROVE RowInv'
  BY <1>2, RowsFrame DEF PingFails
<1>3. ASSUME NEW w \in Writers, Connected(w) PROVE RowInv'
  BY <1>3, RowsFrame DEF Connected
<1>4. ASSUME NEW w \in Writers, SchemaMade(w) PROVE RowInv'
  BY <1>4, RowsFrame DEF SchemaMade, EnsureSchema
<1>5. ASSUME NEW w \in Writers, SchemaFails(w) PROVE RowInv'
  BY <1>5, RowsFrame DEF SchemaFails, SchemaStops
<1>6. ASSUME NEW w \in Writers, Evolve(w) PROVE RowInv'
  BY <1>6, RowsFrame DEF Evolve
<1>7. ASSUME NEW w \in Writers, Altered(w) PROVE RowInv'
  BY <1>7, RowsFrame DEF Altered, EnsureSchema
<1>8. ASSUME NEW w \in Writers, AlterFails(w) PROVE RowInv'
  BY <1>8, RowsFrame DEF AlterFails, SchemaStops
<1>9. ASSUME NEW w \in Writers, Rollback(w) PROVE RowInv'
  BY <1>9, EndedTx, RowsFrame DEF Rollback, EndTx
<1>10. ASSUME NEW s \in Sinks, CloseSink(s) PROVE RowInv'
  BY <1>10 DEF CloseSink, RowInv, RowsOK, OldEntries, FoundStays, Uncontended,
     Committable, Follows, ReadsBack, Registering, InTx
<1>11. CASE UNCHANGED vars
  BY <1>11 DEF vars, RowInv, RowsOK, OldEntries, FoundStays, Uncontended,
     Committable, Follows, ReadsBack, Registering, InTx
<1>12. QED
  BY <1>a, <1>1, <1>2, <1>3, <1>4, <1>5, <1>6, <1>7, <1>8, <1>9, <1>10, <1>11,
     LookupKeepsRows, NextKeyKeepsRows, EnterKeyKeepsRows, CommitKeepsRows DEF Next, Step

-----------------------------------------------------------------------------
(* The theorems.                                                           *)

IInv == Types /\ Pool /\ Columns /\ KeyInv /\ RowInv

\* The parts together are kept by every step of the sinks, the writers and the
\* database, so they hold throughout.
THEOREM SinkInvariant == Spec => []IInv
<1>1. Init => IInv
  BY InitTypes, InitPool, InitColumns, InitKeys, InitRows DEF IInv
<1>2. IInv /\ [Next]_vars => IInv'
  BY TypesStep, PoolStep, ColumnsStep, KeysStep, RowsStep DEF IInv
<1>3. QED
  BY <1>1, <1>2, PTL DEF Spec

\* Every variable keeps its type; that references to the pool never go below zero
\* follows from what they are held for.
THEOREM SinkTypes == Spec => []TypeOK
<1>1. IInv => TypeOK
  <2> SUFFICES ASSUME IInv PROVE TypeOK
    OBVIOUS
  <2>1. refs \in Nat
    BY PoolFinite DEF IInv, Types, Pool
  <2>2. QED
    BY <2>1 DEF IInv, Types, KeyInv, KeyTypes, TypeOK
<1>2. QED
  BY <1>1, SinkInvariant, PTL

\* The references to the shared pool are those of open and connecting sinks, and
\* the ones lost when two writers of a sink connect at once, for any number of both.
THEOREM PoolIsAccountedFor == Spec => []PoolRefsAccountedFor
<1>1. IInv => PoolRefsAccountedFor
  BY DEF IInv, Pool, Pinging, PoolRefsAccountedFor
<1>2. QED
  BY <1>1, SinkInvariant, PTL

\* A write finds the columns of its header however many writers evolve the sinks.
THEOREM WritesFindTheirColumns == Spec => []OwnColumnsExist
<1>1. IInv => OwnColumnsExist
  <2> SUFFICES ASSUME IInv, NEW w \in Writers, pc[w] \in {"begin"} \cup InTx
               PROVE  LET s == SinkOf[w] IN
                      \/ s \in AutoSinks /\ Header[job[w]] \subseteq columns
                      \/ s \notin AutoSinks /\ \/ Declared \subseteq columns
                                               \/ s \in unmade
                                               \/ \E v \in Writers : SinkOf[v] = s /\ pc[v] = "schema"
    BY DEF OwnColumnsExist
  <2>1. CASE SinkOf[w] \in AutoSinks
    BY <2>1 DEF IInv, Columns, OwnThere
  <2>2. CASE SinkOf[w] \notin AutoSinks
    <3>1. SinkOf[w] \in open
      BY DEF IInv, Columns, InUse, InTx
    <3>2. QED
      BY <2>2, <3>1 DEF IInv, Columns, Schemas, SchemaThere
  <2>3. QED
    BY <2>1, <2>2
<1>2. QED
  BY <1>1, SinkInvariant, PTL

\* No key stands for two files, for any number of transactions side by side.
THEOREM KeysAreApart == Spec => []KeysTellFilesApart
<1>1. IInv => KeysTellFilesApart
  <2> SUFFICES ASSUME IInv PROVE KeysTellFilesApart
    OBVIOUS
  <2>1. \A r \in rows : r[1] \in Files /\ r[2] \in Nat /\ r = <<r[1], r[2]>>
    BY DEF IInv, KeyInv, KeyTypes
  <2>2. \A r \in rows : Holds(r[1], r[2])
    BY <2>1 DEF Holds
  <2>3. \A f \in Files, k \in Nat : registry[f] = k => Holds(f, k)
    BY DEF Holds
  <2>4. QED
    BY <2>1, <2>2, <2>3 DEF IInv, KeyInv, Apart, KeysTellFilesApart
<1>2. QED
  BY <1>1, SinkInvariant, PTL

\* Rows and registry disagree only for files two transactions registered at once,
\* and only in the databases and old entries the property names.
THEOREM RowsAreRegistered == Spec => []RowsFollowTheRegistry
<1>1. IInv => RowsFollowTheRegistry
  <2> SUFFICES ASSUME IInv PROVE RowsFollowTheRegistry
    OBVIOUS
  <2>1. \A r \in rows : r[1] \in Files /\ r[2] \in Nat /\ r = <<r[1], r[2]>>
    BY DEF IInv, KeyInv, KeyTypes
  <2>2. QED
    BY <2>1 DEF IInv, RowInv, RowsOK, Follows, RowsFollowTheRegistry
<1>2. QED
  BY <1>1, SinkInvariant, PTL

\* The body of the action property.
KeysStay ==
    /\ \A f \in Files : registry[f] \in Nat =>
         \/ registry'[f] = registry[f]
         \/ f \in contended /\ Registered[f] = NoKey
    /\ counter \in Nat => counter' \in Nat /\ counter <= counter'

\* Steps that touch neither keep them; making the schema only seeds the counter.
LEMMA KeysUntouched ==
    ASSUME registry' = registry,
           counter' = counter \/ \E s \in Sinks : EnsureSchema(s)
    PROVE  KeysStay
BY RegistryAssumption DEF KeysStay, EnsureSchema

\* A commit enters a key where there was none, or over one two transactions filled
\* in; and the key it takes the counter to is the next one.
LEMMA CommitKeepsForLife ==
    ASSUME IInv, NEW w \in Writers, InsertAndCommit(w) PROVE KeysStay
<1>1. /\ pc[w] = "insert" /\ job[w] \in Files
      /\ mode[w] \in {"keep", "register", "backfill"}
      /\ registry \in [Files -> Nat \cup {NoRow, NoKey}]
  BY DEF InsertAndCommit, IInv, Types, KeyInv, KeyTypes
<1>2. ASSUME NEW f \in Files, registry[f] \in Nat, registry'[f] # registry[f]
      PROVE  f \in contended /\ Registered[f] = NoKey
  <2>1. f = job[w] /\ mode[w] # "keep"
    BY <1>1, <1>2 DEF InsertAndCommit
  <2>2. mode[w] # "register"
    BY <1>1, <1>2, <2>1, RegistryAssumption DEF IInv, RowInv, Committable
  <2>3. mode[w] = "backfill"
    BY <1>1, <2>1, <2>2
  <2>4. Registered[f] = NoKey
    BY <1>1, <2>1, <2>3 DEF IInv, RowInv, FoundStays, InTx
  <2>5. f \in contended
    BY <1>1, <1>2, <2>1, <2>3, RegistryAssumption
       DEF IInv, RowInv, Uncontended, InTx
  <2>6. QED
    BY <2>4, <2>5
<1>3. counter \in Nat => counter' \in Nat /\ counter <= counter'
  <2> SUFFICES ASSUME counter \in Nat PROVE counter' \in Nat /\ counter <= counter'
    OBVIOUS
  <2>1. CASE rowLock = w
    <3>1. issued[w] = LastKey + 1 /\ LastKey = counter
      BY <2>1, RegistryAssumption DEF IInv, KeyInv, OneIssuer, LastKey
    <3>2. counter' = counter + 1
      BY <2>1, <3>1 DEF InsertAndCommit
    <3>3. QED
      BY <3>2
  <2>2. CASE rowLock # w
    BY <2>2 DEF InsertAndCommit
  <2>3. QED
    BY <2>1, <2>2
<1>4. QED
  BY <1>2, <1>3 DEF KeysStay

\* A key once registered is the file's for good, and the counter never goes back
\* (resolveFileKey and nextFileKey in app/storage/table.go), for any number of
\* transactions side by side and wherever they fail.
THEOREM KeysStayForLife == Spec => KeysAreForLife
<1>1. IInv /\ [Next]_vars => KeysStay
  <2> SUFFICES ASSUME IInv, [Next]_vars PROVE KeysStay
    OBVIOUS
  <2>1. ASSUME NEW w \in Writers, SchemaMade(w) \/ Altered(w) PROVE KeysStay
    <3>1. registry' = registry /\ EnsureSchema(SinkOf[w])
      BY <2>1 DEF SchemaMade, Altered, EnsureSchema
    <3>2. SinkOf[w] \in Sinks
      BY SinkAssumption
    <3>3. QED
      BY <3>1, <3>2, KeysUntouched
  <2>2. ASSUME NEW w \in Writers,
               \/ \E f \in Files : StartWrite(w, f)
               \/ PingFails(w) \/ Connected(w) \/ SchemaFails(w) \/ Evolve(w)
               \/ AlterFails(w) \/ Lookup(w) \/ NextKey(w) \/ EnterKey(w) \/ Rollback(w)
        PROVE  KeysStay
    <3>1. registry' = registry /\ counter' = counter
      BY <2>2 DEF StartWrite, PingFails, Connected, SchemaFails, SchemaStops, Evolve,
                  AlterFails, Lookup, NextKey, EnterKey, Rollback, dbVars
    <3>2. QED
      BY <3>1, KeysUntouched
  <2>3. ASSUME NEW s \in Sinks, CloseSink(s) PROVE KeysStay
    BY <2>3, KeysUntouched DEF CloseSink, dbVars
  <2>4. CASE UNCHANGED vars
    BY <2>4, KeysUntouched DEF vars, dbVars
  <2>5. QED
    BY <2>1, <2>2, <2>3, <2>4, CommitKeepsForLife DEF Next, Step
<1>2. QED
  BY <1>1, SinkInvariant, PTL DEF Spec, KeysAreForLife, KeysStay
=============================================================================

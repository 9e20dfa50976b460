----------------------------- MODULE TableSink -----------------------------
(***************************************************************************)
(* The typed table sink in lazy mode (app/storage/table.go): connections   *)
(* from the shared pool, the columns that follow the headers, and the      *)
(* integer keys of the file registry.                                      *)
(*                                                                         *)
(* A writer is a goroutine that writes one batch after the other: one of   *)
(* several files collected in parallel by a unit, or a worker of another   *)
(* unit, or of another process.  A sink is one TableStorage; all sinks     *)
(* here share one database table, one registry and one pool.  The steps of *)
(* a write:                                                                *)
(*   ping -> schema          when the sink has no connection               *)
(*   evolve -> alter         when the header has new fields                *)
(*   begin -> advance -> register (or backfill) -> insert     transaction  *)
(*                                                                         *)
(* The database is external: a statement sees what is committed, an UPDATE *)
(* of the counter row waits for the transaction that changed it, what a    *)
(* transaction did appears when it commits.  Any step may fail.  A header  *)
(* is a set of fields; how names become column names is left out.          *)
(***************************************************************************)
EXTENDS Integers, FiniteSets

CONSTANTS
    Sinks,
    AutoSinks,  \* sinks whose columns follow the headers
    Declared,   \* columns of the others
    Writers,
    SinkOf,     \* SinkOf[w]: the sink a writer writes to
    Files,      \* (source, date, file) triples
    Header,     \* Header[f]: the fields of its header
    Registered, \* Registered[f]: its registry entry when the process starts
    Baseline,   \* the greatest key registered then
    Dialects,   \* the databases considered
    MaxWrites,  \* bound: batches written
    MaxCloses,  \* bound: sinks closed
    NoRow,      \* no registry row
    NoKey,      \* a row older than the file_key column
    NoCounter,  \* the counter row is not there
    Nobody

AnyDialect == {"postgres", "mysql", "oracle", "sqlserver"}

ASSUME SinkAssumption ==
    /\ IsFiniteSet(Sinks) /\ AutoSinks \subseteq Sinks
    /\ IsFiniteSet(Writers) /\ SinkOf \in [Writers -> Sinks] /\ Nobody \notin Writers
    /\ IsFiniteSet(Files) /\ Files # {} /\ \A f \in Files : Header[f] # {}
    /\ Dialects \subseteq AnyDialect
    /\ MaxWrites \in Nat /\ MaxCloses \in Nat

ASSUME RegistryAssumption ==
    /\ Registered \in [Files -> Nat \cup {NoRow, NoKey}]
    /\ NoRow \notin Nat /\ NoKey \notin Nat /\ NoRow # NoKey
    /\ NoCounter \notin Nat
    /\ Baseline \in Nat
    /\ \A f \in Files : Registered[f] \in Nat => Registered[f] <= Baseline
    /\ \A f, g \in Files : Registered[f] \in Nat /\ Registered[f] = Registered[g] => f = g

VARIABLES
    dialect,   \* of the database, chosen by the configuration
    (* the sinks *)
    open,      \* sinks with a connection (t.db)
    refs,      \* references to the shared pool
    autoCols,  \* autoCols[s]: fields mapped so far
    evolving,  \* evolving[s]: writer that holds evoMu
    (* the database *)
    tables,    \* the tables exist
    columns,   \* columns of the data table
    counter,   \* the last key issued
    registry,  \* registry[f]: its key
    rows,      \* <<file, key>> of the data rows
    rowLock,   \* transaction that has updated the counter
    (* the writers *)
    pc,
    job,       \* job[w]: file of the batch
    prev,      \* prev[w]: column set to go back to
    cols,      \* cols[w]: columns of the statement
    key,       \* key[w]: file key of the batch
    issued,    \* issued[w]: key its transaction took from the counter
    mode,      \* mode[w]: what its transaction does to the registry row
    (* bounds and history *)
    writes, closes,
    leaked,    \* references whose release was overwritten
    unmade,    \* sinks whose schema step failed since they were opened
    contended  \* files two transactions registered at the same time

sinkVars == <<open, refs, autoCols, evolving>>
dbVars == <<tables, columns, counter, registry, rows>>
txVars == <<key, issued, mode, rowLock>>
boundVars == <<writes, closes, leaked, unmade, contended>>
vars == <<dialect, sinkVars, dbVars, txVars, pc, job, prev, cols, boundVars>>

ReadsBack == dialect \in {"oracle", "sqlserver"}
IgnoresClash == dialect = "mysql"   \* INSERT IGNORE

Init ==
    /\ dialect \in Dialects
    /\ open = {} /\ refs = 0
    /\ autoCols = [s \in Sinks |-> {}]
    /\ evolving = [s \in Sinks |-> Nobody]
    /\ tables = (Baseline > 0) /\ columns = {}
    /\ counter = NoCounter
    /\ registry = Registered /\ rows = {}
    /\ rowLock = Nobody
    /\ pc = [w \in Writers |-> "idle"]
    /\ job = [w \in Writers |-> CHOOSE f \in Files : TRUE]
    /\ prev = [w \in Writers |-> {}] /\ cols = [w \in Writers |-> {}]
    /\ key = [w \in Writers |-> NoKey]
    /\ issued = [w \in Writers |-> NoKey]
    /\ mode = [w \in Writers |-> "keep"]
    /\ writes = 0 /\ closes = 0 /\ leaked = 0 /\ unmade = {} /\ contended = {}

Goto(w, step) == pc' = [pc EXCEPT ![w] = step]

Effective(s) == IF s \in AutoSinks THEN autoCols[s] ELSE Declared

-----------------------------------------------------------------------------
(* The connection.                                                         *)

\* Write: t.db is read without a lock.
StartWrite(w, f) ==
    /\ pc[w] = "idle" /\ writes < MaxWrites
    /\ writes' = writes + 1
    /\ job' = [job EXCEPT ![w] = f]
    /\ IF SinkOf[w] \in open
       THEN Goto(w, "evolve") /\ UNCHANGED refs
       ELSE Goto(w, "ping") /\ refs' = refs + 1
    /\ UNCHANGED <<dialect, open, autoCols, evolving, dbVars, txVars, prev, cols,
                   closes, leaked, unmade, contended>>

\* Mutated: it is given back twice.
PingFails_ReleasedTwice(w) ==
    /\ pc[w] = "ping"
    /\ refs' = refs - 2
    /\ Goto(w, "idle")
    /\ UNCHANGED <<dialect, open, autoCols, evolving, dbVars, txVars, job, prev, cols,
                   boundVars>>

\* Mutated: the reference is kept when the database does not answer.
PingFails_KeepsRef(w) ==
    /\ pc[w] = "ping"
    /\ Goto(w, "idle")
    /\ UNCHANGED <<dialect, sinkVars, dbVars, txVars, job, prev, cols, boundVars>>

PingFails(w) ==
    /\ pc[w] = "ping"
    /\ refs' = refs - 1
    /\ Goto(w, "idle")
    /\ UNCHANGED <<dialect, open, autoCols, evolving, dbVars, txVars, job, prev, cols,
                   boundVars>>

\* The connection is there for everyone before its schema is; of two that connect
\* at once the second overwrites the release of the first.
Connected(w) ==
    /\ pc[w] = "ping"
    /\ open' = open \cup {SinkOf[w]}
    /\ leaked' = IF SinkOf[w] \in open THEN leaked + 1 ELSE leaked
    /\ Goto(w, "schema")
    /\ UNCHANGED <<dialect, refs, autoCols, evolving, dbVars, txVars, job, prev, cols,
                   writes, closes, unmade, contended>>

\* Tables, columns and counter row, each when it is missing.
EnsureSchema(s) ==
    /\ tables' = TRUE
    /\ columns' = columns \cup Effective(s)
    /\ counter' = IF counter = NoCounter THEN Baseline ELSE counter
    /\ UNCHANGED <<registry, rows>>

\* The tables may have been made before it failed.
SchemaStops ==
    /\ tables' \in {tables, TRUE}
    /\ UNCHANGED <<columns, counter, registry, rows>>

SchemaMade(w) ==
    /\ pc[w] = "schema"
    /\ EnsureSchema(SinkOf[w])
    /\ Goto(w, "evolve")
    /\ UNCHANGED <<dialect, sinkVars, txVars, job, prev, cols, boundVars>>

\* The write fails; the next one finds the connection and asks for no schema.
SchemaFails(w) ==
    /\ pc[w] = "schema"
    /\ SchemaStops
    /\ unmade' = unmade \cup {SinkOf[w]}
    /\ Goto(w, "idle")
    /\ UNCHANGED <<dialect, sinkVars, txVars, job, prev, cols,
                   writes, closes, leaked, contended>>

\* A sink is closed when its unit is replaced; its successor starts with no
\* connection and no columns.
CloseSink(s) ==
    /\ closes < MaxCloses /\ s \in open
    /\ \A w \in Writers : SinkOf[w] = s => pc[w] = "idle"
    /\ closes' = closes + 1
    /\ open' = open \ {s} /\ refs' = refs - 1
    /\ autoCols' = [autoCols EXCEPT ![s] = {}]
    /\ unmade' = unmade \ {s}
    /\ UNCHANGED <<dialect, evolving, dbVars, txVars, pc, job, prev, cols,
                   writes, leaked, contended>>

-----------------------------------------------------------------------------
(* The columns.                                                            *)

\* evolveAutoColumns: the merged set is stored before its columns exist.
Evolve(w) ==
    LET s == SinkOf[w]
        merged == autoCols[s] \cup Header[job[w]]
    IN  /\ pc[w] = "evolve"
        /\ IF s \notin AutoSinks
           THEN Goto(w, "begin") /\ UNCHANGED <<autoCols, evolving, prev>>
           ELSE /\ evolving[s] = Nobody
                /\ IF merged = autoCols[s]
                   THEN Goto(w, "begin") /\ UNCHANGED <<autoCols, evolving, prev>>
                   ELSE /\ evolving' = [evolving EXCEPT ![s] = w]
                        /\ prev' = [prev EXCEPT ![w] = autoCols[s]]
                        /\ autoCols' = [autoCols EXCEPT ![s] = merged]
                        /\ Goto(w, "alter")
        /\ UNCHANGED <<dialect, open, refs, dbVars, txVars, job, cols, boundVars>>

Altered(w) ==
    /\ pc[w] = "alter"
    /\ EnsureSchema(SinkOf[w])
    /\ evolving' = [evolving EXCEPT ![SinkOf[w]] = Nobody]
    /\ Goto(w, "begin")
    /\ UNCHANGED <<dialect, open, refs, autoCols, txVars, job, prev, cols, boundVars>>

\* Mutated: the new columns stay mapped.
AlterFails_KeepsColumns(w) ==
    /\ pc[w] = "alter"
    /\ SchemaStops
    /\ evolving' = [evolving EXCEPT ![SinkOf[w]] = Nobody]
    /\ Goto(w, "idle")
    /\ UNCHANGED <<dialect, open, refs, autoCols, txVars, job, prev, cols, boundVars>>

\* The column set goes back, the next batch tries again.
AlterFails(w) ==
    /\ pc[w] = "alter"
    /\ SchemaStops
    /\ autoCols' = [autoCols EXCEPT ![SinkOf[w]] = prev[w]]
    /\ evolving' = [evolving EXCEPT ![SinkOf[w]] = Nobody]
    /\ Goto(w, "idle")
    /\ UNCHANGED <<dialect, open, refs, txVars, job, prev, cols, boundVars>>

-----------------------------------------------------------------------------
(* The transaction.                                                        *)

InTx == {"advance", "enter", "insert"}

\* Transactions that give f a key.
Registering(f) == {w \in Writers : job[w] = f /\ pc[w] \in InTx /\ mode[w] # "keep"}

\* The columns of the statement, read when the key is known.
ReadColumns(w) == cols' = [cols EXCEPT ![w] = Effective(SinkOf[w])]

\* resolveFileKey looks the triple up.
Lookup(w) ==
    LET found == registry[job[w]]
    IN  /\ pc[w] = "begin" /\ tables
        /\ IF found \in Nat
           THEN /\ Goto(w, "insert")
                /\ key' = [key EXCEPT ![w] = found]
                /\ mode' = [mode EXCEPT ![w] = "keep"]
                /\ ReadColumns(w)
                /\ UNCHANGED contended
           ELSE /\ Goto(w, "advance")
                /\ mode' = [mode EXCEPT ![w] = IF found = NoRow THEN "register" ELSE "backfill"]
                /\ contended' = IF Registering(job[w]) = {} THEN contended
                                ELSE contended \cup {job[w]}
                /\ UNCHANGED <<key, cols>>
        /\ UNCHANGED <<dialect, sinkVars, dbVars, issued, rowLock, job, prev,
                       writes, closes, leaked, unmade>>

\* The last key issued; with no counter row, the one it is seeded with.
LastKey == IF counter = NoCounter THEN Baseline ELSE counter

\* Mutated: the counter is read before it is advanced.
NextKey_ReadFirst(w) ==
    /\ pc[w] = "advance"
    /\ issued' = [issued EXCEPT ![w] = LastKey + 1]
    /\ key' = [key EXCEPT ![w] = LastKey + 1]
    /\ Goto(w, "enter")
    /\ UNCHANGED <<dialect, sinkVars, dbVars, mode, rowLock, job, prev, cols, boundVars>>

\* nextFileKey: the UPDATE waits for the row, and keeps it until the transaction
\* ends.
NextKey(w) ==
    /\ pc[w] = "advance" /\ rowLock = Nobody
    /\ rowLock' = w
    /\ issued' = [issued EXCEPT ![w] = LastKey + 1]
    /\ key' = [key EXCEPT ![w] = LastKey + 1]
    /\ Goto(w, "enter")
    /\ UNCHANGED <<dialect, sinkVars, dbVars, mode, job, prev, cols, boundVars>>

\* Mutated: the winner's key is not read back.
EnterKey_Own(w) ==
    /\ pc[w] = "enter"
    /\ mode' = [mode EXCEPT ![w] = IF @ = "register" /\ registry[job[w]] # NoRow
                                   THEN "keep" ELSE @]
    /\ UNCHANGED key
    /\ ReadColumns(w)
    /\ Goto(w, "insert")
    /\ UNCHANGED <<dialect, sinkVars, dbVars, issued, rowLock, job, prev, boundVars>>

\* Mutated: the entry of the other transaction is replaced.
EnterKey_Upsert(w) ==
    /\ pc[w] = "enter"
    /\ UNCHANGED <<mode, key>>
    /\ ReadColumns(w)
    /\ Goto(w, "insert")
    /\ UNCHANGED <<dialect, sinkVars, dbVars, issued, rowLock, job, prev, boundVars>>

\* The registry row: a new one is entered unless another transaction has entered
\* it since the lookup, and only two dialects read its key then; the key of an
\* old row is set whatever it is by now.
EnterKey(w) ==
    LET found == registry[job[w]]
        lost == mode[w] = "register" /\ found # NoRow
    IN  /\ pc[w] = "enter"
        /\ lost /\ ReadsBack => found \in Nat
        /\ mode' = [mode EXCEPT ![w] = IF lost THEN "keep" ELSE @]
        /\ key' = [key EXCEPT ![w] = IF lost /\ ReadsBack THEN found ELSE @]
        /\ ReadColumns(w)
        /\ Goto(w, "insert")
        /\ UNCHANGED <<dialect, sinkVars, dbVars, issued, rowLock, job, prev, boundVars>>

\* The unique index on file_key refuses the entry.
Clash(w) == mode[w] # "keep" /\ \E f \in Files \ {job[w]} : registry[f] = key[w]

\* The statement's columns exist, and the rows, mapped with the columns of this
\* moment, have as many values as it has columns; which columns they are of, the
\* database does not see.
Insertable(w) ==
    /\ cols[w] \subseteq columns
    /\ Cardinality(cols[w]) = Cardinality(Effective(SinkOf[w]))

EndTx(w) ==
    /\ rowLock' = IF rowLock = w THEN Nobody ELSE rowLock
    /\ Goto(w, "idle")
    /\ UNCHANGED <<dialect, sinkVars, tables, columns, key, issued, mode,
                   job, prev, cols, boundVars>>

\* INSERT IGNORE passes over a clash of keys as it does over the triple.
InsertAndCommit(w) ==
    /\ pc[w] = "insert"
    /\ Insertable(w)
    /\ Clash(w) => IgnoresClash /\ mode[w] = "register"
    /\ counter' = IF rowLock = w THEN issued[w] ELSE counter
    /\ registry' = IF mode[w] = "keep" \/ Clash(w) THEN registry
                   ELSE [registry EXCEPT ![job[w]] = key[w]]
    /\ rows' = rows \cup {<<job[w], key[w]>>}
    /\ EndTx(w)

\* An error or a cancelled context, at any statement.
Rollback(w) ==
    /\ pc[w] \in InTx \cup {"begin"}
    /\ UNCHANGED <<counter, registry, rows>>
    /\ EndTx(w)

Step(w) ==
    \/ \E f \in Files : StartWrite(w, f)
    \/ PingFails(w) \/ Connected(w) \/ SchemaMade(w) \/ SchemaFails(w)
    \/ Evolve(w) \/ Altered(w) \/ AlterFails(w)
    \/ Lookup(w) \/ NextKey(w) \/ EnterKey(w) \/ InsertAndCommit(w) \/ Rollback(w)

Next == (\E w \in Writers : Step(w)) \/ (\E s \in Sinks : CloseSink(s))

Spec == Init /\ [][Next]_vars

-----------------------------------------------------------------------------
(* Properties.                                                             *)

Keys == Nat \cup {NoKey}

TypeOK ==
    /\ dialect \in Dialects
    /\ open \subseteq Sinks /\ refs \in Nat /\ leaked \in Nat
    /\ evolving \in [Sinks -> Writers \cup {Nobody}]
    /\ tables \in BOOLEAN
    /\ counter \in Nat \cup {NoCounter}
    /\ registry \in [Files -> Nat \cup {NoRow, NoKey}]
    /\ rows \subseteq Files \X Nat
    /\ rowLock \in Writers \cup {Nobody}
    /\ pc \in [Writers -> {"idle", "ping", "schema", "evolve", "alter", "begin",
                           "advance", "enter", "insert"}]
    /\ job \in [Writers -> Files]
    /\ key \in [Writers -> Keys] /\ issued \in [Writers -> Keys]
    /\ mode \in [Writers -> {"keep", "register", "backfill"}]
    /\ contended \subseteq Files /\ unmade \subseteq Sinks

\* A key tells the files apart: no two files have data rows, or a registry entry
\* and data rows, under one key, whatever transactions run side by side, fail or
\* find the counter row missing.
KeysTellFilesApart ==
    /\ \A r1, r2 \in rows : r1[2] = r2[2] => r1[1] = r2[1]
    /\ \A r \in rows : \A f \in Files : registry[f] = r[2] => f = r[1]

\* The data rows of a file are under the key it is registered with.  Where that
\* fails two transactions registered the same file at the same time, and the
\* database is one that does not read the winner's key back, or the row was there
\* before it had a key.
RowsFollowTheRegistry ==
    \A r \in rows :
        \/ registry[r[1]] = r[2]
        \/ r[1] \in contended /\ (~ReadsBack \/ Registered[r[1]] = NoKey)

\* Once a file has a key it keeps it, and the counter never goes back, whichever
\* transaction commits first: the rows of earlier processes stay with their file,
\* and no key is issued twice.  The one key that may be replaced is that of a row
\* from before the keys, when two transactions fill it in at the same time.
KeysAreForLife ==
    [][/\ \A f \in Files : registry[f] \in Nat =>
            \/ registry'[f] = registry[f]
            \/ f \in contended /\ Registered[f] = NoKey
       /\ counter \in Nat => counter' \in Nat /\ counter <= counter']_vars

\* A batch of an automatically mapped sink is written when the columns of its own
\* header are in the table, whatever the other writers of the sink add or take
\* back meanwhile.  (Its statement may name a column of another's header that is
\* not there yet: then it fails.)  On a sink with declared columns these may be
\* missing only while another writer still makes them, or once making them failed:
\* nobody tries again before the sink is replaced.
OwnColumnsExist ==
    \A w \in Writers : LET s == SinkOf[w] IN
        pc[w] \in {"begin"} \cup InTx =>
            \/ s \in AutoSinks /\ Header[job[w]] \subseteq columns
            \/ /\ s \notin AutoSinks
               /\ \/ Declared \subseteq columns
                  \/ s \in unmade
                  \/ \E v \in Writers : SinkOf[v] = s /\ pc[v] = "schema"

\* Every reference to the pool belongs to an open sink or to a writer that is
\* connecting, but those of connections that two writers of a sink opened at once:
\* the pool is never closed under a sink that uses it.
PoolRefsAccountedFor ==
    refs = Cardinality(open) + Cardinality({w \in Writers : pc[w] = "ping"}) + leaked
=============================================================================

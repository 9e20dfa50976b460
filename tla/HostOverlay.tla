----------------------------- MODULE HostOverlay -----------------------------
(***************************************************************************)
(* The host's desired state: the composition parsed from the config file   *)
(* (lastDesired), the console's patches over it, the overlay file they are *)
(* kept in, and the composition the runtime was reconciled to (app/host).  *)
(*                                                                         *)
(* Console commands run in HTTP handlers of their own, and the config      *)
(* watcher reconciles beside them; the only lock is h.mu, which guards the *)
(* single reads and writes of patches and lastDesired, so a command is a   *)
(* sequence of steps:                                                      *)
(*   patch -> save -> write -> base -> set -> overlay -> apply -> (done)   *)
(* A removal looks for its component before; when the runtime rejects an   *)
(* edit, undo -> save -> write -> (done) follows.                          *)
(*                                                                         *)
(* A composition is [Ids -> Values], Absent for a row it has not.  External*)
(* (the config extension): patches apply in order, and a patch of a row    *)
(* that is not there is a conflict; the controller reconciles one          *)
(* composition at a time and, when some component never becomes ready,     *)
(* reports an error after having applied it.  Not modelled: insert patches *)
(* (written by hand only), the read-only --patch layers, secrets, and the  *)
(* torn reads that come from sharing the backing array of h.patches.       *)
(***************************************************************************)
EXTENDS Naturals, Sequences, FiniteSets, SequencesExt

CONSTANTS
    Ids,          \* component ids
    Files,        \* compositions the config file and the fleet store may declare
    EditValues,   \* configurations an operator may type in
    Invalid,      \* those the validation refuses
    NeverReady,   \* those a component never becomes ready with
    Critical,     \* console infrastructure
    Editors,      \* concurrent console commands
    Watcher,      \* the config watcher
    Absent

Values == (UNION {{f[i] : i \in Ids} : f \in Files}) \cup EditValues

ASSUME HostOverlayAssumption ==
    /\ IsFiniteSet(Ids) /\ IsFiniteSet(Files) /\ IsFiniteSet(EditValues)
    /\ \A f \in Files : DOMAIN f = Ids
    /\ Invalid \subseteq EditValues /\ NeverReady \subseteq EditValues
    /\ Critical \subseteq Ids
    /\ IsFiniteSet(Editors) /\ Watcher \notin Editors
    /\ Absent \notin EditValues
    /\ {"disk", "none"} \cap Editors = {}

VARIABLES
    declared,  \* what a parse of the file and the fleet store would give
    base,      \* h.lastDesired
    patches,   \* h.patches
    disk,      \* the overlay file
    runtime,   \* the composition the controller was last given
    pc,        \* pc[p]: the next step of a command, or of the watcher
    cmd,       \* cmd[e]: the command of an editor
    local,     \* local[p]: snapshot, desired and composition held by p
    (* history *)
    newest,    \* who holds the newest snapshot: an editor, "disk" or "none"
    alone,     \* ids whose commands have never overlapped
    promised,  \* promised[i]: the patches i has when its commands run one by one
    undisturbed,  \* no two reconciles overlapped, and none failed for good
    raced      \* a reload fell between an editor's read and write of the base

hostVars == <<declared, base, patches, disk, runtime, pc, cmd, local>>
historyVars == <<newest, alone, promised, undisturbed, raced>>
overlayVars == <<hostVars, historyVars>>

Procs == Editors \cup {Watcher}

None == "none"
NoRows == [i \in Ids |-> Absent]

-----------------------------------------------------------------------------
(* Patches.                                                                *)

IsPatch(q, op, id) == q.op = op /\ q.id = id

HasPatch(list, op, id) == \E k \in DOMAIN list : IsPatch(list[k], op, id)

LastPatch(list, op, id) ==
    CHOOSE k \in DOMAIN list :
        /\ IsPatch(list[k], op, id)
        /\ \A j \in DOMAIN list : IsPatch(list[j], op, id) => j <= k

\* Replaces the last patch with the same op and id in place, or appends.
SetPatch(list, q) ==
    IF HasPatch(list, q.op, q.id)
    THEN [list EXCEPT ![LastPatch(list, q.op, q.id)] = q]
    ELSE Append(list, q)

\* The elements of a list at the positions K, in order.
Rank(K, k) == Cardinality({j \in K : j <= k})
At(list, K) ==
    [n \in 1..Cardinality(K) |-> list[CHOOSE k \in K : Rank(K, k) = n]]

\* Removes the last patch with this op and id.
RemovePatch(list, op, id) ==
    IF HasPatch(list, op, id)
    THEN At(list, DOMAIN list \ {LastPatch(list, op, id)})
    ELSE list

\* Removes every patch with this op and id.
Drop(list, op, id) == At(list, {k \in DOMAIN list : ~IsPatch(list[k], op, id)})

PatchesOf(list, id) == At(list, {k \in DOMAIN list : list[k].id = id})

ApplyPatch(c, q) ==
    IF ~c.ok \/ c.rows[q.id] = Absent THEN [c EXCEPT !.ok = FALSE]
    ELSE [c EXCEPT !.rows[q.id] = IF q.op = "remove" THEN Absent ELSE q.value]

\* The composition of a base and a list of patches; not ok: a shape conflict.
Overlay(rows, list) == FoldLeft(ApplyPatch, [ok |-> TRUE, rows |-> rows], list)

Valid(rows) == \A i \in Ids : rows[i] \notin Invalid

Accepted(c) == c.ok /\ Valid(c.rows)

-----------------------------------------------------------------------------

Idle(p) == pc[p] = "idle"

\* Nothing under way, and the watcher has parsed what is declared.
Quiet == (\A p \in Procs : Idle(p)) /\ local[Watcher].desired = declared

\* p has changed nothing yet, neither the patches nor the base.
AtRest(p) == pc[p] \in {"idle", "remove", "start"}

Busy(id) == {e \in Editors : ~AtRest(e) /\ cmd[e].id = id}

NoCmd == [op |-> None, id |-> CHOOSE i \in Ids : TRUE, undo |-> <<>>,
          failed |-> FALSE, before |-> <<>>]
NoLocal == [snapshot |-> <<>>, desired |-> NoRows, rows |-> NoRows]

\* The first parse is made whatever the file holds.
AtStart == [p \in Procs |-> IF p = Watcher THEN "start" ELSE "idle"]

\* The first start: no overlay file, nothing parsed yet.
OverlayInit ==
    /\ declared \in Files
    /\ base = NoRows /\ patches = <<>> /\ disk = [torn |-> FALSE, list |-> <<>>]
    /\ runtime = NoRows
    /\ pc = AtStart
    /\ cmd = [e \in Editors |-> NoCmd]
    /\ local = [p \in Procs |-> NoLocal]
    /\ newest = "disk" /\ alone = Ids
    /\ promised = [i \in Ids |-> <<>>]
    /\ undisturbed = TRUE /\ raced = FALSE

Goto(p, step) == pc' = [pc EXCEPT ![p] = step]

\* p returns; what it held is gone.
Return(p) ==
    /\ Goto(p, "idle")
    /\ cmd' = IF p \in Editors THEN [cmd EXCEPT ![p] = NoCmd] ELSE cmd

-----------------------------------------------------------------------------
(* The commands, up to their change of the patches.                        *)

\* A command on id starts; alone on its component it should leave "expected".
Begins(e, op, id, undo, expected) ==
    /\ cmd' = [cmd EXCEPT ![e] = [op |-> op, id |-> id, undo |-> undo,
                                  failed |-> FALSE, before |-> promised[id]]]
    /\ Goto(e, "save")
    /\ alone' = IF Busy(id) = {} THEN alone ELSE alone \ {id}
    /\ promised' = [promised EXCEPT ![id] = expected]
    /\ undisturbed' = (undisturbed /\ \A p \in Procs : AtRest(p))
    /\ UNCHANGED <<declared, base, disk, runtime, local, newest, raced>>

\* SetComponentConfig.  A row that was uninstalled can be edited: it is still one
\* of the base.
Edit(e, id, value) ==
    LET q == [op |-> "replace", id |-> id, value |-> value]
        prev == IF HasPatch(patches, "replace", id)
                THEN <<patches[LastPatch(patches, "replace", id)]>> ELSE <<>>
    IN  /\ Idle(e) /\ base[id] # Absent
        /\ patches' = SetPatch(patches, q)
        /\ Begins(e, "edit", id, prev, SetPatch(promised[id], q))

\* UninstallComponent looks for the component first, without the lock; what it
\* found may be gone when the patch is set.
Uninstall(e, id) ==
    /\ Idle(e) /\ id \notin Critical
    /\ base[id] # Absent \/ HasPatch(patches, "replace", id)
    /\ cmd' = [cmd EXCEPT ![e] = [NoCmd EXCEPT !.op = "uninstall", !.id = id]]
    /\ Goto(e, "remove")
    /\ UNCHANGED <<declared, base, patches, disk, runtime, local, historyVars>>

SetRemoval(e) ==
    LET id == cmd[e].id
        q  == [op |-> "remove", id |-> id, value |-> Absent]
    IN  /\ pc[e] = "remove"
        /\ patches' = SetPatch(patches, q)
        /\ Begins(e, "uninstall", id, <<>>, SetPatch(promised[id], q))

\* InstallComponent drops the remove patch; the edits stay in force.
Install(e, id) ==
    /\ Idle(e) /\ HasPatch(patches, "remove", id)
    /\ patches' = Drop(patches, "remove", id)
    /\ Begins(e, "install", id, <<>>, Drop(promised[id], "remove", id))

-----------------------------------------------------------------------------
(* persistOverlay.                                                         *)

\* The list is copied under the lock.
Snapshot(e) ==
    /\ pc[e] = "save"
    /\ local' = [local EXCEPT ![e].snapshot = patches]
    /\ newest' = e
    /\ Goto(e, "write")
    /\ UNCHANGED <<declared, base, patches, disk, runtime, cmd,
                   alone, promised, undisturbed, raced>>

AfterWrite(e) ==
    /\ IF cmd[e].failed THEN Return(e) ELSE Goto(e, "base") /\ UNCHANGED cmd
    /\ local' = [local EXCEPT ![e] = NoLocal]

\* The copy is written without it: a slower, older one may come last, and two
\* that overlap may leave a file that is neither.
Write(e) ==
    /\ pc[e] = "write"
    /\ \E torn \in {FALSE} \cup {TRUE : o \in {o \in Editors \ {e} : pc[o] = "write"}} :
           /\ disk' = [torn |-> torn, list |-> IF torn THEN <<>> ELSE local[e].snapshot]
           /\ newest' = IF newest = e /\ ~torn THEN "disk"
                        ELSE IF newest \in {e, "disk"} THEN None ELSE newest
    /\ AfterWrite(e)
    /\ UNCHANGED <<declared, base, patches, runtime, alone, promised, undisturbed, raced>>

\* The command ends with the error, its patch stays in memory; an error of the
\* save that follows an undo is ignored.
WriteFails(e) ==
    /\ pc[e] = "write"
    /\ disk' \in {disk, [torn |-> TRUE, list |-> <<>>]}
    /\ newest' = IF newest = e \/ (newest = "disk" /\ disk'.torn) THEN None ELSE newest
    /\ undisturbed' = FALSE
    /\ Return(e)
    /\ local' = [local EXCEPT ![e] = NoLocal]
    /\ UNCHANGED <<declared, base, patches, runtime, alone, promised, raced>>

-----------------------------------------------------------------------------
(* Reconcile, by a command or by the watcher.                              *)

\* The argument of the call: lastDesired, read without the lock.
ReadBase(e) ==
    /\ pc[e] = "base"
    /\ local' = [local EXCEPT ![e].desired = base]
    /\ Goto(e, "set")
    /\ UNCHANGED <<declared, base, patches, disk, runtime, cmd, historyVars>>

\* Mutated: the base is set after the overlay, to the patched composition.
SetBase_Patched(e) ==
    /\ pc[e] = "set"
    /\ base' = Overlay(local[e].desired, patches).rows
    /\ Goto(e, "overlay")
    /\ UNCHANGED <<declared, patches, disk, runtime, cmd, local, historyVars>>

\* setBaseDesired: what was read is written back.
SetBase(e) ==
    /\ pc[e] = "set"
    /\ base' = local[e].desired
    /\ Goto(e, "overlay")
    /\ UNCHANGED <<declared, patches, disk, runtime, cmd, local, historyVars>>

\* The watcher parses the file (and the fleet store) and sets the base.
Parse ==
    /\ pc[Watcher] = "start" \/ (Idle(Watcher) /\ local[Watcher].desired # declared)
    /\ base' = declared
    /\ local' = [local EXCEPT ![Watcher].desired = declared]
    /\ Goto(Watcher, "overlay")
    /\ raced' = (\E e \in Editors : pc[e] = "set")
    /\ undisturbed' = (undisturbed /\ \A e \in Editors : AtRest(e))
    /\ UNCHANGED <<declared, patches, disk, runtime, cmd, newest, alone, promised>>

\* The composition is refused, or not ready in time: only an edit is undone.
Rejected(p) ==
    IF p \in Editors /\ cmd[p].op = "edit"
    THEN /\ cmd' = [cmd EXCEPT ![p].failed = TRUE]
         /\ Goto(p, "undo")
    ELSE Return(p)

\* The watcher knows what it parsed last.
Kept(p) == IF p = Watcher THEN [local[p] EXCEPT !.rows = NoRows] ELSE NoLocal

\* applyOverlay and the validation.
ComputeOverlay(p) ==
    LET c == Overlay(local[p].desired, patches)
    IN  /\ pc[p] = "overlay"
        /\ IF Accepted(c)
           THEN /\ local' = [local EXCEPT ![p] = [Kept(p) EXCEPT !.rows = c.rows]]
                /\ Goto(p, "apply")
                /\ UNCHANGED <<cmd, undisturbed>>
           ELSE /\ Rejected(p)
                /\ undisturbed' = (undisturbed /\ pc'[p] = "undo")
                /\ local' = [local EXCEPT ![p] = Kept(p)]
        /\ UNCHANGED <<declared, base, patches, disk, runtime, newest, alone, promised, raced>>

\* The controller, and the wait for readiness.
Apply(p) ==
    LET ready == \A i \in Ids : local[p].rows[i] \notin NeverReady
    IN  /\ pc[p] = "apply"
        /\ runtime' = local[p].rows
        /\ IF ready THEN Return(p) ELSE Rejected(p)
        /\ local' = [local EXCEPT ![p] = Kept(p)]
        /\ undisturbed' = (undisturbed /\ ready)
        /\ UNCHANGED <<declared, base, patches, disk, newest, alone, promised, raced>>

\* A list without the edit c made: the one before it is back, if there was one.
Undoing(list, c) ==
    IF c.undo # <<>> THEN SetPatch(list, c.undo[1])
    ELSE RemovePatch(list, "replace", c.id)

Undone(e, list) ==
    /\ pc[e] = "undo"
    /\ patches' = list
    /\ promised' = [promised EXCEPT ![cmd[e].id] = cmd[e].before]
    /\ Goto(e, "save")
    /\ UNCHANGED <<declared, base, disk, runtime, cmd, local,
                   newest, alone, undisturbed, raced>>

\* Mutated: an earlier edit of the component goes with the rejected one.
Undo_Drop(e) == Undone(e, RemovePatch(patches, "replace", cmd[e].id))

\* Mutated: the list is restored in memory only.
Undo_MemoryOnly(e) ==
    /\ pc[e] = "undo"
    /\ patches' = Undoing(patches, cmd[e])
    /\ promised' = [promised EXCEPT ![cmd[e].id] = cmd[e].before]
    /\ Goto(e, "idle")
    /\ UNCHANGED <<declared, base, disk, runtime, cmd, local,
                   newest, alone, undisturbed, raced>>

\* Mutated: a rejected edit stays where there was none before.
Undo_KeepFirst(e) ==
    Undone(e, IF cmd[e].undo # <<>> THEN SetPatch(patches, cmd[e].undo[1]) ELSE patches)

\* The rejected edit is rolled back: the runtime is not reconciled again.
Undo(e) == Undone(e, Undoing(patches, cmd[e]))

-----------------------------------------------------------------------------
(* The outside.                                                            *)

\* The config file is edited.
ChangeFile(f) ==
    /\ f # declared
    /\ declared' = f
    /\ UNCHANGED <<base, patches, disk, runtime, pc, cmd, local, historyVars>>

\* FleetMutate stores what passes a dry run; the resync it starts is the watcher's.
FleetMutate(f) ==
    /\ Accepted(Overlay(f, patches))
    /\ ChangeFile(f)

\* The process dies and is started again: the overlay file is loaded, and ignored
\* when unreadable.  A write under way may have truncated it.
Restart ==
    /\ disk' \in {disk} \cup {[torn |-> TRUE, list |-> <<>>] : e \in {e \in Editors : pc[e] = "write"}}
    /\ patches' = disk'.list
    /\ base' = NoRows /\ runtime' = NoRows
    /\ pc' = AtStart
    /\ cmd' = [e \in Editors |-> NoCmd]
    /\ local' = [p \in Procs |-> NoLocal]
    /\ newest' = IF disk'.torn THEN None ELSE "disk"
    /\ alone' = Ids
    /\ promised' = [i \in Ids |-> PatchesOf(patches', i)]
    /\ undisturbed' = TRUE /\ raced' = FALSE
    /\ UNCHANGED declared

\* The next step of a command under way.
Advance(e) ==
    \/ SetRemoval(e) \/ Snapshot(e) \/ Write(e) \/ WriteFails(e)
    \/ ReadBase(e) \/ SetBase(e) \/ ComputeOverlay(e) \/ Apply(e)
    \/ Undo(e)

Reload == Parse \/ ComputeOverlay(Watcher) \/ Apply(Watcher)

-----------------------------------------------------------------------------
(* Properties.                                                             *)

Patch == [op : {"replace", "remove"}, id : Ids, value : Values \cup {Absent}]

OverlayTypeOK ==
    /\ declared \in Files
    /\ \A k \in DOMAIN patches : patches[k] \in Patch
    /\ \A k \in DOMAIN disk.list : disk.list[k] \in Patch
    /\ pc \in [Procs -> {"start", "idle", "remove", "save", "write", "base", "set", "overlay", "apply", "undo"}]
    /\ newest \in Editors \cup {"disk", None}
    /\ alone \subseteq Ids

\* Commands on different components do not disturb each other: while the commands
\* on a component do not overlap among themselves, its patches are at every moment
\* those that running them one after the other would leave, a rejected edit
\* leaving no trace, whatever is done to the other components meanwhile.
EditsAreIsolated ==
    \A i \in alone : PatchesOf(patches, i) = promised[i]

\* At rest the newest snapshot is what is in memory: a process that stops then,
\* and whose newest snapshot was the last one written, starts again with every
\* decision it had.  (Two saves that overlap may leave the older one in the file,
\* or none that can be read.)
NewestSnapshotSurvives ==
    Quiet /\ newest = "disk" => ~disk.torn /\ disk.list = patches

\* At rest the runtime is what the base and the patches say, unless commands
\* overlapped, a save failed, or a reconcile failed that is not undone since the
\* last start.
RuntimeFollowsOverlay ==
    Quiet /\ undisturbed =>
        Overlay(base, patches).ok /\ Overlay(base, patches).rows = runtime

\* At rest the patches apply to what the file declares now, and to nothing older,
\* unless the last reload fell between a command's read of the base and its write.
BaseFollowsFile ==
    Quiet /\ ~raced => base = declared
=============================================================================

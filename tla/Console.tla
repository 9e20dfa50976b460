------------------------------ MODULE Console ------------------------------
(***************************************************************************)
(* The console: operators who edit, uninstall and install components,      *)
(* a config file that changes, a process that is restarted (HostOverlay),  *)
(* and pages of the alarm-demo plugin open in browsers (AlarmConsole).     *)
(*                                                                         *)
(* The two meet in the hub: "alarms" is answered while the plugin's        *)
(* component is in the runtime, the other queries by the console bridge,   *)
(* whose queries the runtime always has.  Any request may fail on its way. *)
(***************************************************************************)
EXTENDS HostOverlay, AlarmConsole

CONSTANTS
    Plugin,   \* the component that serves "alarms"
    Mixes     \* bound: how many operations of each kind are begun, at most

Kinds == {"command", "outside", "page"}

ASSUME ConsoleAssumption == Plugin \in Ids /\ Mixes \subseteq [Kinds -> Nat]

VARIABLES
    work,    \* operations begun, by kind
    served   \* history: served[p]: the plugin was there since the last load began

vars == <<overlayVars, pageVars, work, served>>

Serving == runtime[Plugin] # Absent

\* Mutated: the hub keeps a query of a component that was removed.
Serves_Forever(p, q) == TRUE

\* The hub has the query.
Serves(p, q) == p = "AlarmPage" /\ q = "rows" => Serving

Init == OverlayInit /\ PageInit /\ work = [k \in Kinds |-> 0] /\ served = [p \in Pages |-> FALSE]

\* An operation is begun: counted, for the bound.
Starts(kind) ==
    /\ work' = [work EXCEPT ![kind] = @ + 1]
    /\ \E m \in Mixes : \A k \in Kinds : work'[k] <= m[k]

Keeps == work' = work

Command(e) ==
    \E i \in Ids : \/ \E v \in EditValues : Edit(e, i, v)
                   \/ Uninstall(e, i)
                   \/ Install(e, i)

OverlayStep ==
    \/ Starts("command") /\ \E e \in Editors : Command(e)
    \/ Starts("outside") /\ (Restart \/ \E f \in Files : ChangeFile(f) \/ FleetMutate(f))
    \/ Keeps /\ ((\E e \in Editors : Advance(e)) \/ Reload)

Answer(p, q) ==
    \/ \E a \in AnswersTo(p, q) : Serves(p, q) /\ Answered(p, q, a)
    \/ Refused(p, q)

PageStep ==
    \E p \in Pages :
        \/ Starts("page") /\ (OpenPage(p) \/ ClosePage(p) \/ Refresh(p) \/ TriggerCollection(p))
        \/ Keeps /\ ((\E q \in Queries : Answer(p, q)) \/ DrawChart(p) \/ TriggerAnswered(p))

SeePlugin ==
    served' = [p \in Pages |-> Serving' \/ (served[p] /\ loads'[p] <= loads[p])]

Next ==
    /\ \/ OverlayStep /\ UNCHANGED pageVars
       \/ PageStep /\ UNCHANGED overlayVars
    /\ SeePlugin

Spec == Init /\ [][Next]_vars

-----------------------------------------------------------------------------

TypeOK == OverlayTypeOK /\ PageTypeOK /\ work \in [Kinds -> Nat]

\* Alarms shown without an error are alarms the plugin gave after the page was
\* opened or refreshed for them: once the plugin has been uninstalled, its rows
\* stay on an open page, and the next refresh says that they are old.
AlarmsComeFromThePlugin ==
    \A p \in Pages \cap {"AlarmPage"} :
        page[p].mounted /\ ~page[p].loading /\ ~page[p].error => served[p]
=============================================================================

---------------------------- MODULE ToolBundles ----------------------------
(***************************************************************************)
(* Tools that an operator adds while the process runs: one by one             *)
(* (src/src/tools/dynamic-registry.ts, governance.ts) or as a bundle           *)
(* (src/src/tools/bundles.ts, bundle-lifecycle.ts), over the registry that runs *)
(* call them from (src/src/tools/registry.ts).                                *)
(*                                                                         *)
(* A request runs to its end without a pause, but commits tool by tool: the    *)
(* process may die between any two, and registers at its start what the table   *)
(* has as approved.                                                          *)
(***************************************************************************)
EXTENDS Integers, FiniteSets, Sequences

CONSTANTS
    Tools,      \* tool ids
    Static,     \* those of the program
    Bundles,    \* imports of bundles
    Manifest,   \* Manifest[b]: the tools of b, in their order
    Operator,   \* who submits a single tool
    None

\* A tool asks for a scope it may have, for "write", or for "write" between blanks.
BundleTool == [id : Tools, scope : {"read", "write", " write "}]

ASSUME ToolBundlesAssumption ==
    /\ Static \subseteq Tools
    /\ Manifest \in [Bundles -> Seq(BundleTool)]
    /\ Operator \notin Bundles /\ None \notin Bundles \cup {Operator}
    /\ "program" \notin Bundles \cup {Operator, None}

VARIABLES
    bundles,   \* table tool_bundle_imports: lifecycle_state
    table,     \* table dynamic_tools
    registry,  \* ToolRegistry.tools: whose handler it is
    dynamic,   \* ToolRegistry.dynamicTools
    touched    \* history: bundles that were cut short, or lost a tool to somebody else

vars == <<bundles, table, registry, dynamic, touched>>

-----------------------------------------------------------------------------
(* Types *)

Lifecycle == {"none", "previewed", "approved", "enabled", "disabled", "uninstalled", "failed"}

Owners == Bundles \cup {Operator}

ToolRow == [state : {"none", "pending", "approved"}, by : Owners \cup {None}]

NoRow == [state |-> "none", by |-> None]

TypeOK ==
    /\ bundles \in [Bundles -> Lifecycle]
    /\ table \in [Tools -> ToolRow]
    /\ registry \in [Tools -> Owners \cup {"program", None}]
    /\ dynamic \subseteq Tools
    /\ touched \subseteq Bundles

-----------------------------------------------------------------------------
(* The registry *)

ToolsOf(b) == {Manifest[b][i].id : i \in DOMAIN Manifest[b]}

\* What its preview finds of a bundle: it has tools, each once, and none may write.
Valid(b) ==
    /\ Manifest[b] # <<>>
    /\ \A i, j \in DOMAIN Manifest[b] : Manifest[b][i].id = Manifest[b][j].id => i = j
    /\ \A i \in DOMAIN Manifest[b] : Manifest[b][i].scope # "write"

\* The registry looks at the scopes without their blanks.
Registrable(b, i) == Manifest[b][i].scope = "read"

Malformed(b) == \E i \in DOMAIN Manifest[b] : ~Registrable(b, i)

First(b, n) == {Manifest[b][i].id : i \in 1..n}

\* Those that come after the first k of them.
After(b, k, n) == {Manifest[b][i].id : i \in (k + 1)..n}

Approved(t) == table[t].state = "approved"

\* DynamicToolRegistry.has
Has(t) == registry[t] # None \/ table[t].state # "none"

\* registerApproved, for some tools of one owner: the row, then registerDynamic over
\* whatever has the id.
RegisterAll(ids, owner) ==
    /\ table' = [t \in Tools |-> IF t \in ids THEN [state |-> "approved", by |-> owner] ELSE table[t]]
    /\ registry' = [t \in Tools |-> IF t \in ids THEN owner ELSE registry[t]]
    /\ dynamic' = dynamic \cup ids

\* ToolRegistry.unregisterDynamic
UnregisterDynamic(ids) ==
    /\ registry' = [t \in Tools |-> IF t \in ids \cap dynamic THEN None ELSE registry[t]]
    /\ dynamic' = dynamic \ ids

\* DynamicToolRegistry.unregister, for each: whatever is registered dynamically goes,
\* and its row.
UnregisterAll(ids) ==
    /\ UnregisterDynamic(ids)
    /\ table' = [t \in Tools |-> IF t \in ids THEN NoRow ELSE table[t]]

\* Whose tools these are.
OwnersOf(ids) == {table[t].by : t \in ids} \cap Bundles

\* The process starts with these rows: approved tools first, then the program's own,
\* which take their ids back.
StartWith(rows) ==
    LET approved == {t \in Tools : rows[t].state = "approved"}
    IN  /\ table' = rows
        /\ registry' = [t \in Tools |-> IF t \in Static THEN "program"
                                        ELSE IF t \in approved THEN rows[t].by ELSE None]
        /\ dynamic' = approved

-----------------------------------------------------------------------------
(* Single tools *)

\* Mutant of RegisterTool: the tool that was approved stays at work.
RegisterToolBeside(t) ==
    /\ table' = [table EXCEPT ![t] = [state |-> "pending", by |-> Operator]]
    /\ touched' = touched \cup OwnersOf({t})
    /\ UNCHANGED <<bundles, registry, dynamic>>

\* POST /tools/dynamic: whatever has the id is replaced, awaits approval and may not
\* be called.
RegisterTool(t) ==
    /\ table' = [table EXCEPT ![t] = [state |-> "pending", by |-> Operator]]
    /\ UnregisterDynamic({t})
    /\ touched' = touched \cup OwnersOf({t})
    /\ UNCHANGED bundles

\* POST /admin/tools/approve: the approval, then activateApprovedTool.
ApproveTool(t) ==
    /\ table[t].state # "none"
    /\ RegisterAll({t}, table[t].by)
    /\ UNCHANGED <<bundles, touched>>

\* The process dies between the two.
DieApproving(t) ==
    /\ table[t].state # "none"
    /\ StartWith([table EXCEPT ![t] = [state |-> "approved", by |-> table[t].by]])
    /\ UNCHANGED <<bundles, touched>>

\* DELETE /tools/dynamic/t
RemoveTool(t) ==
    /\ t \in dynamic \/ table[t].state # "none"
    /\ UnregisterAll({t})
    /\ touched' = touched \cup OwnersOf({t})
    /\ UNCHANGED bundles

-----------------------------------------------------------------------------
(* Bundles *)

SetState(b, state) == bundles' = [bundles EXCEPT ![b] = state]

Preview(b) ==
    /\ bundles[b] = "none"
    /\ SetState(b, "previewed")
    /\ UNCHANGED <<table, registry, dynamic, touched>>

ApproveBundle(b) ==
    /\ Valid(b) /\ bundles[b] = "previewed"
    /\ SetState(b, "approved")
    /\ UNCHANGED <<table, registry, dynamic, touched>>

\* Valid, approved or disabled, and none of its ids is taken.
MayEnable(b) ==
    /\ Valid(b) /\ bundles[b] \in {"approved", "disabled"}
    /\ \A t \in ToolsOf(b) : ~Has(t)

Enable(b) ==
    /\ MayEnable(b) /\ ~Malformed(b)
    /\ RegisterAll(ToolsOf(b), b)
    /\ SetState(b, "enabled")
    /\ touched' = touched \ {b}

\* Mutant of FailToEnable: the tools that were registered stay.
FailToEnableHalfway(b) ==
    /\ MayEnable(b)
    /\ \E n \in 0..(Len(Manifest[b]) - 1) :
          /\ \A i \in 1..n : Registrable(b, i)
          /\ ~Registrable(b, n + 1)
          /\ RegisterAll(First(b, n), b)
    /\ SetState(b, "failed")
    /\ UNCHANGED touched

\* One tool is refused: those before it were registered, and are unregistered again.
FailToEnable(b) ==
    /\ MayEnable(b) /\ Malformed(b)
    /\ SetState(b, "failed")
    /\ UNCHANGED <<table, registry, dynamic, touched>>

\* The process dies after some of the tools are registered.
DieEnabling(b, n) ==
    /\ MayEnable(b) /\ n \in DOMAIN Manifest[b]
    /\ \A i \in 1..n : Registrable(b, i)
    /\ StartWith([t \in Tools |-> IF t \in First(b, n) THEN [state |-> "approved", by |-> b]
                                  ELSE table[t]])
    /\ touched' = touched \cup {b}
    /\ UNCHANGED bundles

\* The process dies after some of them are unregistered, in the same order, because one
\* tool was refused: the last of them stay.
DieUnwinding(b, k, n) ==
    /\ MayEnable(b)
    /\ n + 1 \in DOMAIN Manifest[b] /\ k \in 1..n
    /\ \A i \in 1..n : Registrable(b, i)
    /\ ~Registrable(b, n + 1)
    /\ StartWith([t \in Tools |-> IF t \in After(b, k, n) THEN [state |-> "approved", by |-> b]
                                  ELSE table[t]])
    /\ touched' = touched \cup {b}
    /\ UNCHANGED bundles

Disable(b) ==
    /\ bundles[b] = "enabled"
    /\ UnregisterAll(ToolsOf(b))
    /\ SetState(b, "disabled")
    /\ touched' = (touched \cup OwnersOf(ToolsOf(b))) \ {b}

\* uninstall unregisters whatever has its ids, also if the bundle was never enabled,
\* and also if the import is uninstalled already, which is refused only then.
Uninstall(b) ==
    /\ bundles[b] # "none"
    /\ UnregisterAll(ToolsOf(b))
    /\ SetState(b, "uninstalled")
    /\ touched' = (touched \cup OwnersOf(ToolsOf(b))) \ {b}

\* The process dies after some of the tools are unregistered.
DieRemoving(b, n) ==
    /\ bundles[b] # "none" /\ n \in DOMAIN Manifest[b]
    /\ StartWith([t \in Tools |-> IF t \in First(b, n) THEN NoRow ELSE table[t]])
    /\ touched' = touched \cup OwnersOf(First(b, n))
    /\ UNCHANGED bundles

\* The process ends, and starts again.
Restart ==
    /\ StartWith(table)
    /\ UNCHANGED <<bundles, touched>>

-----------------------------------------------------------------------------

Init ==
    /\ bundles = [b \in Bundles |-> "none"]
    /\ table = [t \in Tools |-> NoRow]
    /\ registry = [t \in Tools |-> IF t \in Static THEN "program" ELSE None]
    /\ dynamic = {} /\ touched = {}

SingleTool(t) ==
    \/ RegisterTool(t)
    \/ ApproveTool(t)
    \/ DieApproving(t)
    \/ RemoveTool(t)

Bundle(b) ==
    \/ Preview(b)
    \/ ApproveBundle(b)
    \/ Enable(b)
    \/ FailToEnable(b)
    \/ Disable(b)
    \/ Uninstall(b)
    \/ \E n \in DOMAIN Manifest[b] :
          \/ DieEnabling(b, n)
          \/ \E k \in 1..n : DieUnwinding(b, k, n)
          \/ DieRemoving(b, n)

Next ==
    \/ \E t \in Tools : SingleTool(t)
    \/ \E b \in Bundles : Bundle(b)
    \/ Restart

Spec == Init /\ [][Next]_vars

-----------------------------------------------------------------------------
(* Properties *)

\* What runs may call is what the table has as approved, in the version that was
\* approved, through every resubmission, failure, death and restart; only an id of
\* the program's may be served by the program instead.
\* (dynamic-registry.ts:136, 217, 246.)
RegistryFollowsTable ==
    /\ dynamic = {t \in Tools : Approved(t)}
    /\ \A t \in Tools :
          /\ Approved(t) => registry[t] = table[t].by \/ (t \in Static /\ registry[t] = "program")
          /\ registry[t] \in Owners => Approved(t) /\ registry[t] = table[t].by

\* A bundle that is enabled has all of its tools at work, and one that is not has none,
\* unless somebody else took its ids or a death cut a request short.
\* (bundle-lifecycle.ts:35, 91, 109.)
BundleServes(b) ==
    /\ bundles[b] = "enabled" => \A t \in ToolsOf(b) : Approved(t) /\ table[t].by = b
    /\ bundles[b] # "enabled" => \A t \in Tools : table[t].by # b

EnabledServes == \A b \in Bundles \ touched : BundleServes(b)
=============================================================================

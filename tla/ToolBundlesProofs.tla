------------------------- MODULE ToolBundlesProofs -------------------------
(***************************************************************************)
(* Proofs about ToolBundles, for any tools, bundles and manifests.             *)
(*                                                                         *)
(* RegistryFollowsTable with the types is inductive.  EnabledServes needs one   *)
(* fact more: a bundle owns none but its own tools, so that removing them       *)
(* leaves it with none.                                                      *)
(***************************************************************************)
EXTENDS ToolBundles, TLAPS

\* What a bundle owns is in its manifest.
OwnTools == \A t \in Tools : \A b \in Bundles : table[t].by = b => t \in ToolsOf(b)

LEMMA ManifestIds == ASSUME NEW b \in Bundles PROVE ToolsOf(b) \subseteq Tools
<1>1. Manifest[b] \in Seq(BundleTool)
  BY ToolBundlesAssumption
<1>2. ASSUME NEW i \in DOMAIN Manifest[b] PROVE Manifest[b][i].id \in Tools
  <2>1. Manifest[b][i] \in BundleTool
    BY <1>1, <1>2
  <2>2. QED
    BY <2>1 DEF BundleTool
<1>3. QED
  BY <1>2 DEF ToolsOf

LEMMA FirstIds ==
    ASSUME NEW b \in Bundles, NEW n \in DOMAIN Manifest[b]
    PROVE  First(b, n) \subseteq ToolsOf(b)
<1>1. Manifest[b] \in Seq(BundleTool)
  BY ToolBundlesAssumption
<1>2. 1..n \subseteq DOMAIN Manifest[b]
  BY <1>1
<1>3. QED
  BY <1>2 DEF First, ToolsOf

LEMMA AfterIds ==
    ASSUME NEW b \in Bundles, NEW n \in DOMAIN Manifest[b], NEW k \in 1..n
    PROVE  After(b, k, n) \subseteq ToolsOf(b)
<1>1. Manifest[b] \in Seq(BundleTool)
  BY ToolBundlesAssumption
<1>2. (k + 1)..n \subseteq DOMAIN Manifest[b]
  BY <1>1
<1>3. QED
  BY <1>2 DEF After, ToolsOf

-----------------------------------------------------------------------------
(* The registry follows the table *)

\* A start registers what the table has.
LEMMA StartFollows ==
    ASSUME NEW rows \in [Tools -> ToolRow], StartWith(rows)
    PROVE  /\ table' = rows
           /\ registry' \in [Tools -> Owners \cup {"program", None}]
           /\ dynamic' \subseteq Tools
           /\ RegistryFollowsTable'
BY ToolBundlesAssumption DEF StartWith, RegistryFollowsTable, Approved, ToolRow, Owners

\* So does the registration of tools.
LEMMA RegisterFollows ==
    ASSUME TypeOK, RegistryFollowsTable, NEW ids \in SUBSET Tools, NEW owner \in Owners \cup {None},
           RegisterAll(ids, owner)
    PROVE  /\ table' \in [Tools -> ToolRow]
           /\ registry' \in [Tools -> Owners \cup {"program", None}]
           /\ dynamic' \subseteq Tools
           /\ RegistryFollowsTable'
BY DEF RegisterAll, TypeOK, RegistryFollowsTable, Approved, ToolRow, Owners

\* And their removal.
LEMMA UnregisterFollows ==
    ASSUME TypeOK, RegistryFollowsTable, NEW ids \in SUBSET Tools, UnregisterAll(ids)
    PROVE  /\ table' \in [Tools -> ToolRow]
           /\ registry' \in [Tools -> Owners \cup {"program", None}]
           /\ dynamic' \subseteq Tools
           /\ RegistryFollowsTable'
BY ToolBundlesAssumption
   DEF UnregisterAll, UnregisterDynamic, TypeOK, RegistryFollowsTable, Approved, ToolRow, NoRow, Owners

\* And a submission, which waits for approval.
LEMMA SubmissionFollows ==
    ASSUME TypeOK, RegistryFollowsTable, NEW t \in Tools, RegisterTool(t)
    PROVE  TypeOK' /\ RegistryFollowsTable'
<1>1. /\ table' = [table EXCEPT ![t] = [state |-> "pending", by |-> Operator]]
      /\ dynamic' = dynamic \ {t}
      /\ registry' = [s \in Tools |-> IF s \in {t} \cap dynamic THEN None ELSE registry[s]]
  BY DEF RegisterTool, UnregisterDynamic
<1>2. [state |-> "pending", by |-> Operator] \in ToolRow
  BY DEF ToolRow, Owners
<1>3. TypeOK'
  BY <1>1, <1>2 DEF RegisterTool, TypeOK, OwnersOf
<1>4. RegistryFollowsTable'
  BY <1>1, ToolBundlesAssumption DEF TypeOK, RegistryFollowsTable, Approved, Owners
<1>5. QED
  BY <1>3, <1>4

\* And so does every step.
LEMMA StepFollows ==
    ASSUME TypeOK, RegistryFollowsTable, [Next]_vars
    PROVE  TypeOK' /\ RegistryFollowsTable'
<1> USE DEF TypeOK, Lifecycle
<1>1. ASSUME NEW t \in Tools, SingleTool(t) PROVE TypeOK' /\ RegistryFollowsTable'
  <2>1. CASE RegisterTool(t)
    BY <2>1, SubmissionFollows
  <2>2. CASE ApproveTool(t)
    <3>1. table[t].by \in Owners \cup {None}
      BY DEF ToolRow
    <3>2. QED
      BY <2>2, <3>1, RegisterFollows DEF ApproveTool
  <2>3. CASE DieApproving(t)
    <3> DEFINE rows == [table EXCEPT ![t] = [state |-> "approved", by |-> table[t].by]]
    <3>1. [state |-> "approved", by |-> table[t].by] \in ToolRow
      BY DEF ToolRow
    <3>2. rows \in [Tools -> ToolRow]
      BY <3>1
    <3>3. StartWith(rows) /\ UNCHANGED <<bundles, touched>>
      BY <2>3 DEF DieApproving
    <3> HIDE DEF rows
    <3>4. QED
      BY <3>2, <3>3, StartFollows
  <2>4. CASE RemoveTool(t)
    BY <2>4, UnregisterFollows DEF RemoveTool, OwnersOf
  <2>5. QED
    BY <1>1, <2>1, <2>2, <2>3, <2>4 DEF SingleTool
<1>2. ASSUME NEW b \in Bundles, Bundle(b) PROVE TypeOK' /\ RegistryFollowsTable'
  <2> USE DEF SetState
  <2>1. CASE Preview(b) \/ ApproveBundle(b) \/ FailToEnable(b)
    BY <2>1 DEF Preview, ApproveBundle, FailToEnable, RegistryFollowsTable, Approved
  <2>2. CASE Enable(b)
    BY <2>2, ManifestIds, RegisterFollows DEF Enable, Owners
  <2>3. CASE Disable(b) \/ Uninstall(b)
    BY <2>3, ManifestIds, UnregisterFollows DEF Disable, Uninstall, OwnersOf
  <2>4. ASSUME NEW n \in DOMAIN Manifest[b], DieEnabling(b, n)
        PROVE  TypeOK' /\ RegistryFollowsTable'
    <3> DEFINE rows == [t \in Tools |-> IF t \in First(b, n) THEN [state |-> "approved", by |-> b]
                                        ELSE table[t]]
    <3>1. rows \in [Tools -> ToolRow]
      BY DEF ToolRow, Owners
    <3>2. StartWith(rows) /\ touched' = touched \cup {b} /\ UNCHANGED bundles
      BY <2>4 DEF DieEnabling
    <3> HIDE DEF rows
    <3>3. QED
      BY <3>1, <3>2, StartFollows
  <2>7. ASSUME NEW n \in DOMAIN Manifest[b], NEW k \in 1..n, DieUnwinding(b, k, n)
        PROVE  TypeOK' /\ RegistryFollowsTable'
    <3> DEFINE rows == [t \in Tools |-> IF t \in After(b, k, n) THEN [state |-> "approved", by |-> b]
                                        ELSE table[t]]
    <3>1. rows \in [Tools -> ToolRow]
      BY DEF ToolRow, Owners
    <3>2. StartWith(rows) /\ touched' = touched \cup {b} /\ UNCHANGED bundles
      BY <2>7 DEF DieUnwinding
    <3> HIDE DEF rows
    <3>3. QED
      BY <3>1, <3>2, StartFollows
  <2>5. ASSUME NEW n \in DOMAIN Manifest[b], DieRemoving(b, n)
        PROVE  TypeOK' /\ RegistryFollowsTable'
    <3> DEFINE rows == [t \in Tools |-> IF t \in First(b, n) THEN NoRow ELSE table[t]]
    <3>1. rows \in [Tools -> ToolRow]
      BY DEF ToolRow, NoRow
    <3>2. StartWith(rows) /\ touched' = touched \cup OwnersOf(First(b, n)) /\ UNCHANGED bundles
      BY <2>5 DEF DieRemoving
    <3> HIDE DEF rows
    <3>3. QED
      BY <3>1, <3>2, StartFollows DEF OwnersOf
  <2>6. QED
    BY <1>2, <2>1, <2>2, <2>3, <2>4, <2>5, <2>7 DEF Bundle
<1>3. CASE Restart
  BY <1>3, StartFollows DEF Restart
<1>4. CASE UNCHANGED vars
  BY <1>4 DEF vars, RegistryFollowsTable, Approved
<1>5. QED
  BY <1>1, <1>2, <1>3, <1>4 DEF Next

LEMMA InitFollows == ASSUME Init PROVE TypeOK /\ RegistryFollowsTable
BY ToolBundlesAssumption
   DEF Init, TypeOK, RegistryFollowsTable, Approved, NoRow, ToolRow, Owners, Lifecycle

\* The variables keep their types, and what runs may call is what the table has as
\* approved, in the version that was approved.
THEOREM RegistryFollowsTableAlways == Spec => [](TypeOK /\ RegistryFollowsTable)
<1>1. Init => TypeOK /\ RegistryFollowsTable
  BY InitFollows
<1>2. (TypeOK /\ RegistryFollowsTable) /\ [Next]_vars => (TypeOK /\ RegistryFollowsTable)'
  BY StepFollows
<1>3. QED
  BY <1>1, <1>2, PTL DEF Spec

-----------------------------------------------------------------------------
(* An enabled bundle serves *)

\* Tools of bundle b, of which none has a row, are given to it.
LEMMA GivenServes ==
    ASSUME TypeOK, OwnTools, EnabledServes, NEW b \in Bundles, NEW ids \in SUBSET ToolsOf(b),
           \A t \in ToolsOf(b) : table[t].state = "none",
           table' = [t \in Tools |-> IF t \in ids THEN [state |-> "approved", by |-> b] ELSE table[t]],
           \A c \in Bundles \ {b} : bundles'[c] = bundles[c] /\ (c \notin touched' => c \notin touched)
    PROVE  OwnTools' /\ \A c \in Bundles \ (touched' \cup {b}) : BundleServes(c)'
<1>1. OwnTools'
  BY DEF OwnTools
<1>2. ASSUME NEW c \in Bundles \ (touched' \cup {b}) PROVE BundleServes(c)'
  <2>1. BundleServes(c) /\ bundles'[c] = bundles[c]
    BY DEF EnabledServes
  <2>2. CASE bundles[c] = "enabled"
    <3>1. \A t \in ToolsOf(c) : t \in Tools /\ t \notin ids
      BY <2>1, <2>2, ManifestIds DEF BundleServes, Approved
    <3>2. QED
      BY <2>1, <2>2, <3>1 DEF BundleServes, Approved
  <2>3. CASE bundles[c] # "enabled"
    BY <2>1, <2>3 DEF BundleServes, Approved
  <2>4. QED
    BY <2>2, <2>3
<1>3. QED
  BY <1>1, <1>2

\* Rows are deleted or given to the operator, and the bundles that had them are marked.
LEMMA TakenServes ==
    ASSUME TypeOK, OwnTools, EnabledServes, NEW ids \in SUBSET Tools, NEW row,
           row.by \notin Bundles,
           table' = [t \in Tools |-> IF t \in ids THEN row ELSE table[t]],
           NEW marked,
           \A c \in Bundles \ marked : bundles'[c] = bundles[c] /\
                (c \notin touched' => c \notin touched /\ c \notin OwnersOf(ids))
    PROVE  OwnTools' /\ \A c \in Bundles \ (touched' \cup marked) : BundleServes(c)'
<1>1. OwnTools'
  BY DEF OwnTools
<1>2. ASSUME NEW c \in Bundles \ (touched' \cup marked) PROVE BundleServes(c)'
  <2>1. BundleServes(c) /\ bundles'[c] = bundles[c] /\ \A t \in ids : table[t].by # c
    BY DEF EnabledServes, OwnersOf
  <2>2. CASE bundles[c] = "enabled"
    <3>1. \A t \in ToolsOf(c) : t \in Tools /\ t \notin ids
      BY <2>1, <2>2, ManifestIds DEF BundleServes
    <3>2. QED
      BY <2>1, <2>2, <3>1 DEF BundleServes, Approved
  <2>3. CASE bundles[c] # "enabled"
    BY <2>1, <2>3 DEF BundleServes, Approved
  <2>4. QED
    BY <2>2, <2>3
<1>3. QED
  BY <1>1, <1>2

\* A tool is approved, for whom it was submitted.
LEMMA ApprovedServes ==
    ASSUME TypeOK, OwnTools, EnabledServes, NEW t \in Tools,
           table' = [s \in Tools |-> IF s = t THEN [state |-> "approved", by |-> table[t].by] ELSE table[s]],
           UNCHANGED <<bundles, touched>>
    PROVE  OwnTools' /\ EnabledServes'
<1>1. \A s \in Tools : table'[s].by = table[s].by /\ (Approved(s) => Approved(s)')
  BY DEF Approved
<1>2. QED
  BY <1>1, ManifestIds DEF OwnTools, EnabledServes, BundleServes

LEMMA StepServes ==
    ASSUME TypeOK, OwnTools, EnabledServes, [Next]_vars
    PROVE  OwnTools' /\ EnabledServes'
<1>0. NoRow.by \notin Bundles
  BY ToolBundlesAssumption DEF NoRow
<1>1. ASSUME NEW t \in Tools, SingleTool(t) PROVE OwnTools' /\ EnabledServes'
  <2>1. CASE RegisterTool(t)
    <3> DEFINE row == [state |-> "pending", by |-> Operator]
    <3>1. table' = [s \in Tools |-> IF s \in {t} THEN row ELSE table[s]]
      BY <2>1 DEF RegisterTool, TypeOK
    <3>2. row.by \notin Bundles
      BY ToolBundlesAssumption
    <3>3. bundles' = bundles /\ touched' = touched \cup OwnersOf({t})
      BY <2>1 DEF RegisterTool
    <3> HIDE DEF row
    <3>4. OwnTools' /\ \A c \in Bundles \ (touched' \cup {}) : BundleServes(c)'
      BY <3>1, <3>2, <3>3, TakenServes
    <3>5. QED
      BY <3>4 DEF EnabledServes
  <2>2. CASE ApproveTool(t) \/ DieApproving(t)
    <3>1. table' = [s \in Tools |-> IF s = t THEN [state |-> "approved", by |-> table[t].by] ELSE table[s]]
      BY <2>2 DEF ApproveTool, DieApproving, RegisterAll, StartWith, TypeOK
    <3>2. QED
      BY <2>2, <3>1, ApprovedServes DEF ApproveTool, DieApproving
  <2>3. CASE RemoveTool(t)
    <3>1. /\ table' = [s \in Tools |-> IF s \in {t} THEN NoRow ELSE table[s]]
          /\ bundles' = bundles /\ touched' = touched \cup OwnersOf({t})
      BY <2>3 DEF RemoveTool, UnregisterAll
    <3>2. OwnTools' /\ \A c \in Bundles \ (touched' \cup {}) : BundleServes(c)'
      BY <1>0, <3>1, TakenServes
    <3>3. QED
      BY <3>2 DEF EnabledServes
  <2>4. QED
    BY <1>1, <2>1, <2>2, <2>3 DEF SingleTool
<1>2. ASSUME NEW b \in Bundles, Bundle(b) PROVE OwnTools' /\ EnabledServes'
  <2>0. ToolsOf(b) \subseteq Tools /\ \A n \in DOMAIN Manifest[b] : First(b, n) \subseteq ToolsOf(b)
    BY ManifestIds, FirstIds
  <2>1. CASE Preview(b) \/ ApproveBundle(b) \/ FailToEnable(b)
    <3>1. /\ UNCHANGED <<table, touched>>
          /\ bundles[b] # "enabled" /\ bundles'[b] # "enabled"
          /\ \A c \in Bundles \ {b} : bundles'[c] = bundles[c]
      BY <2>1 DEF Preview, ApproveBundle, FailToEnable, MayEnable, SetState, TypeOK
    <3>2. \A c \in Bundles : BundleServes(c) => BundleServes(c)'
      BY <3>1 DEF BundleServes, Approved
    <3>3. QED
      BY <3>1, <3>2 DEF OwnTools, EnabledServes
  <2>2. CASE Enable(b)
    <3>1. /\ \A t \in ToolsOf(b) : table[t].state = "none"
          /\ table' = [t \in Tools |-> IF t \in ToolsOf(b) THEN [state |-> "approved", by |-> b]
                                        ELSE table[t]]
          /\ bundles' = [bundles EXCEPT ![b] = "enabled"] /\ touched' = touched \ {b}
      BY <2>2 DEF Enable, MayEnable, Has, RegisterAll, SetState
    <3>2. OwnTools' /\ \A c \in Bundles \ (touched' \cup {b}) : BundleServes(c)'
      <4>1. \A c \in Bundles \ {b} : bundles'[c] = bundles[c] /\ (c \notin touched' => c \notin touched)
        BY <3>1 DEF TypeOK
      <4>2. QED
        BY <3>1, <4>1, GivenServes
    <3>3. BundleServes(b)'
      BY <2>0, <3>1 DEF BundleServes, Approved, TypeOK
    <3>4. QED
      BY <3>2, <3>3 DEF EnabledServes
  <2>3. CASE Disable(b) \/ Uninstall(b)
    <3>1. /\ table' = [t \in Tools |-> IF t \in ToolsOf(b) THEN NoRow ELSE table[t]]
          /\ bundles'[b] # "enabled" /\ \A c \in Bundles \ {b} : bundles'[c] = bundles[c]
          /\ touched' = (touched \cup OwnersOf(ToolsOf(b))) \ {b}
      BY <2>3 DEF Disable, Uninstall, UnregisterAll, SetState, TypeOK
    <3>2. OwnTools' /\ \A c \in Bundles \ (touched' \cup {b}) : BundleServes(c)'
      <4>1. \A c \in Bundles \ {b} : bundles'[c] = bundles[c] /\
               (c \notin touched' => c \notin touched /\ c \notin OwnersOf(ToolsOf(b)))
        BY <3>1
      <4>2. QED
        BY <1>0, <2>0, <3>1, <4>1, TakenServes
    <3>3. BundleServes(b)'
      BY <1>0, <3>1 DEF BundleServes, OwnTools
    <3>4. QED
      BY <3>2, <3>3 DEF EnabledServes
  <2>4. ASSUME NEW n \in DOMAIN Manifest[b], DieEnabling(b, n) PROVE OwnTools' /\ EnabledServes'
    <3>1. /\ \A t \in ToolsOf(b) : table[t].state = "none"
          /\ table' = [t \in Tools |-> IF t \in First(b, n) THEN [state |-> "approved", by |-> b]
                                        ELSE table[t]]
          /\ bundles' = bundles /\ touched' = touched \cup {b}
      BY <2>4 DEF DieEnabling, MayEnable, Has, StartWith
    <3>2. OwnTools' /\ \A c \in Bundles \ (touched' \cup {b}) : BundleServes(c)'
      BY <2>0, <3>1, GivenServes
    <3>3. QED
      BY <3>1, <3>2 DEF EnabledServes
  <2>7. ASSUME NEW n \in DOMAIN Manifest[b], NEW k \in 1..n, DieUnwinding(b, k, n)
        PROVE  OwnTools' /\ EnabledServes'
    <3>1. /\ \A t \in ToolsOf(b) : table[t].state = "none"
          /\ table' = [t \in Tools |-> IF t \in After(b, k, n) THEN [state |-> "approved", by |-> b]
                                        ELSE table[t]]
          /\ bundles' = bundles /\ touched' = touched \cup {b}
      BY <2>7 DEF DieUnwinding, MayEnable, Has, StartWith
    <3>2. OwnTools' /\ \A c \in Bundles \ (touched' \cup {b}) : BundleServes(c)'
      BY <3>1, AfterIds, GivenServes
    <3>3. QED
      BY <3>1, <3>2 DEF EnabledServes
  <2>5. ASSUME NEW n \in DOMAIN Manifest[b], DieRemoving(b, n) PROVE OwnTools' /\ EnabledServes'
    <3>1. /\ table' = [t \in Tools |-> IF t \in First(b, n) THEN NoRow ELSE table[t]]
          /\ bundles' = bundles /\ touched' = touched \cup OwnersOf(First(b, n))
      BY <2>5 DEF DieRemoving, StartWith
    <3>2. OwnTools' /\ \A c \in Bundles \ (touched' \cup {}) : BundleServes(c)'
      BY <1>0, <2>0, <3>1, TakenServes
    <3>3. QED
      BY <3>2 DEF EnabledServes
  <2>6. QED
    BY <1>2, <2>1, <2>2, <2>3, <2>4, <2>5, <2>7 DEF Bundle
<1>3. CASE Restart \/ UNCHANGED vars
  <2>1. UNCHANGED <<table, bundles, touched>>
    BY <1>3 DEF Restart, StartWith, vars
  <2>2. QED
    BY <2>1 DEF OwnTools, EnabledServes, BundleServes, Approved
<1>4. QED
  BY <1>1, <1>2, <1>3 DEF Next

\* A bundle that is enabled has all of its tools at work, and one that is not has none,
\* unless somebody else took its ids or a death cut a request short.
THEOREM EnabledServesAlways == Spec => []EnabledServes
<1>1. Init => OwnTools /\ EnabledServes
  BY ToolBundlesAssumption DEF Init, NoRow, OwnTools, EnabledServes, BundleServes
<1>2. TypeOK /\ (OwnTools /\ EnabledServes) /\ [Next]_vars => (OwnTools /\ EnabledServes)'
  BY StepServes
<1>3. QED
  BY <1>1, <1>2, RegistryFollowsTableAlways, PTL DEF Spec
=============================================================================

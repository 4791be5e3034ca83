----------------------------- MODULE Proposals -----------------------------
(***************************************************************************)
(* Self-evolution under an operator's control: proposals and their mutations  *)
(* (src/src/self-evolution/proposals.ts, mutations.ts), the settings that an   *)
(* applied one changes (src/src/server/settings.ts) and the routes of          *)
(* src/src/server/http-server.ts that lead there.                             *)
(*                                                                         *)
(* A request runs to its end without a pause.  The process may die between the *)
(* statements that a request commits: the change of the settings and its       *)
(* record are two.                                                            *)
(***************************************************************************)
EXTENDS Integers, Sequences

CONSTANTS
    Ids,        \* proposals
    Fields,     \* of the operator settings
    Values,     \* a field may have
    Defaults,   \* DEFAULT_SETTINGS
    Changes,    \* what a proposal or an operator may ask for: some fields, with values
    NoChange    \* proposedChange.operatorSettings is missing, or has no valid field

Settings == [Fields -> Values]

ASSUME ProposalsAssumption ==
    /\ Defaults \in Settings
    /\ \A c \in Changes : DOMAIN c \subseteq Fields /\ \A f \in DOMAIN c : c[f] \in Values
    /\ NoChange \notin Changes

VARIABLES
    proposals,  \* table self_evolution_proposals
    mutations,  \* table self_evolution_mutations, oldest first
    settings,   \* table operator_settings
    orderly     \* history: nothing but proposals, undone last in first out, changed the settings

vars == <<proposals, mutations, settings, orderly>>

-----------------------------------------------------------------------------
(* Types *)

Statuses == {"none", "proposed", "approved", "rejected", "applied", "failed", "rolled_back"}

\* Of the five targets only the configuration has an adapter.
Targets == {"configuration", "other"}

\* A low or medium risk, a high or critical one.
Risks == {"low", "high"}

Proposal ==
    [status : Statuses, target : Targets, risk : Risks, change : Changes \cup {NoChange}]

Mutation ==
    [proposal : Ids, status : {"applied", "failed", "rolled_back"}, before : Settings, after : Settings]

TypeOK ==
    /\ proposals \in [Ids -> Proposal]
    /\ mutations \in Seq(Mutation)
    /\ settings \in Settings
    /\ orderly \in BOOLEAN

-----------------------------------------------------------------------------
(* Review *)

SetStatus(p, status) == proposals' = [proposals EXCEPT ![p].status = status]

CreateProposal(p, target, risk, change) ==
    /\ proposals[p].status = "none"
    /\ proposals' = [proposals EXCEPT ![p] = [status |-> "proposed", target |-> target,
                                              risk |-> risk, change |-> change]]
    /\ UNCHANGED <<mutations, settings, orderly>>

\* Mutant of Approve: whatever is not applied may be approved, as it may be rejected.
ApproveAgain(p) ==
    /\ proposals[p].status \notin {"none", "applied"}
    /\ SetStatus(p, "approved")
    /\ UNCHANGED <<mutations, settings, orderly>>

Approve(p) ==
    /\ proposals[p].status = "proposed"
    /\ SetStatus(p, "approved")
    /\ UNCHANGED <<mutations, settings, orderly>>

\* Whatever is not applied may be rejected, even what failed or was rolled back.
Reject(p) ==
    /\ proposals[p].status \notin {"none", "applied"}
    /\ SetStatus(p, "rejected")
    /\ UNCHANGED <<mutations, settings, orderly>>

-----------------------------------------------------------------------------
(* Effects *)

\* OperatorSettingsStore.update: the fields that are given.
Updated(change) == [f \in Fields |-> IF f \in DOMAIN change THEN change[f] ELSE settings[f]]

\* The newest mutation that is applied, of whatever proposal.
IsNewestApplied(i) ==
    /\ mutations[i].status = "applied"
    /\ \A j \in DOMAIN mutations : mutations[j].status = "applied" => j <= i

\* A high risk asks for a confirmation.
MayApply(p, confirmed) ==
    proposals[p].status = "approved" /\ (proposals[p].risk = "high" => confirmed)

\* The target has an adapter, and that accepts the change.
Applicable(p) == proposals[p].target = "configuration" /\ proposals[p].change # NoChange

RecordMutation(p, status, before, after) ==
    mutations' = Append(mutations, [proposal |-> p, status |-> status,
                                    before |-> before, after |-> after])

\* Mutant of ApplyProposal: the evidence is taken after the change.
ApplyProposalLate(p, confirmed) ==
    /\ MayApply(p, confirmed) /\ Applicable(p)
    /\ settings' = Updated(proposals[p].change)
    /\ RecordMutation(p, "applied", settings', settings')
    /\ SetStatus(p, "applied")
    /\ UNCHANGED orderly

\* The settings change, and the mutation and the status are recorded in a transaction.
ApplyProposal(p, confirmed) ==
    /\ MayApply(p, confirmed) /\ Applicable(p)
    /\ settings' = Updated(proposals[p].change)
    /\ RecordMutation(p, "applied", settings, settings')
    /\ SetStatus(p, "applied")
    /\ UNCHANGED orderly

\* The process dies between the two.
DieApplying(p, confirmed) ==
    /\ MayApply(p, confirmed) /\ Applicable(p)
    /\ settings' = Updated(proposals[p].change)
    /\ orderly' = FALSE
    /\ UNCHANGED <<proposals, mutations>>

\* There is no adapter, or it refuses: the attempt is recorded, without evidence.
FailToApply(p, confirmed) ==
    /\ MayApply(p, confirmed) /\ ~Applicable(p)
    /\ RecordMutation(p, "failed", Defaults, Defaults)
    /\ SetStatus(p, "failed")
    /\ UNCHANGED <<settings, orderly>>

\* listMutations(p, 1): the newest one of the proposal.
IsNewestOf(i, p) ==
    mutations[i].proposal = p /\ \A j \in DOMAIN mutations : mutations[j].proposal = p => j <= i

\* All the settings are as they were before the mutation, whatever came after it.
RollBack(p, i) ==
    /\ proposals[p].status = "applied"
    /\ IsNewestOf(i, p) /\ mutations[i].status = "applied"
    /\ settings' = Updated(mutations[i].before)
    /\ mutations' = [mutations EXCEPT ![i].status = "rolled_back"]
    /\ SetStatus(p, "rolled_back")
    /\ orderly' = (orderly /\ IsNewestApplied(i))

\* The process dies after the settings are back and before that is recorded.
DieRollingBack(p, i) ==
    /\ proposals[p].status = "applied"
    /\ IsNewestOf(i, p) /\ mutations[i].status = "applied"
    /\ settings' = Updated(mutations[i].before)
    /\ orderly' = FALSE
    /\ UNCHANGED <<proposals, mutations>>

\* POST /admin/settings
UpdateSettings(change) ==
    /\ settings' = Updated(change)
    /\ orderly' = FALSE
    /\ UNCHANGED <<proposals, mutations>>

-----------------------------------------------------------------------------

Init ==
    /\ proposals = [p \in Ids |-> [status |-> "none", target |-> "other", risk |-> "low",
                                   change |-> NoChange]]
    /\ mutations = <<>>
    /\ settings = Defaults
    /\ orderly = TRUE

Review(p) ==
    \/ \E target \in Targets, risk \in Risks, change \in Changes \cup {NoChange} :
          CreateProposal(p, target, risk, change)
    \/ Approve(p)
    \/ Reject(p)

Effect(p) ==
    \/ \E confirmed \in BOOLEAN :
          \/ ApplyProposal(p, confirmed)
          \/ DieApplying(p, confirmed)
          \/ FailToApply(p, confirmed)
    \/ \E i \in DOMAIN mutations : RollBack(p, i) \/ DieRollingBack(p, i)

Next ==
    \/ \E p \in Ids : Review(p) \/ Effect(p)
    \/ \E change \in Changes : UpdateSettings(change)

Spec == Init /\ [][Next]_vars

-----------------------------------------------------------------------------
(* Properties *)

\* The status of proposal p tells what became of its mutation m, unless p was rejected
\* afterwards.
StatusTells(p, m) ==
    \/ proposals[p].status = m.status
    \/ proposals[p].status = "rejected" /\ m.status # "applied"

\* A proposal has its effect recorded at most once, in its whole life, and its status
\* goes with it: no sequence of reviews, failures, rollbacks and deaths applies one
\* again.  (proposals.ts:239, 268, 393.)
AppliedOnce ==
    /\ \A i, j \in DOMAIN mutations : mutations[i].proposal = mutations[j].proposal => i = j
    /\ \A i \in DOMAIN mutations : StatusTells(mutations[i].proposal, mutations[i])
    /\ \A p \in Ids : proposals[p].status \in {"applied", "failed", "rolled_back"} =>
          \E i \in DOMAIN mutations : mutations[i].proposal = p

NoneApplied(from, to) ==
    \A k \in DOMAIN mutations : from < k /\ k < to => mutations[k].status # "applied"

\* The mutations before the n-th one, those that were undone left out, made state.
LeftBefore(n, state) ==
    /\ NoneApplied(0, n) => state = Defaults
    /\ \A j \in DOMAIN mutations :
          j < n /\ mutations[j].status = "applied" /\ NoneApplied(j, n) => state = mutations[j].after

\* As long as only proposals change the settings and are undone newest first, the
\* settings are what the newest one that is applied made of them, each one's evidence
\* begins where the one before it ended, and undoing all brings the defaults back.
\* (mutations.ts:211, 231; what an operator or a death does in between, and an
\* undoing out of order, is not accounted for: rollback checks no conflict.)
SettingsExplained ==
    orderly =>
        /\ LeftBefore(Len(mutations) + 1, settings)
        /\ \A i \in DOMAIN mutations :
              mutations[i].status = "applied" => LeftBefore(i, mutations[i].before)
=============================================================================

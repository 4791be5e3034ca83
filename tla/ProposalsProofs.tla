-------------------------- MODULE ProposalsProofs --------------------------
(***************************************************************************)
(* Proofs about Proposals, for any proposals, fields, values and changes.      *)
(*                                                                         *)
(* AppliedOnce with the types is inductive: a proposal that may be approved or  *)
(* applied has no mutation yet, since a mutation's status binds its proposal's. *)
(***************************************************************************)
EXTENDS Proposals, TLAPS

LEMMA UpdatedIsSettings ==
    ASSUME settings \in Settings, NEW change,
           \A f \in DOMAIN change : change[f] \in Values
    PROVE  Updated(change) \in Settings
BY DEF Updated, Settings

\* What a mutation in the table is.
LEMMA MutationTyped ==
    ASSUME mutations \in Seq(Mutation), NEW i \in DOMAIN mutations
    PROVE  /\ mutations[i] \in Mutation
           /\ mutations[i].proposal \in Ids /\ mutations[i].before \in Settings
           /\ mutations[i].status \in {"applied", "failed", "rolled_back"}
<1>1. mutations[i] \in Mutation
  OBVIOUS
<1>2. QED
  BY <1>1 DEF Mutation

\* The effect of every action on a list of mutations: what is appended or replaced is a
\* mutation again.
LEMMA MutationsGrow ==
    ASSUME mutations \in Seq(Mutation), NEW p \in Ids,
           NEW status \in {"applied", "failed"},
           NEW before \in Settings, NEW after \in Settings,
           RecordMutation(p, status, before, after)
    PROVE  /\ mutations' \in Seq(Mutation)
           /\ DOMAIN mutations' = DOMAIN mutations \cup {Len(mutations) + 1}
           /\ Len(mutations) + 1 \notin DOMAIN mutations
           /\ \A i \in DOMAIN mutations : mutations'[i] = mutations[i]
           /\ mutations'[Len(mutations) + 1] = [proposal |-> p, status |-> status,
                                                before |-> before, after |-> after]
<1> DEFINE m == [proposal |-> p, status |-> status, before |-> before, after |-> after]
<1>1. m \in Mutation
  BY DEF Mutation
<1>2. mutations' = Append(mutations, m)
  BY DEF RecordMutation
<1>3. QED
  BY <1>1, <1>2

\* Rolling back is the one action that changes a mutation.
LEMMA MutationUndone ==
    ASSUME mutations \in Seq(Mutation), NEW i \in DOMAIN mutations,
           mutations' = [mutations EXCEPT ![i].status = "rolled_back"]
    PROVE  /\ mutations' \in Seq(Mutation)
           /\ DOMAIN mutations' = DOMAIN mutations
           /\ \A j \in DOMAIN mutations : j # i => mutations'[j] = mutations[j]
           /\ mutations'[i].proposal = mutations[i].proposal
           /\ mutations'[i].status = "rolled_back"
           /\ mutations'[i].before = mutations[i].before /\ mutations'[i].after = mutations[i].after
<1> DEFINE m == [mutations[i] EXCEPT !.status = "rolled_back"]
<1>1. mutations[i] \in Mutation
  OBVIOUS
<1>2. /\ m \in Mutation /\ m.proposal = mutations[i].proposal /\ m.status = "rolled_back"
      /\ m.before = mutations[i].before /\ m.after = mutations[i].after
  BY <1>1 DEF Mutation
<1>3. mutations' = [mutations EXCEPT ![i] = m]
  OBVIOUS
<1> HIDE DEF m
<1>4. QED
  BY <1>2, <1>3

\* The variables keep their types.
THEOREM TypeCorrect == Spec => []TypeOK
<1>1. Init => TypeOK
  BY ProposalsAssumption DEF Init, TypeOK, Proposal, Statuses, Targets, Risks, Mutation, Settings
<1>2. TypeOK /\ [Next]_vars => TypeOK'
  <2> SUFFICES ASSUME TypeOK, [Next]_vars PROVE TypeOK'
    OBVIOUS
  <2> USE DEF TypeOK
  <2>1. ASSUME NEW p \in Ids, NEW status \in Statuses, SetStatus(p, status)
        PROVE  proposals' \in [Ids -> Proposal]
    BY <2>1 DEF SetStatus, Proposal
  <2>2. ASSUME NEW p \in Ids, Review(p) PROVE TypeOK'
    <3>1. ASSUME NEW target \in Targets, NEW risk \in Risks, NEW change \in Changes \cup {NoChange},
                 CreateProposal(p, target, risk, change)
          PROVE  TypeOK'
      BY <3>1 DEF CreateProposal, Proposal, Statuses
    <3>2. CASE Approve(p)
      BY <3>2, <2>1 DEF Approve, Statuses
    <3>3. CASE Reject(p)
      BY <3>3, <2>1 DEF Reject, Statuses
    <3>4. QED
      BY <2>2, <3>1, <3>2, <3>3 DEF Review
  <2>3. ASSUME NEW p \in Ids, Applicable(p) PROVE Updated(proposals[p].change) \in Settings
    <3>1. proposals[p].change \in Changes
      BY <2>3 DEF Applicable, Proposal
    <3>2. QED
      BY <3>1, UpdatedIsSettings, ProposalsAssumption
  <2>4. ASSUME NEW i \in DOMAIN mutations PROVE Updated(mutations[i].before) \in Settings
    <3>1. mutations[i].before \in Settings
      BY MutationTyped
    <3>2. QED
      BY <3>1, UpdatedIsSettings DEF Settings
  <2>5. ASSUME NEW p \in Ids, Effect(p) PROVE TypeOK'
    <3>1. ASSUME NEW confirmed \in BOOLEAN, ApplyProposal(p, confirmed) PROVE TypeOK'
      BY <3>1, <2>1, <2>3, MutationsGrow DEF ApplyProposal, Statuses
    <3>2. ASSUME NEW confirmed \in BOOLEAN, DieApplying(p, confirmed) PROVE TypeOK'
      BY <3>2, <2>3 DEF DieApplying
    <3>3. ASSUME NEW confirmed \in BOOLEAN, FailToApply(p, confirmed) PROVE TypeOK'
      BY <3>3, <2>1, MutationsGrow, ProposalsAssumption DEF FailToApply, Statuses
    <3>4. ASSUME NEW i \in DOMAIN mutations, RollBack(p, i) PROVE TypeOK'
      <4>1. mutations' \in Seq(Mutation)
        BY <3>4, MutationUndone DEF RollBack
      <4>2. IsNewestApplied(i) \in BOOLEAN
        BY DEF IsNewestApplied
      <4>3. QED
        BY <3>4, <4>1, <4>2, <2>1, <2>4 DEF RollBack, Statuses
    <3>5. ASSUME NEW i \in DOMAIN mutations, DieRollingBack(p, i) PROVE TypeOK'
      BY <3>5, <2>4 DEF DieRollingBack
    <3>6. QED
      BY <2>5, <3>1, <3>2, <3>3, <3>4, <3>5 DEF Effect
  <2>6. ASSUME NEW change \in Changes, UpdateSettings(change) PROVE TypeOK'
    BY <2>6, UpdatedIsSettings, ProposalsAssumption DEF UpdateSettings
  <2>7. CASE UNCHANGED vars
    BY <2>7 DEF vars
  <2>8. QED
    BY <2>2, <2>5, <2>6, <2>7 DEF Next
<1>3. QED
  BY <1>1, <1>2, PTL DEF Spec

-----------------------------------------------------------------------------

\* A proposal that no effect was recorded of has no mutation.
LEMMA NoMutationYet ==
    ASSUME TypeOK, AppliedOnce, NEW p \in Ids, proposals[p].status \in {"none", "proposed", "approved"}
    PROVE  \A i \in DOMAIN mutations : mutations[i].proposal # p
BY MutationTyped DEF TypeOK, AppliedOnce, StatusTells

\* A proposal has its effect recorded at most once, in its whole life.
THEOREM AppliedOnceAlways == Spec => []AppliedOnce
<1>1. Init => AppliedOnce
  BY DEF Init, AppliedOnce
<1>2. TypeOK /\ TypeOK' /\ AppliedOnce /\ [Next]_vars => AppliedOnce'
  <2> SUFFICES ASSUME TypeOK, TypeOK', AppliedOnce, [Next]_vars PROVE AppliedOnce'
    OBVIOUS
  <2>1. ASSUME UNCHANGED <<proposals, mutations>> PROVE AppliedOnce'
    BY <2>1 DEF AppliedOnce, StatusTells
  <2>0. \A i \in DOMAIN mutations :
           /\ mutations[i].proposal \in Ids
           /\ mutations[i].status \in {"applied", "failed", "rolled_back"}
    BY MutationTyped DEF TypeOK
  \* A step that reviews p leaves the mutations, and those of p go with what it becomes.
  <2>2. ASSUME NEW p \in Ids, Review(p) PROVE AppliedOnce'
    <3>1. UNCHANGED mutations /\ \A q \in Ids \ {p} : proposals'[q] = proposals[q]
      BY <2>2 DEF Review, CreateProposal, Approve, Reject, SetStatus, TypeOK
    <3>2. CASE proposals[p].status \in {"none", "proposed"}
               /\ proposals'[p].status \in {"proposed", "approved"}
      BY <3>1, <3>2, NoMutationYet, <2>0 DEF AppliedOnce, StatusTells
    <3>3. CASE proposals[p].status # "applied" /\ proposals'[p].status = "rejected"
      BY <3>1, <3>3, <2>0 DEF AppliedOnce, StatusTells
    <3>4. QED
      BY <2>2, <3>2, <3>3 DEF Review, CreateProposal, Approve, Reject, SetStatus, TypeOK, Proposal
  \* The one mutation of p is recorded with its status.
  <2>3. ASSUME NEW p \in Ids, NEW status \in {"applied", "failed"},
               NEW before \in Settings, NEW after \in Settings,
               proposals[p].status = "approved",
               RecordMutation(p, status, before, after), SetStatus(p, status)
        PROVE  AppliedOnce'
    <3>1. \A i \in DOMAIN mutations : mutations[i].proposal # p
      BY <2>3, NoMutationYet
    <3>2. proposals'[p].status = status /\ \A q \in Ids \ {p} : proposals'[q] = proposals[q]
      BY <2>3 DEF SetStatus, TypeOK, Proposal
    <3> DEFINE n == Len(mutations) + 1
    <3>3. /\ DOMAIN mutations' = DOMAIN mutations \cup {n} /\ n \notin DOMAIN mutations
          /\ \A i \in DOMAIN mutations : mutations'[i] = mutations[i]
          /\ mutations'[n].proposal = p /\ mutations'[n].status = status
      <4>1. mutations \in Seq(Mutation)
        BY DEF TypeOK
      <4>2. /\ DOMAIN mutations' = DOMAIN mutations \cup {n} /\ n \notin DOMAIN mutations
            /\ \A i \in DOMAIN mutations : mutations'[i] = mutations[i]
            /\ mutations'[n] = [proposal |-> p, status |-> status, before |-> before, after |-> after]
        BY <2>3, <4>1, MutationsGrow
      <4>3. QED
        BY <4>2
    <3> HIDE DEF n
    <3>4. QED
      BY <3>1, <3>2, <3>3, <2>0 DEF AppliedOnce, StatusTells
  <2>4. ASSUME NEW p \in Ids, Effect(p) PROVE AppliedOnce'
    <3>1. ASSUME NEW confirmed \in BOOLEAN, ApplyProposal(p, confirmed) PROVE AppliedOnce'
      BY <3>1, <2>3 DEF ApplyProposal, MayApply, TypeOK
    <3>2. ASSUME NEW confirmed \in BOOLEAN, FailToApply(p, confirmed) PROVE AppliedOnce'
      BY <3>2, <2>3, ProposalsAssumption DEF FailToApply, MayApply
    <3>3. ASSUME NEW i \in DOMAIN mutations, RollBack(p, i) PROVE AppliedOnce'
      <4>1. mutations[i].proposal = p
        BY <3>3 DEF RollBack, IsNewestOf
      <4>2. /\ DOMAIN mutations' = DOMAIN mutations
            /\ \A j \in DOMAIN mutations : j # i => mutations'[j] = mutations[j]
            /\ mutations'[i].proposal = p /\ mutations'[i].status = "rolled_back"
        BY <3>3, <4>1, MutationUndone DEF RollBack, TypeOK
      <4>3. proposals'[p].status = "rolled_back" /\ \A q \in Ids \ {p} : proposals'[q] = proposals[q]
        BY <3>3 DEF RollBack, SetStatus, TypeOK, Proposal
      <4>4. QED
        BY <4>1, <4>2, <4>3, <2>0 DEF AppliedOnce, StatusTells
    <3>4. QED
      BY <2>1, <2>4, <3>1, <3>2, <3>3 DEF Effect, DieApplying, DieRollingBack
  <2>5. QED
    BY <2>1, <2>2, <2>4 DEF Next, UpdateSettings, vars
<1>3. QED
  BY <1>1, <1>2, TypeCorrect, PTL DEF Spec

-----------------------------------------------------------------------------

\* The settings are put back as they all were.
LEMMA AllUpdated ==
    ASSUME NEW before \in Settings
    PROVE  Updated(before) = before
BY DEF Updated, Settings

\* What a mutation in the table says of the settings stays, and so does what the ones
\* before it say, while the others are only appended to.
LEMMA AppendedExplained ==
    ASSUME mutations \in Seq(Mutation), settings \in Settings, SettingsExplained, orderly,
           NEW m, m.status \in {"applied", "failed"}, NEW n, n = Len(mutations) + 1,
           DOMAIN mutations' = DOMAIN mutations \cup {n},
           \A i \in DOMAIN mutations : mutations'[i] = mutations[i],
           mutations'[n] = m, Len(mutations') = n,
           m.status = "applied" => m.before = settings /\ settings' = m.after,
           m.status = "failed" => settings' = settings
    PROVE  SettingsExplained'
<1>1. n \in Nat /\ \A i \in DOMAIN mutations : i \in Nat /\ 0 < i /\ i < n
  OBVIOUS
<1>2. /\ LeftBefore(n, settings)
      /\ \A i \in DOMAIN mutations : mutations[i].status = "applied" => LeftBefore(i, mutations[i].before)
  BY DEF SettingsExplained
<1>3. ASSUME NEW i \in DOMAIN mutations', NEW state, LeftBefore(i, state)
      PROVE  LeftBefore(i, state)'
  <2>1. ~(n < i)
    BY <1>1
  <2>2. ASSUME NEW j \in Nat, NoneApplied(j, i)' PROVE NoneApplied(j, i)
    BY <2>2 DEF NoneApplied
  <2>3. ASSUME NEW j \in DOMAIN mutations', j < i
        PROVE  j \in DOMAIN mutations /\ mutations'[j] = mutations[j]
    BY <1>1, <2>3
  <2>4. NoneApplied(0, i)' => NoneApplied(0, i)
    BY <2>2
  <2>5. QED
    BY <1>1, <1>3, <2>2, <2>3, <2>4 DEF LeftBefore
<1>4. ASSUME NEW i \in DOMAIN mutations', mutations'[i].status = "applied"
      PROVE  LeftBefore(i, mutations[i].before)'
  <2>1. CASE i = n
    BY <1>2, <1>3, <1>4, <2>1
  <2>2. CASE i # n
    <3>1. i \in DOMAIN mutations /\ mutations'[i] = mutations[i]
      BY <2>2
    <3>2. LeftBefore(i, mutations[i].before)
      BY <1>2, <1>4, <3>1
    <3>3. LeftBefore(i, mutations[i].before)'
      BY <1>3, <3>1, <3>2
    <3>4. QED
      BY <3>3
  <2>3. QED
    BY <2>1, <2>2
<1>5. LeftBefore(Len(mutations) + 1, settings)'
  <2>1. Len(mutations') + 1 = n + 1 /\ n < n + 1
    BY <1>1
  <2>2. ASSUME NEW j \in DOMAIN mutations PROVE j < n + 1 /\ mutations'[j] = mutations[j]
    BY <1>1, <2>2
  <2>3. n \in DOMAIN mutations' /\ mutations'[n] = m /\ 0 < n
    BY <1>1
  <2>4. ASSUME NEW j \in Nat, j < n, NoneApplied(j, n + 1)'
        PROVE  m.status = "failed" /\ NoneApplied(j, n)
    <3>1. mutations'[n].status # "applied"
      BY <2>1, <2>3, <2>4 DEF NoneApplied
    <3>2. ASSUME NEW k \in DOMAIN mutations, j < k PROVE mutations[k].status # "applied"
      BY <2>2, <2>4, <3>2 DEF NoneApplied
    <3>3. QED
      BY <2>3, <3>1, <3>2 DEF NoneApplied
  <2>5. ASSUME NoneApplied(0, n + 1)' PROVE settings' = Defaults
    BY <1>2, <2>3, <2>4, <2>5 DEF LeftBefore
  <2>6. ASSUME NEW j \in DOMAIN mutations', mutations'[j].status = "applied", NoneApplied(j, n + 1)'
        PROVE  settings' = mutations'[j].after
    <3>1. CASE j = n
      BY <2>3, <2>6, <3>1
    <3>2. CASE j # n
      <4>1. j \in DOMAIN mutations /\ mutations'[j] = mutations[j]
        BY <3>2
      <4>2. j \in Nat /\ j < n
        BY <1>1, <4>1
      <4>3. m.status = "failed" /\ NoneApplied(j, n)
        BY <2>4, <2>6, <4>2
      <4>4. QED
        BY <1>2, <2>6, <4>1, <4>2, <4>3 DEF LeftBefore
    <3>3. QED
      BY <3>1, <3>2
  <2>7. QED
    BY <2>1, <2>5, <2>6 DEF LeftBefore
<1>6. QED
  BY <1>4, <1>5 DEF SettingsExplained

\* The newest mutation that is applied is undone: the one that is then the newest left
\* what its evidence began with.
LEMMA UndoneExplained ==
    ASSUME mutations \in Seq(Mutation), SettingsExplained, orderly,
           NEW i \in DOMAIN mutations, IsNewestApplied(i), NEW n, n = Len(mutations) + 1,
           NEW before, before = mutations[i].before, settings' = before,
           mutations' = [mutations EXCEPT ![i].status = "rolled_back"]
    PROVE  SettingsExplained'
<1>1. n \in Nat /\ \A j \in DOMAIN mutations : j \in Nat /\ 0 < j /\ j < n
  OBVIOUS
<1>2. /\ DOMAIN mutations' = DOMAIN mutations /\ mutations'[i].status = "rolled_back"
      /\ \A j \in DOMAIN mutations : j # i => mutations'[j] = mutations[j]
  BY MutationUndone
<1>3. mutations[i].status = "applied" /\ \A j \in DOMAIN mutations : mutations[j].status = "applied" => j <= i
  BY DEF IsNewestApplied
<1>4. \A j \in DOMAIN mutations : mutations[j].status = "applied" => LeftBefore(j, mutations[j].before)
  BY DEF SettingsExplained
<1>5. Len(mutations') + 1 = n
  OBVIOUS
<1>6. ASSUME NEW j \in Nat, NEW k \in Nat, k <= i, NoneApplied(j, k)' PROVE NoneApplied(j, k)
  BY <1>1, <1>2, <1>6 DEF NoneApplied
<1>7. ASSUME NEW j \in DOMAIN mutations, j <= i, NEW state, LeftBefore(j, state)
      PROVE  LeftBefore(j, state)'
  <2>1. j \in Nat
    BY <1>1
  <2>2. NoneApplied(0, j)' => NoneApplied(0, j)
    BY <1>6, <1>7, <2>1
  <2>3. ASSUME NEW k \in DOMAIN mutations, k < j, NoneApplied(k, j)'
        PROVE  NoneApplied(k, j) /\ mutations'[k] = mutations[k]
    BY <1>1, <1>2, <1>6, <1>7, <2>1, <2>3
  <2>4. QED
    BY <1>2, <1>7, <2>2, <2>3 DEF LeftBefore
<1>8. LeftBefore(i, before)'
  BY <1>3, <1>4, <1>7, <1>1
<1>9. ASSUME NEW j \in DOMAIN mutations, mutations'[j].status = "applied"
      PROVE  LeftBefore(j, mutations[j].before)'
  <2>1. j # i /\ mutations'[j] = mutations[j] /\ j <= i
    BY <1>2, <1>3, <1>9
  <2>2. LeftBefore(j, mutations[j].before)
    BY <1>4, <1>9, <2>1
  <2>3. QED
    BY <1>7, <2>1, <2>2
<1>10. LeftBefore(n, settings)'
  <2>1. ASSUME NEW j \in Nat, NoneApplied(j, n)' PROVE NoneApplied(j, i)'
    BY <1>1, <1>2, <2>1 DEF NoneApplied
  <2>2. ASSUME NEW j \in DOMAIN mutations, mutations'[j].status = "applied" PROVE j < i
    BY <1>1, <1>2, <1>3, <2>2
  <2>3. QED
    BY <1>1, <1>2, <1>8, <2>1, <2>2 DEF LeftBefore
<1>11. QED
  BY <1>2, <1>5, <1>9, <1>10 DEF SettingsExplained

\* As long as nothing but proposals changes the settings and the newest is undone first,
\* the settings and all the evidence follow from what is applied.
THEOREM SettingsExplainedAlways == Spec => []SettingsExplained
<1>1. Init => SettingsExplained
  BY DEF Init, SettingsExplained, LeftBefore
<1>2. TypeOK /\ SettingsExplained /\ [Next]_vars => SettingsExplained'
  <2> SUFFICES ASSUME TypeOK, SettingsExplained, [Next]_vars, orderly' PROVE SettingsExplained'
    BY DEF SettingsExplained
  <2>1. ASSUME UNCHANGED <<mutations, settings, orderly>> PROVE SettingsExplained'
    BY <2>1 DEF SettingsExplained, LeftBefore, NoneApplied
  <2>2. ASSUME NEW p \in Ids, Review(p) PROVE SettingsExplained'
    BY <2>1, <2>2 DEF Review, CreateProposal, Approve, Reject
  <2>3. ASSUME NEW p \in Ids, NEW status \in {"applied", "failed"},
               NEW before \in Settings, NEW after \in Settings,
               RecordMutation(p, status, before, after), orderly,
               status = "applied" => before = settings /\ settings' = after,
               status = "failed" => settings' = settings
        PROVE  SettingsExplained'
    <3> DEFINE m == [proposal |-> p, status |-> status, before |-> before, after |-> after]
    <3>1. /\ m.status = status /\ m.before = before /\ m.after = after
          /\ mutations' = Append(mutations, m) /\ m \in Mutation
      BY <2>3 DEF RecordMutation, Mutation
    <3> HIDE DEF m
    <3>2. /\ DOMAIN mutations' = DOMAIN mutations \cup {Len(mutations) + 1}
          /\ \A i \in DOMAIN mutations : mutations'[i] = mutations[i]
          /\ mutations'[Len(mutations) + 1] = m
          /\ Len(mutations') = Len(mutations) + 1
      BY <3>1 DEF TypeOK
    <3>3. QED
      BY <2>3, <3>1, <3>2, AppendedExplained DEF TypeOK
  <2>4. ASSUME NEW p \in Ids, NEW confirmed \in BOOLEAN, ApplyProposal(p, confirmed)
        PROVE  SettingsExplained'
    <3>1. proposals[p].change \in Changes
      BY <2>4 DEF ApplyProposal, Applicable, TypeOK, Proposal
    <3>2. Updated(proposals[p].change) \in Settings
      BY <3>1, UpdatedIsSettings, ProposalsAssumption DEF TypeOK
    <3>3. settings' \in Settings /\ settings \in Settings /\ orderly
      BY <2>4, <3>2 DEF ApplyProposal, TypeOK
    <3>4. RecordMutation(p, "applied", settings, settings')
      BY <2>4 DEF ApplyProposal
    <3>5. QED
      BY <2>3, <3>3, <3>4
  <2>5. ASSUME NEW p \in Ids, NEW confirmed \in BOOLEAN, FailToApply(p, confirmed)
        PROVE  SettingsExplained'
    BY <2>3, <2>5, ProposalsAssumption DEF FailToApply
  <2>6. ASSUME NEW p \in Ids, NEW i \in DOMAIN mutations, RollBack(p, i) PROVE SettingsExplained'
    <3>1. mutations[i].before \in Settings
      BY MutationTyped DEF TypeOK
    <3>2. settings' = mutations[i].before
      BY <2>6, <3>1, AllUpdated DEF RollBack
    <3>3. QED
      BY <2>6, <3>2, UndoneExplained DEF RollBack, TypeOK
  <2>7. QED
    BY <2>1, <2>2, <2>4, <2>5, <2>6
       DEF Next, Effect, DieApplying, DieRollingBack, UpdateSettings, vars
<1>3. QED
  BY <1>1, <1>2, TypeCorrect, PTL DEF Spec
=============================================================================

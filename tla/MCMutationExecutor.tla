------------------------- MODULE MCMutationExecutor -------------------------
(***************************************************************************)
(* Small instances of MutationExecutor: two assignments, two files, one     *)
(* channel.                                                                *)
(***************************************************************************)
EXTENDS MutationExecutor, TLC

CONSTANTS v0, v1

MCStore == [r \in Resources |-> IF r \in Channels THEN TRUE ELSE v0]

AllOf(kind) == \A id \in DOMAIN ledger : ledger[id].kind = kind

OfOneAssignment ==
    \A i, j \in DOMAIN ledger : ledger[i].assignment = ledger[j].assignment

\* No two kinds share a resource, so all mutations are of one kind.  Those of the channel
\* are of one assignment, with an operator who switches it as well; those of files are
\* so after a death or once a file is left anyhow, and then there are two of these:
\* conflicts of both kinds are looked for by resource.  Time passes with the other
\* kinds, whose times are compared in the same way.
KindsApart ==
    \/ AllOf("channel_state") /\ OfOneAssignment /\ clock = 0
    \/ /\ AllOf("project_file") /\ operated = {} /\ clock = 0
       /\ OfOneAssignment \/ (stray = {} /\ crashed = 0)
       /\ stray # {} => Len(ledger) <= 2
    \/ /\ \E kind \in Kinds \ {"channel_state", "project_file"} : AllOf(kind)
       /\ operated = {}

Interchangeable == Permutations(Assignments) \cup Permutations(Files)
=============================================================================

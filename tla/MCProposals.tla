---------------------------- MODULE MCProposals ----------------------------
(***************************************************************************)
(* A small instance of Proposals: two fields, so that a change may leave one   *)
(* alone, and changes that overlap.                                          *)
(***************************************************************************)
EXTENDS Proposals, TLC

CONSTANTS refresh, limit

MCFields == {refresh, limit}

MCDefaults == [f \in MCFields |-> 0]

MCChanges == {[f \in {refresh} |-> 1], [f \in {limit} |-> 1], [f \in MCFields |-> 0]}

MCSymmetry == Permutations(Ids)
=============================================================================

------------------------------ MODULE MCMemory ------------------------------
(***************************************************************************)
(* Small instances of Memory: policies with caps of a row or two, and the     *)
(* rows of an earlier run.                                                   *)
(***************************************************************************)
EXTENDS Memory

MCPolicy(trigger, cluster, semantic, episodic) ==
    [trigger |-> trigger, cluster |-> cluster, topK |-> 1,
     keep |-> [c \in Range(Categories) |-> IF c = "episodic" THEN episodic ELSE semantic]]

\* What the configuration asks for, with a cluster too large for its trigger.
Configured == MCPolicy(2, 3, 1, 2)

\* An operator lowers a cap, or asks for what is refused.
Lowered == {MCPolicy(2, 2, 1, 1), MCPolicy(2, 3, 1, 1)}

OneFact == {[kind |-> "fact", text |-> "f"]}

\* A turn that is in Qdrant, and another without a vector.
Turns ==
    {<<[Row("turn", "said", 55, TRUE) EXCEPT !.synced = TRUE], Row("turn", "said", 55, FALSE)>>}
=============================================================================

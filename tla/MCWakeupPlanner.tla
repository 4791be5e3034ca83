-------------------------- MODULE MCWakeupPlanner --------------------------
(***************************************************************************)
(* Small instances of WakeupPlanner: one root, a few children, budgets of a *)
(* few wakeups.                                                            *)
(***************************************************************************)
EXTENDS WakeupPlanner, TLC

CONSTANTS r0, c1, c2, c3

\* Children are told apart by nothing but their names.
ChildSymmetry == Permutations(Ids \ Roots)

MCPolicy(wakeups, failures, children, depth) ==
    [maxWakeups |-> wakeups, maxFailures |-> failures, maxChildren |-> children,
     maxDepth |-> depth]

\* Policies of the runs.  A child gets all that is left of its parent's wakeups
\* unless it asks for less or the parent is given more: hence a larger and a
\* smaller policy, or a table that has the children already.
Steered == {MCPolicy(2, 1, 2, 1), MCPolicy(4, 1, 2, 1)}
Retrying == {MCPolicy(2, 2, 2, 1)}
Spare == {MCPolicy(3, 2, 2, 1)}
Cut == {MCPolicy(2, 1, 2, 1)}

Empty == {EmptyTable}

Child(policy, waited, deps) ==
    [NewAssignment(policy) EXCEPT !.parent = r0, !.waited = waited, !.deps = deps]

Parked(row) == [row EXCEPT !.life = "waiting", !.wait = "deps"]

\* r0 has used the first of its wakeups to promote its children.
Waiting(policy) ==
    [NewAssignment(policy) EXCEPT !.life = "waiting", !.wait = "child", !.wakeups = 1]

One == MCPolicy(1, 1, 0, 0)
Two == MCPolicy(2, 1, 0, 0)
Three == MCPolicy(3, 2, 0, 0)

\* r0 waits for c2, which comes after c1.
PairOf(parent, child) ==
    [i \in Ids |-> CASE i = r0 -> Waiting(parent)
                     [] i = c1 -> Child(child, FALSE, {})
                     [] i = c2 -> Parked(Child(child, TRUE, {c1}))
                     [] OTHER -> EmptyTable[i]]

Pair == {PairOf(MCPolicy(6, 1, 2, 1), Two)}

\* The same with a failure to spare for each of the three, and wakeups to retry in.
PairWithRetries == {PairOf(MCPolicy(9, 2, 2, 1), Three)}

\* r0 waits for c3, which comes after c2, which comes after c1.
Chain ==
    {[i \in Ids |-> CASE i = r0 -> Waiting(MCPolicy(5, 1, 3, 1))
                      [] i = c1 -> Child(One, FALSE, {})
                      [] i = c2 -> Parked(Child(One, FALSE, {c1}))
                      [] i = c3 -> Parked(Child(One, TRUE, {c2}))
                      [] OTHER -> EmptyTable[i]]}

EmptyOrChain == Empty \cup Chain
=============================================================================

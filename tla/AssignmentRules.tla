-------------------------- MODULE AssignmentRules ---------------------------
(***************************************************************************)
(* The assignment records and the rules AutonomousAssignmentService applies *)
(* to them, src/src/assignments/service.ts, as operators on `asg`, the      *)
(* table of assignments.  Each operator named for a method is one database  *)
(* transaction of it; WakeupPlanner puts them together.                    *)
(*                                                                         *)
(* The event log is kept as far as the code reads it back: the newest of    *)
(* the paused / waiting / wakeup_scheduled / resumed events (`wait`), the   *)
(* reason of the newest blocked event (`depBlocked`), and whether the       *)
(* newest event that opens or closes a wakeup opened one (`open`).          *)
(***************************************************************************)
EXTENDS Integers, FiniteSets, FiniteSetsExt

CONSTANTS
    Ids,   \* assignment identities
    None   \* no assignment: the parent of a root

ASSUME NoneAssumption == None \notin Ids

\* A table has finitely many rows.
ASSUME IdsAssumption == IsFiniteSet(Ids)

-----------------------------------------------------------------------------
(* Records *)

\* "completed", "cancelled", "expired", "failed".
TerminalStates == {"completed", "cancelled", "expired", "failed"}

LifecycleStates == {"absent", "active", "waiting", "blocked"} \cup TerminalStates

\* The newest wait-like event: "deps" waits for sibling dependencies, "child" for
\* a child of its own, "other" for a later wakeup (continuation, retry, restored
\* wait); "paused" and "resumed" are controls.
Waits == {"none", "deps", "child", "other", "paused", "resumed"}

Policy == [maxWakeups : Nat \ {0}, maxFailures : Nat \ {0}, maxChildren : Nat, maxDepth : Nat]

Assignment ==
    [life : LifecycleStates, parent : Ids \cup {None}, waited : BOOLEAN,
     deps : SUBSET Ids, mode : {"all", "any"}, policy : Policy,
     wakeups : Nat, failures : Nat, wait : Waits, depBlocked : BOOLEAN, open : BOOLEAN]

\* A fresh row; promoteChild overrides what a child has that a root has not.
NewAssignment(policy) ==
    [life |-> "active", parent |-> None, waited |-> FALSE, deps |-> {}, mode |-> "all",
     policy |-> policy, wakeups |-> 0, failures |-> 0, wait |-> "none",
     depBlocked |-> FALSE, open |-> FALSE]

Exists(asg, a) == asg[a].life # "absent"

IsTerminal(asg, a) == asg[a].life \in TerminalStates

-----------------------------------------------------------------------------
(* Queries over the children of an assignment *)

Children(asg, p) == {c \in Ids : Exists(asg, c) /\ asg[c].parent = p}

\* Blocked and terminal children hold no slot and no wakeups of their parent.
HoldsCapacity(asg, c) == asg[c].life \notin {"absent", "blocked"} \cup TerminalStates

ActiveChildren(asg, p) == {c \in Children(asg, p) : HoldsCapacity(asg, c)}

\* reservedActiveChildWakeupBudget, over any set of children.
Reserved(asg, S) == MapThenSumSet(LAMBDA c : asg[c].policy.maxWakeups, S)

ActiveWaitedChildren(asg, p) == {c \in ActiveChildren(asg, p) : asg[c].waited}

\* assignmentDepth: the number of ancestors.
Depth(asg, a) ==
    LET depth[x \in Ids] == IF asg[x].parent = None THEN 0 ELSE 1 + depth[asg[x].parent]
    IN  depth[a]

\* What a parent has left for a set of children that are to hold capacity.
RemainingWakeups(asg, p, others) ==
    asg[p].policy.maxWakeups - asg[p].wakeups - Reserved(asg, others)

\* parentHasCapacityToReactivateChild; the child's own share is not counted
\* against it.
HasCapacityToReactivate(asg, c) ==
    LET p == asg[c].parent
        others == ActiveChildren(asg, p) \ {c}
    IN  p # None =>
          /\ Cardinality(others) < asg[p].policy.maxChildren
          /\ RemainingWakeups(asg, p, others) >= asg[c].policy.maxWakeups

\* evaluateChildDependencies on the siblings' lifecycle states; no dependencies
\* is no dependency config, and satisfied.  Rows are never deleted, so none is
\* missing.
DependencyState(life, deps, mode) ==
    LET states == {life[d] : d \in deps}
        lost == (TerminalStates \ {"completed"}) \cup {"blocked"}
    IN  IF deps = {} THEN "satisfied"
        ELSE CASE mode = "any" /\ "completed" \in states -> "satisfied"
               [] mode = "any" /\ states \subseteq lost -> "blocked"
               [] mode = "all" /\ states \cap lost # {} -> "blocked"
               [] mode = "all" /\ states = {"completed"} -> "satisfied"
               [] OTHER -> "waiting"

Lives(asg) == [a \in Ids |-> asg[a].life]

DependencyStateOf(asg, life, a) == DependencyState(life, asg[a].deps, asg[a].mode)

-----------------------------------------------------------------------------
(* Transactions *)

\* What applyWakeupDecision may be asked: a terminal or blocked outcome, blocked
\* for a lost dependency, or a wait with the class of its reason.
Decisions == {"completed", "expired", "failed", "blocked", "depBlocked", "deps", "child", "other"}

\* wakeupDecisionTransition, whatever state the row is in by now, and the event that
\* is appended.
Decided(row, decision) ==
    LET waits == decision \in {"deps", "child", "other"}
        blocks == decision \in {"blocked", "depBlocked"}
    IN  [row EXCEPT !.life = IF waits THEN "waiting" ELSE IF blocks THEN "blocked" ELSE decision,
                    !.wait = IF waits THEN decision ELSE @,
                    !.depBlocked = IF blocks THEN decision = "depBlocked" ELSE @,
                    !.open = waits /\ @]

Decide(asg, a, decision) == [asg EXCEPT ![a] = Decided(asg[a], decision)]

\* The controls that may change the row, and when the code accepts them.
ControlAllowed(asg, a, action) ==
    CASE action = "pause" -> asg[a].life = "active"
      [] action = "resume" -> /\ asg[a].life \in {"waiting", "blocked"}
                              /\ HasCapacityToReactivate(asg, a)
      [] action = "reopen" -> IsTerminal(asg, a)
      [] OTHER -> TRUE

\* control(): force_wakeup and add_context leave all that is modelled alone.
Controlled(row, action) ==
    CASE action = "pause" -> [row EXCEPT !.life = "waiting", !.wait = "paused", !.open = FALSE]
      [] action = "resume" -> [row EXCEPT !.life = "active", !.wait = "resumed", !.open = FALSE]
      [] action = "cancel" -> [row EXCEPT !.life = "cancelled", !.open = FALSE]
      [] action = "reopen" -> [row EXCEPT !.life = "active"]
      [] OTHER -> row

Control(asg, a, action) == [asg EXCEPT ![a] = Controlled(asg[a], action)]

\* Mutant of CanPromote: a child may be promoted with nothing left for it.
PromoteUnfunded(asg, p) ==
    /\ ~IsTerminal(asg, p)
    /\ Depth(asg, p) + 1 <= asg[p].policy.maxDepth
    /\ Cardinality(ActiveChildren(asg, p)) < asg[p].policy.maxChildren

\* promoteChild's conditions on the parent.
CanPromote(asg, p) ==
    /\ ~IsTerminal(asg, p)
    /\ Depth(asg, p) + 1 <= asg[p].policy.maxDepth
    /\ Cardinality(ActiveChildren(asg, p)) < asg[p].policy.maxChildren
    /\ RemainingWakeups(asg, p, ActiveChildren(asg, p)) > 0

\* Mutant of CapPolicy: the wakeups are cut to the parent's whole budget.
CapToParent(requested, parent, remaining) ==
    [maxWakeups |-> Min({requested.maxWakeups, parent.maxWakeups}),
     maxFailures |-> Min({requested.maxFailures, parent.maxFailures}),
     maxChildren |-> Min({requested.maxChildren, parent.maxChildren}),
     maxDepth |-> Min({requested.maxDepth, parent.maxDepth})]

\* The part of capChildPolicyToParent the planner depends on: every limit of the
\* requested policy is cut to the parent's, the wakeups to what is left of them.
CapPolicy(requested, parent, remaining) ==
    [maxWakeups |-> Min({requested.maxWakeups, remaining}),
     maxFailures |-> Min({requested.maxFailures, parent.maxFailures}),
     maxChildren |-> Min({requested.maxChildren, parent.maxChildren}),
     maxDepth |-> Min({requested.maxDepth, parent.maxDepth})]

\* promoteChild: the row of the new child, parked or blocked at birth if its
\* dependencies say so.
ChildRow(asg, p, waited, deps, mode, requested) ==
    LET remaining == RemainingWakeups(asg, p, ActiveChildren(asg, p))
        state == DependencyState(Lives(asg), deps, mode)
    IN  [NewAssignment(CapPolicy(requested, asg[p].policy, remaining)) EXCEPT
           !.parent = p, !.waited = waited, !.deps = deps, !.mode = mode,
           !.life = CASE state = "waiting" -> "waiting" [] state = "blocked" -> "blocked" [] OTHER -> @,
           !.wait = IF state = "waiting" THEN "deps" ELSE @,
           !.depBlocked = (state = "blocked")]

Promote(asg, p, c, waited, deps, mode, requested) ==
    [asg EXCEPT ![c] = ChildRow(asg, p, waited, deps, mode, requested)]

-----------------------------------------------------------------------------
(* One child in a pass of resolveChildDependencies *)

\* isDependencyWaiting
DependencyWaiting(asg, c) == asg[c].life = "waiting" /\ asg[c].wait = "deps"

\* blocked, and isDependencyBlocked
DependencyBlocked(asg, c) == asg[c].life = "blocked" /\ asg[c].depBlocked

\* shouldRestoreWaitingAfterDependencyBlock
RestoresWait(asg, c) == asg[c].wait \in {"child", "other", "paused"}

\* Mutant of Resolution: a child that is waiting already is not blocked.
BlocksActiveOnly(asg, life, c) ==
    LET state == DependencyStateOf(asg, life, c)
    IN  IF IsTerminal(asg, c) \/ asg[c].deps = {} THEN "nothing"
        ELSE CASE state = "blocked" /\ asg[c].life = "active" -> "depBlocked"
               [] /\ state = "satisfied"
                  /\ \/ DependencyWaiting(asg, c)
                     \/ DependencyBlocked(asg, c) /\ ~RestoresWait(asg, c) ->
                       IF HasCapacityToReactivate(asg, c) THEN "resume"
                       ELSE IF asg[c].life = "blocked" THEN "deps" ELSE "nothing"
               [] state = "satisfied" /\ DependencyBlocked(asg, c) /\ RestoresWait(asg, c) -> "other"
               [] state = "waiting" /\ (asg[c].life = "active" \/ DependencyBlocked(asg, c)) ->
                     IF asg[c].life = "blocked" /\ RestoresWait(asg, c) THEN "other" ELSE "deps"
               [] OTHER -> "nothing"

\* Mutant of Resolution: the wait a blocked child had before is forgotten.
ForgetsWait(asg, life, c) ==
    LET state == DependencyStateOf(asg, life, c)
    IN  IF IsTerminal(asg, c) \/ asg[c].deps = {} THEN "nothing"
        ELSE CASE state = "blocked" /\ asg[c].life # "blocked" -> "depBlocked"
               [] state = "satisfied" /\ (DependencyWaiting(asg, c) \/ DependencyBlocked(asg, c)) ->
                     IF HasCapacityToReactivate(asg, c) THEN "resume"
                     ELSE IF asg[c].life = "blocked" THEN "deps" ELSE "nothing"
               [] state = "waiting" /\ (asg[c].life = "active" \/ DependencyBlocked(asg, c)) -> "deps"
               [] OTHER -> "nothing"

\* What the pass does to child c when the states at the start of the pass were
\* `life`: "resume" it, give it a decision, or nothing.
Resolution(asg, life, c) ==
    LET state == DependencyStateOf(asg, life, c)
    IN  IF IsTerminal(asg, c) \/ asg[c].deps = {} THEN "nothing"
        ELSE CASE state = "blocked" /\ asg[c].life # "blocked" -> "depBlocked"
               [] /\ state = "satisfied"
                  /\ \/ DependencyWaiting(asg, c)
                     \/ DependencyBlocked(asg, c) /\ ~RestoresWait(asg, c) ->
                       IF HasCapacityToReactivate(asg, c) THEN "resume"
                       ELSE IF asg[c].life = "blocked" THEN "deps" ELSE "nothing"
               [] state = "satisfied" /\ DependencyBlocked(asg, c) /\ RestoresWait(asg, c) -> "other"
               [] state = "waiting" /\ (asg[c].life = "active" \/ DependencyBlocked(asg, c)) ->
                     IF asg[c].life = "blocked" /\ RestoresWait(asg, c) THEN "other" ELSE "deps"
               [] OTHER -> "nothing"

Resolve(asg, c, what) ==
    IF what = "resume" THEN Control(asg, c, "resume") ELSE Decide(asg, c, what)
=============================================================================

--------------------------- MODULE WakeupPlanner ----------------------------
(***************************************************************************)
(* Autonomous assignments at work: AutonomousAssignmentService              *)
(* (src/src/assignments/service.ts), the planner that wakes them            *)
(* (wakeup-planner.ts), the operator's controls (server/http-server.ts),    *)
(* channel intake (intake.ts), and the process they run in.                *)
(*                                                                         *)
(* Node runs one callback at a time.  A callback of this system (an HTTP    *)
(* request, a scheduler timer, a coordinator run or a mutation that ends)   *)
(* runs to completion without giving way, because everything it awaits is   *)
(* already settled; but it is a chain of separate database transactions,    *)
(* and the process may die between two of them.  `thread` is what is left   *)
(* of the chain: one action per transaction, nothing else until it is done. *)
(*                                                                         *)
(* The scheduler appears as JobQueue does, with its budget of one attempt:  *)
(* a scheduled wakeup fires once, and is lost if the process dies while     *)
(* its handler runs.  Delays are left out: a scheduled job may fire at any  *)
(* time.                                                                   *)
(***************************************************************************)
EXTENDS AssignmentRules, Sequences

CONSTANTS
    Roots,            \* the ids that may be created without a parent
    InitialTables,    \* the assignments tables the first process may find
    Policies,         \* the policies an operator may ask for
    OperatorActions,  \* what the operator may do, of AllOperatorActions
    MutationPolicies, \* the policies a planner mutation may install
    MaxControls,      \* bound: control requests of the operator
    MaxCrashes        \* bound: process deaths

AllOperatorActions ==
    {"create", "promote", "pause", "resume", "cancel", "reopen",
     "force_wakeup", "add_context", "change_policy"}

ASSUME PlannerAssumption ==
    /\ Roots \subseteq Ids
    /\ InitialTables \subseteq [Ids -> Assignment]
    /\ Policies \subseteq Policy
    /\ MutationPolicies \subseteq Policy
    /\ OperatorActions \subseteq AllOperatorActions
    /\ MaxControls \in Nat
    /\ MaxCrashes \in Nat

VARIABLES
    asg,            \* the assignments table
    scheduled,      \* assignments with a wakeup job in status "scheduled"
    runs,           \* wakeups whose coordinator run or mutation is awaited
    activeWakeups,  \* the planner's in-memory Set of assignments being woken
    thread,         \* the rest of the running callback, a sequence of steps
    holder,         \* whose wakeNow is running in `thread`, its finally to come
    controlled,     \* control requests so far
    crashed         \* process deaths so far

vars == <<asg, scheduled, runs, activeWakeups, thread, holder, controlled, crashed>>

-----------------------------------------------------------------------------
(* Steps of a callback *)

NotTaken == [a \in Ids |-> "absent"]

DecideStep(a, decision) == [step |-> "decide", id |-> a, decision |-> decision]

\* scheduleNext for each of `ids`: the pending job is reused if there is one.
ScheduleStep(ids) == [step |-> "schedule", ids |-> ids]

\* resolveChildDependencies(parent), its loop at the top: `cause` is the
\* assignment whose scheduleDependencyContinuations called it, None if the call
\* came from control() or applyWakeupDecision, which drop the result.
ResolveStep(parent, cause) ==
    [step |-> "resolve", parent |-> parent, cause |-> cause, changed |-> TRUE,
     before |-> NotTaken, todo |-> {}, activated |-> {}, lost |-> {}]

PlannerStep(a, marker) == [step |-> "planner", id |-> a, marker |-> marker]

\* What follows a write to assignment a under parent p.
Refresh(p) == IF p = None THEN <<>> ELSE <<ResolveStep(p, None)>>
Continue(p, a) == IF p = None THEN <<>> ELSE <<ResolveStep(p, a)>>

\* A terminal or blocked outcome, then the dependants and the parent.
Settle(a, decision) == <<DecideStep(a, decision)>> \o Continue(asg[a].parent, a)

\* Another wakeup, then the wait it is for.
Park(a, why) == <<ScheduleStep({a}), DecideStep(a, why)>> \o Refresh(asg[a].parent)

-----------------------------------------------------------------------------
(* Coordinator markers *)

NoMarker == [status |-> "none", child |-> "none", deps |-> {}, mode |-> "all", mutates |-> FALSE]

\* Ids a child may be given: a bound of the model, not of the code.
FreshChildren == {c \in Ids \ Roots : ~Exists(asg, c)}

\* What parsePlannerMarkers may find in the output of a run of assignment a.
Markers(a) ==
    {m \in [status : {"completed", "blocked", "continue"},
            child : {"none", "background", "waited"},
            deps : SUBSET Children(asg, a), mode : {"all", "any"},
            mutates : {FALSE, MutationPolicies # {}}] :
        /\ m.child # "none" => FreshChildren # {}
        /\ m.child = "none" => m.deps = {}
        /\ m.deps = {} => m.mode = "all"}

Marker == [status : {"none", "completed", "blocked", "continue"},
           child : {"none", "background", "waited"},
           deps : SUBSET Ids, mode : {"all", "any"}, mutates : BOOLEAN]

\* wakeup is the assignment's wakeupCount when the run was started; marker is
\* NoMarker until the coordinator has answered.
Run == [id : Ids, wakeup : Nat, marker : Marker]

Step ==
    [step : {"decide"}, id : Ids, decision : Decisions]
    \cup [step : {"schedule"}, ids : SUBSET Ids]
    \cup [step : {"resolve"}, parent : Ids, cause : Ids \cup {None}, changed : BOOLEAN,
          before : [Ids -> LifecycleStates], todo : SUBSET Ids, activated : SUBSET Ids,
          lost : SUBSET Ids]
    \cup [step : {"planner"}, id : Ids, marker : Marker]

TypeOK ==
    /\ asg \in [Ids -> Assignment]
    /\ scheduled \in SUBSET Ids
    /\ runs \in SUBSET Run
    /\ activeWakeups \in SUBSET Ids
    /\ thread \in Seq(Step)
    /\ holder \in Ids \cup {None}
    /\ controlled \in 0..MaxControls
    /\ crashed \in 0..MaxCrashes

\* The table of a new installation.
EmptyTable ==
    [a \in Ids |-> [NewAssignment([maxWakeups |-> 1, maxFailures |-> 1,
                                  maxChildren |-> 0, maxDepth |-> 0])
                     EXCEPT !.life = "absent"]]

\* Waits for a wakeup of its own, not for its siblings or its operator.
AwaitsWakeup(a) == asg[a].life = "waiting" /\ asg[a].wait \in {"child", "other"}

\* A process starts on the tables an earlier one left.
Init ==
    /\ asg \in InitialTables
    /\ scheduled = {a \in Ids : asg[a].life = "active" \/ AwaitsWakeup(a)}
    /\ runs = {}
    /\ activeWakeups = {}
    /\ thread = <<>>
    /\ holder = None
    /\ controlled = 0
    /\ crashed = 0

\* The process is free to take the next callback.
Idle == thread = <<>> /\ holder = None

-----------------------------------------------------------------------------
(* Creation and operator requests *)

\* AssignmentIntake.handle, for a message that is an assignment and no duplicate.
Intake(a, policy) ==
    /\ Idle
    /\ a \in Roots /\ ~Exists(asg, a)
    /\ asg' = [asg EXCEPT ![a] = NewAssignment(policy)]
    /\ thread' = <<ScheduleStep({a})>>
    /\ UNCHANGED <<scheduled, runs, activeWakeups, holder, controlled, crashed>>

\* A request of the operator, of those this instance allows.
Operates(action) ==
    /\ Idle
    /\ action \in OperatorActions
    /\ UNCHANGED <<scheduled, runs, activeWakeups, holder, crashed>>

Controls(action) ==
    /\ Operates(action)
    /\ controlled < MaxControls
    /\ controlled' = controlled + 1

\* POST /admin/assignments: nobody schedules a wakeup.
AdminCreate(a, policy) ==
    /\ Operates("create")
    /\ a \in Roots /\ ~Exists(asg, a)
    /\ asg' = [asg EXCEPT ![a] = NewAssignment(policy)]
    /\ UNCHANGED <<thread, controlled>>

\* The same with a parentAssignmentId: a child without dependencies.
AdminPromote(p, c, policy) ==
    /\ Operates("promote")
    /\ Exists(asg, p) /\ CanPromote(asg, p) /\ c \in FreshChildren
    /\ asg' = Promote(asg, p, c, FALSE, {}, "all", policy)
    /\ UNCHANGED <<thread, controlled>>

\* POST /admin/assignments/:id/control.  control() resolves the siblings' and
\* drops what that activated; the route then schedules the forced wakeup, or
\* resolves again and schedules what is activated this time.
ControlRequest(a, action) ==
    LET p == asg[a].parent
        dropped == IF action = "add_context" THEN <<>> ELSE Refresh(p)
        kept == IF action = "force_wakeup" THEN <<ScheduleStep({a})>> ELSE Continue(p, a)
    IN  /\ action \in {"pause", "resume", "cancel", "reopen", "force_wakeup", "add_context"}
        /\ Controls(action)
        /\ Exists(asg, a) /\ ControlAllowed(asg, a, action)
        /\ asg' = Control(asg, a, action)
        /\ thread' = dropped \o kept

\* The same route with change_policy.
ChangePolicy(a, policy) ==
    /\ Controls("change_policy")
    /\ Exists(asg, a)
    /\ asg' = [asg EXCEPT ![a].policy = policy]
    /\ thread' = Continue(asg[a].parent, a)

-----------------------------------------------------------------------------
(* A wakeup job fires: handleScheduledWakeup, wakeNow up to the coordinator *)

Fires(a) ==
    /\ Idle
    /\ a \in scheduled
    /\ scheduled' = scheduled \ {a}
    /\ UNCHANGED <<controlled, crashed>>

\* Mutant of Overlaps: activeWakeups is never asked.
NeverOverlaps(a) == IsTerminal(asg, a)

\* Nothing to do: a wakeup is under way, or the assignment is over.
Overlaps(a) == a \in activeWakeups \/ IsTerminal(asg, a)

SkipWakeup(a) ==
    /\ Fires(a)
    /\ Overlaps(a)
    /\ UNCHANGED <<asg, runs, activeWakeups, thread, holder>>

\* isIdleExpired: the process was away, or the delay longer than maxIdleHours.
ExpireIdle(a) ==
    /\ Fires(a)
    /\ ~Overlaps(a)
    /\ thread' = Settle(a, "expired")
    /\ UNCHANGED <<asg, runs, activeWakeups, holder>>

\* From here on wakeNow holds a in activeWakeups, and its finally will release it.
Wakes(a) ==
    /\ Fires(a)
    /\ ~Overlaps(a)
    /\ activeWakeups' = activeWakeups \cup {a}

DependencyNow(a) == DependencyStateOf(asg, Lives(asg), a)

\* startWakeup's two last refusals.
Reserves(a) ==
    \/ ActiveWaitedChildren(asg, a) # {}
    \/ RemainingWakeups(asg, a, ActiveChildren(asg, a)) <= 0

RefuseLostDependency(a) ==
    /\ Wakes(a)
    /\ DependencyNow(a) = "blocked"
    /\ thread' = Settle(a, "depBlocked")
    /\ holder' = a
    /\ UNCHANGED <<asg, runs>>

\* The wait is recorded again, and no further wakeup is scheduled.
RefusePendingDependency(a) ==
    /\ Wakes(a)
    /\ DependencyNow(a) = "waiting"
    /\ thread' = <<DecideStep(a, "deps")>> \o Refresh(asg[a].parent)
    /\ holder' = a
    /\ UNCHANGED <<asg, runs>>

RefuseReserved(a) ==
    /\ Wakes(a)
    /\ DependencyNow(a) = "satisfied"
    /\ Reserves(a)
    /\ thread' = Park(a, "child")
    /\ holder' = a
    /\ UNCHANGED <<asg, runs>>

\* startWakeup's transaction.
Woken(row) == [row EXCEPT !.life = "active", !.wakeups = @ + 1, !.open = TRUE]

\* startWakeup, and the call of runCoordinator that wakeNow then awaits.
StartWakeup(a) ==
    /\ Wakes(a)
    /\ DependencyNow(a) = "satisfied"
    /\ ~Reserves(a)
    /\ asg' = [asg EXCEPT ![a] = Woken(asg[a])]
    /\ runs' = runs \cup {[id |-> a, wakeup |-> asg[a].wakeups + 1, marker |-> NoMarker]}
    /\ UNCHANGED <<thread, holder>>

-----------------------------------------------------------------------------
(* The coordinator answers: the rest of wakeNow *)

\* completeWakeupRun and failWakeup close the wakeup.
RunSucceeded(a) == [asg EXCEPT ![a] = [asg[a] EXCEPT !.failures = 0, !.open = FALSE]]

RunFailed(a) == [asg EXCEPT ![a] = [asg[a] EXCEPT !.failures = @ + 1, !.open = FALSE]]

\* The coordinator answered with marker m; with a mutation marker wakeNow goes
\* on to await applyAsync.
RunReturns(r, m) ==
    /\ Idle
    /\ r \in runs /\ r.marker = NoMarker
    /\ asg' = RunSucceeded(r.id)
    /\ IF m.mutates
         THEN /\ runs' = (runs \ {r}) \cup {[r EXCEPT !.marker = m]}
              /\ UNCHANGED <<thread, holder>>
         ELSE /\ runs' = runs \ {r}
              /\ thread' = <<PlannerStep(r.id, m)>>
              /\ holder' = r.id
    /\ UNCHANGED <<scheduled, activeWakeups, controlled, crashed>>

\* The mutation has been applied, to the assignment's own policy or to something
\* outside this module, or was denied.
MutationEnds(r) ==
    /\ Idle
    /\ r \in runs /\ r.marker # NoMarker
    /\ \E policy \in MutationPolicies \cup {asg[r.id].policy} :
         asg' = [asg EXCEPT ![r.id].policy = policy]
    /\ runs' = runs \ {r}
    /\ thread' = <<PlannerStep(r.id, r.marker)>>
    /\ holder' = r.id
    /\ UNCHANGED <<scheduled, activeWakeups, controlled, crashed>>

\* Mutant of RunFails: the failures are counted but never end the assignment.
RunFailsForever(r) ==
    /\ Idle
    /\ r \in runs
    /\ asg' = RunFailed(r.id)
    /\ runs' = runs \ {r}
    /\ thread' = Park(r.id, "other")
    /\ holder' = r.id
    /\ UNCHANGED <<scheduled, activeWakeups, controlled, crashed>>

\* runCoordinator, or the mutation, threw.
RunFails(r) ==
    /\ Idle
    /\ r \in runs
    /\ asg' = RunFailed(r.id)
    /\ runs' = runs \ {r}
    /\ thread' = IF asg[r.id].failures + 1 >= asg[r.id].policy.maxFailures
                   THEN Settle(r.id, "failed")
                   ELSE Park(r.id, "other")
    /\ holder' = r.id
    /\ UNCHANGED <<scheduled, activeWakeups, controlled, crashed>>

\* What the status marker, or the wakeup budget, makes of the assignment.
Outcome(a, status) ==
    CASE status = "completed" -> Settle(a, "completed")
      [] status = "blocked" -> Settle(a, "blocked")
      [] OTHER -> IF asg[a].wakeups >= asg[a].policy.maxWakeups
                    THEN Settle(a, "expired") ELSE Park(a, "other")

\* applyPlannerChild with a request the rules allow, and what follows it.
PromoteChild(c) ==
    LET s == Head(thread)
        m == s.marker
        a == s.id
        promoted == Promote(asg, a, c, m.child = "waited", m.deps, m.mode, asg[a].policy)
        child == CASE promoted[c].life = "active" -> <<ScheduleStep({c})>>
                   [] promoted[c].life = "blocked" -> Continue(a, c)
                   [] OTHER -> <<>>
    IN  /\ thread # <<>> /\ s.step = "planner" /\ m.child # "none"
        /\ CanPromote(asg, a) /\ c \in FreshChildren
        /\ asg' = promoted
        /\ thread' = child \o (IF m.child = "waited" /\ promoted[c].life # "blocked"
                                 THEN Park(a, "child") ELSE Outcome(a, m.status))
        /\ UNCHANGED <<scheduled, runs, activeWakeups, holder, controlled, crashed>>

\* No child requested, or the request is refused and that recorded.
NoChild ==
    LET s == Head(thread)
    IN  /\ thread # <<>> /\ s.step = "planner"
        /\ s.marker.child = "none" \/ ~CanPromote(asg, s.id) \/ FreshChildren = {}
        /\ thread' = Outcome(s.id, s.marker.status)
        /\ UNCHANGED <<asg, scheduled, runs, activeWakeups, holder, controlled, crashed>>

-----------------------------------------------------------------------------
(* The other steps of a callback *)

\* One transaction of applyWakeupDecision.
TakeDecision ==
    LET s == Head(thread)
    IN  /\ thread # <<>> /\ s.step = "decide"
        /\ asg' = Decide(asg, s.id, s.decision)
        /\ thread' = Tail(thread)
        /\ UNCHANGED <<scheduled, runs, activeWakeups, holder, controlled, crashed>>

\* One call of scheduleNext.
ScheduleNext ==
    LET s == Head(thread)
    IN  /\ thread # <<>> /\ s.step = "schedule"
        /\ \E a \in s.ids :
             /\ scheduled' = scheduled \cup {a}
             /\ thread' = (IF s.ids = {a} THEN <<>> ELSE <<ScheduleStep(s.ids \ {a})>>)
                             \o Tail(thread)
        /\ UNCHANGED <<asg, runs, activeWakeups, holder, controlled, crashed>>

\* Mutant of ResolveChild: what it changes does not call for another pass.
ResolveOnce ==
    LET s == Head(thread)
    IN  /\ thread # <<>> /\ s.step = "resolve"
        /\ \E c \in s.todo :
             LET what == Resolution(asg, s.before, c)
                 next == [s EXCEPT
                            !.todo = @ \ {c},
                            !.activated = IF what = "resume" THEN @ \cup {c} ELSE @,
                            !.lost = IF what = "depBlocked" THEN @ \cup {c} ELSE @]
             IN  /\ what # "nothing"
                 /\ asg' = Resolve(asg, c, what)
                 /\ thread' = <<next>> \o Tail(thread)
        /\ UNCHANGED <<scheduled, runs, activeWakeups, holder, controlled, crashed>>

\* A child of the pass that something applies to.  The order of the children is
\* that of their last update, which a control on any of them changes.
ResolveChild ==
    LET s == Head(thread)
    IN  /\ thread # <<>> /\ s.step = "resolve"
        /\ \E c \in s.todo :
             LET what == Resolution(asg, s.before, c)
                 next == [s EXCEPT
                            !.changed = TRUE,
                            !.todo = @ \ {c},
                            !.activated = IF what = "resume" THEN @ \cup {c} ELSE @,
                            !.lost = IF what = "depBlocked" THEN @ \cup {c} ELSE @]
             IN  /\ what # "nothing"
                 /\ asg' = Resolve(asg, c, what)
                 /\ thread' = <<next>> \o Tail(thread)
        /\ UNCHANGED <<scheduled, runs, activeWakeups, holder, controlled, crashed>>

\* A child is passed over when its turn comes and nothing applies to it; if that
\* changes before the pass is over, the pass, or the next one, comes to it.
PassOver(s) == \A c \in s.todo : Resolution(asg, s.before, c) = "nothing"

ResolutionOver(s) == PassOver(s) /\ ~s.changed

\* `while (changed)`: another pass over a fresh list of children.
NextPass ==
    LET s == Head(thread)
    IN  /\ thread # <<>> /\ s.step = "resolve"
        /\ PassOver(s) /\ s.changed
        /\ thread' = <<[s EXCEPT !.changed = FALSE, !.before = Lives(asg),
                                 !.todo = Children(asg, s.parent)]>> \o Tail(thread)
        /\ UNCHANGED <<asg, scheduled, runs, activeWakeups, holder, controlled, crashed>>

\* shouldScheduleParentContinuation
ParentMayContinue(p) ==
    \/ asg[p].life = "active" /\ ~asg[p].open
    \/ asg[p].life = "waiting" /\ asg[p].wait = "child"

\* Mutant of EndResolution: only the parent is scheduled.
ForgetsActivated ==
    LET s == Head(thread)
        p == s.parent
        waitedFor == \E c \in {s.cause} \cup s.activated \cup s.lost : asg[c].waited
        parent == IF /\ ActiveWaitedChildren(asg, p) = {}
                     /\ waitedFor
                     /\ ParentMayContinue(p)
                    THEN <<ScheduleStep({p})>> ELSE <<>>
    IN  /\ thread # <<>> /\ s.step = "resolve"
        /\ ResolutionOver(s)
        /\ thread' = (IF s.cause = None THEN <<>> ELSE parent) \o Tail(thread)
        /\ UNCHANGED <<asg, scheduled, runs, activeWakeups, holder, controlled, crashed>>

\* The loop is over.  For scheduleDependencyContinuations: schedule whom it
\* activated, then the parent if the last child it waits for is settled.
EndResolution ==
    LET s == Head(thread)
        p == s.parent
        children == IF s.activated = {} THEN <<>> ELSE <<ScheduleStep(s.activated)>>
        waitedFor == \E c \in {s.cause} \cup s.activated \cup s.lost : asg[c].waited
        parent == IF /\ ActiveWaitedChildren(asg, p) = {}
                     /\ waitedFor
                     /\ ParentMayContinue(p)
                    THEN <<ScheduleStep({p})>> ELSE <<>>
    IN  /\ thread # <<>> /\ s.step = "resolve"
        /\ ResolutionOver(s)
        /\ thread' = (IF s.cause = None THEN <<>> ELSE children \o parent) \o Tail(thread)
        /\ UNCHANGED <<asg, scheduled, runs, activeWakeups, holder, controlled, crashed>>

\* wakeNow's finally; its job is completed.
Release ==
    /\ thread = <<>> /\ holder # None
    /\ activeWakeups' = activeWakeups \ {holder}
    /\ holder' = None
    /\ UNCHANGED <<asg, scheduled, runs, thread, controlled, crashed>>

-----------------------------------------------------------------------------
(* The process *)

\* The process dies, at any point, and is started again.  The tables survive;
\* jobs that were running are failed by the scheduler's recovery.
CrashAndRestart ==
    /\ crashed < MaxCrashes
    /\ crashed' = crashed + 1
    /\ thread' = <<>>
    /\ holder' = None
    /\ runs' = {}
    /\ activeWakeups' = {}
    /\ UNCHANGED <<asg, scheduled, controlled>>

FireJob(a) ==
    \/ SkipWakeup(a)
    \/ ExpireIdle(a)
    \/ RefuseLostDependency(a)
    \/ RefusePendingDependency(a)
    \/ RefuseReserved(a)
    \/ StartWakeup(a)

RunEnds(r) ==
    \/ \E m \in Markers(r.id) : RunReturns(r, m)
    \/ MutationEnds(r)
    \/ RunFails(r)

ThreadStep ==
    \/ \E c \in FreshChildren : PromoteChild(c)
    \/ NoChild
    \/ TakeDecision
    \/ ScheduleNext
    \/ ResolveChild
    \/ NextPass
    \/ EndResolution
    \/ Release

OperatorRequest ==
    \/ \E a \in Roots, policy \in Policies : AdminCreate(a, policy)
    \/ \E p \in Ids, c \in Ids, policy \in Policies : AdminPromote(p, c, policy)
    \/ \E a \in Ids, action \in AllOperatorActions : ControlRequest(a, action)
    \/ \E a \in Ids, policy \in Policies : ChangePolicy(a, policy)

Next ==
    \/ \E a \in Roots, policy \in Policies : Intake(a, policy)
    \/ OperatorRequest
    \/ \E a \in Ids : FireJob(a)
    \/ \E r \in runs : RunEnds(r)
    \/ ThreadStep
    \/ CrashAndRestart

Spec == Init /\ [][Next]_vars

-----------------------------------------------------------------------------
(* Safety *)

\* One wakeup at a time for an assignment: the runs awaited are of different
\* assignments, and activeWakeups holds exactly those, while wakeups overlap,
\* fail, are overtaken by operator requests, or die with the process.
SingleFlight ==
    /\ \A r, t \in runs : r.id = t.id => r = t
    /\ activeWakeups = {r.id : r \in runs} \cup ({holder} \ {None})

\* The child agrees with the siblings it depends on: it is blocked if they are
\* lost, not active while they are pending, and not left behind when they are
\* satisfied and its parent has room.
AgreesWithSiblings(c) ==
    LET state == DependencyNow(c)
        awaits == \/ DependencyWaiting(asg, c)
                  \/ DependencyBlocked(asg, c) /\ ~RestoresWait(asg, c)
    IN  ~IsTerminal(asg, c) /\ asg[c].deps # {} =>
          /\ state = "blocked" => asg[c].life = "blocked"
          /\ state = "waiting" => asg[c].life # "active"
          /\ state = "satisfied" /\ awaits => ~HasCapacityToReactivate(asg, c)

\* When a callback is over, every child agrees with its siblings: no path that
\* changes one forgets those that depend on it (resolveChildDependencies,
\* service.ts 564-661, and its callers).  Holds until the process dies between
\* two transactions.
DependenciesSettled ==
    Idle /\ crashed = 0 => \A c \in Ids : Exists(asg, c) => AgreesWithSiblings(c)

\* One resolution repairs all a dead process left behind: whatever state the
\* children were in, they agree with their siblings when its loop ends.
ResolutionSettles ==
    thread # <<>> /\ Head(thread).step = "resolve" /\ ResolutionOver(Head(thread)) =>
        \A c \in Children(asg, Head(thread).parent) : AgreesWithSiblings(c)

\* The planner forgets no assignment: one that is active, or waits for anything but
\* its siblings, has a wakeup job or a wakeup under way.  With no operator but one
\* who changes a policy once; a policy lowered and raised again can leave room that
\* nobody looks at, and what is then resumed inside applyWakeupDecision is dropped.
NeverForgotten ==
    Idle /\ crashed = 0 =>
        \A a \in Ids :
            asg[a].life = "active" \/ AwaitsWakeup(a) => a \in scheduled \cup activeWakeups

\* Dependency resolution undoes no wait that is not its own: a child that an
\* operator paused, or that waits for a later wakeup, is not made active by it, nor
\* made to look as if it waited for its siblings, not even after its dependencies
\* were lost and recovered (tests/assignments.test.ts:620 and 780).
ResolutionRespectsWaits ==
    [][\A c \in Ids :
          /\ thread # <<>> /\ Head(thread).step = "resolve"
          /\ asg[c].life \in {"waiting", "blocked"} /\ RestoresWait(asg, c)
          => asg'[c].life \in {"waiting", "blocked"} /\ RestoresWait(asg', c)]_vars

\* Wakeups are promised once: what the children hold and the parent has used stays
\* within the parent's budget, while children end, block, recover and are promoted
\* (service.ts 190-330).  With no control and no change of policy, since neither reopen
\* nor a new policy asks the parent; and while children have no children of their own:
\* a blocked one that was scheduled to look after them is woken by startWakeup
\* (service.ts 793-821), which does not ask its parent either.
ChildrenWithinBudget ==
    \A p \in Ids :
        ActiveChildren(asg, p) # {} => RemainingWakeups(asg, p, ActiveChildren(asg, p)) >= 0

-----------------------------------------------------------------------------
(* What the documents and tests say, and the runs refute *)

\* "Terminal assignments must be reopened before they can wake": nothing but the
\* operator's reopen brings an assignment back from a terminal state.
TerminalUntilReopened ==
    [][\A a \in Ids :
          IsTerminal(asg, a) /\ asg'[a].life \notin TerminalStates => controlled' # controlled]_vars

-----------------------------------------------------------------------------
(* Liveness *)

\* Node runs every callback that is due, and those wait for no one: a job's timer
\* fires, a coordinator run returns or times out.  Other callbacks may come in
\* between, hence strong fairness.  Nothing makes the operator act.
Fairness ==
    /\ WF_vars(ThreadStep)
    /\ \A a \in Ids : SF_vars(FireJob(a))
    /\ \A a \in Ids : SF_vars(\E r \in runs : r.id = a /\ RunEnds(r))

FairSpec == Spec /\ Fairness

Settled(a) == asg[a].life \in TerminalStates \cup {"blocked"}

\* The last wakeup was used up by a run that failed, with failures to spare: the
\* retry is scheduled, is refused, and is scheduled again, for ever.
OutOfWakeups(a) ==
    /\ asg[a].failures \in 1..(asg[a].policy.maxFailures - 1)
    /\ asg[a].wakeups >= asg[a].policy.maxWakeups /\ ~asg[a].open

\* Whom an assignment waits for: a child that holds its wakeups, or a sibling.
HeldBy(a) == ActiveChildren(asg, a) \cup asg[a].deps

\* Out of wakeups, or kept waiting by one who is, through whatever others.
HeldUp(a) ==
    \A S \in SUBSET Ids :
        (\A b \in Ids : OutOfWakeups(b) \/ HeldBy(b) \cap S # {} => b \in S) => a \in S

\* An assignment is pursued "until it reaches a terminal outcome or exhausts its
\* policy or budget" (CONTEXT.md:88): it does not go on for ever, with retries after
\* failures (wakeup-planner.ts:318) and waits for children and siblings.  But for one
\* whose budget ends in a failure that may be retried, and those that it holds up.
AssignmentsSettle == \A a \in Ids : Exists(asg, a) ~> Settled(a) \/ HeldUp(a)
=============================================================================

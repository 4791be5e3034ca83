----------------------------- MODULE Scheduler ------------------------------
(***************************************************************************)
(* The job scheduler, src/src/scheduler/service.ts: durable rows of the    *)
(* jobs table, the in-memory timers that wake them, the handler calls that *)
(* are awaited, and the process that loses timers and calls when it ends.  *)
(*                                                                         *)
(* Time is a pair of countdowns.  row[j].wait is how long until the stored *)
(* scheduledAt (0: due or past), timer[j].left how long until the armed    *)
(* setTimeout callback is due.  Tick lets one unit pass for both; a        *)
(* callback may run any time after it is due.                              *)
(***************************************************************************)
EXTENDS Integers

CONSTANTS
    Jobs,             \* job identities
    AttemptBudgets,   \* the maxAttempts a caller may pass (1..10 over HTTP)
    Delays,           \* the delays a caller of schedule() may pass
    RescheduleDelays, \* the delays a caller of reschedule() may pass
    MaxTimerDelay,    \* setTimeout's longest delay, 2^31 - 1 ms
    RetryCap,         \* the longest retry delay, 60000 ms
    NoTimer           \* "no entry in the timers map"

ASSUME SchedulerAssumption ==
    /\ AttemptBudgets \subseteq Nat \ {0}
    /\ Delays \subseteq Nat
    /\ RescheduleDelays \subseteq Nat
    /\ MaxTimerDelay \in Nat \ {0}
    /\ RetryCap \in Nat \ {0}
    /\ NoTimer \notin [left : Nat, wait : Nat, hop : BOOLEAN]

VARIABLES
    phase,     \* the process: "down", "running", or "stopping" after stop()
    row,       \* row[j]: the durable row of job j
    timer,     \* timer[j]: the entry of j in the timers map
    executing  \* the handler calls being awaited, with the attempt each holds

vars == <<phase, row, timer, executing>>

-----------------------------------------------------------------------------
(* Types *)

Statuses == {"absent", "scheduled", "running", "completed", "failed"}

Row == [status : Statuses, attempts : Nat, budget : Nat, wait : Nat]

Timer == [left : Nat, wait : Nat, hop : BOOLEAN]

\* job is the row's id, attempt the attemptCount of the snapshot `runningJob`.
Execution == [job : Jobs, attempt : Nat]

TypeOK ==
    /\ phase \in {"down", "running", "stopping"}
    /\ row \in [Jobs -> Row]
    /\ timer \in [Jobs -> Timer \cup {NoTimer}]
    /\ executing \in SUBSET Execution

-----------------------------------------------------------------------------
(* Operators *)

Lesser(m, n) == IF m <= n THEN m ELSE n

\* Mutant of Armed: trust setTimeout with any delay, as if it did not overflow.
ArmedWithoutHop(wait) ==
    [left |-> Lesser(wait, MaxTimerDelay), wait |-> wait, hop |-> FALSE]

\* arm(): a timer for the job snapshot whose scheduledAt is `wait` away.  A
\* delay beyond MaxTimerDelay takes a hop and arms again from the snapshot.
Armed(wait) ==
    [left |-> Lesser(wait, MaxTimerDelay), wait |-> wait, hop |-> wait > MaxTimerDelay]

\* retryDelayMs: doubling from one unit, capped.
RetryDelay(attempt) ==
    IF 2^(attempt - 1) \in 1..RetryCap THEN 2^(attempt - 1) ELSE RetryCap

\* Timers of a job list that has just been written, armed only while running.
ArmIfRunning(j, wait) ==
    IF phase = "running" THEN [timer EXCEPT ![j] = Armed(wait)] ELSE timer

\* recoverStaleRunningJobs, for one row found "running" at start.
Recovered(r) ==
    IF r.attempts >= r.budget
      THEN [r EXCEPT !.status = "failed"]
      ELSE [r EXCEPT !.status = "scheduled", !.wait = 0]

\* Mutant of RecoveredRows: start() arms the backlog but recovers nothing.
NothingRecovered(S) == row

RecoveredRows(S) ==
    [j \in Jobs |->
        IF j \in S /\ row[j].status = "running" THEN Recovered(row[j]) ELSE row[j]]

-----------------------------------------------------------------------------
(* Actions *)

Init ==
    /\ phase = "down"
    /\ row = [j \in Jobs |-> [status |-> "absent", attempts |-> 0, budget |-> 0, wait |-> 0]]
    /\ timer = [j \in Jobs |-> NoTimer]
    /\ executing = {}

\* Mutant of Start: no `if (this.running) return`.
StartAgain ==
    /\ phase' = "running"
    /\ row' = RecoveredRows(Jobs)
    /\ timer' = [j \in Jobs |->
                    IF row'[j].status = "scheduled" THEN Armed(row'[j].wait) ELSE NoTimer]
    /\ UNCHANGED executing

\* A new process starts the scheduler: recover, then arm all scheduled jobs.
Start ==
    /\ phase = "down"
    /\ phase' = "running"
    /\ row' = RecoveredRows(Jobs)
    /\ timer' = [j \in Jobs |->
                    IF row'[j].status = "scheduled" THEN Armed(row'[j].wait) ELSE NoTimer]
    /\ UNCHANGED executing

\* A process that dies while recovering has updated some of the rows.
DieWhileRecovering ==
    /\ phase = "down"
    /\ \E S \in SUBSET Jobs : row' = RecoveredRows(S)
    /\ UNCHANGED <<phase, timer, executing>>

\* stop(): the timers go, awaited handlers go on.
Stop ==
    /\ phase = "running"
    /\ phase' = "stopping"
    /\ timer' = [j \in Jobs |-> NoTimer]
    /\ UNCHANGED <<row, executing>>

\* The process exits after stop(), or is killed at any point.
ProcessEnds ==
    /\ phase # "down"
    /\ phase' = "down"
    /\ timer' = [j \in Jobs |-> NoTimer]
    /\ executing' = {}
    /\ UNCHANGED row

\* The HTTP server answers, and handlers run, until the process ends.
Schedule(j, delay, budget) ==
    /\ phase # "down"
    /\ row[j].status = "absent"
    /\ row' = [row EXCEPT ![j] =
                  [status |-> "scheduled", attempts |-> 0, budget |-> budget, wait |-> delay]]
    /\ timer' = ArmIfRunning(j, delay)
    /\ UNCHANGED <<phase, executing>>

\* Mutant of Reschedule: the new time is stored, the old timer stays armed.
RescheduleUnarmed(j, delay) ==
    /\ phase # "down"
    /\ row[j].status = "scheduled"
    /\ row' = [row EXCEPT ![j].wait = delay]
    /\ UNCHANGED <<phase, timer, executing>>

Reschedule(j, delay) ==
    /\ phase # "down"
    /\ row[j].status = "scheduled"
    /\ row' = [row EXCEPT ![j].wait = delay]
    /\ timer' = ArmIfRunning(j, delay)
    /\ UNCHANGED <<phase, executing>>

TimerDue(j) == timer[j] # NoTimer /\ timer[j].left = 0

\* The callback of a timer that could not reach far enough.
Hop(j) ==
    /\ TimerDue(j)
    /\ timer[j].hop
    /\ timer' = [timer EXCEPT ![j] = Armed(timer[j].wait)]
    /\ UNCHANGED <<phase, row, executing>>

\* execute(): claim the row and call the handler, or find nothing to do.
Execute(j) ==
    /\ TimerDue(j)
    /\ ~timer[j].hop
    /\ timer' = [timer EXCEPT ![j] = NoTimer]
    /\ IF phase = "running" /\ row[j].status = "scheduled"
         THEN /\ row' = [row EXCEPT ![j].status = "running", ![j].attempts = @ + 1]
              /\ executing' = executing \cup {[job |-> j, attempt |-> row[j].attempts + 1]}
         ELSE UNCHANGED <<row, executing>>
    /\ UNCHANGED phase

\* The awaited handler returned: the row is rewritten from the snapshot.
HandlerReturns(e) ==
    /\ e \in executing
    /\ executing' = executing \ {e}
    /\ row' = [row EXCEPT ![e.job].status = "completed", ![e.job].attempts = e.attempt]
    /\ UNCHANGED <<phase, timer>>

\* Mutant of HandlerThrows: the retry is stored but not armed.
RetryUnarmed(e) ==
    /\ e \in executing
    /\ executing' = executing \ {e}
    /\ row' = [row EXCEPT ![e.job].status = IF e.attempt < row[e.job].budget
                                              THEN "scheduled" ELSE "failed"]
    /\ UNCHANGED <<phase, timer>>

\* Mutant of HandlerThrows: `<=` for `<`, a retry nobody paid for.
RetryOnceMore(e) ==
    /\ e \in executing
    /\ executing' = executing \ {e}
    /\ row' = [row EXCEPT ![e.job].status = IF e.attempt <= row[e.job].budget
                                              THEN "scheduled" ELSE "failed"]
    /\ timer' = [timer EXCEPT ![e.job] = IF e.attempt <= row[e.job].budget
                                          THEN Armed(RetryDelay(e.attempt)) ELSE @]
    /\ UNCHANGED phase

\* The awaited handler threw: retry while attempts remain.  The retry is armed
\* whether or not the scheduler is still running.
HandlerThrows(e) ==
    /\ e \in executing
    /\ executing' = executing \ {e}
    /\ IF e.attempt < row[e.job].budget
         THEN /\ row' = [row EXCEPT ![e.job].status = "scheduled",
                                    ![e.job].attempts = e.attempt,
                                    ![e.job].wait = RetryDelay(e.attempt)]
              /\ timer' = [timer EXCEPT ![e.job] = Armed(RetryDelay(e.attempt))]
         ELSE /\ row' = [row EXCEPT ![e.job].status = "failed", ![e.job].attempts = e.attempt]
              /\ UNCHANGED timer
    /\ UNCHANGED phase

Countdown(n) == IF n > 0 THEN n - 1 ELSE 0

TickedTimer(t) ==
    IF t = NoTimer THEN NoTimer ELSE [t EXCEPT !.left = Countdown(@), !.wait = Countdown(@)]

\* One unit of time passes, for the rows even while the process is down.
Tick ==
    /\ \E j \in Jobs : row[j].wait > 0 \/ (timer[j] # NoTimer /\ timer[j].left > 0)
    /\ row' = [j \in Jobs |-> [row[j] EXCEPT !.wait = Countdown(@)]]
    /\ timer' = [j \in Jobs |-> TickedTimer(timer[j])]
    /\ UNCHANGED <<phase, executing>>

Next ==
    \/ Start
    \/ DieWhileRecovering
    \/ Stop
    \/ ProcessEnds
    \/ \E j \in Jobs, delay \in Delays, budget \in AttemptBudgets : Schedule(j, delay, budget)
    \/ \E j \in Jobs, delay \in RescheduleDelays : Reschedule(j, delay)
    \/ \E j \in Jobs : Hop(j)
    \/ \E j \in Jobs : Execute(j)
    \/ \E e \in executing : HandlerReturns(e)
    \/ \E e \in executing : HandlerThrows(e)
    \/ Tick

Spec == Init /\ [][Next]_vars
-----------------------------------------------------------------------------
(* Safety *)

\* An awaited handler owns its row: the row is "running", at the attempt the
\* handler was started for, so two calls never run one job at the same time
\* and the whole-row write at the end overwrites nothing newer (service.ts
\* 229-266).
HandlerOwnsRow ==
    \A e \in executing :
        /\ row[e.job].status = "running"
        /\ row[e.job].attempts = e.attempt

\* While the process lives, a row marked "running" has a handler call that will
\* settle it: no row is left running by a path that forgot to write it back.
RunningIsAttended ==
    phase # "down" =>
        \A j \in Jobs : row[j].status = "running" => \E e \in executing : e.job = j

\* A job waiting for its next attempt still has one left, over failures,
\* retries and any number of crashes in the middle of an attempt.
AttemptLeft ==
    \A j \in Jobs : row[j].status = "scheduled" => row[j].attempts < row[j].budget

\* While the scheduler runs, every scheduled row has a timer aimed at the row's
\* own scheduledAt, not at one it had before a reschedule, a retry, a recovery
\* or a hop (service.ts 71-75, 142, 176, 214, 287).
ScheduledIsArmed ==
    phase = "running" =>
        \A j \in Jobs :
            row[j].status = "scheduled" =>
                /\ timer[j] # NoTimer
                /\ timer[j].wait = row[j].wait
                /\ timer[j].left <= row[j].wait

\* No attempt begins before the scheduledAt stored in the row at that moment.
NeverEarly ==
    [][\A j \in Jobs :
          row[j].status = "scheduled" /\ row'[j].status = "running" => row[j].wait = 0]_vars

-----------------------------------------------------------------------------
(* The scheduler implements the abstract job queue *)

Queue == INSTANCE JobQueue WITH
    state <- [j \in Jobs |-> row[j].status],
    budget <- [j \in Jobs |-> row[j].budget],
    tries <- [j \in Jobs |-> row[j].attempts]

\* Every step of the scheduler, a crash or a restart included, is a step of the
\* queue or invisible to it.
ImplementsJobQueue == Queue!QueueSpec

-----------------------------------------------------------------------------
(* Liveness *)

\* The handler call of job j ends one way or the other.
HandlerEnds(j) == \E e \in executing : e.job = j /\ (HandlerReturns(e) \/ HandlerThrows(e))

\* A process manager restarts the service; Node runs callbacks that are due;
\* clocks advance; a coordinator run is bounded by its timeout.  Callers and
\* crashes are not fair.
Fairness ==
    /\ WF_vars(Start)
    /\ WF_vars(Tick)
    /\ \A j \in Jobs : WF_vars(Hop(j)) /\ WF_vars(Execute(j)) /\ WF_vars(HandlerEnds(j))

FairSpec == Spec /\ Fairness

\* A step that moves a scheduled job to a later time.
Postpones(j) ==
    row[j].status = "scheduled" /\ row'[j].status = "scheduled" /\ row'[j].wait > row[j].wait

\* Once the process stays up and callers stop postponing, no scheduled job is
\* forgotten: each is run until it completes or has used up its attempts.
JobSettles ==
    <>[](phase = "running") /\ <>[][\A j \in Jobs : ~Postpones(j)]_vars =>
        \A j \in Jobs :
            row[j].status = "scheduled" ~> row[j].status \in {"completed", "failed"}
=============================================================================

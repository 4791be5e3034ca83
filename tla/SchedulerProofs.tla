--------------------------- MODULE SchedulerProofs --------------------------
(***************************************************************************)
(* The scheduler's invariants and its refinement of JobQueue, for every    *)
(* set of jobs, budgets and delays.                                        *)
(***************************************************************************)
EXTENDS Scheduler, TLAPS

\* A timer is aimed where its snapshot says: without a hop it fires exactly when
\* the snapshot is due, with one not after it.
TimersAim ==
    \A j \in Jobs : timer[j] # NoTimer =>
        /\ timer[j].left <= timer[j].wait
        /\ timer[j].hop \/ timer[j].left = timer[j].wait

\* A dead process awaits nothing; a job that was never submitted was never tried.
Quiet ==
    /\ phase = "down" => executing = {}
    /\ \A j \in Jobs : row[j].status = "absent" => row[j].attempts = 0

\* The inductive invariant.
IInv ==
    /\ TypeOK
    /\ HandlerOwnsRow
    /\ RunningIsAttended
    /\ AttemptLeft
    /\ ScheduledIsArmed
    /\ TimersAim
    /\ Quiet

-----------------------------------------------------------------------------
(* Lemmas about the operators *)

\* An armed timer is well formed and aims at the wait it was given.
LEMMA ArmedFacts ==
    ASSUME NEW wait \in Nat
    PROVE  /\ Armed(wait) \in Timer
           /\ Armed(wait) # NoTimer
           /\ Armed(wait).wait = wait
           /\ Armed(wait).left <= wait
           /\ Armed(wait).hop \/ Armed(wait).left = wait
<1>1. Lesser(wait, MaxTimerDelay) \in Nat /\ Lesser(wait, MaxTimerDelay) <= wait
  BY SchedulerAssumption DEF Lesser
<1>2. (wait > MaxTimerDelay) \in BOOLEAN
  OBVIOUS
<1>3. Armed(wait) \in Timer
  BY <1>1, <1>2 DEF Armed, Timer
<1>4. Armed(wait).hop \/ Armed(wait).left = wait
  <2>1. CASE wait > MaxTimerDelay
    BY <2>1, Zenon DEF Armed
  <2>2. CASE ~(wait > MaxTimerDelay)
    <3>1. Lesser(wait, MaxTimerDelay) = wait
      BY <2>2, SchedulerAssumption DEF Lesser
    <3>2. QED
      BY <3>1 DEF Armed
  <2>3. QED
    BY <2>1, <2>2
<1>5. Armed(wait) # NoTimer
  BY <1>3, SchedulerAssumption DEF Timer
<1>6. Armed(wait).wait = wait /\ Armed(wait).left <= wait
  BY <1>1 DEF Armed
<1>7. QED
  BY <1>3, <1>4, <1>5, <1>6

\* A retry delay is a delay.
LEMMA RetryDelayType ==
    ASSUME NEW n \in Nat
    PROVE  RetryDelay(n) \in Nat
  BY SchedulerAssumption DEF RetryDelay

\* One tick keeps a timer well formed and keeps where it aims.
LEMMA TickedTimerFacts ==
    ASSUME NEW t \in Timer, t # NoTimer
    PROVE  /\ TickedTimer(t) \in Timer
           /\ TickedTimer(t).wait = Countdown(t.wait)
           /\ TickedTimer(t).left = Countdown(t.left)
           /\ TickedTimer(t).hop = t.hop
<1>1. TickedTimer(t) = [t EXCEPT !.left = Countdown(@), !.wait = Countdown(@)]
  BY Zenon DEF TickedTimer
<1>2. t = [left |-> t.left, wait |-> t.wait, hop |-> t.hop]
  BY DEF Timer
<1>3. TickedTimer(t) = [left |-> Countdown(t.left), wait |-> Countdown(t.wait), hop |-> t.hop]
  BY <1>1, <1>2
<1>4. Countdown(t.left) \in Nat /\ Countdown(t.wait) \in Nat /\ t.hop \in BOOLEAN
  BY DEF Timer, Countdown
<1>5. QED
  BY <1>3, <1>4 DEF Timer

\* Recovery leaves no row "running" among those it reaches, touches no other
\* row, and reschedules only a job that has an attempt left.
LEMMA RecoveredFacts ==
    ASSUME row \in [Jobs -> Row], NEW S \in SUBSET Jobs
    PROVE  /\ RecoveredRows(S) \in [Jobs -> Row]
           /\ \A j \in Jobs :
                /\ RecoveredRows(S)[j].attempts = row[j].attempts
                /\ RecoveredRows(S)[j].budget = row[j].budget
                /\ RecoveredRows(S)[j].status =
                     IF j \in S /\ row[j].status = "running"
                       THEN IF row[j].attempts < row[j].budget THEN "scheduled" ELSE "failed"
                       ELSE row[j].status
<1>1. ASSUME NEW r \in Row
      PROVE  /\ Recovered(r) \in Row
             /\ Recovered(r).attempts = r.attempts
             /\ Recovered(r).budget = r.budget
             /\ Recovered(r).status = IF r.attempts < r.budget THEN "scheduled" ELSE "failed"
  <2>1. CASE r.attempts >= r.budget
    BY <2>1 DEF Recovered, Row, Statuses
  <2>2. CASE ~(r.attempts >= r.budget)
    <3>1. Recovered(r) = [r EXCEPT !.status = "scheduled", !.wait = 0]
      BY <2>2 DEF Recovered
    <3>2. r = [status |-> r.status, attempts |-> r.attempts,
               budget |-> r.budget, wait |-> r.wait]
      BY DEF Row
    <3>3. Recovered(r) = [status |-> "scheduled", attempts |-> r.attempts,
                          budget |-> r.budget, wait |-> 0]
      BY <3>1, <3>2
    <3>4. r.attempts < r.budget /\ r.attempts \in Nat /\ r.budget \in Nat
      BY <2>2 DEF Row
    <3>5. QED
      BY <3>3, <3>4 DEF Row, Statuses
  <2>3. QED
    BY <2>1, <2>2
<1>2. ASSUME NEW j \in Jobs
      PROVE  RecoveredRows(S)[j] =
               IF j \in S /\ row[j].status = "running" THEN Recovered(row[j]) ELSE row[j]
  BY DEF RecoveredRows
<1>3. ASSUME NEW j \in Jobs PROVE row[j] \in Row
  OBVIOUS
<1>4. RecoveredRows(S) \in [Jobs -> Row]
  BY <1>1, <1>3 DEF RecoveredRows
<1>5. QED
  BY <1>1, <1>2, <1>3, <1>4

-----------------------------------------------------------------------------
(* The invariant is inductive *)

LEMMA InitIInv == Init => IInv
  BY DEF Init, IInv, TypeOK, Row, Statuses, Execution, HandlerOwnsRow, RunningIsAttended,
         AttemptLeft, ScheduledIsArmed, TimersAim, Quiet

LEMMA NextIInv == IInv /\ [Next]_vars => IInv'
<1> SUFFICES ASSUME IInv, [Next]_vars PROVE IInv'
  OBVIOUS
<1> USE DEF IInv
<1>1. CASE Start
  <2>1. /\ row' = RecoveredRows(Jobs) /\ phase' = "running" /\ executing' = {}
        /\ timer' = [j \in Jobs |-> IF row'[j].status = "scheduled"
                                      THEN Armed(row'[j].wait) ELSE NoTimer]
    BY <1>1 DEF Start, Quiet
  <2>2. row' \in [Jobs -> Row]
    BY <2>1, RecoveredFacts DEF TypeOK
  <2>3. ASSUME NEW j \in Jobs
        PROVE  /\ row'[j].wait \in Nat
               /\ row'[j].status # "running"
               /\ row'[j].status = "scheduled" => row'[j].attempts < row'[j].budget
               /\ row'[j].status = "absent" => row'[j].attempts = 0
    BY <2>1, <2>2, RecoveredFacts DEF TypeOK, AttemptLeft, Quiet, Row
  <2>4. ASSUME NEW j \in Jobs
        PROVE  timer'[j] = IF row'[j].status = "scheduled" THEN Armed(row'[j].wait) ELSE NoTimer
    BY <2>1
  <2>5. timer' \in [Jobs -> Timer \cup {NoTimer}]
    BY <2>1, <2>3, ArmedFacts
  <2>6. TypeOK' /\ HandlerOwnsRow' /\ RunningIsAttended' /\ AttemptLeft' /\ Quiet'
    BY <2>1, <2>2, <2>3, <2>5 DEF TypeOK, HandlerOwnsRow, RunningIsAttended, AttemptLeft, Quiet
  <2>7. ScheduledIsArmed' /\ TimersAim'
    BY <2>3, <2>4, ArmedFacts DEF ScheduledIsArmed, TimersAim
  <2>8. QED
    BY <2>6, <2>7
<1>2. CASE DieWhileRecovering
  <2>1. PICK S \in SUBSET Jobs : row' = RecoveredRows(S)
    BY <1>2 DEF DieWhileRecovering
  <2>2. phase = "down" /\ UNCHANGED <<phase, timer, executing>> /\ executing = {}
    BY <1>2 DEF DieWhileRecovering, Quiet
  <2>3. row' \in [Jobs -> Row]
    BY <2>1, RecoveredFacts DEF TypeOK
  <2>4. ASSUME NEW j \in Jobs
        PROVE  /\ row'[j].status = "scheduled" => row'[j].attempts < row'[j].budget
               /\ row'[j].status = "absent" => row'[j].attempts = 0
    BY <2>1, <2>3, RecoveredFacts DEF TypeOK, AttemptLeft, Quiet, Row
  <2>5. QED
    BY <2>2, <2>3, <2>4 DEF TypeOK, HandlerOwnsRow, RunningIsAttended, AttemptLeft,
         ScheduledIsArmed, TimersAim, Quiet
<1>3. CASE Stop
  BY <1>3 DEF Stop, TypeOK, HandlerOwnsRow, RunningIsAttended, AttemptLeft,
         ScheduledIsArmed, TimersAim, Quiet
<1>4. CASE ProcessEnds
  BY <1>4 DEF ProcessEnds, TypeOK, HandlerOwnsRow, RunningIsAttended, AttemptLeft,
         ScheduledIsArmed, TimersAim, Quiet
<1>5. ASSUME NEW j \in Jobs, NEW delay \in Delays, NEW budget \in AttemptBudgets,
             Schedule(j, delay, budget)
      PROVE  IInv'
  <2>1. /\ phase # "down" /\ row[j].status = "absent" /\ UNCHANGED <<phase, executing>>
        /\ row' = [row EXCEPT ![j] = [status |-> "scheduled", attempts |-> 0,
                                      budget |-> budget, wait |-> delay]]
        /\ timer' = ArmIfRunning(j, delay)
    BY <1>5 DEF Schedule
  <2>2. delay \in Nat /\ budget \in Nat /\ 0 < budget
    BY SchedulerAssumption
  <2>3. /\ row' \in [Jobs -> Row] /\ row'[j].status = "scheduled" /\ row'[j].wait = delay
        /\ row'[j].attempts = 0 /\ row'[j].budget = budget
        /\ \A k \in Jobs \ {j} : row'[k] = row[k]
    BY <2>1, <2>2 DEF TypeOK, Row, Statuses
  <2>4. /\ timer' \in [Jobs -> Timer \cup {NoTimer}]
        /\ \A k \in Jobs \ {j} : timer'[k] = timer[k]
        /\ timer'[j] = IF phase = "running" THEN Armed(delay) ELSE timer[j]
    BY <2>1, <2>2, ArmedFacts DEF ArmIfRunning, TypeOK
  <2>5. \A e \in executing : e.job \in Jobs \ {j}
    BY <2>1 DEF HandlerOwnsRow, TypeOK, Execution
  <2>6. TypeOK' /\ Quiet' /\ AttemptLeft'
    BY <2>1, <2>2, <2>3, <2>4 DEF TypeOK, Quiet, AttemptLeft
  <2>7. HandlerOwnsRow' /\ RunningIsAttended'
    BY <2>1, <2>3, <2>5 DEF HandlerOwnsRow, RunningIsAttended
  <2>8. ScheduledIsArmed' /\ TimersAim'
    BY <2>1, <2>2, <2>3, <2>4, ArmedFacts DEF ScheduledIsArmed, TimersAim
  <2>9. QED
    BY <2>6, <2>7, <2>8
<1>6. ASSUME NEW j \in Jobs, NEW delay \in RescheduleDelays, Reschedule(j, delay)
      PROVE  IInv'
  <2>1. /\ phase # "down" /\ row[j].status = "scheduled" /\ UNCHANGED <<phase, executing>>
        /\ row' = [row EXCEPT ![j].wait = delay]
        /\ timer' = ArmIfRunning(j, delay)
    BY <1>6 DEF Reschedule
  <2>2. delay \in Nat
    BY SchedulerAssumption
  <2>3. /\ row' \in [Jobs -> Row] /\ row'[j].status = "scheduled" /\ row'[j].wait = delay
        /\ row'[j].attempts = row[j].attempts /\ row'[j].budget = row[j].budget
        /\ \A k \in Jobs \ {j} : row'[k] = row[k]
    BY <2>1, <2>2 DEF TypeOK, Row
  <2>4. /\ timer' \in [Jobs -> Timer \cup {NoTimer}]
        /\ \A k \in Jobs \ {j} : timer'[k] = timer[k]
        /\ timer'[j] = IF phase = "running" THEN Armed(delay) ELSE timer[j]
    BY <2>1, <2>2, ArmedFacts DEF ArmIfRunning, TypeOK
  <2>5. \A e \in executing : e.job \in Jobs \ {j}
    BY <2>1 DEF HandlerOwnsRow, TypeOK, Execution
  <2>6. TypeOK' /\ Quiet' /\ AttemptLeft'
    BY <2>1, <2>3, <2>4 DEF TypeOK, Quiet, AttemptLeft
  <2>7. HandlerOwnsRow' /\ RunningIsAttended'
    BY <2>1, <2>3, <2>5 DEF HandlerOwnsRow, RunningIsAttended
  <2>8. ScheduledIsArmed' /\ TimersAim'
    BY <2>1, <2>2, <2>3, <2>4, ArmedFacts DEF ScheduledIsArmed, TimersAim
  <2>9. QED
    BY <2>6, <2>7, <2>8
<1>7. ASSUME NEW j \in Jobs, Hop(j)
      PROVE  IInv'
  <2>1. /\ timer[j] \in Timer /\ timer[j].wait \in Nat /\ UNCHANGED <<phase, row, executing>>
        /\ timer' = [timer EXCEPT ![j] = Armed(timer[j].wait)]
    BY <1>7 DEF Hop, TimerDue, TypeOK, Timer
  <2>2. /\ timer' \in [Jobs -> Timer \cup {NoTimer}]
        /\ timer'[j] = Armed(timer[j].wait)
        /\ \A k \in Jobs \ {j} : timer'[k] = timer[k]
    BY <2>1, ArmedFacts DEF TypeOK
  <2>3. TypeOK' /\ Quiet' /\ AttemptLeft' /\ HandlerOwnsRow' /\ RunningIsAttended'
    BY <2>1, <2>2 DEF TypeOK, Quiet, AttemptLeft, HandlerOwnsRow, RunningIsAttended
  <2>4. ScheduledIsArmed' /\ TimersAim'
    BY <2>1, <2>2, ArmedFacts DEF ScheduledIsArmed, TimersAim
  <2>5. QED
    BY <2>3, <2>4
<1>8. ASSUME NEW j \in Jobs, Execute(j)
      PROVE  IInv'
  <2>1. /\ UNCHANGED phase /\ timer' = [timer EXCEPT ![j] = NoTimer]
    BY <1>8 DEF Execute
  <2>2. /\ timer' \in [Jobs -> Timer \cup {NoTimer}]
        /\ timer'[j] = NoTimer
        /\ \A k \in Jobs \ {j} : timer'[k] = timer[k]
    BY <2>1 DEF TypeOK
  <2>3. TimersAim'
    BY <2>2 DEF TimersAim
  <2>4. CASE phase = "running" /\ row[j].status = "scheduled"
    <3>1. /\ row' = [row EXCEPT ![j].status = "running", ![j].attempts = @ + 1]
          /\ executing' = executing \cup {[job |-> j, attempt |-> row[j].attempts + 1]}
      BY <1>8, <2>4 DEF Execute
    <3>2. row[j] \in Row
      BY DEF TypeOK
    <3>3. row'[j] = [status |-> "running", attempts |-> row[j].attempts + 1,
                     budget |-> row[j].budget, wait |-> row[j].wait]
      BY <3>1, <3>2 DEF TypeOK, Row
    <3>4. \A k \in Jobs \ {j} : row'[k] = row[k]
      BY <3>1 DEF TypeOK
    <3>5. row' \in [Jobs -> Row]
      BY <3>1, <3>2, <3>3, <3>4 DEF TypeOK, Row, Statuses
    <3>6. [job |-> j, attempt |-> row[j].attempts + 1] \in Execution
      BY <3>2 DEF Execution, Row
    <3>7. TypeOK'
      BY <2>1, <2>2, <3>1, <3>5, <3>6 DEF TypeOK
    <3>8. \A e \in executing : e.job \in Jobs \ {j}
      BY <2>4 DEF HandlerOwnsRow, TypeOK, Execution
    <3>9. HandlerOwnsRow'
      <4>1. ASSUME NEW e \in executing
            PROVE  row'[e.job].status = "running" /\ row'[e.job].attempts = e.attempt
        BY <3>4, <3>8 DEF HandlerOwnsRow
      <4>2. row'[j].status = "running" /\ row'[j].attempts = row[j].attempts + 1
        BY <3>3
      <4>3. ASSUME NEW e \in executing'
            PROVE  row'[e.job].status = "running" /\ row'[e.job].attempts = e.attempt
        <5>1. CASE e \in executing
          BY <4>1, <5>1
        <5>2. CASE e = [job |-> j, attempt |-> row[j].attempts + 1]
          <6>1. e.job = j /\ e.attempt = row[j].attempts + 1
            BY <5>2
          <6>2. QED
            BY <4>2, <6>1
        <5>3. QED
          BY <3>1, <5>1, <5>2
      <4>4. QED
        BY <4>3 DEF HandlerOwnsRow
    <3>10. RunningIsAttended'
      <4>1. ASSUME NEW k \in Jobs \ {j}, row'[k].status = "running"
            PROVE  \E e \in executing' : e.job = k
        BY <2>4, <3>1, <3>4, <4>1 DEF RunningIsAttended
      <4>2. \E e \in executing' : e.job = j
        <5>1. [job |-> j, attempt |-> row[j].attempts + 1] \in executing'
          BY <3>1
        <5>2. [job |-> j, attempt |-> row[j].attempts + 1].job = j
          OBVIOUS
        <5>3. QED
          BY <5>1, <5>2
      <4>3. QED
        BY <4>1, <4>2 DEF RunningIsAttended
    <3>11. Quiet' /\ AttemptLeft'
      BY <2>1, <2>4, <3>3, <3>4 DEF Quiet, AttemptLeft
    <3>12. ScheduledIsArmed'
      BY <2>1, <2>2, <3>3, <3>4 DEF ScheduledIsArmed
    <3>13. QED
      BY <2>3, <3>7, <3>9, <3>10, <3>11, <3>12
  <2>5. CASE ~(phase = "running" /\ row[j].status = "scheduled")
    <3>1. UNCHANGED <<row, executing>>
      BY <1>8, <2>5 DEF Execute
    <3>2. QED
      BY <2>1, <2>2, <2>3, <2>5, <3>1
         DEF TypeOK, HandlerOwnsRow, RunningIsAttended, AttemptLeft, ScheduledIsArmed, Quiet
  <2>6. QED
    BY <2>4, <2>5
<1>9. ASSUME NEW e \in executing, HandlerReturns(e)
      PROVE  IInv'
  <2>1. /\ e \in Execution /\ e.job \in Jobs /\ e.attempt \in Nat
        /\ row[e.job].status = "running" /\ row[e.job].attempts = e.attempt
    BY DEF TypeOK, Execution, HandlerOwnsRow
  <2>2. /\ executing' = executing \ {e} /\ UNCHANGED <<phase, timer>>
        /\ row' = [row EXCEPT ![e.job].status = "completed", ![e.job].attempts = e.attempt]
    BY <1>9 DEF HandlerReturns
  <2>3. /\ row' \in [Jobs -> Row] /\ row'[e.job].status = "completed"
        /\ \A k \in Jobs \ {e.job} : row'[k] = row[k]
    BY <2>1, <2>2 DEF TypeOK, Row, Statuses
  <2>4. \A f \in executing : f.job = e.job => f = e
    BY <2>1 DEF HandlerOwnsRow, TypeOK, Execution
  <2>5. \A f \in executing' : f \in executing /\ f.job \in Jobs \ {e.job}
    BY <2>2, <2>4 DEF TypeOK, Execution
  <2>6. TypeOK' /\ Quiet' /\ AttemptLeft'
    BY <2>2, <2>3 DEF TypeOK, Quiet, AttemptLeft
  <2>7. HandlerOwnsRow' /\ RunningIsAttended'
    BY <2>2, <2>3, <2>5 DEF HandlerOwnsRow, RunningIsAttended
  <2>8. ScheduledIsArmed' /\ TimersAim'
    BY <2>2, <2>3 DEF ScheduledIsArmed, TimersAim
  <2>9. QED
    BY <2>6, <2>7, <2>8
<1>10. ASSUME NEW e \in executing, HandlerThrows(e)
       PROVE  IInv'
  <2>1. /\ e \in Execution /\ e.job \in Jobs /\ e.attempt \in Nat
        /\ row[e.job].status = "running" /\ row[e.job].attempts = e.attempt
    BY DEF TypeOK, Execution, HandlerOwnsRow
  <2>2. executing' = executing \ {e} /\ UNCHANGED phase
    BY <1>10 DEF HandlerThrows
  <2>3. \A f \in executing : f.job = e.job => f = e
    BY <2>1 DEF HandlerOwnsRow, TypeOK, Execution
  <2>4. \A f \in executing' : f \in executing /\ f.job \in Jobs \ {e.job}
    BY <2>2, <2>3 DEF TypeOK, Execution
  <2>5. RetryDelay(e.attempt) \in Nat
    BY <2>1, RetryDelayType
  <2>6. CASE e.attempt < row[e.job].budget
    <3>1. /\ row' = [row EXCEPT ![e.job].status = "scheduled", ![e.job].attempts = e.attempt,
                                 ![e.job].wait = RetryDelay(e.attempt)]
          /\ timer' = [timer EXCEPT ![e.job] = Armed(RetryDelay(e.attempt))]
      BY <1>10, <2>6 DEF HandlerThrows
    <3>2. row[e.job] \in Row
      BY <2>1 DEF TypeOK
    <3>3. row'[e.job] = [status |-> "scheduled", attempts |-> e.attempt,
                         budget |-> row[e.job].budget, wait |-> RetryDelay(e.attempt)]
      BY <2>1, <3>1, <3>2 DEF TypeOK, Row
    <3>4. \A k \in Jobs \ {e.job} : row'[k] = row[k]
      BY <3>1 DEF TypeOK
    <3>5. row' \in [Jobs -> Row]
      BY <2>1, <2>5, <3>1, <3>2, <3>3, <3>4 DEF TypeOK, Row, Statuses
    <3>6. /\ timer' \in [Jobs -> Timer \cup {NoTimer}]
          /\ timer'[e.job] = Armed(RetryDelay(e.attempt))
          /\ \A k \in Jobs \ {e.job} : timer'[k] = timer[k]
      BY <2>1, <2>5, <3>1, ArmedFacts DEF TypeOK
    <3>7. TypeOK' /\ Quiet' /\ AttemptLeft'
      BY <2>2, <2>6, <3>3, <3>4, <3>5, <3>6 DEF TypeOK, Quiet, AttemptLeft
    <3>8. HandlerOwnsRow' /\ RunningIsAttended'
      BY <2>1, <2>2, <2>4, <3>3, <3>4 DEF HandlerOwnsRow, RunningIsAttended
    <3>9. ScheduledIsArmed' /\ TimersAim'
      BY <2>1, <2>2, <2>5, <3>3, <3>4, <3>6, ArmedFacts DEF ScheduledIsArmed, TimersAim
    <3>10. QED
      BY <3>7, <3>8, <3>9
  <2>7. CASE ~(e.attempt < row[e.job].budget)
    <3>1. /\ row' = [row EXCEPT ![e.job].status = "failed", ![e.job].attempts = e.attempt]
          /\ UNCHANGED timer
      BY <1>10, <2>7 DEF HandlerThrows
    <3>2. /\ row' \in [Jobs -> Row] /\ row'[e.job].status = "failed"
          /\ \A k \in Jobs \ {e.job} : row'[k] = row[k]
      BY <2>1, <3>1 DEF TypeOK, Row, Statuses
    <3>3. TypeOK' /\ Quiet' /\ AttemptLeft'
      BY <2>2, <3>1, <3>2 DEF TypeOK, Quiet, AttemptLeft
    <3>4. HandlerOwnsRow' /\ RunningIsAttended'
      BY <2>2, <2>4, <3>2 DEF HandlerOwnsRow, RunningIsAttended
    <3>5. ScheduledIsArmed' /\ TimersAim'
      BY <2>2, <3>1, <3>2 DEF ScheduledIsArmed, TimersAim
    <3>6. QED
      BY <3>3, <3>4, <3>5
  <2>8. QED
    BY <2>6, <2>7
<1>11. CASE Tick
  <2>1. /\ row' = [j \in Jobs |-> [row[j] EXCEPT !.wait = Countdown(@)]]
        /\ timer' = [j \in Jobs |-> TickedTimer(timer[j])]
        /\ UNCHANGED <<phase, executing>>
    BY <1>11 DEF Tick
  <2>2. ASSUME NEW j \in Jobs
        PROVE  /\ row'[j] \in Row
               /\ row'[j].status = row[j].status
               /\ row'[j].attempts = row[j].attempts
               /\ row'[j].budget = row[j].budget
               /\ row'[j].wait = Countdown(row[j].wait)
    BY <2>1 DEF TypeOK, Row, Countdown
  <2>3. row' \in [Jobs -> Row]
    BY <2>1, <2>2
  <2>4. ASSUME NEW j \in Jobs
        PROVE  timer'[j] = TickedTimer(timer[j])
    BY <2>1
  <2>5. ASSUME NEW j \in Jobs, timer[j] = NoTimer
        PROVE  timer'[j] = NoTimer
    BY <2>4, <2>5 DEF TickedTimer
  <2>6. ASSUME NEW j \in Jobs, timer[j] # NoTimer
        PROVE  /\ timer'[j] \in Timer /\ timer'[j] # NoTimer
               /\ timer'[j].wait = Countdown(timer[j].wait)
               /\ timer'[j].left = Countdown(timer[j].left)
               /\ timer'[j].hop = timer[j].hop
               /\ timer[j].wait \in Nat /\ timer[j].left \in Nat
    <3>1. timer[j] \in Timer
      BY <2>6 DEF TypeOK
    <3>2. TickedTimer(timer[j]) # NoTimer
      BY <2>6, <3>1, TickedTimerFacts, SchedulerAssumption DEF Timer
    <3>3. QED
      BY <2>4, <2>6, <3>1, <3>2, TickedTimerFacts DEF Timer
  <2>7. timer' \in [Jobs -> Timer \cup {NoTimer}]
    BY <2>1, <2>4, <2>5, <2>6
  <2>8. TypeOK' /\ Quiet' /\ AttemptLeft' /\ HandlerOwnsRow' /\ RunningIsAttended'
    <3>1. TypeOK'
      BY <2>1, <2>3, <2>7 DEF TypeOK
    <3>2. Quiet' /\ AttemptLeft'
      BY <2>1, <2>2 DEF Quiet, AttemptLeft
    <3>3. \A e \in executing : e.job \in Jobs
      BY DEF TypeOK, Execution
    <3>4. HandlerOwnsRow'
      BY <2>1, <2>2, <3>3 DEF HandlerOwnsRow
    <3>5. RunningIsAttended'
      BY <2>1, <2>2 DEF RunningIsAttended
    <3>6. QED
      BY <3>1, <3>2, <3>4, <3>5
  <2>9. TimersAim'
    BY <2>5, <2>6 DEF TimersAim, Countdown
  <2>10. ScheduledIsArmed'
    <3>1. SUFFICES ASSUME phase = "running", NEW j \in Jobs, row[j].status = "scheduled"
                   PROVE  /\ timer'[j] # NoTimer
                          /\ timer'[j].wait = row'[j].wait
                          /\ timer'[j].left <= row'[j].wait
      BY <2>1, <2>2 DEF ScheduledIsArmed
    <3>2. /\ timer[j] # NoTimer
          /\ timer[j].wait = row[j].wait
          /\ timer[j].left <= row[j].wait
      BY <3>1 DEF ScheduledIsArmed
    <3>3. timer'[j].left <= row'[j].wait
      BY <2>2, <2>6, <3>2 DEF Countdown
    <3>4. QED
      BY <2>2, <2>6, <3>2, <3>3
  <2>11. QED
    BY <2>8, <2>9, <2>10
<1>12. CASE UNCHANGED vars
  BY <1>12 DEF vars, TypeOK, Row, Statuses, Execution, HandlerOwnsRow, RunningIsAttended,
         AttemptLeft, ScheduledIsArmed, TimersAim, Quiet
<1>13. QED
  BY <1>1, <1>2, <1>3, <1>4, <1>5, <1>6, <1>7, <1>8, <1>9, <1>10, <1>11, <1>12 DEF Next

LEMMA IInvAlways == Spec => []IInv
<1>1. QED
  BY InitIInv, NextIInv, PTL DEF Spec

-----------------------------------------------------------------------------
(* Theorems *)

\* The rows, timers and awaited calls stay what the code's types say they are.
THEOREM TypeCorrect == Spec => []TypeOK
<1>1. IInv => TypeOK
  BY DEF IInv
<1>2. QED
  BY <1>1, IInvAlways, PTL

\* For any number of jobs, an awaited handler owns its row: execute() is never
\* inside two calls for one job, whatever timers, retries and restarts do.
THEOREM HandlerOwnsRowAlways == Spec => []HandlerOwnsRow
<1>1. IInv => HandlerOwnsRow
  BY DEF IInv
<1>2. QED
  BY <1>1, IInvAlways, PTL

\* A live process has a call under way for every row marked "running".
THEOREM RunningIsAttendedAlways == Spec => []RunningIsAttended
<1>1. IInv => RunningIsAttended
  BY DEF IInv
<1>2. QED
  BY <1>1, IInvAlways, PTL

\* A job waiting to run has an attempt left, over any number of crashes.
THEOREM AttemptLeftAlways == Spec => []AttemptLeft
<1>1. IInv => AttemptLeft
  BY DEF IInv
<1>2. QED
  BY <1>1, IInvAlways, PTL

\* A running scheduler holds a timer for every scheduled row, aimed at the time
\* stored in that row.
THEOREM ScheduledIsArmedAlways == Spec => []ScheduledIsArmed
<1>1. IInv => ScheduledIsArmed
  BY DEF IInv
<1>2. QED
  BY <1>1, IInvAlways, PTL

\* No attempt begins before the row's scheduledAt: a timer's snapshot is as old
\* as the row, and a hop re-arms for the rest of a delay beyond setTimeout's.
THEOREM NeverEarlyAlways == Spec => NeverEarly
<1> DEFINE Early == \A j \in Jobs :
        row[j].status = "scheduled" /\ row'[j].status = "running" => row[j].wait = 0
<1>1. IInv /\ [Next]_vars => [Early]_vars
  <2> SUFFICES ASSUME IInv, Next,
                      NEW j \in Jobs, row[j].status = "scheduled", row'[j].status = "running"
               PROVE  row[j].wait = 0
    OBVIOUS
  <2> USE DEF IInv
  <2>1. row \in [Jobs -> Row] /\ row[j] \in Row
    BY DEF TypeOK
  <2>2. ASSUME NEW S \in SUBSET Jobs, row' = RecoveredRows(S) PROVE FALSE
    BY <2>1, <2>2, RecoveredFacts
  <2>3. CASE Start
    BY <2>2, <2>3 DEF Start
  <2>4. CASE DieWhileRecovering
    BY <2>2, <2>4 DEF DieWhileRecovering
  <2>5. CASE Stop \/ ProcessEnds
    BY <2>5 DEF Stop, ProcessEnds
  <2>6. ASSUME NEW k \in Jobs, NEW delay \in Delays, NEW budget \in AttemptBudgets,
               Schedule(k, delay, budget)
        PROVE  FALSE
    BY <2>1, <2>6 DEF Schedule
  <2>7. ASSUME NEW k \in Jobs, NEW delay \in RescheduleDelays, Reschedule(k, delay)
        PROVE  FALSE
    BY <2>1, <2>7 DEF Reschedule, Row
  <2>8. ASSUME NEW k \in Jobs, Hop(k) PROVE FALSE
    BY <2>8 DEF Hop
  <2>9. ASSUME NEW k \in Jobs, Execute(k) PROVE row[j].wait = 0
    <3>1. k = j /\ phase = "running"
      BY <2>1, <2>9 DEF Execute
    <3>2. timer[j] # NoTimer /\ timer[j].left = 0 /\ ~timer[j].hop
      BY <2>9, <3>1 DEF Execute, TimerDue
    <3>3. timer[j].left = timer[j].wait
      BY <3>2 DEF TimersAim
    <3>4. timer[j].wait = row[j].wait
      BY <3>1 DEF ScheduledIsArmed
    <3>5. QED
      BY <3>2, <3>3, <3>4
  <2>10. ASSUME NEW e \in executing, HandlerReturns(e) \/ HandlerThrows(e) PROVE FALSE
    <3>1. e.job \in Jobs /\ row[e.job].status = "running"
      BY DEF TypeOK, Execution, HandlerOwnsRow
    <3>2. row'[j] = row[j]
      BY <2>1, <2>10, <3>1 DEF HandlerReturns, HandlerThrows
    <3>3. QED
      BY <3>2
  <2>11. CASE Tick
    <3>1. row'[j].status = row[j].status
      BY <2>1, <2>11 DEF Tick, Row
    <3>2. QED
      BY <3>1
  <2>12. QED
    BY <2>3, <2>4, <2>5, <2>6, <2>7, <2>8, <2>9, <2>10, <2>11 DEF Next
<1>2. QED
  BY <1>1, IInvAlways, PTL DEF Spec, NeverEarly

\* What AfterLostAttempt says of the queue is what the row becomes.
LEMMA LostAttempt ==
    ASSUME row \in [Jobs -> Row], NEW j \in Jobs
    PROVE  Queue!AfterLostAttempt(j) =
             IF row[j].attempts < row[j].budget THEN "scheduled" ELSE "failed"
  BY DEF Queue!AfterLostAttempt

\* Every step of the scheduler is a step of the job queue or leaves it alone:
\* a crash at any point, recovery, hops, stop and late callbacks never give a
\* job an attempt beyond its budget or touch a job that is settled.
THEOREM SchedulerImplementsJobQueue == Spec => ImplementsJobQueue
<1>1. Init => Queue!QueueInit
  BY DEF Init, Queue!QueueInit
<1>2. IInv /\ [Next]_vars => [Queue!QueueNext]_Queue!queueVars
  <2> SUFFICES ASSUME IInv, [Next]_vars
               PROVE  [Queue!QueueNext]_Queue!queueVars
    OBVIOUS
  <2> USE DEF IInv
  <2> DEFINE State(r) == [j \in Jobs |-> r[j].status]
             Budget(r) == [j \in Jobs |-> r[j].budget]
             Tries(r) == [j \in Jobs |-> r[j].attempts]
  <2>1. row \in [Jobs -> Row]
    BY DEF TypeOK
  <2>2. ASSUME \A j \in Jobs : /\ row'[j].status = row[j].status
                               /\ row'[j].budget = row[j].budget
                               /\ row'[j].attempts = row[j].attempts
        PROVE  UNCHANGED Queue!queueVars
    BY <2>2 DEF Queue!queueVars
  <2>3. ASSUME NEW S \in SUBSET Jobs, row' = RecoveredRows(S)
        PROVE  Queue!QueueNext
    <3> DEFINE T == {j \in S : row[j].status = "running"}
    <3>1. \A j \in Jobs : /\ row'[j].attempts = row[j].attempts
                          /\ row'[j].budget = row[j].budget
                          /\ row'[j].status = IF j \in T THEN Queue!AfterLostAttempt(j)
                                                        ELSE row[j].status
      BY <2>1, <2>3, RecoveredFacts, LostAttempt
    <3>2. T \in SUBSET Jobs /\ \A j \in T : row[j].status = "running"
      OBVIOUS
    <3>3. \E R \in SUBSET Jobs : Queue!LoseAttempts(R)
      <4>1. PICK R \in SUBSET Jobs : R = T
        BY <3>2
      <4>2. Queue!LoseAttempts(R)
        BY <3>1, <3>2, <4>1 DEF Queue!LoseAttempts
      <4>3. QED
        BY <4>2
    <3>4. QED
      BY <3>3 DEF Queue!QueueNext
  <2>4. CASE Start
    BY <2>3, <2>4 DEF Start
  <2>5. CASE DieWhileRecovering
    <3>1. PICK S \in SUBSET Jobs : row' = RecoveredRows(S)
      BY <2>5 DEF DieWhileRecovering
    <3>2. QED
      BY <2>3, <3>1
  <2>6. CASE Stop \/ ProcessEnds
    BY <2>2, <2>6 DEF Stop, ProcessEnds
  <2>7. ASSUME NEW j \in Jobs, NEW delay \in Delays, NEW budget \in AttemptBudgets,
               Schedule(j, delay, budget)
        PROVE  Queue!QueueNext
    <3>1. row[j].status = "absent" /\ row[j].attempts = 0
      BY <2>7 DEF Schedule, Quiet
    <3>2. /\ row'[j].status = "scheduled" /\ row'[j].attempts = 0 /\ row'[j].budget = budget
          /\ \A k \in Jobs \ {j} : row'[k] = row[k]
      BY <2>1, <2>7 DEF Schedule
    <3>3. State(row)' = [State(row) EXCEPT ![j] = "scheduled"]
      BY <3>2
    <3>4. Budget(row)' = [Budget(row) EXCEPT ![j] = budget] /\ Tries(row)' = Tries(row)
      BY <3>1, <3>2
    <3>5. Queue!Submit(j, budget)
      BY <3>1, <3>3, <3>4 DEF Queue!Submit
    <3>6. QED
      BY <3>5 DEF Queue!QueueNext
  <2>8. ASSUME NEW j \in Jobs, NEW delay \in RescheduleDelays, Reschedule(j, delay)
        PROVE  UNCHANGED Queue!queueVars
    <3>1. \A k \in Jobs : /\ row'[k].status = row[k].status
                          /\ row'[k].budget = row[k].budget
                          /\ row'[k].attempts = row[k].attempts
      BY <2>1, <2>8 DEF Reschedule, Row
    <3>2. QED
      BY <2>2, <3>1
  <2>9. ASSUME NEW j \in Jobs, Hop(j) PROVE UNCHANGED Queue!queueVars
    BY <2>2, <2>9 DEF Hop
  <2>10. ASSUME NEW j \in Jobs, Execute(j)
         PROVE  Queue!QueueNext \/ UNCHANGED Queue!queueVars
    <3>1. CASE phase = "running" /\ row[j].status = "scheduled"
      <4>1. row[j] \in Row /\ row[j].attempts < row[j].budget
        BY <2>1, <3>1 DEF AttemptLeft
      <4>2. row' = [row EXCEPT ![j].status = "running", ![j].attempts = @ + 1]
        BY <2>10, <3>1 DEF Execute
      <4>3. row'[j] = [status |-> "running", attempts |-> row[j].attempts + 1,
                       budget |-> row[j].budget, wait |-> row[j].wait]
        BY <2>1, <4>1, <4>2 DEF Row
      <4>4. \A k \in Jobs \ {j} : row'[k] = row[k]
        BY <2>1, <4>2
      <4>5. State(row)' = [State(row) EXCEPT ![j] = "running"] /\ Budget(row)' = Budget(row)
        <5>1. /\ row'[j].status = "running" /\ row'[j].budget = row[j].budget
          BY <4>3
        <5>2. QED
          BY <4>4, <5>1
      <4>6. Tries(row)' = [Tries(row) EXCEPT ![j] = @ + 1]
        <5>1. row'[j].attempts = row[j].attempts + 1
          BY <4>3
        <5>2. QED
          BY <4>4, <5>1
      <4>7. Queue!Begin(j)
        BY <3>1, <4>1, <4>5, <4>6 DEF Queue!Begin
      <4>8. QED
        BY <4>7 DEF Queue!QueueNext
    <3>2. CASE ~(phase = "running" /\ row[j].status = "scheduled")
      BY <2>2, <2>10, <3>2 DEF Execute
    <3>3. QED
      BY <3>1, <3>2
  <2>11. ASSUME NEW e \in executing, HandlerReturns(e)
         PROVE  Queue!QueueNext
    <3>1. e.job \in Jobs /\ row[e.job].status = "running" /\ row[e.job].attempts = e.attempt
      BY DEF TypeOK, Execution, HandlerOwnsRow
    <3>2. /\ row'[e.job].status = "completed" /\ row'[e.job].attempts = e.attempt
          /\ row'[e.job].budget = row[e.job].budget
          /\ \A k \in Jobs \ {e.job} : row'[k] = row[k]
      BY <2>1, <2>11, <3>1 DEF HandlerReturns, Row
    <3>3. /\ State(row)' = [State(row) EXCEPT ![e.job] = "completed"]
          /\ Budget(row)' = Budget(row) /\ Tries(row)' = Tries(row)
      BY <3>1, <3>2
    <3>4. Queue!Succeed(e.job)
      BY <3>1, <3>3 DEF Queue!Succeed
    <3>5. QED
      BY <3>1, <3>4 DEF Queue!QueueNext
  <2>12. ASSUME NEW e \in executing, HandlerThrows(e)
         PROVE  Queue!QueueNext
    <3>1. e.job \in Jobs /\ row[e.job].status = "running" /\ row[e.job].attempts = e.attempt
      BY DEF TypeOK, Execution, HandlerOwnsRow
    <3>2. /\ row'[e.job].status = Queue!AfterLostAttempt(e.job)
          /\ row'[e.job].attempts = e.attempt
          /\ row'[e.job].budget = row[e.job].budget
          /\ \A k \in Jobs \ {e.job} : row'[k] = row[k]
      BY <2>1, <2>12, <3>1, LostAttempt DEF HandlerThrows, Row
    <3>3. Queue!LoseAttempts({e.job})
      BY <3>1, <3>2 DEF Queue!LoseAttempts
    <3>4. QED
      BY <3>1, <3>3 DEF Queue!QueueNext
  <2>13. CASE Tick
    <3>1. \A j \in Jobs : /\ row'[j].status = row[j].status
                          /\ row'[j].budget = row[j].budget
                          /\ row'[j].attempts = row[j].attempts
      BY <2>1, <2>13 DEF Tick, Row
    <3>2. QED
      BY <2>2, <3>1
  <2>14. CASE UNCHANGED vars
    BY <2>2, <2>14 DEF vars
  <2>15. QED
    BY <2>4, <2>5, <2>6, <2>7, <2>8, <2>9, <2>10, <2>11, <2>12, <2>13, <2>14 DEF Next
<1>3. QED
  BY <1>1, <1>2, IInvAlways, PTL DEF Spec, ImplementsJobQueue, Queue!QueueSpec
=============================================================================

------------------------------ MODULE JobQueue ------------------------------
(***************************************************************************)
(* What the scheduler promises to everything that hands it work.           *)
(*                                                                         *)
(* A job is submitted once with a budget of attempts.  Each attempt is     *)
(* begun by one step and ended by another; an attempt that fails, or that  *)
(* is cut short because the process went away, puts the job back in the    *)
(* queue while the budget lasts and buries it otherwise.  Timers, clocks,  *)
(* process restarts and the jobs table are not visible at this level.      *)
(***************************************************************************)
EXTENDS Naturals

CONSTANTS
    Jobs,           \* the identities a submitted job may take
    AttemptBudgets  \* the attempt budgets a caller may ask for, none of them 0

VARIABLES
    state,   \* state[j]: where job j stands
    budget,  \* budget[j]: how many attempts j was given
    tries    \* tries[j]: how many attempts of j have begun

queueVars == <<state, budget, tries>>

QueueStates == {"absent", "scheduled", "running", "completed", "failed"}

QueueInit ==
    /\ state = [j \in Jobs |-> "absent"]
    /\ budget = [j \in Jobs |-> 0]
    /\ tries = [j \in Jobs |-> 0]

Submit(j, n) ==
    /\ state[j] = "absent"
    /\ state' = [state EXCEPT ![j] = "scheduled"]
    /\ budget' = [budget EXCEPT ![j] = n]
    /\ UNCHANGED tries

\* An attempt may begin only while the budget is not used up.
Begin(j) ==
    /\ state[j] = "scheduled"
    /\ tries[j] < budget[j]
    /\ state' = [state EXCEPT ![j] = "running"]
    /\ tries' = [tries EXCEPT ![j] = @ + 1]
    /\ UNCHANGED budget

Succeed(j) ==
    /\ state[j] = "running"
    /\ state' = [state EXCEPT ![j] = "completed"]
    /\ UNCHANGED <<budget, tries>>

\* Where an attempt that did not succeed leaves job j.
AfterLostAttempt(j) == IF tries[j] < budget[j] THEN "scheduled" ELSE "failed"

\* The attempts under way for the jobs of S end without success: one handler
\* that failed, or all those a restart of the process found interrupted.
LoseAttempts(S) ==
    /\ \A j \in S : state[j] = "running"
    /\ state' = [j \in Jobs |-> IF j \in S THEN AfterLostAttempt(j) ELSE state[j]]
    /\ UNCHANGED <<budget, tries>>

QueueNext ==
    \/ \E j \in Jobs, n \in AttemptBudgets : Submit(j, n)
    \/ \E j \in Jobs : Begin(j)
    \/ \E j \in Jobs : Succeed(j)
    \/ \E S \in SUBSET Jobs : LoseAttempts(S)

QueueSpec == QueueInit /\ [][QueueNext]_queueVars
=============================================================================

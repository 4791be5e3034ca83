# Phantom: a TLA+ verification project

Phantom is a single-process Node service around a coding agent. Operators and
channels hand it *autonomous assignments*; it wakes a coordinator for each of
them on a schedule, lets coordinators promote child assignments and change the
service's own configuration, and keeps everything in one SQLite database.

This directory holds TLA+ modules for the parts of it that carry state from one
callback to the next, TLC configurations that check them on small instances, and
proofs, checked by TLAPS, for the parts that are settled. `PROJECT.json` is the
index: components, runs, the definition-to-source map, hazards, findings, mutants
and theorems. Source paths below are relative to the repository's root; the
project calls them `src/<path>`.

    tlc -workers 2 -config MCScheduler.cfg MCScheduler       # check one run
    tlapm SchedulerProofs.tla                                # check the proofs


## 1. Inventory

What makes the system hard is the same everywhere. Node runs one callback at a
time, but a callback that awaits something unsettled lets others in; a callback
makes several database transactions and the process may die between two of them;
timers and `Set`s live in memory and rows on disk, and a restart keeps only the
rows; operators may send any request at any time.

### Job scheduler: `src/scheduler/service.ts`

- *State.* Rows of `jobs` (status, attempts, budget of attempts, scheduled time);
  `timers`, a map in memory; handlers being awaited; `running`.
- *Operations.* `start` (recover rows left `running`, arm all `scheduled` ones),
  `stop`, `schedule`, `reschedule`, the timer callback, which hops when the delay is
  beyond what `setTimeout` takes or executes, the return and the failure of a handler.
- *Interactions.* Everything that happens later is one of its jobs: assignment
  wakeups, prompts, asynchronous channel runs.
- *Hard.* The row is written back from a snapshot taken before the handler was
  awaited; timers are armed from snapshots that a reschedule may outdate; recovery
  itself may be interrupted; retries race with `stop`.
- *Correct if.* One handler per row at a time; nothing runs early; nothing scheduled
  lacks a timer; attempts are neither lost nor given twice; every job settles.

### Autonomous assignments: `src/assignments/service.ts`

- *State.* Rows of `assignments` (lifecycle state, parent, policy, counts of
  wakeups and failures), an event log that some decisions read back.
- *Operations.* Creation, promotion of a child, start / completion / failure of a
  wakeup, the planner's decisions, operator controls (pause, resume, cancel, reopen,
  force_wakeup, add_context), policy changes, resolution of dependencies between
  the children of one parent.
- *Interactions.* Called by the planner, intake, the admin routes, mutations.
- *Hard.* The budget of a parent is shared out among children that give it back and
  take it again; the resolution of one child changes what others depend on; waiting,
  blocked and restored are told apart by the newest event of certain types.
- *Correct if.* Dependants agree with their siblings; reservations stay within the
  parent's budget; a wait that an operator or a schedule imposed is not undone by a
  dependency; terminal means terminal until reopened.

### Assignment wakeup planner: `src/assignments/wakeup-planner.ts`

- *State.* `activeWakeups`, a `Set` in memory; everything else is in the two above.
- *Operations.* `wakeNow` from timer to `finally`: skip, expire, refuse, run the
  coordinator, parse its planner block, apply a mutation, promote a child, decide,
  schedule the next wakeup, resolve the dependants and schedule whoever may go on.
- *Interactions.* Scheduler (its jobs), assignment service (every step), coordinator
  (awaited), mutation executor (awaited).
- *Hard.* Two awaits in the middle, with decisions after them on what was read before;
  five places that must each remember to schedule somebody.
- *Correct if.* One wakeup per assignment at a time; nobody active or waiting for a
  later wakeup is without one; assignments come to an end.

### Assignment intake: `src/assignments/intake.ts`

Creates an assignment out of an inbound message and schedules its first wakeup; two
transactions with a possible crash in between. No state of its own.

### Autonomous mutations: `src/assignments/autonomous-mutations.ts`, `mutation-ledger.ts`, `mutation-adapters/`

- *State.* Rows of `assignment_mutations` (planned, applied, failed, rolled back) with
  the evidence of what was there before and after; the mutated resources: policies,
  operator settings, runtime limits, project files, channels.
- *Operations.* Apply and roll back, each in a synchronous and an asynchronous form;
  adapters that write and undo.
- *Interactions.* Planner blocks and admin routes request mutations; resources are also
  written by operators without a ledger; the channel adapter starts and stops
  the email poller and awaits it.
- *Hard.* Rollbacks in any order by several assignments; files written one by one, with
  failures in the middle; awaited lifecycle calls that overlap; a crash between a write
  and its record.
- *Correct if.* What is no longer applied leaves no trace; evidence says what was there;
  every planned row is settled by a living process; registry and poller agree. A file that a call left anyhow as it threw is beyond
  all of this (section 6).

### Inbound channels and delivery: `src/channels/inbound.ts`, `inbound-response-dispatcher.ts`, `slack-progress.ts`, `delivery-log.ts`, `slack-feedback.ts`

- *State.* A row of `inbound_channel_events` per provider event, with status, output and the progress shown to the
  sender; the delivery log; feedback; the `Set` of a progress reporter in memory.
- *Operations.* Accept, ignore, schedule and run an event (acknowledged first for Slack and email, awaited for a
  webhook), settle it, answer with retries, record the answer; progress message and reaction; feedback on either.
- *Interactions.* Intake looks at every event first and may turn it into an assignment. The coordinator is awaited.
- *Hard.* A provider delivers an event again while its first delivery runs, failed, or was interrupted; a call may take
  effect and be reported as failed; the reporter's own state, Slack's and the row are three accounts of one progress.
- *Correct if.* An asynchronous event is run and settled at most once, and its sender hears one answer for it; records
  say what happened; an event left behind lost its handler to a death.

### Email: `src/channels/email.ts`, `email-transports.ts`

- *State.* Running flag and timer in memory; the IMAP client, kept from poll to poll, and the UIDs it knows; the mailbox, which is elsewhere.
- *Operations.* `start`, `stop`, which closes the client, the poll that lists unread mail and handles it one by one, marking what it has accepted.
- *Hard.* `stop` and `start` during a running poll leave two loops, which share the client; a mail is marked after it was accepted, by another call; a
  broken client is not replaced.
- *Correct if.* A mail is marked seen only once something durable knows of it, and each is read in the end.

### Memory: `src/memory/`

- *State.* `memory_entries` with lifecycle states, links between newer and superseded entries, reinforcement events; the
  points of Qdrant; the policy; rows of maintenance runs, one timer and the id of the run that executes.
- *Operations.* Retrieve and store for an agent run, compaction into summaries, pruning to the caps; maintenance by
  timer and by hand, its recovery; memory mutations and their rollback; backfill at the start.
- *Interactions.* Every agent run reads and writes it; assignments mutate it; the maintenance does the same work beside them.
- *Hard.* Each step reads rows, awaits an embedding or Qdrant, and uses what it read; SQLite and Qdrant have no transaction in
  common; the maintenance timer may fire during a run made by hand.
- *Correct if.* A row that says it is in Qdrant is there; what is superseded has a successor; one maintenance run at a time, and a next one is armed.

### Orchestration and agent runtime: `src/orchestration/`, `src/agent/`; chat: `src/chat/`

- *State.* The graph of `runs`; `sessions` with the provider's response to continue from; attachments with their
  text index and blobs; tools and role policies as they are when a run asks for them.
- *Operations.* A coordinator run with subagents one after the other, each an agent run: read the session, query the memory, ask
  the provider, call tools, write the session; titles, artifacts and attachments of a chat message; role overrides.
- *Hard.* The session is read before the first await and written after the last; several requests may run in one session; tools
  and policies change meanwhile; a run may fail at any await and the process may die.
- *Correct if.* The session continues the conversation it lists; what is missing from it was lost to a concurrent run only; no run
  calls what its policy, its coordinator's or its budget forbids.

### Self-evolution proposals: `src/self-evolution/`, `src/server/settings.ts`

- *State.* Proposals, their mutations with the settings before and after, the settings.
- *Operations.* Create, approve, reject, apply, roll back; the operator's own updates.
- *Hard.* The change and its record are two commits; rollback checks for no conflict.
- *Correct if.* A proposal takes effect at most once and its status tells what became of it; the settings are what the applied ones explain.

### Tools: `src/tools/`

- *State.* Imports of bundles; `dynamic_tools`; the registry in memory, built-in and dynamic tools by id.
- *Operations.* Submit, approve and remove a tool; preview, approve, enable, disable and uninstall a bundle; start.
- *Hard.* A bundle is registered tool by tool, each with a commit of its own; several owners may claim an id; a
  refusal in the middle takes back what was registered.
- *Correct if.* What runs may call is what the table has as approved; an enabled bundle has all of its tools and another has none.

### Project files: `src/project-files/`

Patches and drafts, applied to a working tree. The application of several files, its undo and
rollback are in `MutationExecutor`; parsing, path checks and draft states are not.

### Runtime configuration, prompts and MCP, platform, HTTP server

Synchronous storage, text assembly, wire formats and I/O. The routes of the HTTP server that change modelled state are actions
of the module of that state (assignments, webhooks, chat, proposals, tools); the others only read or render. Each SQLite
statement or transaction is a step of the models.


## 2. Modules

| module | models | composed of |
|---|---|---|
| `JobQueue` | what a scheduler promises: jobs, budgets, attempts | |
| `Scheduler` | `scheduler/service.ts` | refines `JobQueue` |
| `SchedulerProofs` | theorems about `Scheduler` | `Scheduler`, `JobQueue` |
| `AssignmentRules` | the records and rules of `assignments/service.ts`, one operator per transaction | |
| `WakeupPlanner` | planner, service, controls, intake and process together | `AssignmentRules`; the scheduler as a `JobQueue` with budget 1 |
| `WakeupPlannerProofs` | theorems about `WakeupPlanner` | `WakeupPlanner` |
| `MutationExecutor` | executor, ledger and adapters | |
| `MutationExecutorProofs` | theorems about `MutationExecutor` | `MutationExecutor` |
| `HandledOnce` | what an asynchronous channel promises about one event | |
| `InboundChannels` | event store, router, answers, progress, feedback, email poller, with intake in front of them | refines `HandledOnce` |
| `InboundChannelsProofs` | theorems about `InboundChannels`, its refinement among them | `InboundChannels`, `HandledOnce` |
| `Memory` | store, lifecycle, vector store, maintenance and memory mutations | |
| `MemoryProofs` | theorems about `Memory` | `Memory` |
| `Orchestration` | coordinator, subagents, agent runs, sessions, tool policies, chat attachments | |
| `OrchestrationProofs` | theorems about `Orchestration` | `Orchestration` |
| `Proposals` | self-evolution and the operator settings | |
| `ProposalsProofs` | theorems about `Proposals` | `Proposals` |
| `ToolBundles` | dynamic tools, bundles, the registry | |
| `ToolBundlesProofs` | theorems about `ToolBundles` | `ToolBundles` |
| `MCScheduler`, `MCWakeupPlanner`, `MCMutationExecutor`, `MCInboundChannels`, `MCMemory`, `MCOrchestration`, `MCProposals`, `MCToolBundles` | constants of the runs | |

### JobQueue

A job is submitted with a budget, an attempt begins and ends by separate steps, and an attempt
that does not succeed puts the job back while the budget lasts. No timers, no process. One
step may end several attempts (`LoseAttempts`), because one restart does.

### Scheduler

`row[j]` is the row of `jobs`, `timer[j]` the entry of the map, `executing` the awaited handlers with the
attempt number of their snapshot, `phase` the process. Time is relative: `wait` is how
long until the row's time, `left` how long until the armed timeout, and `Tick` lets one unit pass
for all. A due callback may be late by any amount. `Armed` is `arm()` with its hop;
`Start` is recovery followed by arming, in one step because `start()` is synchronous, and
`DieWhileRecovering` is the process that died within it, with any subset of the rows recovered.
`Stop` clears timers and leaves handlers; a handler that fails after `Stop` still arms its retry,
as in the code, and `Execute` finds the scheduler stopped.

### AssignmentRules

A record keeps what decisions depend on. The event log is reduced to the three questions the code
asks of it: `wait` (newest paused / waiting / wakeup_scheduled / resumed event),
`depBlocked` (reason of the newest blocked event) and `open` (whether the newest event that
opens or closes a wakeup opened one). This assumes that events written later sort later, which
holds while the clock does not go backwards. `DependencyState` is `evaluateChildDependencies`, `Resolution` the body of the
loop of `resolveChildDependencies`, `CapPolicy` the part of policy capping the planner depends on.

### WakeupPlanner

Callbacks here await two things that are not settled already: `runCoordinator` and
`mutations.applyAsync`. Between those a callback gives way to nobody, but it makes several
transactions and may die between any two. Hence `thread`, the rest of the running callback as
a sequence of steps (`decide`, `schedule`, `resolve`, `planner`): an action per transaction, nothing else
until it is empty, and `CrashAndRestart` at any time. `runs` are the wakeups in an await,
`activeWakeups` the `Set`, `holder` the wakeup whose `finally` is still to come.

- A wakeup is fired by `FireJob`, whose disjuncts are the early returns of `wakeNow` and its normal start.
- `RunReturns` takes any planner block (`Markers`): status, mutation or not, child or not, waited
  for or not, dependencies on any siblings, mode `all` or `any`. `RunFails` is a throw of either await.
- Resolution visits children in the order of their last update. Controls on any of them change that
  order, so the model takes any order. A child to which nothing applies is passed over without
  a step of its own.
- The resolution made inside `control()` and `applyWakeupDecision` has no `cause`: its
  result is dropped there, as in the code.
- A child promoted by the planner takes all that is left of its parent's wakeups, so a second one
  can only be promoted after the policy is raised. `Steered` has such a raise; `Pair`, `Chain`
  and `Crowded` are tables that operators with explicit child policies reach (the last follows
  `tests/assignments.test.ts:391`).
- Delays are left out: a scheduled wakeup may fire at any time. This includes all orders real delays have.

### MutationExecutor

`callback` is the running request as a step to come; `calls` are the channel updates whose `stop()` is
awaited, as records of what they will do when it returns or throws. `store` holds the
resources, `poller` whether the lifecycle behind a channel runs. Rows carry the resources of the request from the
start, although the code stores concrete ones only once written; nothing reads them before. The three
kinds of file application are one, because they share their conflict types. Settings, limits and
policies are written whole. `operated` is history: the operator's own writes are in no ledger, and
properties about the ledger leave the resources he wrote out.

A call on a file may throw before it writes (`WriteFails`, `RestoreFails`) or after it has written something (`Spoil`): in the forward direction
(`WriteSpoils`) the undo then does not know of the file; while undoing (`UndoSpoils`) nothing restores the rest, and the row fails all the same; in a rollback
(`RestoreSpoils`) the row stays applied. `stray` is history: the files left so, on which the ledger has no hold any more.

### HandledOnce

Phases of one event, `new`, `accepted`, `started`, `settled`, and the set of events whose sender has heard an answer. Each moves
forward only, and an answer comes after the outcome is settled. An event may stay where it is for ever.

### InboundChannels

`rec[e]` is the row of event `e`, `task[e]` the rest of its handler with the calls its progress reporter has yet to make (`todo`),
`call[d]` a webhook request, `poll[l]` a loop of the email poller, `log`, `feedback` and `mission` the delivery log, the feedback and the
assignments made by intake. `slack`, `mailbox` and `answers` are outside and marked so: what the thread of the event shows,
which mails are unread, what senders have received.

- A step is what runs between two awaits. A call of a provider succeeds, fails, or takes effect and is reported failed (`lost`); failing
  calls, switches of a channel and deaths share the bound `MaxIncidents`. The retries of one answer are one step (`Sends`), which may end in a
  rejected call, thrown past the delivery log.
- `imap` is the poller's client with the UIDs it remembers: not connected (`none`), `open`, `dead` once its connection broke, or `spent`, a client that failed to
  connect and may or may not do so later. Only `close()` of a connected one or a restart drops it (`LoggedOut`). `trouble` are events whose calls or runs failed, `died` those whose
  handler died with the process; only the latter excuse a loss.
- `DeliverSlack`, `MailArrives`/`Poller` and `CallWebhook` are the three ways in, each with intake in front. `Crash` keeps the rows only.
- `Work` is what the reporter asks of Slack in each phase; a failing call ends the phase, as the `try` in the code does.
- The refinement reads the phase of an event off its row and off `runs`, the coordinator runs started for it.

### Memory

`entries` are the rows in order of insertion, `points` what Qdrant holds, `work[w]` the await that worker `w` (an agent run or the maintenance)
is in, with what it read before it. `maintenance`, `timer`, `executing` and `started` are the service; `phase` the boot sequence of the process.

- Scores and similarity are left out: a search returns any rows within the limit, and clusters are sets of turns that were active
  and not in a summary. Texts differ only as far as duplicate detection tells them apart. Importances are the constants of the code.
- The caps of the policy are small here; the code's least values are 10 and 2, and no definition depends on them.
- Qdrant may refuse, or take a call and report it failed (`ok`, `held`). A memory mutation is applied and rolled back as its adapter
  does, with the links it may find in its way.
- `made` is history: for each summary, its sources and how many rows there were when these were chosen.

### Orchestration

`work[q]` is the await in which request `q` is, with its part (0 the coordinator, others its subagents in their order), the session as read at
the start and the tool calls made. `rows` is the table of runs, `sessions` the sessions; `left` and `context` are history: which response an agent
run left behind and which it continued. `baseline`, in a row, is history too: the tools of the role at the spawn.

- Chat requests (`web`) and those of channels differ by what the code does around the run: titles, artifacts, attachments, run ids.
- `Allowed` tools come from the role's baseline or override, the request and the coordinator's tools, when the subagent is spawned; the
  registry is asked again at each call. The MCP servers follow the same rules and are left out.
- The upload of an attachment is two steps with the disk awaited in between.
- A timeout of the provider or of a tool is a failure of that await. Messages are a fixed small set.

### Proposals

One action per request, and one more where the process dies between the change of the settings and its record (`DieApplying`, `DieRollingBack`).
Only the target `configuration` has an adapter; the other four are one value. Risk matters by the confirmation it asks for. `orderly` is history: no
operator, no death and no rollback out of order has changed the settings so far.

### ToolBundles

`table` are the rows of `dynamic_tools` with their owner, `registry` and `dynamic` the two maps of `ToolRegistry`, `registry[t]` naming whose handler serves.
A bundle is its manifest: a sequence of tools with a scope. The scope `" write "` is there because the preview compares it as it is
and the registry without its blanks: it is the one known way to be refused in the middle of enabling. `DieEnabling` and `DieRemoving` cut a request
after any number of tools, which leaves the first of a bundle or takes them away; `DieUnwinding` cuts the loop that takes back a refused bundle's tools, which leaves the last. `touched` is history: bundles that were cut short or lost a tool to another owner.


## 3. What is checked

| run | instance | states | shows |
|---|---|---|---|
| `scheduler` | 2 jobs, budgets 1 and 3, delays 0 and 3, `MaxTimerDelay` = `RetryCap` = 2 | 4 203 | safety, refinement of `JobQueue`, `JobSettles` |
| `planner_steered` | empty table, 1 root, 2 children, one policy change | 1.0 M | dependants, nobody forgotten |
| `planner_operated` | table `Pair`, 2 arbitrary controls | 1.1 M | single flight, waits respected under an operator |
| `planner_crash` | empty or `Chain`, creation and promotion, one crash | 1.4 M | reservations, repair by the next resolution |
| `planner_live` | `PairWithRetries`: 9 wakeups, 3 for each child, a failure to spare for each, no operator, mutations that cut a policy | 66 k | `AssignmentsSettle` |
| `mutations` | 2 assignments, 2 files, 1 channel, limits, policies, 3 rows, 2 awaited calls, 1 crash | 649 k | ledger against resources |
| `channels` | 2 Slack events, 4 mails, 2 webhook events, 2 deliveries, 2 loops, batches of 1, 2 incidents | 281 k | refinement of `HandledOnce`, records, `EverythingSettles` |
| `memory` | 1 agent run, 5 entries, 3 maintenance rows, 1 incident | 191 k | rows against Qdrant, summaries, maintenance |
| `orchestration` | 2 requests in 1 session, 1 subagent, 3 tools, 1 tool call, 1 attachment, 1 change | 1.5 M | sessions, the graph, tool policies |
| `proposals` | 2 proposals, 2 fields, overlapping changes | 61 k | status and effect |
| `tool_bundles` | 4 tools (1 built in), 3 bundles that share ids, one refused at its third tool | 112 k | table against registry |
| `terminal_wakes` | 1 assignment, 1 cancel | < 10 k | a violation, section 6 |

The properties, one by one. `TypeOK` is among the properties of the `planner_steered`, `mutations`, `channels` and `memory` runs; the theorems of section 4 state it for every module with proofs.

- `HandlerOwnsRow`: the row an awaited handler will write back is `running` at that handler's
  attempt; so no two handlers share a row and the blind write at the end loses nothing.
- `RunningIsAttended`, `ScheduledIsArmed`: rows, timers and handlers match, over
  hops, reschedules, retries and recoveries.
- `NeverEarly` (action property): no attempt begins before the time stored in the row.
- `ImplementsJobQueue`: refinement. `state`, `budget` and `tries` are read off the rows; hops,
  ticks, `stop`, and the death of the process are stuttering, a restart is `LoseAttempts`.
- `JobSettles`: once the process stays up and callers stop postponing, each scheduled job is run to completion or out of attempts.
- `SingleFlight`: the wakeups awaited are of different assignments, and `activeWakeups` holds
  exactly them and the one whose callback runs.
- `DependenciesSettled`: when a callback is over, each child is blocked if its siblings are lost, not active while
  they are pending, not left parked when they are done and there is room.
- `ResolutionSettles`: the same for one resolution, whatever a crash had left.
- `NeverForgotten`: with no operator but one who changes a policy once, whoever is active or waits for
  anything but siblings has a wakeup job or a wakeup under way. (A policy lowered and raised again: section 6.)
- `ResolutionRespectsWaits` (action property): dependency resolution does not activate a child that an
  operator paused or that waits for a later wakeup, not after a loss and a recovery either.
- `ChildrenWithinBudget`: with no control and no change of policy, what the children hold and the parent has used stays
  within the parent's wakeups, while children have no children of their own (`maxDepth` 1; deeper trees: section 6).
- `AssignmentsSettle`: left alone, each assignment comes to a terminal or blocked state, over retries after failures and waits for children and
  siblings. Excepted are an assignment whose last wakeup ended in a failure it has another one to spare for (`OutOfWakeups`: its retry is refused and rescheduled
  for ever, section 6) and whoever waits for such a one, through whatever others (`HeldUp`). Without the exception TLC finds that case.
- `Reversible`: once the mutations of a resource have failed or been rolled back, it holds what it did
  before the first of them. Channels are excluded, what an operator wrote, and the files in `stray` (section 6): a file whose write or restoring
  threw half way, and those whose undo it kept from being made. That a failure leaves *no other* file changed is what is checked.
- `EvidenceChains`: each applied mutation found what the previous one left (or what a rollback of
  it that failed half way restored), and the resource is as the last one left it. Same exclusions.
- `PlannedIsPending`: while the process lives, a planned row has an awaited call that will settle it.
- `RedeliveryRepeatsNothing`: the sender of an asynchronous event hears one answer, plus one for each attempt that took effect
  and was reported failed; two webhook calls run the coordinator for one event at once only after a failure or a death.
- `RecordsTellTheTruth`: the delivery log has at most one row for an answer and does not claim what did not happen; feedback on an answer
  names the run that gave it. The log need not have a row: a rejected call leaves none (section 6).
- `NothingLost`: a mail is marked seen only when something durable knows of it; an event left `received` or `running`, or an
  assignment without its wakeup, lost its handler to a death of the process. A failed call excuses nothing.
- `ReporterInStep`: reactions, progress message and row agree, whichever call of the reporter fails.
- `HandlesOnce`: refinement of `HandledOnce`.
- `EverythingSettles`: routed events are settled in the end unless their handler died with the process, and mails are read, more of them than a batch takes and
  whatever calls fail, unless the channel is off or its client is one that will not be replaced (section 6).
- `MaintenanceInStep`: the row that is `running` is the one that executes; until it is stopped, the service has a timer for a
  scheduled row or a run that will arm one.
- `SyncedIsFindable`: a row marked as being in Qdrant is there; only a summary may be marked before it is sent, and only a
  death in between leaves it so.
- `SupersededHasSuccessor`: through pruning, rollback and chains of superseding, a superseded entry has a live successor.
- `SummariesApart`: two summaries share a turn only if the second chose its cluster before the first was stored.
- `ConversationIsListed`: each agent run a session lists continued what the one before it left, and the session continues the last.
- `LostOnlyToOverlap`: a completed run missing from its session had another request beside it there.
- `RunsAccounted`: the graph agrees with what is under way; a parent that has ended has no running child.
- `CallsInBounds`: whatever a run has called is in the policy it was given and in its coordinator's, no writing tool of the coordinator's among it; a subagent's call is one its role, as
  overridden when it was spawned, and its request permit as well, each judged on its own; and the number of calls is within the limit over all answers.
- `AttachmentsAgree`: an attachment and its text index name the same run, a completed one of its session.
- `TitleStays` (action property): the first title of a session stays.
- `AppliedOnce`: a proposal has at most one mutation in its whole life, and its status tells what became of it.
- `SettingsExplained`: while only proposals change the settings and are undone newest first, evidence forms a chain from the
  defaults to the settings in force.
- `RegistryFollowsTable`: what runs may call is what the table has as approved, in the version approved; only an id of a built-in tool may be
  served by the program instead.
- `EnabledServes`: an enabled bundle has all of its tools at work and another none, unless a death or another owner came in between.

Each of these has a mutant in `PROJECT.json`: a plausible wrong version of a definition, defined right before
it, under which TLC finds the property violated in the same run.

### Bounds, and why they suffice

- *Scheduler.* Two jobs never touch each other's rows; the second is there for recovery of a subset and for the refinement's
  `LoseAttempts`. A delay of 3 with `MaxTimerDelay` 2 takes one hop; hops repeat the same code.
  A budget of 3 reaches a retry at the cap. The clock needs no bound since it counts down.
- *Planner.* Two children are the least that can depend on each other; `Chain` has three so that a
  resolution needs a second pass. Wakeup budgets of 2 to 6 let an assignment run, retry and run out;
  `PairWithRetries` has 9 and 3, so that each of three assignments may fail once, retry, and still fail for good or run out. `MaxControls` = 2
  is enough for cancel-then-reopen and pause-then-resume around anything else. `FreshChildren` (the ids not used yet) bounds
  promotions. `MaxCrashes` = 1: a second crash starts from a state that is also one after the first.
  The policies of `planner_crash` have `maxDepth` 1 and `planner_steered` has one change of policy because the properties hold up to there
  (section 6); neither bound is one of the theorems about single flight, waits and resolutions, and the depth is not one of `DependenciesSettledAlways`.
- *Mutations.* Three rows allow two overlapping mutations and one between; two files allow a
  partial write, a partial undo and a file that the undo does not know of. `MaxClock` = 1 and `MaxCalls` = 2. `KindsApart` is a constraint that keeps a behaviour to
  mutations of one kind: no two kinds have a resource in common, and conflicts are looked for within a kind. Channel mutations are of one assignment, and so are those of files after a death or once a file
  is left anyhow, of which there are then two (conflicts of both kinds are found by resource, not by assignment; those of files are by two assignments otherwise). With them the clock stays at 0, so that the row order decides, as it does
  between equal times; it runs with the other kinds. The settings, which several assignments may
  change, are where a rollback out of order goes unopposed (`Contested`). The theorems have neither the constraint nor these bounds.
- *Channels.* One event of each sort with and without an assignment in its text, one mail of each sort the poller passes over; two deliveries
  are a first one and its repetition, or two of different events. Two incidents are a failure and a death, or a channel switched off and on.
  `MaxLoops` = 2: the second is the one `start` makes during a poll; a third would meet the same code. `BatchSize` = 1: with two deliveries the second mail may come over the limit, and waits for the next poll.
  The constraint `MailsApart` keeps mails apart from Slack events and webhook calls, with which they share the registry and the process only; it cuts arrivals, none of which is a fair action, so that no promise of
  progress is broken off by it.
  Two incidents also break the client and switch the channel off, or fail a connection and a logout.
- *Memory.* Five rows: two turns of an earlier run, those of a new run, a fact and a summary. Three maintenance rows: one interrupted or done, one
  by hand, one by timer. One incident is a refused call, a mutation with its rollback, a changed policy or a death, at any await.
- *Orchestration.* Two requests overlap in one session; one has a subagent that asks for a tool its role has and for one that writes, a session of the chat and an attachment. One tool
  call per answer and in all reaches the limit; the constraint `OneCalls` lets one of the two requests call tools, its subagent included, for calls are counted by run. One change is an upload, a tool registered, a role override or a death.
- *Proposals.* Two proposals are undone in either order; three changes: each field alone, and both. Requests are not bounded.
- *Tool bundles.* Two bundles that share an id, one that is refused at its last tool after two that are registered, so that unwinding may be cut with a part of them left, and a built-in tool
  whose id may be submitted. Requests are not bounded.
- `CHECK_DEADLOCK FALSE` in the planner, mutation, channel, memory and orchestration runs: the system does stop when everything is
  settled and the bounds run out.
- `SYMMETRY` only in runs without temporal liveness, over values nothing distinguishes.

### Fairness

- *Scheduler.* Weak fairness of `Start` (a process manager restarts the service), `Tick` (clocks),
  `Hop`, `Execute` (Node runs due timers) and the end of each handler (coordinator runs have a timeout). None for callers, `Stop` or crashes;
  `JobSettles` assumes that the process eventually stays up and that a job is not rescheduled to a later time for ever.
- *Planner.* Weak fairness of the running callback; strong fairness of each assignment's wakeup job and of the
  end of each run, because another callback may disable these for a moment again and again while the
  event loop keeps them queued. None for operators and crashes.
- *Channels.* Weak fairness of the handlers taken together (each has finitely many steps, and none is started without a delivery), and of the poller's loops
  together with the restart. None for providers, operators, webhook callers or crashes. Each awaited call is assumed to return: the coordinator and the
  mail and Slack clients have timeouts.
- *Memory, orchestration, proposals, tools.* None: their properties are about safety.


## 4. What is proved

`SchedulerProofs` proves, for any jobs, budgets, delays and limits allowed by `SchedulerAssumption` (budgets and limits positive,
`NoTimer` not a timer):

- `TypeCorrect`, `HandlerOwnsRowAlways`, `RunningIsAttendedAlways`, `AttemptLeftAlways`, `ScheduledIsArmedAlways`;
- `NeverEarlyAlways`;
- `SchedulerImplementsJobQueue`.

They rest on one inductive invariant, `IInv`: the five invariants together with `TimersAim` and `Quiet`.
`ScheduledIsArmed` says where the timer's snapshot agrees with the row, but nothing of when the timer fires: `TimersAim` adds that one
without a hop fires exactly when its snapshot is due and one with a hop not after it, and
`NeverEarly` follows. `Quiet` says that a process that is down awaits no
handler, so that recovery takes no row from one, and that a job never submitted has no attempts. The
step lemma `NextIInv` has a case for each action; lemmas `ArmedFacts`, `RetryDelayType`, `TickedTimerFacts` and `RecoveredFacts` say
what the operators return. The refinement maps each action to a step of the queue; `LostAttempt` covers the
failure of a handler and the recovery of a set of rows.

`WakeupPlannerProofs` proves, for any finite table of assignments, any depth, any policies, operators and crashes (`NoneAssumption`,
`IdsAssumption`, `PlannerAssumption`):

- `SingleFlightAlways`. The invariant is `FlightInv`: `SingleFlight`, the shape of `runs`, and `HolderFree`, that the wakeup whose callback is running is no
  longer among the awaited ones; without the last, the `finally` could release the entry of a run still awaited. Most actions leave the four variables
  alone (`UntouchedFlight`).
- `TypeCorrect`. What is hard is a number: a child's budget is what its parent has left, a sum over the children, and has to be positive. `Reserved` is a fold, so the lemmas on
  it (`IsSum`, `Folded`, `Splits`: a sum is a natural, does not depend on the order, grows by what is added) are proved by taking a least set for which
  they fail, with the well-foundedness of `<`.
- `ResolutionRespectsWaitsAlways`, an action property: of all steps only `ResolveChild` changes a row while a resolution runs, and what it does to a child with a wait to restore is
  nothing, a block for a lost dependency, or the restored wait.
- `ResolutionSettlesAlways`. `PassInv`: while a pass has changed nothing, the states it judges by are the states there are, and its children are the children there are. So when its
  loop ends, `Resolution` is "nothing" for each of them now, which is what agreement says.
- `NamesRowsAlways`: whatever a row, a job, a run or a step names is a row. The hypothesis `WholeTables` says so of the tables at the start.
- `DependenciesSettledAlways`. `AgreeInv`: each child agrees with its siblings, *or* the rest of the running callback still `Owes` a resolution of its parent's children. To keep it one has
  to know that every decision in the callback is followed by such a resolution (`LedInv`), and that a write under one parent disturbs no other family: agreement depends on a child's own row, its siblings'
  states and the room of its parent (`OccupiesAgreement`, `OtherFamily`, `BirthAgreement`; a parent's own wakeup only takes room away). Hypotheses: `WholeTables`;
  `AgreeingTables`, that the children in the table at the start agree (else the property is false before the first step); and `FixedPolicies`, that neither operator nor mutation changes a policy, since more room
  under a parent is noticed by nobody (`service.ts:461`). Every other control, any depth and any number of requests are covered; crashes are in the property. The run has one change of policy and no other control.
- `ChildrenWithinBudgetAlways`. A wakeup makes its assignment active and asks no parent, so it must be known of *whom* a wakeup is due. `BudgetInv`: a child with a job, an awaited run or a step of the running
  callback that names it (`Names`, `Fine`) is `Sound`, that is, not over, not blocked, and not held up by its siblings; a step that ends a child is the first of its callback, and nobody else then has to do with that child
  (`Closing`, `Working`). So no stopped child comes back (`Steady`), what is satisfied or lost stays so (`StateStays`), a resumption is one of a parked child that held its share all along (`InPass`, `LostStay`), and shares
  are only taken at a birth, which asks (`TableBirth`), or given back (`TableWrite`). Hypotheses: `WholeTables`; `SharedTables`, the same of the tables at the start; and `FlatRules`, that operators only create and promote,
  policies stay, and no child has the depth for children of its own. With a cancellation, a new policy or a grandchild the property is false (section 6); any number of assignments, siblings, dependencies and crashes is covered.
- `NeverForgottenAlways`. Between two callbacks nobody may be forgotten, so within one it must be known who will still see to whom. `MindedInv` (TLC held it on small instances before it was proved) says, until a process dies:
  - each assignment that is active or waits for a wakeup (`Expects`) has a job, an awaited run, or a step of the running callback that will see to it (`Minding`): a decision about it, a scheduling that names it, or a
    resolution whose caller schedules whom it activates. The last is why a resolution's list counts as soon as a child is entered in it;
  - the callers that drop that list (`Drops`: `applyWakeupDecision` for a wait, `service.ts:935`, and `control`, `service.ts:530`) find nobody to activate. In front of such a resolution the children *agree already* (`Apt`), by
    `AgreeInv` when it was put there and because what precedes it in the callback is of another family (`Follows`, `Ordered`); and while its loop runs nobody has been lost or completed since it began (`Steadied`);
  - who was ever free of its siblings stays free (`Earned`, `Free`: `completed` is terminal), so that a decision or a run is never of somebody the resolution would park in between; and who lost its siblings has no other wait to be given back.

  Hypotheses: `WholeTables`, `AgreeingTables`, `EarnedTables` (the tables at the start are such; the empty one is), and `HarmlessRules`, that operators only pause, force wakeups and add context, and mutations change no policy.
  The other controls are excluded because the property is false with them (section 6): what an operator creates, promotes or resumes is scheduled by nobody unless asked for, the list of those a cancellation or a
  reopening activates is dropped (`service.ts:530`), a reopening restores waits whose job is spent (`service.ts:629`), and a changed policy leaves room nobody looks at (`service.ts:461`). The run has
  one change of policy instead, which is too few to do harm; that case is only model-checked. Crashes are excluded by the property itself.

`ProposalsProofs` proves `TypeCorrect`, `AppliedOnceAlways` and `SettingsExplainedAlways`, for any number of proposals, fields and changes (`ProposalsAssumption`).
`AppliedOnce` with `TypeOK` is inductive: by its second conjunct a proposal with a mutation has that mutation's status or is rejected, so
one that may be applied (`approved`, which only `proposed` leads to) has none yet. `SettingsExplained` says of each applied mutation that it began where the applied one before it ended, by
`NoneApplied` in between, and of the settings that they are what the last one left; an application extends this, and an orderly rollback takes the last one off.

`ToolBundlesProofs` proves `RegistryFollowsTableAlways` and `EnabledServesAlways`, for any tools, bundles and manifests
(`ToolBundlesAssumption`: owners are distinct). The first is inductive with `TypeOK`. The second needs `OwnTools` besides: a bundle owns no row of a tool
that is not in its manifest; otherwise what `disable` removes would not be all it has.

`OrchestrationProofs` proves `TypeCorrect`, `ConversationIsListedAlways`, `CallsInBoundsAlways`, `TitleStaysAlways`, `RunsAccountedAlways`, `AttachmentsAgreeAlways` and
`LostOnlyToOverlapAlways`, for any requests, sessions, roles, tools and bounds, any overlaps, failures, deaths and changes of tools and roles (`OrchestrationAssumption`). Of all that an action
changes these need little, which the lemma `NextShape` says once: a step begins an agent run, answers one, or proceeds, that is, it leaves alone the conversations
and the calls that count. Each of three inductive invariants is then kept by these three shapes:

- `Conversations`: the list of a session, and the snapshot of each request at work, is a conversation (each run in it continued what the one before
  left, and the response to continue is the last one's), of runs that have begun and are not under way. A property of the sessions alone is not
  inductive: what is written back is the snapshot, which may be older than the session.
- `Calls`: a part that has not begun has called nothing, the one at work counts exactly what it has called, all of it among the tools of its row, and a subagent's tools are among its
  coordinator's, which has no writing ones. `Scoped` is beside it: what a subagent's row names is `Within` its role's tools at the spawn and its request's, and stays so (`ScopedStay`).
- `TitlesRead`: a title in a snapshot is the session's still; so the answer writes back that one, or leaves the one set meanwhile.

The other three follow the rows of `runs`, for which the steps are told apart more finely: a request takes one of its `Turns`, goes on, or something else is uploaded or changed (`Course`, `Courses`).

- `Runs`: the rows of a request go with the part it is at. A part has a row once it is reached, only the last can be running, and the coordinator's is `completed` only after all of them.
- `Listings`: sessions list completed runs of their own, and so did each snapshot when it was read; an attachment is given to such a run.
- `Entries` with `Met`: a request that met no other is listed in its session *and in every snapshot* another request holds, since that one began when the first had ended, or the two have met. What is written back
  is made from the session or from such a snapshot (`MadeFrom`), so it loses nobody who ran alone.

`InboundChannelsProofs` proves `TypeCorrect`, `RedeliveryRepeatsNothingAlways`, `RecordsTellTheTruthAlways`, `NothingLostAlways`, `ReporterInStepAlways` and
`HandlesOnceAlways`, the refinement of `HandledOnce`, for any events, loops, deliveries, reports and incidents (`InboundAssumption`). A step is a *chapter* of at most one event: `Chapters` says of each what it does to that event's row, handler,
reporter and answers, and that the others keep theirs. Each invariant is then a story of one event, kept by every chapter:

- `Story`: how far the handler is, told by the row and by the number of coordinator runs; nothing is answered before the answer's turn; each answer beyond the first was reported failed.
- `MailInv`: a loop of the poller that holds a mail has accepted it, whatever becomes of the IMAP client; whatever is accepted is carried on by its handler or by a loop.
- `CallsInv`: the same for webhook calls, which overlap only after a failure.
- `Display`: what Slack shows against what the reporter believes and has yet to do. Beside it there are `lost` reactions, set or removed by calls reported as failed; without trouble there are none.

The refinement maps every step to one of the abstract machine or a stutter: an event is started when its coordinator run is, and an answer needs a settled event by `Story`.

`MutationExecutorProofs` proves `TypeCorrect`, `PlannedIsPendingAlways`, `EvidenceChainsAlways` and `ReversibleAlways`, for any assignments, files, channels, contents and bounds, any order of
requests and rollbacks, and any failures and deaths (`ExecutorAssumption`: the resources of different kinds are different things). `Fits` ties the callback and the awaited calls to the rows they are about. `Pending`
names who will settle a planned row. `Trace` is the invariant behind the other two, for each resource the ledger accounts for: applied rows chain by their evidence and the resource holds what the last of them left, *also in the middle
of a request*, where what was written already is held against the evidence at hand (`Written`) and what is being restored against the row (`Reverting`). It speaks of files that are not in `stray`; a call that spoils one
says nothing of it further, and leaves the rest of the trace as it was. A rollback may only take the last applied mutation of a
resource: `Ordered` says that rows are applied in their order, so the code's comparison of times finds any later one (`LastIsRolledBack`).

`MemoryProofs` proves `TypeCorrect`, `MaintenanceInStepAlways`, `SyncedIsFindableAlways`, `SupersededHasSuccessorAlways` and `SummariesApartAlways`, for any agent runs, insights, policies, rows at the start, any order of the
awaits, failures, deaths and mutations (`MemoryAssumption`: the policies' least trigger and cluster sizes, as the code has them). `StoreTyped` says that an id held over an await is that of a row; rows are appended and change, but stay (`Grown`). Then each property has its own invariant:

- `UpkeepInv`: the timer is for a scheduled row, and the worker is at work exactly while a run executes.
- `SyncInv`: points are only deleted of rows that are gone already.
- `SummaryInv`: what a summary was made of stays covered (`SourcesCovered`), and a chosen cluster has nothing of the summaries there were (`ClustersFresh`).
- `SuccessorInv`: what the evidence of a mutation says of the links there are; its rollback takes the links back with the state.

*Only model-checked.* Liveness (`JobSettles`, `AssignmentsSettle`, `EverythingSettles`) is beyond the prover here; every invariant and every step property of the passing runs is
a theorem, `NeverForgotten` except with a change of policy. What recursive definitions compute (`Depth`) is used in no proof.

Overlapping `CASE` guards are a choice the prover may not make, although TLC takes the first one that is true: where the code has a cascade, the models have `IF ... ELSE`.


## 5. Abstractions and what is not modelled

- Text: objectives, prompts, summaries, notifications, wording of events and errors.
- Risk classes, autonomy levels and policy checks of autonomous mutations are one nondeterministic denial.
- Delays of wakeups, idle expiry and time budgets: expiry may happen whenever a job fires
  (`ExpireIdle`).
- The process of the planner model restarts at once after a crash; what the scheduler does in between is
  in `Scheduler`.
- What a write that throws leaves in a file is any of the contents, not a truncated one; its directory, made before, is left out.
- Mutation adapters of tools, roles, prompts and the memory policy follow the scheme of the modelled configuration adapters.
- Slack signatures, mail parsing, wire formats and the network; the number of milliseconds between retries and polls.
- Scores and similarity of memory entries, and the wording of summaries.
- Normalisation of the operator settings: the values of `Proposals` are those that it leaves as they are.
- `DynamicToolRegistry.deactivate`, which nothing but tests calls; the handlers that dynamic tools run.
- Draft states and parsing of patches (`src/project-files/`), the overlay of runtime limits (`src/config/`), prompts and MCP (text),
  the platform (statements and migrations), the operator pages of the HTTP server and the wording of its validation: no state over several
  steps, or text only. The content policy and text extraction of chat attachments: functions of their input.
- `needs_approval`, named in `CONTEXT.md`, is written nowhere in the code and has no place in the model.


## 6. Where code and documents disagree, and what else was met

One is a run that TLC refutes, with the quotation in `PROJECT.json` under `findings`: `terminal_wakes`, where an assignment cancelled during its
coordinator run is set back to waiting by the answer.

The others were met while modelling. The properties above are stated so as to hold beside them, by an exclusion in the property or a bound of the run; each is worth
a reader's attention. Documents that say otherwise are named.

*Assignments and planner.*

- The last budgeted wakeup fails with failures to spare: rescheduled and refused for ever (`wakeup-planner.ts:318`; `CONTEXT.md:88`).
- `control()` drops the siblings its resolution activated; nobody schedules them (`service.ts:530`; `tests/assignment-wakeup-planner.test.ts:408`).
- Reopen asks no parent (`service.ts:1590`; `resume` does, `service.ts:427`): the reservations may exceed the parent's budget (`CONTEXT.md:224`). A policy
  changed on the child, or lowered on the parent, has the same effect. So has a cancellation while the child's wakeup is awaited: its share is given to a sibling,
  and the answer that sets the cancelled child back to waiting (`terminal_wakes` above) takes it again.
- In a deeper tree (the default `maxDepth` is 2) no request of the operator is needed. A child's run answers `blocked` and promotes a grandchild that it waits for and that is lost at birth; the continuation of the
  parent, scheduled for the lost grandchild (`wakeup-planner.ts:518`), is then one of a blocked assignment. When its job fires, `startWakeup` refuses terminal
  assignments only (`service.ts:793`), and the child is active again, though its parent may have given its wakeups to another one.
- A policy lowered and raised again leaves a dependant parked with room (`service.ts:461` resolves the siblings of the changed assignment, not its children). A later resolution inside
  `applyWakeupDecision` may resume it, and its list is dropped.
- A wait restored after its wakeup only found the dependency lost has no job left to end it (`service.ts:629`).
- A pause does not stop the pending job, whose wakeup makes the assignment active (`wakeup-planner.ts:103`).
- An assignment created or resumed over the admin API gets no wakeup (`http-server.ts:790`). Wakeup jobs have one attempt, and intake schedules in a second
  commit: a death there leaves an active assignment without a job (`intake.ts:136`).

*Mutations.*

- Two assignments roll back the shared operator settings in the wrong order, unopposed (`configuration.ts:24`; ADR 0003:7).
- A stop that fails half way restores the registry and leaves the poller down (`channel-state.ts:121`). Overlapping awaited updates of a channel take each other's
  effect as their evidence: hence the exclusion of channels from `Reversible` and `EvidenceChains`.
- A row may say `failed` over a changed file. The undo of a patch or bundle is not guarded: when one of its restoring writes throws, the others are not made (`apply.ts:99`, `project-file.ts:464`), and a file
  whose own `apply` threw after `writeFileSync` was never entered for it (`apply.ts:66`). Nothing in the ledger tells such a file from an untouched one. A rollback that throws half way may be tried again.
- A death between the effect of a mutation and its record leaves the effect under a row that stays `planned` (`autonomous-mutations.ts:188`).

*Channels.*

- An answer whose `fetch` is rejected (`slack.ts:216`; `slackApiCall` catches nothing, `slack.ts:330`) is thrown past the delivery log: there is no row of it and no further attempt, where an answer Slack refuses has both.
- `getClient` keeps an IMAP client whose connection broke (`email-transports.ts:256`): each later poll fails until the operator switches the channel off and on, provided `logout` does not throw as well, or the process restarts. A
  client that never connected is not dropped by `close` either (`email-transports.ts:247`). Of `EverythingSettles`, mail in such a state is excepted.
- With two loops, or a `close` during a poll, the UID of a mail may be forgotten before `markSeen` asks for it: `parseUid` throws, and the poll ends with the mail unread (`email-transports.ts:509`). The next poll reads it again.
- Two redeliveries of a failed webhook event run the coordinator at once (`inbound.ts:455`; `docs/channels.md:24`).
- An event a dead process left `running` is a duplicate for ever. A failed email run gets no reply; an oversized mail is marked seen without a trace; an
  empty output leaves the reaction of the phase before.
- After a reaction was removed and the next could not be added, the reporter still believes in the old one, and later phases fail at removing it.
- `stop` and `start` during a poll leave two loops (`email.ts:118`). `listUnread` takes the newest batch.
- A reaction that matches no stored message is mapped to nothing, where `docs/channels.md:151` lets it start a run.

*Memory.*

- A summary is marked as synced before it is sent (`lifecycle.ts:238`): after a death in between, no backfill sends it.
- Overlapping compactions summarise a cluster twice. Superseded turns may come back by way of a summary (`lifecycle.ts:181`).
- Pruning a row that was retrieved fails at the foreign key of its reinforcement event, and the whole pass with it (`lifecycle.ts:283`; `docs/memory.md:29`).
- A Qdrant failure after the rows are gone leaves points without rows and fails the run. The timer that fires during a run by hand arms itself again
  with no delay until that run is over (`maintenance.ts:161`). A pruned entry's mutation is rolled back "successfully".

*Orchestration.*

- Of several tool calls in one answer only the last output reaches the next request (`runtime.ts:183`).
- An `error` event of the stream is reported, and the run completes (`codex-adapter.ts:364`).
- A run that fails while storing its memories has written its session already; a coordinator is `completed` though the chat request fails afterwards.
- Overlapping runs of a session lose run ids and what they appended; a death leaves runs `running` for ever.
- `intersect` with an empty baseline gives the whole list of the parent.

*Proposals and tools.*

- Rolling back an older proposal restores all the settings over newer changes (`mutations.ts:231`; `docs/project-status.md:344`). A death between
  the change and its record leaves the effect with status `approved`.
- Uninstalling a bundle that was never enabled removes tools of other owners with its ids (`docs/project-status.md:219`, `docs/internal-tools.md:57`).
- A dynamic tool with the id of a built-in replaces it, and removing it removes both until a restart.
- A death in the middle of enabling leaves ids taken, so that enabling is refused until the bundle is uninstalled.


## 7. Plan

Done: every component of section 1 that keeps state from one callback to the next is modelled and checked. Proved: the scheduler with its refinement; single flight, types, waits, resolutions, the agreement of
dependants, the shared budget of the planner and that it forgets nobody; inbound channels with their refinement; mutations; memory; orchestration; proposals; tool bundles.

Next, in this order:

1. The composition of `InboundChannels` with the jobs of `Scheduler`, now only by the words of both.
2. Draft states of project files, with their review.

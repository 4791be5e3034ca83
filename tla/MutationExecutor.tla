-------------------------- MODULE MutationExecutor --------------------------
(***************************************************************************)
(* Autonomous mutations: AutonomousMutationExecutor                         *)
(* (src/src/assignments/autonomous-mutations.ts), its ledger                *)
(* (mutation-ledger.ts) and the adapters that write the mutated resources   *)
(* (mutation-adapters/).                                                   *)
(*                                                                         *)
(* A mutation is a chain of steps: a "planned" row, the writes of the       *)
(* adapter, the row again; each is durable on its own, and the process may  *)
(* die between any two.  `callback` is the chain being run.  Only the       *)
(* channel adapter really awaits something, the closing of the connections  *)
(* of a channel being stopped; other requests come in meanwhile.            *)
(***************************************************************************)
EXTENDS Integers, Sequences, SequencesExt

CONSTANTS
    Assignments,   \* assignments at autonomy level "evolve"
    Files,         \* project files
    Channels,      \* channels with a lifecycle: email
    Values,        \* contents of a policy, of the settings, of a file...
    InitialStore,  \* what the resources hold at first
    Kinds,         \* the mutations an instance makes, of AllKinds
    Operated,      \* the resources its operator writes
    MaxRows,       \* bound: rows of the ledger
    MaxCalls,      \* bound: channel updates awaited at once
    MaxClock,      \* bound: milliseconds that pass
    MaxCrashes     \* bound: process deaths

\* "project_file" is apply_draft, apply_bundle and apply_patch, which count as one
\* when it comes to conflicts.
AllKinds ==
    {"assignment_policy", "operator_settings", "runtime_limits", "project_file", "channel_state"}

-----------------------------------------------------------------------------
(* Resources and adapters *)

\* An assignment stands for its policy.
Resources == Assignments \cup Files \cup Channels \cup {"settings", "limits"}

\* A channel is enabled or not.
Content(r) == IF r \in Channels THEN BOOLEAN ELSE Values

ASSUME ExecutorAssumption ==
    /\ Kinds \subseteq AllKinds
    /\ Operated \subseteq Resources
    /\ InitialStore \in [Resources -> Values \cup BOOLEAN]
    /\ \A r \in Resources : InitialStore[r] \in Content(r)
    /\ Assignments \cap Files = {} /\ Assignments \cap Channels = {} /\ Files \cap Channels = {}
    /\ {"settings", "limits"} \cap (Assignments \cup Files \cup Channels) = {}
    /\ MaxRows \in Nat /\ MaxCalls \in Nat /\ MaxClock \in Nat /\ MaxCrashes \in Nat

\* The sets of resources one mutation of assignment a may write.
Targets(kind, a) ==
    CASE kind = "assignment_policy" -> {{a}}
      [] kind = "operator_settings" -> {{"settings"}}
      [] kind = "runtime_limits" -> {{"limits"}}
      [] kind = "project_file" -> SUBSET Files \ {{}}
      [] kind = "channel_state" -> {{c} : c \in Channels}

\* Mutant of Scope: no adapter says more than the default.
ScopeByDefault(kind) == "assignment"

\* rollbackConflictScope
Scope(kind) ==
    CASE kind = "runtime_limits" -> "global"
      [] kind \in {"project_file", "channel_state"} -> "affected_resources"
      [] OTHER -> "assignment"

VARIABLES
    ledger,    \* rows of assignment_mutations, in the order of their rowids
    store,     \* store[r]: what resource r holds
    poller,    \* poller[c]: the lifecycle of channel c is running
    callback,  \* the request being run, if any
    calls,     \* channel updates being awaited, as they began
    clock,     \* milliseconds
    operated,  \* history: resources the operator has written himself
    stray,     \* history: files that a failing write, undo or rollback has left anyhow
    crashed    \* process deaths so far

vars == <<ledger, store, poller, callback, calls, clock, operated, stray, crashed>>

-----------------------------------------------------------------------------
(* Types *)

Statuses == {"planned", "applied", "failed", "rolled_back"}

Contents == Values \cup BOOLEAN

Evidence == UNION {[S -> Contents] : S \in SUBSET Resources}

\* resources are those of the request; the code stores them once they are written.
Row == [status : Statuses, assignment : Assignments, kind : AllKinds,
        resources : SUBSET Resources, before : Evidence, after : Evidence, appliedAt : Nat]

NoCallback == [step |-> "none"]

Idle == callback = NoCallback

\* An update whose stop() is awaited: of row id, forward or back, and what the
\* channel is set to again if it fails.
Call == [id : Nat, back : BOOLEAN, restore : BOOLEAN]

Callback ==
    {NoCallback}
    \cup [step : {"write"}, id : Nat, new : Evidence, before : Evidence]
    \cup [step : {"undo"}, id : Nat, before : Evidence]
    \cup [step : {"applied"}, id : Nat, before : Evidence, after : Evidence]
    \cup [step : {"failed", "rolledBack"}, id : Nat]
    \cup [step : {"restore"}, id : Nat, todo : SUBSET Resources]
    \cup [step : {"switch"}, id : Nat, back : BOOLEAN, want : BOOLEAN]

TypeOK ==
    /\ ledger \in Seq(Row) /\ Len(ledger) <= MaxRows
    /\ store \in [Resources -> Contents]
    /\ \A r \in Resources : store[r] \in Content(r)
    /\ poller \in [Channels -> BOOLEAN]
    /\ callback \in Callback
    /\ calls \in Seq(Call) /\ Len(calls) <= MaxCalls
    /\ clock \in 0..MaxClock
    /\ operated \in SUBSET Resources
    /\ stray \in SUBSET Files
    /\ crashed \in 0..MaxCrashes

-----------------------------------------------------------------------------
(* The ledger *)

NoEvidence == [r \in {} |-> TRUE]

NewRow(status, a, kind, S) ==
    [status |-> status, assignment |-> a, kind |-> kind, resources |-> S,
     before |-> NoEvidence, after |-> NoEvidence, appliedAt |-> 0]

\* findNewerApplied
NewerApplied(id) ==
    LET row == ledger[id]
    IN  {n \in DOMAIN ledger :
            /\ ledger[n].status = "applied"
            /\ ledger[n].kind = row.kind
            /\ CASE Scope(row.kind) = "assignment" -> ledger[n].assignment = row.assignment
                 [] Scope(row.kind) = "affected_resources" ->
                      ledger[n].resources \cap row.resources # {}
                 [] OTHER -> TRUE
            /\ \/ ledger[n].appliedAt > row.appliedAt
               \/ ledger[n].appliedAt = row.appliedAt /\ n > id}

Init ==
    /\ ledger = <<>>
    /\ store = InitialStore
    /\ poller = [c \in Channels |-> InitialStore[c]]
    /\ callback = NoCallback
    /\ calls = <<>>
    /\ clock = 0
    /\ operated = {}
    /\ stray = {}
    /\ crashed = 0

-----------------------------------------------------------------------------
(* Applying *)

\* The policy of the assignment, or the lack of an adapter, forbids the mutation.
Deny(a, kind) ==
    /\ Idle
    /\ Len(ledger) < MaxRows
    /\ ledger' = Append(ledger, NewRow("failed", a, kind, {}))
    /\ UNCHANGED <<store, poller, callback, calls, clock, operated, stray, crashed>>

\* applyAsync up to the call of the adapter: the row is there before its effect.
Plan(a, kind, S) ==
    /\ Idle
    /\ Len(ledger) < MaxRows
    /\ ledger' = Append(ledger, NewRow("planned", a, kind, S))
    /\ \E new \in [S -> Contents] :
         /\ \A r \in S : new[r] \in Content(r)
         /\ callback' = IF kind = "channel_state"
                          THEN [step |-> "switch", id |-> Len(ledger'), back |-> FALSE,
                                want |-> \A r \in S : new[r]]
                          ELSE [step |-> "write", id |-> Len(ledger'), new |-> new,
                                before |-> NoEvidence]
    /\ UNCHANGED <<store, poller, calls, clock, operated, stray, crashed>>

\* One write of an adapter, its evidence taken first.  Several files are written
\* one after the other.
Write ==
    LET s == callback
        Now(r) == [q \in DOMAIN s.before \cup {r} |-> IF q = r THEN store[r] ELSE s.before[q]]
    IN  /\ s.step = "write"
        /\ \E r \in DOMAIN s.new \ DOMAIN s.before :
             /\ store' = [store EXCEPT ![r] = s.new[r]]
             /\ callback' = IF Now(r) \in [DOMAIN s.new -> Contents]
                              THEN [step |-> "applied", id |-> s.id, before |-> Now(r), after |-> s.new]
                              ELSE [s EXCEPT !.before = Now(r)]
        /\ UNCHANGED <<ledger, poller, calls, clock, operated, stray, crashed>>

\* Mutant of WriteFails: what was written before the failure stays.
WriteFailsAsIs ==
    /\ callback.step = "write"
    /\ callback' = [step |-> "failed", id |-> callback.id]
    /\ UNCHANGED <<ledger, store, poller, calls, clock, operated, stray, crashed>>

\* The adapter throws: before its first write or a later one, or, with files, once
\* they are written and a draft cannot be marked applied.
WriteFails ==
    /\ \/ callback.step = "write"
       \/ callback.step = "applied" /\ ledger[callback.id].kind = "project_file"
    /\ callback' = [step |-> "undo", id |-> callback.id, before |-> callback.before]
    /\ UNCHANGED <<ledger, store, poller, calls, clock, operated, stray, crashed>>

\* A call on file r throws while it writes, leaving the file anyhow; those of S,
\* r among them, are not put right any more.
Spoil(r, S) ==
    /\ \E value \in Content(r) : store' = [store EXCEPT ![r] = value]
    /\ stray' = stray \cup S

\* A file is written, in part or as it should be, when apply throws: not having
\* returned, it has left no evidence, and the undo does not know of the file.
WriteSpoils ==
    LET s == callback
    IN  /\ s.step = "write" /\ ledger[s.id].kind = "project_file"
        /\ \E r \in DOMAIN s.new \ DOMAIN s.before : Spoil(r, {r})
        /\ callback' = [step |-> "undo", id |-> s.id, before |-> s.before]
        /\ UNCHANGED <<ledger, poller, calls, clock, operated, crashed>>

\* It restores, one by one, what it has written.
Undo ==
    LET s == callback
    IN  /\ s.step = "undo"
        /\ IF s.before = NoEvidence
             THEN /\ callback' = [step |-> "failed", id |-> s.id]
                  /\ UNCHANGED store
             ELSE \E r \in DOMAIN s.before :
                    /\ store' = [store EXCEPT ![r] = s.before[r]]
                    /\ callback' = [s EXCEPT !.before = [q \in DOMAIN @ \ {r} |-> @[q]]]
        /\ UNCHANGED <<ledger, poller, calls, clock, operated, stray, crashed>>

\* Restoring throws as well: the row fails, and nothing restores the rest.
UndoSpoils ==
    LET s == callback
    IN  /\ s.step = "undo" /\ ledger[s.id].kind = "project_file"
        /\ \E r \in DOMAIN s.before : Spoil(r, DOMAIN s.before)
        /\ callback' = [step |-> "failed", id |-> s.id]
        /\ UNCHANGED <<ledger, poller, calls, clock, operated, crashed>>

\* recordApplied
RecordApplied ==
    LET s == callback
    IN  /\ s.step = "applied"
        /\ ledger' = [ledger EXCEPT ![s.id] =
                        [@ EXCEPT !.status = "applied", !.before = s.before, !.after = s.after,
                                  !.appliedAt = clock]]
        /\ callback' = NoCallback
        /\ UNCHANGED <<store, poller, calls, clock, operated, stray, crashed>>

\* recordFailedOutcome
RecordFailed ==
    /\ callback.step = "failed"
    /\ ledger' = [ledger EXCEPT ![callback.id].status = "failed"]
    /\ callback' = NoCallback
    /\ UNCHANGED <<store, poller, calls, clock, operated, stray, crashed>>

-----------------------------------------------------------------------------
(* Rolling back *)

\* rollbackAsync up to the call of the adapter, when it is allowed.
Rollback(id) ==
    LET row == ledger[id]
    IN  /\ Idle
        /\ row.status = "applied"
        /\ NewerApplied(id) = {}
        /\ callback' = IF row.kind = "channel_state"
                         THEN [step |-> "switch", id |-> id, back |-> TRUE,
                               want |-> \A r \in row.resources : row.before[r]]
                         ELSE [step |-> "restore", id |-> id, todo |-> row.resources]
        /\ UNCHANGED <<ledger, store, poller, calls, clock, operated, stray, crashed>>

\* The adapter puts one resource back.
Restore ==
    LET s == callback
    IN  /\ s.step = "restore"
        /\ \E r \in s.todo :
             /\ store' = [store EXCEPT ![r] = ledger[s.id].before[r]]
             /\ callback' = IF s.todo = {r} THEN [step |-> "rolledBack", id |-> s.id]
                            ELSE [s EXCEPT !.todo = @ \ {r}]
        /\ UNCHANGED <<ledger, poller, calls, clock, operated, stray, crashed>>

\* It throws, or with files a draft cannot be marked active once they are restored:
\* the row stays applied, what is restored stays restored.
RestoreFails ==
    /\ \/ callback.step = "restore"
       \/ callback.step = "rolledBack" /\ ledger[callback.id].kind = "project_file"
    /\ callback' = NoCallback
    /\ UNCHANGED <<ledger, store, poller, calls, clock, operated, stray, crashed>>

\* It throws while it restores a file.
RestoreSpoils ==
    LET s == callback
    IN  /\ s.step = "restore" /\ ledger[s.id].kind = "project_file"
        /\ \E r \in s.todo : Spoil(r, {r})
        /\ callback' = NoCallback
        /\ UNCHANGED <<ledger, poller, calls, clock, operated, crashed>>

\* recordRolledBack; assertTransition throws if another rollback came first.
RecordRolledBack ==
    /\ callback.step = "rolledBack"
    /\ ledger' = IF ledger[callback.id].status = "applied"
                   THEN [ledger EXCEPT ![callback.id].status = "rolled_back"] ELSE ledger
    /\ callback' = NoCallback
    /\ UNCHANGED <<store, poller, calls, clock, operated, stray, crashed>>

-----------------------------------------------------------------------------
(* The channel adapter *)

\* The channel a row of kind channel_state is about.
ChannelOf(id) == CHOOSE c \in Channels : c \in ledger[id].resources

\* What the adapter has to say once the channel is updated.
Updated(id, back, before, after) ==
    IF back THEN [step |-> "rolledBack", id |-> id]
    ELSE [step |-> "applied", id |-> id, before |-> [c \in ledger[id].resources |-> before],
          after |-> [c \in ledger[id].resources |-> after]]

\* updateChannelState up to its await: the registry, then the lifecycle.  start()
\* awaits nothing; stop() takes the poller down and awaits its connections.
Switch ==
    LET s == callback
        c == ChannelOf(s.id)
    IN  /\ s.step = "switch"
        /\ store' = [store EXCEPT ![c] = s.want]
        /\ poller' = [poller EXCEPT ![c] = s.want]
        /\ IF s.want
             THEN /\ callback' = Updated(s.id, s.back, store[c], s.want)
                  /\ UNCHANGED calls
             ELSE /\ callback' = NoCallback
                  /\ Len(calls) < MaxCalls
                  /\ calls' = Append(calls, [id |-> s.id, back |-> s.back, restore |-> store[c]])
        /\ UNCHANGED <<ledger, clock, operated, stray, crashed>>

\* stop() returned; `after` is what the registry says by now.
CallReturns(i) ==
    /\ Idle
    /\ calls' = RemoveAt(calls, i)
    /\ callback' = Updated(calls[i].id, calls[i].back, calls[i].restore, store[ChannelOf(calls[i].id)])
    /\ UNCHANGED <<ledger, store, poller, clock, operated, stray, crashed>>

\* Mutant of CallFails: the failure of stop() is not recorded.
CallFailsUnseen(i) ==
    /\ Idle
    /\ calls' = RemoveAt(calls, i)
    /\ store' = [store EXCEPT ![ChannelOf(calls[i].id)] = calls[i].restore]
    /\ UNCHANGED <<ledger, poller, callback, clock, operated, stray, crashed>>

\* stop() threw: the registry gets its old value back.
CallFails(i) ==
    /\ Idle
    /\ calls' = RemoveAt(calls, i)
    /\ store' = [store EXCEPT ![ChannelOf(calls[i].id)] = calls[i].restore]
    /\ callback' = IF calls[i].back THEN NoCallback ELSE [step |-> "failed", id |-> calls[i].id]
    /\ UNCHANGED <<ledger, poller, clock, operated, stray, crashed>>

-----------------------------------------------------------------------------
(* The rest of the world *)

\* Mutant of OperatorWrites: the route takes any body.
OperatorWritesUnvalidated(r, value) ==
    /\ Idle
    /\ store' = [store EXCEPT ![r] = value]
    /\ operated' = operated \cup {r}
    /\ UNCHANGED <<ledger, poller, callback, calls, clock, stray, crashed>>

\* The operator's own routes write without a ledger: a policy, the settings, the
\* limits, a file; a channel, with its lifecycle (POST /admin/channels).
OperatorWrites(r, value) ==
    /\ Idle
    /\ value \in Content(r)
    /\ store' = [store EXCEPT ![r] = value]
    /\ poller' = IF r \in Channels THEN [poller EXCEPT ![r] = value] ELSE poller
    /\ operated' = operated \cup {r}
    /\ UNCHANGED <<ledger, callback, calls, clock, stray, crashed>>

Tick ==
    /\ Idle
    /\ clock < MaxClock
    /\ clock' = clock + 1
    /\ UNCHANGED <<ledger, store, poller, callback, calls, operated, stray, crashed>>

\* The process dies, at any point, a file half restored, and is started again:
\* email.start() goes by the registry, nobody looks at planned rows.
CrashAndRestart ==
    /\ crashed < MaxCrashes
    /\ crashed' = crashed + 1
    /\ callback' = NoCallback
    /\ calls' = <<>>
    /\ poller' = [c \in Channels |-> store[c]]
    /\ \/ UNCHANGED <<store, stray>>
       \/ callback.step = "restore" /\ \E r \in callback.todo \cap Files : Spoil(r, {r})
    /\ UNCHANGED <<ledger, clock, operated>>

Requests ==
    \/ \E a \in Assignments, kind \in Kinds :
         Deny(a, kind) \/ \E S \in Targets(kind, a) : Plan(a, kind, S)
    \/ \E id \in DOMAIN ledger : Rollback(id)
    \/ \E r \in Operated, value \in Contents : OperatorWrites(r, value)

CallbackStep ==
    \/ Write
    \/ WriteFails
    \/ WriteSpoils
    \/ Undo
    \/ UndoSpoils
    \/ RecordApplied
    \/ RecordFailed
    \/ Restore
    \/ RestoreFails
    \/ RestoreSpoils
    \/ RecordRolledBack
    \/ Switch

Next ==
    \/ Requests
    \/ CallbackStep
    \/ \E i \in DOMAIN calls : CallReturns(i) \/ CallFails(i)
    \/ Tick
    \/ CrashAndRestart

Spec == Init /\ [][Next]_vars

-----------------------------------------------------------------------------
(* Safety *)

Names(id, r) == r \in ledger[id].resources

Applied(r) == {id \in DOMAIN ledger : ledger[id].status = "applied" /\ Names(id, r)}

\* The operator settings are shared, but conflicts are looked for within an assignment.
Contested(r) ==
    r = "settings" /\ \E m, n \in DOMAIN ledger :
        Names(m, r) /\ Names(n, r) /\ ledger[m].assignment # ledger[n].assignment

\* The ledger accounts for resource r: its writes are not awaited, as those of a
\* channel are, where one update takes the effect of another for its own; the operator
\* has not written it; no process died between a write and its record; and it is no
\* file that a call left anyhow as it threw, since a row may say failed over such a
\* file, and nothing in the ledger tells.
Accounted(r) ==
    /\ r \notin Channels /\ r \notin operated /\ r \notin stray /\ ~Contested(r)
    /\ \A id \in DOMAIN ledger : ledger[id].status = "planned" => ~Names(id, r)

\* Governed self-evolution is reversible: once the mutations of a resource have
\* failed or been rolled back, in whatever order that was allowed, by whichever
\* assignment, over failures, crashes and mutations written in part, the resource holds
\* what it held before the first of them.  A file whose own restoring failed does not.
Reversible ==
    Idle => \A r \in Resources :
        Accounted(r) /\ Applied(r) = {} => store[r] = InitialStore[r]

\* The evidence of the applied mutations of a resource is a chain: the first one
\* found it as it was, each found what the one before it had left, or had
\* restored in a rollback cut short, and the resource is as the last one left it.
EvidenceChains ==
    Idle => \A r \in Resources : Accounted(r) =>
        \A id \in Applied(r) :
            LET left(n) == {ledger[n].before[r], ledger[n].after[r]}
                earlier == {n \in Applied(r) : n < id}
            IN  /\ IF earlier = {} THEN ledger[id].before[r] = InitialStore[r]
                   ELSE ledger[id].before[r] \in left(Max(earlier))
                /\ (\A n \in Applied(r) : n <= id) => store[r] \in left(id)

\* A row is left "planned" by a dead process only: while the process lives, every
\* planned row has an awaited call that will settle it.
PlannedIsPending ==
    Idle /\ crashed = 0 =>
        \A id \in DOMAIN ledger :
            ledger[id].status = "planned" => \E i \in DOMAIN calls : calls[i].id = id /\ ~calls[i].back
=============================================================================

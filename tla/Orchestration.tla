---------------------------- MODULE Orchestration ----------------------------
(***************************************************************************)
(* A coordinator run and its subagents (src/src/orchestration/service.ts),    *)
(* the agent run that each of them is (src/src/agent/runtime.ts), the session  *)
(* they continue (src/src/chat/session-store.ts), the tools they may call      *)
(* (src/src/tools/registry.ts) and what POST /chat/message does around them    *)
(* (src/src/server/http-server.ts, src/src/chat/artifacts.ts).                 *)
(*                                                                         *)
(* Everything between two awaits of the network, of a tool or of the disk is   *)
(* one step.  An agent run reads its session before it asks the memory and     *)
(* writes what it read, with itself appended, after the provider has answered. *)
(***************************************************************************)
EXTENDS Integers, FiniteSets, Sequences

CONSTANTS
    Requests,        \* requests that lead to a coordinator run
    Messages,        \* what they may ask for, see Message
    Sessions,        \* sessions that several requests may name
    Attachments,     \* files that may be uploaded
    Builtin,         \* tools of the program that the coordinator may call
    Dynamic,         \* tools that a bundle may register
    Writers,         \* those of them that write
    Baselines,       \* the tools of each role
    MaxSubs,         \* bound: subagents of a request
    MaxCalls,        \* bound: tool calls in one answer of the provider
    MaxToolCalls,    \* defaultMaxToolCalls
    MaxArtifacts,    \* MAX_EXTRACTED_ARTIFACTS_PER_RUN
    MaxChanges,      \* bound: uploads, tools registered, role overrides, deaths
    None             \* no run, no session, no title

Tools == Builtin \cup Dynamic

Roles == DOMAIN Baselines

Parts == 0..MaxSubs

\* Runs of the graph: part 0 of a request is the coordinator, the others its subagents.
Nodes == Requests \X Parts

\* A request that names no session gets one of its own.
SessionIds == Sessions \cup Requests

Subagent == [role : Roles, tools : SUBSET Tools]

Message ==
    [web : BOOLEAN, session : Sessions \cup {None}, subs : Seq(Subagent), attached : SUBSET Attachments]

ASSUME OrchestrationAssumption ==
    /\ Messages \subseteq Message /\ Messages # {}
    /\ \A m \in Messages : Len(m.subs) <= MaxSubs
    /\ Sessions \cap Requests = {} /\ None \notin SessionIds \cup Nodes
    /\ Builtin \cap Dynamic = {} /\ Writers \subseteq Dynamic
    /\ Baselines \in [Roles -> SUBSET Tools]
    /\ MaxSubs \in Nat /\ MaxCalls \in Nat /\ MaxToolCalls \in Nat
    /\ MaxArtifacts \in Nat /\ MaxChanges \in Nat

VARIABLES
    work,         \* work[q]: where request q is, and what it holds across its await
    rows,         \* table runs
    sessions,     \* table sessions
    attachments,  \* chat_attachments, chat_attachment_text_index and the blobs
    registered,   \* dynamic tools in the registry
    overrides,    \* role_policy_overrides, {} for a role without one
    context,      \* history: the response that agent run continued
    left,         \* history: the response that agent run left to continue from
    called,       \* history: the tools an agent run called, in their order
    overlaps,     \* history: pairs of requests that ran in one session at the same time
    changes       \* uploads, tools registered, roles overridden, and deaths, so far

vars == <<work, rows, sessions, attachments, registered, overrides, context, left, called,
          overlaps, changes>>

settings == <<registered, overrides, changes>>
history == <<context, left, called, overlaps>>

-----------------------------------------------------------------------------
(* Types *)

\* The awaits of a request: the memory query, the provider, a tool, the memory
\* again, the disk.
Awaits == {"idle", "query", "adapter", "tool", "remember", "artifacts", "done", "failed", "lost"}

Running == {"query", "adapter", "tool", "remember"}

\* run_ids_json by prefix, previous_response_id and title.
Session ==
    [stored : BOOLEAN, web : BOOLEAN, agents : Seq(Nodes), coords : SUBSET Requests,
     previous : Nodes \cup {None}, title : Requests \cup {None}]

Work ==
    [at : Awaits, message : Messages, part : Parts, snapshot : Session,
     executed : 0..MaxToolCalls, calls : 0..MaxCalls, drafts : 0..MaxArtifacts]

\* Of the policy, the tools; baseline is history: the tools of the role, as they were
\* when the run was spawned.
Row ==
    [status : {"none", "running", "completed", "failed"}, children : Seq(Parts),
     tools : SUBSET Tools, baseline : SUBSET Tools]

Attachment ==
    [at : {"none", "writing", "stored"}, session : SessionIds \cup {None},
     run : Requests \cup {None}, index : Requests \cup {None}]

TypeOK ==
    /\ work \in [Requests -> Work]
    /\ rows \in [Nodes -> Row]
    /\ sessions \in [SessionIds -> Session]
    /\ attachments \in [Attachments -> Attachment]
    /\ registered \subseteq Dynamic
    /\ overrides \in [Roles -> SUBSET Tools]
    /\ context \in [Nodes -> Nodes \cup {None}] /\ left \in [Nodes -> Nodes \cup {None}]
    /\ called \in [Nodes -> Seq(Tools)]
    /\ overlaps \subseteq SUBSET Requests
    /\ changes \in 0..MaxChanges

-----------------------------------------------------------------------------
(* Tools and roles *)

\* resolveAllowedToolIds: "dynamic:*" stands for the tools that are registered now
\* and do not write.
ResolveAllowedToolIds == Builtin \cup (registered \ Writers)

\* An empty list asks for no restriction.
Intersect(base, requested) == IF requested = {} THEN base ELSE base \cap requested

\* applyOverrides
Baseline(role) == IF overrides[role] = {} THEN Baselines[role] ELSE overrides[role]

\* Mutant of BuildScopedPolicy: the roles are those that were compiled in.
BuildCompiledPolicy(parent, sub) == Intersect(Intersect(parent, Baselines[sub.role]), sub.tools)

BuildScopedPolicy(parent, sub) == Intersect(Intersect(parent, Baseline(sub.role)), sub.tools)

\* ToolRegistry.call: a tool that is registered, and that the policy of the run names.
MayCall(tool, policy) == tool \in Builtin \cup registered /\ tool \in policy

RegisterDynamic(tool) ==
    /\ tool \notin registered
    /\ changes < MaxChanges /\ changes' = changes + 1
    /\ registered' = registered \cup {tool}
    /\ UNCHANGED <<work, rows, sessions, attachments, overrides, history>>

UnregisterDynamic(tool) ==
    /\ tool \in registered
    /\ registered' = registered \ {tool}
    /\ UNCHANGED <<work, rows, sessions, attachments, overrides, changes, history>>

\* RolePolicyRuntimeStore.update: an override names tools of the role's baseline, and some.
UpdateRole(role, tools) ==
    /\ tools # {} /\ tools \subseteq Baselines[role] /\ tools # overrides[role]
    /\ changes < MaxChanges /\ changes' = changes + 1
    /\ overrides' = [overrides EXCEPT ![role] = tools]
    /\ UNCHANGED <<work, rows, sessions, attachments, registered, history>>

\* replaceOverrides: a rollback brings back what was there, perhaps nothing.
ResetRole(role) ==
    /\ overrides[role] # {}
    /\ overrides' = [overrides EXCEPT ![role] = {}]
    /\ UNCHANGED <<work, rows, sessions, attachments, registered, changes, history>>

-----------------------------------------------------------------------------
(* Runs *)

SessionOf(q) == IF work[q].message.session = None THEN q ELSE work[q].message.session

\* The coordinator's run of a request, and the one it is at.
Root(q) == <<q, 0>>

Node(q) == <<q, work[q].part>>

Policy(q) == rows[Node(q)].tools

NoSession ==
    [stored |-> FALSE, web |-> FALSE, agents |-> <<>>, coords |-> {}, previous |-> None, title |-> None]

\* What a request holds once its agent run needs no more of it.
Rest(wk, at) ==
    [at |-> at, message |-> wk.message, part |-> wk.part, snapshot |-> NoSession,
     executed |-> 0, calls |-> 0, drafts |-> wk.drafts]

\* AgentRuntime.run begins part p: the session is read, or made up, and the memory
\* is asked.
Begun(wk, p, session) ==
    [at |-> "query", message |-> wk.message, part |-> p,
     snapshot |-> IF session.stored THEN session ELSE [session EXCEPT !.web = wk.message.web],
     executed |-> 0, calls |-> 0, drafts |-> wk.drafts]

\* Requests whose coordinator run is under way in the session that q would run in.
RunningIn(s) == {r \in Requests : work[r].at \in Running /\ SessionOf(r) = s}

\* runCoordinator: the row of the root, then its agent run.
RunCoordinator(q, m) ==
    LET s == IF m.session = None THEN q ELSE m.session
    IN  /\ work[q].at = "idle"
        /\ rows' = [rows EXCEPT ![Root(q)] = [status |-> "running", children |-> <<>>,
                                           tools |-> ResolveAllowedToolIds, baseline |-> {}]]
        /\ work' = [work EXCEPT ![q] = Begun([@ EXCEPT !.message = m], 0, sessions[s])]
        /\ context' = [context EXCEPT ![Root(q)] = sessions[s].previous]
        /\ overlaps' = overlaps \cup {{q, r} : r \in RunningIn(s)}
        /\ UNCHANGED <<sessions, attachments, settings, left, called>>

\* The status of a part, once its agent run has ended.
Ended(q, status) == [rows EXCEPT ![Node(q)].status = status]

\* Mutant of Spawned: a subagent starts from the session that the coordinator read.
SpawnedFromSnapshot(q, ended, p) ==
    LET sub == work[q].message.subs[p]
        child == [status |-> "running", children |-> <<>>,
                  tools |-> BuildScopedPolicy(ended[Root(q)].tools, sub),
                  baseline |-> Baseline(sub.role)]
    IN  /\ rows' = [ended EXCEPT ![Root(q)].children = Append(@, p), ![<<q, p>>] = child]
        /\ work' = [work EXCEPT ![q] = Begun(@, p, work[q].snapshot)]
        /\ context' = [context EXCEPT ![<<q, p>>] = work[q].snapshot.previous]
        /\ UNCHANGED <<sessions, attachments>>

\* spawnSubagent: the child is appended to its parent, gets its row and its policy, and runs.
Spawned(q, ended, p) ==
    LET sub == work[q].message.subs[p]
        child == [status |-> "running", children |-> <<>>,
                  tools |-> BuildScopedPolicy(ended[Root(q)].tools, sub),
                  baseline |-> Baseline(sub.role)]
    IN  /\ rows' = [ended EXCEPT ![Root(q)].children = Append(@, p), ![<<q, p>>] = child]
        /\ work' = [work EXCEPT ![q] = Begun(@, p, sessions[SessionOf(q)])]
        /\ context' = [context EXCEPT ![<<q, p>>] = sessions[SessionOf(q)].previous]
        /\ UNCHANGED <<sessions, attachments>>

\* The session of the request is one of the chat.
WebSession(q) == sessions[SessionOf(q)].stored /\ sessions[SessionOf(q)].web

\* requireWebChatSession, and every attachment is one of the session.
Linkable(q) ==
    /\ WebSession(q)
    /\ \A a \in work[q].message.attached :
          attachments[a].at = "stored" /\ attachments[a].session = SessionOf(q)

\* Mutant of Linked: the text index is left as it was.
LinkedRowOnly(q) ==
    [a \in Attachments |->
        IF a \in work[q].message.attached THEN [attachments[a] EXCEPT !.run = q]
        ELSE attachments[a]]

\* linkAttachmentsToRun, and the text index after it.
Linked(q) ==
    [a \in Attachments |->
        IF a \in work[q].message.attached THEN [attachments[a] EXCEPT !.run = q, !.index = q]
        ELSE attachments[a]]

\* The session as the chat finds it, with the coordinator run and a title.
Listed(q, session) ==
    [session EXCEPT !.coords = @ \cup {q}, !.title = IF @ = None THEN q ELSE @]

\* The coordinator is done; the chat lists its run, links the attachments and
\* begins to write the artifacts that the outputs contain.
Completed(q, ended) ==
    /\ rows' = [ended EXCEPT ![Root(q)].status = "completed"]
    /\ UNCHANGED context
    /\ \/ /\ ~work[q].message.web
          /\ work' = [work EXCEPT ![q] = Rest(@, "done")]
          /\ UNCHANGED <<sessions, attachments>>
       \/ /\ work[q].message.web
          /\ sessions' = [sessions EXCEPT ![SessionOf(q)] = Listed(q, @)]
          /\ \/ /\ WebSession(q) /\ (work[q].message.attached # {} => Linkable(q))
                /\ attachments' = Linked(q)
                /\ \E n \in 0..MaxArtifacts :
                      work' = [work EXCEPT ![q] = [Rest(@, IF n = 0 THEN "done" ELSE "artifacts")
                                                     EXCEPT !.drafts = n]]
             \/ /\ ~(WebSession(q) /\ (work[q].message.attached # {} => Linkable(q)))
                /\ work' = [work EXCEPT ![q] = Rest(@, "failed")]
                /\ UNCHANGED attachments

\* After part p of request q comes the next subagent, or the end.
NextPart(q, ended) ==
    IF work[q].part < Len(work[q].message.subs)
    THEN Spawned(q, ended, work[q].part + 1)
    ELSE Completed(q, ended)

\* Mutant of AgentFails: the failure of a subagent is the failure of the request.
AgentFailsUp(q) ==
    /\ rows' = [rows EXCEPT ![Root(q)].status = "failed"]
    /\ work' = [work EXCEPT ![q] = Rest(@, "failed")]
    /\ UNCHANGED <<sessions, attachments, context>>

\* An agent run throws: a subagent's failure is its own, the coordinator's is the request's.
AgentFails(q) ==
    IF work[q].part = 0
    THEN /\ rows' = Ended(q, "failed")
         /\ work' = [work EXCEPT ![q] = Rest(@, "failed")]
         /\ UNCHANGED <<sessions, attachments, context>>
    ELSE NextPart(q, Ended(q, "failed"))

-----------------------------------------------------------------------------
(* An agent run *)

\* Memory.query returns, or throws.
Recall(q) ==
    /\ work[q].at = "query"
    /\ \/ /\ work' = [work EXCEPT ![q].at = "adapter"]
          /\ UNCHANGED <<rows, sessions, attachments, context>>
       \/ AgentFails(q)
    /\ UNCHANGED <<settings, left, called, overlaps>>

\* The next tool call of the answer, within the budget of the run; after the last
\* one the provider is asked again.
NextCall(q, wk) ==
    \/ /\ wk.calls = 0
       /\ work' = [work EXCEPT ![q] = [wk EXCEPT !.at = "adapter"]]
       /\ UNCHANGED <<rows, sessions, attachments, context, called>>
    \/ /\ wk.calls > 0 /\ wk.executed = MaxToolCalls
       /\ AgentFails(q) /\ UNCHANGED called
    \/ /\ wk.calls > 0 /\ wk.executed < MaxToolCalls
       /\ \E tool \in Tools :
             \/ ~MayCall(tool, Policy(q)) /\ AgentFails(q) /\ UNCHANGED called
             \/ /\ MayCall(tool, Policy(q))
                /\ work' = [work EXCEPT ![q] = [wk EXCEPT !.at = "tool", !.executed = @ + 1]]
                /\ called' = [called EXCEPT ![Node(q)] = Append(@, tool)]
                /\ UNCHANGED <<rows, sessions, attachments, context>>

\* The stream ends with tool calls.
AnswerWithCalls(q) ==
    /\ work[q].at = "adapter"
    /\ \E n \in 1..MaxCalls : NextCall(q, [work[q] EXCEPT !.calls = n])
    /\ UNCHANGED <<settings, left, overlaps>>

\* Mutant of Extended: the list of runs is read again before it is written.
ExtendedAfresh(session, snapshot, n, previous) ==
    [snapshot EXCEPT !.stored = TRUE, !.agents = Append(session.agents, n), !.previous = previous,
                     !.title = IF @ = None THEN session.title ELSE @]

\* Mutant of Extended: the title goes with the session as it was read.
ExtendedWithTitle(session, snapshot, n, previous) ==
    [snapshot EXCEPT !.stored = TRUE, !.agents = Append(@, n), !.previous = previous]

\* SessionStore.upsert: the session as it was read, with this run, over the one
\* there is; a title is kept for want of another.
Extended(session, snapshot, n, previous) ==
    [stored |-> TRUE, web |-> snapshot.web, coords |-> snapshot.coords,
     agents |-> Append(snapshot.agents, n), previous |-> previous,
     title |-> IF snapshot.title = None THEN session.title ELSE snapshot.title]

\* The stream ends without tool calls: the session is written and the turn goes to
\* the memory.  No response of the run may have had an id: a stream may break off
\* with an error, which is reported and not thrown.
FinalAnswer(q) ==
    /\ work[q].at = "adapter"
    /\ \E id \in BOOLEAN :
          LET previous == IF id THEN Node(q) ELSE work[q].snapshot.previous
          IN  /\ sessions' = [sessions EXCEPT ![SessionOf(q)] =
                                Extended(@, work[q].snapshot, Node(q), previous)]
              /\ left' = [left EXCEPT ![Node(q)] = previous]
    /\ work' = [work EXCEPT ![q] = Rest(@, "remember")]
    /\ UNCHANGED <<rows, attachments, settings, context, called, overlaps>>

\* The transport fails, or the run's time is up.
AdapterFails(q) ==
    /\ work[q].at = "adapter"
    /\ AgentFails(q)
    /\ UNCHANGED <<settings, left, called, overlaps>>

ToolReturns(q) ==
    /\ work[q].at = "tool"
    /\ NextCall(q, [work[q] EXCEPT !.calls = @ - 1])
    /\ UNCHANGED <<settings, left, overlaps>>

ToolFails(q) ==
    /\ work[q].at = "tool"
    /\ AgentFails(q)
    /\ UNCHANGED <<settings, left, called, overlaps>>

\* recordTurn and consolidate return, or throw; the session is written already.
Remember(q) ==
    /\ work[q].at = "remember"
    /\ \/ NextPart(q, IF work[q].part = 0 THEN rows ELSE Ended(q, "completed"))
       \/ AgentFails(q)
    /\ UNCHANGED <<settings, left, called, overlaps>>

\* A blob is written and its artifact recorded, or the disk fails the request.
WriteArtifact(q) ==
    /\ work[q].at = "artifacts"
    /\ \/ work' = [work EXCEPT ![q].at = IF work[q].drafts = 1 THEN "done" ELSE "artifacts",
                               ![q].drafts = @ - 1]
       \/ work' = [work EXCEPT ![q].at = "failed", ![q].drafts = 0]
    /\ UNCHANGED <<rows, sessions, attachments, settings, history>>

-----------------------------------------------------------------------------
(* Attachments *)

\* POST /chat/attachments, one file of it: the session and its run are checked, and
\* the blob is written.
Upload(a, s, run) ==
    /\ attachments[a].at = "none"
    /\ sessions[s].stored /\ sessions[s].web
    /\ run = None \/ run \in sessions[s].coords
    /\ changes < MaxChanges /\ changes' = changes + 1
    /\ attachments' = [attachments EXCEPT ![a] =
                         [at |-> "writing", session |-> s, run |-> run, index |-> None]]
    /\ UNCHANGED <<work, rows, sessions, registered, overrides, history>>

\* The row and its text index; a disk that fails leaves neither.
RecordUploaded(a) ==
    /\ attachments[a].at = "writing"
    /\ \/ attachments' = [attachments EXCEPT ![a].at = "stored", ![a].index = attachments[a].run]
       \/ attachments' = [attachments EXCEPT ![a] =
                            [at |-> "none", session |-> None, run |-> None, index |-> None]]
    /\ UNCHANGED <<work, rows, sessions, settings, history>>

-----------------------------------------------------------------------------

\* The process dies: the requests are lost, and nothing is done about their rows.
Crash ==
    /\ changes < MaxChanges /\ changes' = changes + 1
    /\ work' = [q \in Requests |->
                  IF work[q].at \in Running \cup {"artifacts"} THEN [Rest(work[q], "lost") EXCEPT !.drafts = 0]
                  ELSE work[q]]
    /\ attachments' = [a \in Attachments |->
                         IF attachments[a].at = "writing"
                         THEN [at |-> "none", session |-> None, run |-> None, index |-> None]
                         ELSE attachments[a]]
    \* Bundles that are enabled are registered again at the start.
    /\ UNCHANGED <<rows, sessions, registered, overrides, history>>

Init ==
    /\ work = [q \in Requests |->
                 [at |-> "idle", message |-> CHOOSE m \in Messages : TRUE, part |-> 0,
                  snapshot |-> NoSession, executed |-> 0, calls |-> 0, drafts |-> 0]]
    /\ rows = [n \in Nodes |-> [status |-> "none", children |-> <<>>, tools |-> {},
                               baseline |-> {}]]
    /\ sessions = [s \in SessionIds |-> NoSession]
    /\ attachments = [a \in Attachments |->
                        [at |-> "none", session |-> None, run |-> None, index |-> None]]
    /\ registered = {} /\ overrides = [role \in Roles |-> {}]
    /\ context = [n \in Nodes |-> None] /\ left = [n \in Nodes |-> None]
    /\ called = [n \in Nodes |-> <<>>]
    /\ overlaps = {} /\ changes = 0

Step(q) ==
    \/ \E m \in Messages : RunCoordinator(q, m)
    \/ Recall(q)
    \/ AnswerWithCalls(q)
    \/ FinalAnswer(q)
    \/ AdapterFails(q)
    \/ ToolReturns(q)
    \/ ToolFails(q)
    \/ Remember(q)
    \/ WriteArtifact(q)

Change ==
    \/ \E tool \in Dynamic : RegisterDynamic(tool) \/ UnregisterDynamic(tool)
    \/ \E role \in Roles : (\E tools \in SUBSET Tools : UpdateRole(role, tools)) \/ ResetRole(role)
    \/ Crash

Next ==
    \/ \E q \in Requests : Step(q)
    \/ \E a \in Attachments :
          \/ \E s \in SessionIds, run \in Requests \cup {None} : Upload(a, s, run)
          \/ RecordUploaded(a)
    \/ Change

Spec == Init /\ [][Next]_vars

-----------------------------------------------------------------------------
(* Properties *)

\* The conversation that the provider would continue is the one the session lists:
\* each agent run listed continued what the one before it left, and the session
\* continues what the last one left, however runs overlap and fail.
\* (runtime.ts:215, written from what was read at line 68.)
InConversation(session) ==
    /\ session.previous = IF session.agents = <<>> THEN None
                          ELSE left[session.agents[Len(session.agents)]]
    /\ \A i \in 1..Len(session.agents) :
          context[session.agents[i]] = IF i = 1 THEN None ELSE left[session.agents[i - 1]]

ConversationIsListed == \A s \in SessionIds : InConversation(sessions[s])

\* An agent run that completed, and the run of a chat message that completed, are
\* missing from their session only if another request ran in it at the same time.
\* (runtime.ts:222, http-server.ts:1463; docs/channels.md:36.)
LostOnlyToOverlap ==
    \A q \in Requests : work[q].at # "idle" /\ (\A pair \in overlaps : q \notin pair) =>
        /\ work[q].message.web /\ rows[Root(q)].status = "completed" => q \in sessions[SessionOf(q)].coords
        /\ \A p \in Parts : rows[<<q, p>>].status = "completed" =>
              \E i \in DOMAIN sessions[SessionOf(q)].agents :
                  sessions[SessionOf(q)].agents[i] = <<q, p>>

\* A run is marked as running while its request is at it, or a death has cut it
\* short; its children are those that were spawned, in their order, and have ended
\* when it has.  (orchestration/service.ts:94, 206, 216.)
RunsAccounted ==
    \A q \in Requests :
        /\ work[q].at \in Running => rows[Root(q)].status = "running"
        /\ rows[Root(q)].status = "running" => work[q].at \in Running \cup {"lost"}
        /\ \A p \in Parts \ {0} :
              rows[<<q, p>>].status = "running" =>
                  work[q].part = p /\ work[q].at \in Running \cup {"lost"}
        /\ rows[Root(q)].status # "none" =>
              /\ \A i \in DOMAIN rows[Root(q)].children : rows[Root(q)].children[i] = i
              /\ {p \in Parts : rows[<<q, p>>].status # "none"} = {0} \cup (DOMAIN rows[Root(q)].children)
        /\ rows[Root(q)].status = "completed" =>
              Len(rows[Root(q)].children) = Len(work[q].message.subs)

\* A list of tools that is empty asks for nothing.
Permits(list, tool) == list = {} \/ tool \in list

\* Whatever tool a run has called, its own policy allowed and its coordinator's, which
\* never names a tool that writes; a subagent's call was one that its role had when it
\* was spawned, overrides included, and one that its spawn asked for; and no run has
\* called more than it may, over all of its answers.
\* (tools/registry.ts:52, runtime.ts:142, roles.ts:81, orchestration/service.ts:186, 224.)
CallsInBounds ==
    \A q \in Requests, p \in Parts :
        /\ Len(called[<<q, p>>]) <= MaxToolCalls
        /\ \A i \in DOMAIN called[<<q, p>>] :
              LET tool == called[<<q, p>>][i]
              IN  /\ tool \in rows[<<q, p>>].tools
                  /\ tool \in rows[Root(q)].tools \ Writers
                  /\ p > 0 => /\ Permits(rows[<<q, p>>].baseline, tool)
                             /\ Permits(work[q].message.subs[p].tools, tool)

\* An attachment and its text index name the same run, a run of its session.
\* (chat/artifacts.ts:190, attachment-text-index.ts:99.)
AttachmentsAgree ==
    \A a \in Attachments : attachments[a].at = "stored" =>
        /\ attachments[a].index = attachments[a].run
        /\ attachments[a].run # None =>
              /\ rows[Root(attachments[a].run)].status = "completed"
              /\ SessionOf(attachments[a].run) = attachments[a].session

\* The first title that a session gets stays.  (session-store.ts:86, http-server.ts:1468.)
TitleStays ==
    [][\A s \in SessionIds : sessions[s].title # None => sessions'[s].title = sessions[s].title]_vars
=============================================================================

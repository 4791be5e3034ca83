------------------------ MODULE OrchestrationProofs ------------------------
(***************************************************************************)
(* Proofs about Orchestration, for any requests, sessions, tools, roles    *)
(* and bounds.                                                             *)
(*                                                                         *)
(* Of all that a step changes, the theorems need little: a step begins an  *)
(* agent run, answers one, or proceeds with what there is.  StepShape says *)
(* so once, and each invariant is kept by the three.                       *)
(***************************************************************************)
EXTENDS Orchestration, TLAPS

\* An agent run is under way, with the session as it was read.
Agent == {"query", "adapter", "tool"}

\* What the bounds of a request's counters are, besides their types.
Counts ==
    \A q \in Requests :
        /\ work[q].at = "tool" => work[q].calls > 0
        /\ work[q].at = "artifacts" => work[q].drafts > 0

Typed == TypeOK /\ Counts

-----------------------------------------------------------------------------
(* Types *)

LEMMA Places ==
    ASSUME TypeOK, NEW q \in Requests
    PROVE  /\ Node(q) \in Nodes
           /\ \A p \in Parts : <<q, p>> \in Nodes
           /\ 0 \in Parts
           /\ SessionOf(q) \in SessionIds
           /\ work[q] \in Work
           /\ work[q].message \in Message
           /\ sessions[SessionOf(q)] \in Session
<1>1. work[q] \in Work /\ work[q].message \in Messages /\ work[q].part \in Parts
  BY DEF TypeOK, Work
<1>2. work[q].message \in Message /\ work[q].message.session \in Sessions \cup {None}
  BY <1>1, OrchestrationAssumption DEF Message
<1>3. Node(q) \in Nodes /\ \A p \in Parts : <<q, p>> \in Nodes
  BY <1>1 DEF Node, Nodes
<1>4. 0 \in Parts
  BY OrchestrationAssumption DEF Parts
<1>5. SessionOf(q) \in SessionIds
  BY <1>2 DEF SessionOf, SessionIds
<1>6. QED
  BY <1>1, <1>2, <1>3, <1>4, <1>5 DEF TypeOK

LEMMA RestFacts ==
    ASSUME NEW wk \in Work, NEW at \in Awaits
    PROVE  /\ Rest(wk, at) \in Work
           /\ Rest(wk, at).at = at /\ Rest(wk, at).part = wk.part
           /\ Rest(wk, at).message = wk.message
BY OrchestrationAssumption DEF Rest, Work, NoSession, Session

LEMMA BegunFacts ==
    ASSUME NEW wk \in Work, NEW p \in Parts, NEW session \in Session
    PROVE  /\ Begun(wk, p, session) \in Work
           /\ Begun(wk, p, session).at = "query" /\ Begun(wk, p, session).part = p
           /\ Begun(wk, p, session).message = wk.message
           /\ Begun(wk, p, session).executed = 0
           /\ Begun(wk, p, session).snapshot.agents = session.agents
           /\ Begun(wk, p, session).snapshot.previous = session.previous
           /\ Begun(wk, p, session).snapshot.title = session.title
           /\ Begun(wk, p, session).snapshot.coords = session.coords
<1> DEFINE read == IF session.stored THEN session ELSE [session EXCEPT !.web = wk.message.web]
<1>1. wk.message.web \in BOOLEAN
  BY OrchestrationAssumption DEF Work, Message
<1>2. read \in Session /\ read.agents = session.agents /\ read.previous = session.previous
      /\ read.title = session.title /\ read.coords = session.coords
  BY <1>1 DEF Session
<1>3. Begun(wk, p, session) = [at |-> "query", message |-> wk.message, part |-> p,
                               snapshot |-> read, executed |-> 0, calls |-> 0,
                               drafts |-> wk.drafts]
  BY DEF Begun
<1> HIDE DEF read
<1>4. QED
  BY <1>2, <1>3, OrchestrationAssumption DEF Work, Awaits

\* What the tools of a subagent come to is a part of what its parent has, within its
\* role's and within those that are asked for.
LEMMA ScopedPolicy ==
    ASSUME TypeOK, NEW parent \in SUBSET Tools, NEW sub \in Subagent
    PROVE  /\ BuildScopedPolicy(parent, sub) \subseteq parent
           /\ \A tool \in BuildScopedPolicy(parent, sub) :
                 Permits(Baseline(sub.role), tool) /\ Permits(sub.tools, tool)
BY DEF BuildScopedPolicy, Intersect, Permits

\* What a subagent may call, the tools of its role permit and what its spawn asked for.
Within(row, sub) == \A tool \in row.tools : Permits(row.baseline, tool) /\ Permits(sub.tools, tool)

LEMMA ExtendedFacts ==
    ASSUME NEW session \in Session, NEW snapshot \in Session, NEW n \in Nodes,
           NEW previous \in Nodes \cup {None}
    PROVE  /\ Extended(session, snapshot, n, previous) \in Session
           /\ Extended(session, snapshot, n, previous).agents = Append(snapshot.agents, n)
           /\ Extended(session, snapshot, n, previous).previous = previous
           /\ Extended(session, snapshot, n, previous).title =
                 IF snapshot.title = None THEN session.title ELSE snapshot.title
BY DEF Extended, Session

LEMMA ListedFacts ==
    ASSUME NEW session \in Session, NEW q \in Requests
    PROVE  /\ Listed(q, session) \in Session
           /\ Listed(q, session).agents = session.agents
           /\ Listed(q, session).previous = session.previous
           /\ session.title # None => Listed(q, session).title = session.title
<1> DEFINE with == [session EXCEPT !.coords = @ \cup {q}]
           title == IF session.title = None THEN q ELSE session.title
<1>1. /\ with \in Session /\ with.agents = session.agents /\ with.previous = session.previous
      /\ with.title = session.title
  BY DEF Session
<1>2. Listed(q, session) = [with EXCEPT !.title = title]
  BY <1>1 DEF Listed
<1>3. title \in Requests \cup {None} /\ (session.title # None => title = session.title)
  BY DEF Session
<1> HIDE DEF with, title
<1>4. QED
  BY <1>1, <1>2, <1>3 DEF Session

LEMMA AtFacts ==
    ASSUME NEW wk \in Work, NEW at \in Awaits
    PROVE  LET next == [wk EXCEPT !.at = at]
           IN  /\ next \in Work /\ next.at = at
               /\ next.part = wk.part /\ next.message = wk.message
               /\ next.snapshot = wk.snapshot /\ next.executed = wk.executed
               /\ next.calls = wk.calls /\ next.drafts = wk.drafts
BY DEF Work

LEMMA RowFacts ==
    ASSUME NEW row \in Row, NEW status \in {"none", "running", "completed", "failed"}, NEW p \in Parts
    PROVE  /\ [row EXCEPT !.status = status] \in Row
           /\ [row EXCEPT !.status = status].tools = row.tools
           /\ [row EXCEPT !.status = status].baseline = row.baseline
           /\ [row EXCEPT !.children = Append(@, p)] \in Row
           /\ [row EXCEPT !.children = Append(@, p)].tools = row.tools
           /\ [row EXCEPT !.children = Append(@, p)].baseline = row.baseline
<1>1. Append(row.children, p) \in Seq(Parts)
  BY DEF Row
<1>2. /\ [row EXCEPT !.status = status] \in Row
      /\ [row EXCEPT !.status = status].tools = row.tools
      /\ [row EXCEPT !.status = status].baseline = row.baseline
  BY DEF Row
<1> DEFINE children == Append(row.children, p)
<1> HIDE DEF children
<1>3. /\ [row EXCEPT !.children = children] \in Row
      /\ [row EXCEPT !.children = children].tools = row.tools
      /\ [row EXCEPT !.children = children].baseline = row.baseline
  BY <1>1 DEF Row, children
<1>4. QED
  BY <1>2, <1>3 DEF children

\* The end of a part leaves the tools of all runs as they are.
SameTools(some) ==
    \A n \in Nodes : some[n].tools = rows[n].tools /\ some[n].baseline = rows[n].baseline

LEMMA EndedFacts ==
    ASSUME TypeOK, NEW q \in Requests, NEW status \in {"completed", "failed"}
    PROVE  Ended(q, status) \in [Nodes -> Row] /\ SameTools(Ended(q, status))
<1>1. rows \in [Nodes -> Row] /\ Node(q) \in Nodes
  BY Places DEF TypeOK
<1> DEFINE row == [rows[Node(q)] EXCEPT !.status = status]
<1>2. row \in Row /\ row.tools = rows[Node(q)].tools /\ row.baseline = rows[Node(q)].baseline
  BY <1>1, RowFacts, Places
<1>3. Ended(q, status) = [rows EXCEPT ![Node(q)] = row]
  BY DEF Ended
<1> HIDE DEF row
<1>4. QED
  BY <1>1, <1>2, <1>3 DEF SameTools

-----------------------------------------------------------------------------
(* What a step does *)

\* Agent run p of request q begins with the session as it is.
Begins(q, p) ==
    /\ p \in Parts
    /\ \/ work[q].at = "idle" /\ p = 0
       \/ work[q].at \in Running /\ p = work[q].part + 1 /\ SessionOf(q)' = SessionOf(q)
    /\ \A r \in Requests \ {q} : work'[r] = work[r]
    /\ work'[q].at = "query" /\ work'[q].part = p /\ work'[q].executed = 0
    /\ LET session == sessions[SessionOf(q)']
           snapshot == work'[q].snapshot
       IN  /\ snapshot.agents = session.agents
           /\ snapshot.previous = session.previous
           /\ snapshot.title = session.title
           /\ context' = [context EXCEPT ![<<q, p>>] = session.previous]
    /\ IF p = 0 THEN rows'[Root(q)].tools \cap Writers = {}
                ELSE rows'[<<q, p>>].tools \subseteq rows[Root(q)].tools
    /\ p # 0 => /\ work'[q].message = work[q].message
               /\ Within(rows'[<<q, p>>], work[q].message.subs[p])
    /\ \A n \in Nodes \ {<<q, p>>} : rows'[n].tools = rows[n].tools
    /\ \A n \in Nodes \ {<<q, p>>} : rows'[n].baseline = rows[n].baseline
    /\ UNCHANGED <<sessions, left, called>>

\* A request goes on without beginning an agent run.
Carries(wk, next) ==
    /\ next.part = wk.part /\ next.message = wk.message
    /\ next.at = "idle" <=> wk.at = "idle"
    /\ next.at \in Agent => wk.at \in Agent /\ next.snapshot = wk.snapshot

\* It calls no tool, or one within its policy and its budget.
CallsNothing ==
    /\ UNCHANGED called
    /\ \A q \in Requests : work'[q].at \in Agent => work'[q].executed = work[q].executed

CallsOne(q, tool) ==
    /\ work[q].at \in Agent /\ work[q].executed < MaxToolCalls
    /\ tool \in Tools /\ tool \in Policy(q)
    /\ called' = [called EXCEPT ![Node(q)] = Append(@, tool)]
    /\ work'[q].executed = work[q].executed + 1
    /\ \A r \in Requests \ {q} : work'[r] = work[r]

SameConversation(new, old) ==
    /\ new.agents = old.agents /\ new.previous = old.previous
    /\ old.title # None => new.title = old.title

\* Requests go on, and the sessions keep their conversations.
Proceeds ==
    /\ \A q \in Requests : Carries(work[q], work'[q])
    /\ \A s \in SessionIds : SameConversation(sessions'[s], sessions[s])
    /\ SameTools(rows')
    /\ UNCHANGED <<context, left>>
    /\ CallsNothing \/ \E q \in Requests : \E tool \in Tools : CallsOne(q, tool)

\* The request keeps its place but for the session.
Answers(q) ==
    /\ work[q].at = "adapter"
    /\ \A r \in Requests \ {q} : work'[r] = work[r]
    /\ work'[q].at = "remember"
    /\ work'[q].part = work[q].part /\ work'[q].message = work[q].message
    /\ \E previous \in {Node(q), work[q].snapshot.previous} :
          /\ sessions' = [sessions EXCEPT ![SessionOf(q)] =
                            Extended(@, work[q].snapshot, Node(q), previous)]
          /\ left' = [left EXCEPT ![Node(q)] = previous]
    /\ UNCHANGED <<rows, context, called>>

\* The variables that steps of requests change keep their types.
StepTyped ==
    /\ work' \in [Requests -> Work] /\ Counts'
    /\ rows' \in [Nodes -> Row]
    /\ sessions' \in [SessionIds -> Session]
    /\ attachments' \in [Attachments -> Attachment]
    /\ context' \in [Nodes -> Nodes \cup {None}]

LEMMA SpawnedShape ==
    ASSUME Typed, NEW q \in Requests, work[q].at \in Running,
           NEW ended \in [Nodes -> Row], SameTools(ended),
           work[q].part < Len(work[q].message.subs),
           Spawned(q, ended, work[q].part + 1), UNCHANGED <<left, called>>
    PROVE  StepTyped /\ Begins(q, work[q].part + 1)
<1> DEFINE p == work[q].part + 1
           sub == work[q].message.subs[p]
           child == [status |-> "running", children |-> <<>>,
                     tools |-> BuildScopedPolicy(ended[Root(q)].tools, sub),
                     baseline |-> Baseline(sub.role)]
           root == [ended[Root(q)] EXCEPT !.children = Append(@, p)]
           session == sessions[SessionOf(q)]
           next == Begun(work[q], p, session)
<1>1. /\ work \in [Requests -> Work] /\ sessions \in [SessionIds -> Session]
      /\ rows \in [Nodes -> Row] /\ context \in [Nodes -> Nodes \cup {None}]
      /\ attachments \in [Attachments -> Attachment]
  BY DEF Typed, TypeOK
<1>2. /\ work[q] \in Work /\ work[q].message \in Messages /\ work[q].part \in Parts
      /\ session \in Session /\ SessionOf(q) \in SessionIds
  BY <1>1, Places DEF Typed, Work
<1>3. p \in 1..Len(work[q].message.subs) /\ work[q].message.subs \in Seq(Subagent)
  <2>1. work[q].message.subs \in Seq(Subagent) /\ Len(work[q].message.subs) \in Nat
    BY <1>2, OrchestrationAssumption DEF Message
  <2>2. work[q].part \in Nat
    BY <1>2, OrchestrationAssumption DEF Parts
  <2>3. QED
    BY <2>1, <2>2
<1>4. p \in Parts /\ p # 0 /\ sub \in Subagent
  BY <1>2, <1>3, OrchestrationAssumption DEF Parts
<1>5. <<q, p>> \in Nodes /\ Root(q) \in Nodes /\ <<q, p>> # Root(q)
  BY <1>4, OrchestrationAssumption DEF Nodes, Root, Parts
<1>6. root \in Row /\ root.tools = rows[Root(q)].tools /\ root.baseline = rows[Root(q)].baseline
  <2>1. /\ ended[Root(q)] \in Row /\ ended[Root(q)].tools = rows[Root(q)].tools
        /\ ended[Root(q)].baseline = rows[Root(q)].baseline
    BY <1>5 DEF SameTools
  <2>2. root \in Row /\ root.tools = ended[Root(q)].tools /\ root.baseline = ended[Root(q)].baseline
    BY <2>1, <1>4, RowFacts
  <2>3. QED
    BY <2>1, <2>2
<1>7. child \in Row /\ child.tools \subseteq rows[Root(q)].tools /\ Within(child, sub)
  <2>1. ended[Root(q)].tools = rows[Root(q)].tools /\ rows[Root(q)].tools \subseteq Tools
    BY <1>1, <1>5 DEF SameTools, Row
  <2> DEFINE tools == BuildScopedPolicy(ended[Root(q)].tools, sub)
             role == Baseline(sub.role)
  <2>2. /\ tools \subseteq rows[Root(q)].tools
        /\ \A tool \in tools : Permits(role, tool) /\ Permits(sub.tools, tool)
    BY <2>1, <1>4, ScopedPolicy DEF Typed
  <2>3. role \subseteq Tools
    BY <1>4, OrchestrationAssumption DEF Baseline, Typed, TypeOK, Subagent, Roles
  <2>4. child = [status |-> "running", children |-> <<>>, tools |-> tools, baseline |-> role]
    OBVIOUS
  <2> HIDE DEF child, tools, role
  <2>5. QED
    BY <2>1, <2>2, <2>3, <2>4 DEF Row, Within
<1>8. /\ next \in Work /\ next.at = "query" /\ next.part = p /\ next.executed = 0
      /\ next.message = work[q].message
      /\ next.snapshot.agents = session.agents /\ next.snapshot.previous = session.previous
      /\ next.snapshot.title = session.title
  BY <1>2, <1>4, BegunFacts
<1>9. /\ rows' = [ended EXCEPT ![Root(q)] = root, ![<<q, p>>] = child]
      /\ work' = [work EXCEPT ![q] = next]
      /\ context' = [context EXCEPT ![<<q, p>>] = session.previous]
      /\ UNCHANGED <<sessions, attachments>>
  BY DEF Spawned
<1> HIDE DEF p, sub, child, root, session, next
<1>10. work' \in [Requests -> Work] /\ work'[q] = next
       /\ \A r \in Requests \ {q} : work'[r] = work[r]
  BY <1>1, <1>8, <1>9
<1>11. SessionOf(q)' = SessionOf(q)
  BY <1>8, <1>10 DEF SessionOf
<1>12. /\ rows' \in [Nodes -> Row] /\ rows'[<<q, p>>] = child /\ rows'[Root(q)] = root
       /\ \A n \in Nodes \ {<<q, p>>, Root(q)} : rows'[n] = ended[n]
  BY <1>5, <1>6, <1>7, <1>9
<1>13. Counts'
  BY <1>8, <1>10 DEF Typed, Counts
<1>14. session.previous \in Nodes \cup {None}
  BY <1>2 DEF Session
<1>15. StepTyped
  BY <1>1, <1>9, <1>10, <1>12, <1>13, <1>14 DEF StepTyped
<1>16. \A n \in Nodes \ {<<q, p>>} :
          rows'[n].tools = rows[n].tools /\ rows'[n].baseline = rows[n].baseline
  BY <1>6, <1>12 DEF SameTools
<1>17. Begins(q, p)
  <2>1. sessions[SessionOf(q)'] = session
    BY <1>11 DEF session
  <2>2. work[q].at \in Running /\ p = work[q].part + 1
    BY DEF p
  <2>3. /\ p # 0 /\ rows'[<<q, p>>].tools \subseteq rows[Root(q)].tools
        /\ work'[q].message = work[q].message
        /\ Within(rows'[<<q, p>>], work[q].message.subs[p])
    BY <1>4, <1>7, <1>8, <1>10, <1>12 DEF sub
  <2>4. QED
    BY <1>4, <1>8, <1>9, <1>10, <1>11, <1>16, <2>1, <2>2, <2>3 DEF Begins
<1>18. QED
  BY <1>15, <1>17 DEF p

LEMMA ConversationKept ==
    ASSUME Typed, UNCHANGED sessions
    PROVE  \A s \in SessionIds : SameConversation(sessions'[s], sessions[s])
BY DEF SameConversation

\* One request goes on, calling nothing.
LEMMA OneProceeds ==
    ASSUME Typed, NEW q \in Requests, NEW next \in Work,
           Carries(work[q], next), work[q].at \in Running,
           next.at \in Agent => next.executed = work[q].executed,
           next.at = "tool" => next.calls > 0, next.at = "artifacts" => next.drafts > 0,
           work' = [work EXCEPT ![q] = next],
           rows' \in [Nodes -> Row], SameTools(rows'),
           sessions' \in [SessionIds -> Session],
           \A s \in SessionIds : SameConversation(sessions'[s], sessions[s]),
           attachments' \in [Attachments -> Attachment],
           UNCHANGED <<context, left, called>>
    PROVE  StepTyped /\ Proceeds
<1>1. work \in [Requests -> Work] /\ context \in [Nodes -> Nodes \cup {None}]
  BY DEF Typed, TypeOK
<1>2. /\ work' \in [Requests -> Work] /\ work'[q] = next
      /\ \A r \in Requests \ {q} : work'[r] = work[r]
  BY <1>1
<1>3. Counts'
  BY <1>2 DEF Typed, Counts
<1>4. \A r \in Requests : Carries(work[r], work'[r])
  BY <1>2 DEF Carries
<1>5. CallsNothing
  BY <1>2 DEF CallsNothing
<1>6. QED
  BY <1>1, <1>2, <1>3, <1>4, <1>5 DEF StepTyped, Proceeds

\* A request that ends goes on in this sense.
LEMMA RestCarries ==
    ASSUME NEW wk \in Work, wk.at \in Running, NEW at \in {"remember", "artifacts", "done", "failed", "lost"}
    PROVE  /\ Rest(wk, at) \in Work /\ Carries(wk, Rest(wk, at))
           /\ Rest(wk, at).at = at
<1>1. at \in Awaits /\ at \notin Agent /\ at # "idle" /\ wk.at # "idle"
  BY DEF Awaits, Agent, Running
<1>2. QED
  BY <1>1, RestFacts DEF Carries

LEMMA LinkedType ==
    ASSUME Typed, NEW q \in Requests
    PROVE  Linked(q) \in [Attachments -> Attachment]
<1>1. ASSUME NEW a \in Attachments PROVE Linked(q)[a] \in Attachment
  <2>1. attachments[a] \in Attachment
    BY DEF Typed, TypeOK
  <2> DEFINE run == [attachments[a] EXCEPT !.run = q]
  <2>2. run \in Attachment
    BY <2>1 DEF Attachment
  <2>3. [attachments[a] EXCEPT !.run = q, !.index = q] = [run EXCEPT !.index = q]
    OBVIOUS
  <2> HIDE DEF run
  <2>4. [run EXCEPT !.index = q] \in Attachment
    BY <2>2 DEF Attachment
  <2>5. QED
    BY <2>1, <2>3, <2>4 DEF Linked
<1>2. QED
  BY <1>1 DEF Linked

LEMMA CompletedShape ==
    ASSUME Typed, NEW q \in Requests, work[q].at \in Running,
           NEW ended \in [Nodes -> Row], SameTools(ended),
           Completed(q, ended), UNCHANGED <<left, called>>
    PROVE  StepTyped /\ Proceeds
<1> DEFINE root == [ended[Root(q)] EXCEPT !.status = "completed"]
           session == sessions[SessionOf(q)]
<1>1. /\ work \in [Requests -> Work] /\ sessions \in [SessionIds -> Session]
      /\ work[q] \in Work /\ SessionOf(q) \in SessionIds /\ session \in Session
      /\ attachments \in [Attachments -> Attachment] /\ Root(q) \in Nodes
  BY Places DEF Typed, TypeOK, Root
<1>2. root \in Row /\ root.tools = ended[Root(q)].tools /\ root.baseline = ended[Root(q)].baseline
  <2>1. ended[Root(q)] \in Row
    BY <1>1
  <2>2. QED
    BY <1>1, <2>1, RowFacts, Places DEF Typed
<1>3. rows' = [ended EXCEPT ![Root(q)] = root]
  BY DEF Completed
<1>4. rows' \in [Nodes -> Row] /\ SameTools(rows')
  <2> HIDE DEF root
  <2>1. QED
    BY <1>1, <1>2, <1>3 DEF SameTools
<1>5. CASE ~work[q].message.web
  <2>1. work' = [work EXCEPT ![q] = Rest(@, "done")] /\ UNCHANGED <<sessions, attachments, context>>
    BY <1>5 DEF Completed
  <2>2. /\ Rest(work[q], "done") \in Work /\ Carries(work[q], Rest(work[q], "done"))
        /\ Rest(work[q], "done").at = "done"
    BY <1>1, RestCarries
  <2>3. work' = [work EXCEPT ![q] = Rest(work[q], "done")]
    BY <2>1
  <2>4. QED
    BY <1>1, <1>4, <2>1, <2>2, <2>3, OneProceeds, ConversationKept DEF Agent
<1>6. CASE work[q].message.web
  <2>1. /\ sessions' = [sessions EXCEPT ![SessionOf(q)] = Listed(q, session)]
        /\ UNCHANGED context
    BY <1>6 DEF Completed
  <2>2. /\ sessions' \in [SessionIds -> Session]
        /\ \A s \in SessionIds : SameConversation(sessions'[s], sessions[s])
    <3> HIDE DEF session
    <3>1. /\ Listed(q, session) \in Session
          /\ SameConversation(Listed(q, session), session)
      BY <1>1, ListedFacts DEF SameConversation
    <3>2. \A s \in SessionIds : SameConversation(sessions[s], sessions[s])
      BY DEF SameConversation
    <3>3. session = sessions[SessionOf(q)]
      BY DEF session
    <3>4. QED
      BY <1>1, <2>1, <3>1, <3>2, <3>3
  <2>3. PICK next \in Work :
           /\ work' = [work EXCEPT ![q] = next] /\ Carries(work[q], next)
           /\ next.at \notin Agent
           /\ next.at = "artifacts" => next.drafts > 0
           /\ attachments' \in [Attachments -> Attachment]
    <3>1. CASE WebSession(q) /\ (work[q].message.attached # {} => Linkable(q))
      <4>1. PICK n \in 0..MaxArtifacts :
               work' = [work EXCEPT ![q] = [Rest(@, IF n = 0 THEN "done" ELSE "artifacts")
                                              EXCEPT !.drafts = n]]
        BY <1>6, <3>1 DEF Completed
      <4> DEFINE at == IF n = 0 THEN "done" ELSE "artifacts"
                 rest == Rest(work[q], at)
                 next == [rest EXCEPT !.drafts = n]
      <4>2. rest \in Work /\ Carries(work[q], rest) /\ rest.at = at
        BY <1>1, RestCarries
      <4>3. work' = [work EXCEPT ![q] = next]
        BY <4>1
      <4>4. attachments' = Linked(q)
        BY <1>6, <3>1 DEF Completed
      <4> HIDE DEF rest
      <4>5. /\ next \in Work /\ next.drafts = n /\ next.at = rest.at /\ next.part = rest.part
            /\ next.message = rest.message /\ next.snapshot = rest.snapshot
        BY <4>2 DEF Work
      <4> HIDE DEF next
      <4>6. Carries(work[q], next) /\ next.at \notin Agent
        BY <4>2, <4>5 DEF Carries, Agent
      <4>7. next.at = "artifacts" => next.drafts > 0
        BY <4>2, <4>5, OrchestrationAssumption
      <4>8. QED
        BY <4>3, <4>4, <4>5, <4>6, <4>7, LinkedType
    <3>2. CASE ~(WebSession(q) /\ (work[q].message.attached # {} => Linkable(q)))
      <4>1. work' = [work EXCEPT ![q] = Rest(work[q], "failed")] /\ UNCHANGED attachments
        BY <1>6, <3>2 DEF Completed
      <4>2. /\ Rest(work[q], "failed") \in Work /\ Carries(work[q], Rest(work[q], "failed"))
            /\ Rest(work[q], "failed").at = "failed"
        BY <1>1, RestCarries
      <4>3. QED
        BY <1>1, <4>1, <4>2 DEF Agent
    <3>3. QED
      BY <3>1, <3>2
  <2>4. QED
    BY <1>4, <2>1, <2>2, <2>3, OneProceeds DEF Agent
<1>7. QED
  BY <1>5, <1>6

\* What comes after a part, and the failure of an agent run.
Shaped == StepTyped /\ (Proceeds \/ \E q \in Requests : \E p \in Parts : Begins(q, p))

LEMMA NextPartShape ==
    ASSUME Typed, NEW q \in Requests, work[q].at \in Running,
           NEW ended \in [Nodes -> Row], SameTools(ended),
           NextPart(q, ended), UNCHANGED <<left, called>>
    PROVE  Shaped
<1>1. CASE work[q].part < Len(work[q].message.subs)
  <2>1. StepTyped /\ Begins(q, work[q].part + 1)
    BY <1>1, SpawnedShape DEF NextPart
  <2>2. work[q].part + 1 \in Parts
    BY <2>1 DEF Begins
  <2>3. QED
    BY <2>1, <2>2 DEF Shaped
<1>2. CASE ~(work[q].part < Len(work[q].message.subs))
  BY <1>2, CompletedShape DEF NextPart, Shaped
<1>3. QED
  BY <1>1, <1>2

LEMMA AgentFailsShape ==
    ASSUME Typed, NEW q \in Requests, work[q].at \in Running,
           AgentFails(q), UNCHANGED <<left, called>>
    PROVE  Shaped
<1>1. Ended(q, "failed") \in [Nodes -> Row] /\ SameTools(Ended(q, "failed"))
  BY EndedFacts DEF Typed
<1>2. CASE work[q].part = 0
  <2>1. /\ rows' = Ended(q, "failed")
        /\ work' = [work EXCEPT ![q] = Rest(work[q], "failed")]
        /\ UNCHANGED <<sessions, attachments, context>>
    BY <1>2 DEF AgentFails
  <2>2. work[q] \in Work
    BY Places DEF Typed
  <2>3. /\ Rest(work[q], "failed") \in Work /\ Carries(work[q], Rest(work[q], "failed"))
        /\ Rest(work[q], "failed").at = "failed"
    BY <2>2, RestCarries
  <2>4. sessions' \in [SessionIds -> Session] /\ attachments' \in [Attachments -> Attachment]
    BY <2>1 DEF Typed, TypeOK
  <2>5. StepTyped /\ Proceeds
    BY <1>1, <2>1, <2>3, <2>4, OneProceeds, ConversationKept DEF Agent
  <2>6. QED
    BY <2>5 DEF Shaped
<1>3. CASE work[q].part # 0
  BY <1>1, <1>3, NextPartShape DEF AgentFails
<1>4. QED
  BY <1>2, <1>3

\* One request goes on, and nothing else changes.
LEMMA OnlyWorkShape ==
    ASSUME Typed, NEW q \in Requests, NEW next \in Work,
           Carries(work[q], next), work[q].at \in Running,
           next.at \in Agent => next.executed = work[q].executed,
           next.at = "tool" => next.calls > 0, next.at = "artifacts" => next.drafts > 0,
           work' = [work EXCEPT ![q] = next],
           UNCHANGED <<rows, sessions, attachments, context, left, called>>
    PROVE  Shaped
<1>1. /\ rows' \in [Nodes -> Row] /\ SameTools(rows')
      /\ sessions' \in [SessionIds -> Session] /\ attachments' \in [Attachments -> Attachment]
  BY DEF Typed, TypeOK, SameTools
<1>2. StepTyped /\ Proceeds
  BY <1>1, OneProceeds, ConversationKept
<1>3. QED
  BY <1>2 DEF Shaped

LEMMA NextCallShape ==
    ASSUME Typed, NEW q \in Requests, NEW wk \in Work, work[q].at \in {"adapter", "tool"},
           wk.at = work[q].at, wk.part = work[q].part, wk.message = work[q].message,
           wk.snapshot = work[q].snapshot, wk.executed = work[q].executed,
           NextCall(q, wk), UNCHANGED left
    PROVE  Shaped /\ called' \in [Nodes -> Seq(Tools)]
<1>1. work[q].at \in Running /\ work[q].at \in Agent
  BY DEF Running, Agent
<1>2. called \in [Nodes -> Seq(Tools)]
  BY DEF Typed, TypeOK
<1>3. CASE AgentFails(q) /\ UNCHANGED called
  BY <1>1, <1>2, <1>3, AgentFailsShape
<1>4. CASE /\ wk.calls = 0
           /\ work' = [work EXCEPT ![q] = [wk EXCEPT !.at = "adapter"]]
           /\ UNCHANGED <<rows, sessions, attachments, context, called>>
  <2> DEFINE next == [wk EXCEPT !.at = "adapter"]
  <2>1. /\ next \in Work /\ next.at = "adapter" /\ next.part = wk.part
        /\ next.message = wk.message /\ next.snapshot = wk.snapshot
        /\ next.executed = wk.executed
    BY AtFacts DEF Awaits
  <2>2. work' = [work EXCEPT ![q] = next]
    BY <1>4
  <2> HIDE DEF next
  <2>3. Carries(work[q], next)
    BY <1>1, <2>1 DEF Carries, Running
  <2>4. QED
    BY <1>1, <1>2, <1>4, <2>1, <2>2, <2>3, OnlyWorkShape
<1>5. ASSUME NEW tool \in Tools, wk.calls > 0, wk.executed < MaxToolCalls,
             MayCall(tool, Policy(q)),
             work' = [work EXCEPT ![q] = [wk EXCEPT !.at = "tool", !.executed = @ + 1]],
             called' = [called EXCEPT ![Node(q)] = Append(@, tool)],
             UNCHANGED <<rows, sessions, attachments, context>>
      PROVE  Shaped /\ called' \in [Nodes -> Seq(Tools)]
  <2> DEFINE at == [wk EXCEPT !.at = "tool"]
             next == [at EXCEPT !.executed = wk.executed + 1]
  <2>1. /\ at \in Work /\ at.at = "tool" /\ at.part = wk.part /\ at.message = wk.message
        /\ at.snapshot = wk.snapshot /\ at.executed = wk.executed /\ at.calls = wk.calls
    BY AtFacts DEF Awaits
  <2>2. work' = [work EXCEPT ![q] = next]
    BY <1>5, <2>1
  <2>3. wk.executed + 1 \in 0..MaxToolCalls
    BY <1>5, OrchestrationAssumption DEF Work
  <2> HIDE DEF at
  <2>4. /\ next \in Work /\ next.at = "tool" /\ next.part = at.part /\ next.message = at.message
        /\ next.snapshot = at.snapshot /\ next.executed = wk.executed + 1
        /\ next.calls = at.calls
    BY <2>1, <2>3 DEF Work
  <2> HIDE DEF next
  <2>5. work \in [Requests -> Work]
    BY DEF Typed, TypeOK
  <2>6. /\ work' \in [Requests -> Work] /\ work'[q] = next
        /\ \A r \in Requests \ {q} : work'[r] = work[r]
    BY <2>2, <2>4, <2>5
  <2>7. Counts'
    BY <1>5, <2>1, <2>4, <2>6 DEF Typed, Counts
  <2>8. StepTyped
    BY <1>5, <2>6, <2>7 DEF StepTyped, Typed, TypeOK
  <2>9. \A r \in Requests : Carries(work[r], work'[r])
    BY <1>1, <2>1, <2>4, <2>6 DEF Carries, Running
  <2>10. CallsOne(q, tool)
    BY <1>1, <1>5, <2>4, <2>6 DEF CallsOne, MayCall
  <2>11. Proceeds
    BY <1>5, <2>9, <2>10, ConversationKept DEF Proceeds, SameTools
  <2>12. called' \in [Nodes -> Seq(Tools)]
    <3>1. Node(q) \in Nodes
      BY Places DEF Typed
    <3>2. Append(called[Node(q)], tool) \in Seq(Tools)
      BY <1>2, <3>1
    <3>3. QED
      BY <1>2, <1>5, <3>2
  <2>13. QED
    BY <2>8, <2>11, <2>12 DEF Shaped
<1>6. QED
  BY <1>3, <1>4, <1>5 DEF NextCall

-----------------------------------------------------------------------------
(* Every step has one of the shapes, and keeps the types *)

Shape == Proceeds \/ \E q \in Requests : Answers(q) \/ \E p \in Parts : Begins(q, p)

\* Nothing about requests changes.
LEMMA Apart ==
    ASSUME Typed, UNCHANGED <<work, rows, sessions, context, left, called>>
    PROVE  Proceeds
BY ConversationKept DEF Proceeds, Carries, SameTools, CallsNothing

LEMMA CrashShape ==
    ASSUME Typed, Crash
    PROVE  StepTyped /\ Proceeds
<1>1. ASSUME NEW q \in Requests
      PROVE  /\ work'[q] \in Work /\ Carries(work[q], work'[q])
             /\ work'[q].at \notin Agent
             /\ work'[q].at \notin {"tool", "artifacts"}
  <2>1. work[q] \in Work
    BY Places DEF Typed
  <2>2. CASE work[q].at \in Running \cup {"artifacts"}
    <3> DEFINE rest == Rest(work[q], "lost")
               next == [rest EXCEPT !.drafts = 0]
    <3>1. work'[q] = next
      BY <2>2 DEF Crash
    <3>2. /\ rest \in Work /\ rest.at = "lost" /\ rest.part = work[q].part
          /\ rest.message = work[q].message
      BY <2>1, RestFacts DEF Awaits
    <3> HIDE DEF rest
    <3>3. /\ next \in Work /\ next.at = rest.at /\ next.part = rest.part
          /\ next.message = rest.message
      BY <3>2, OrchestrationAssumption DEF Work
    <3> HIDE DEF next
    <3>4. QED
      BY <2>2, <3>1, <3>2, <3>3 DEF Carries, Agent, Running
  <2>3. CASE work[q].at \notin Running \cup {"artifacts"}
    BY <2>1, <2>3 DEF Crash, Carries, Agent, Running
  <2>4. QED
    BY <2>2, <2>3
<1>2. work' \in [Requests -> Work]
  <2>1. work' = [q \in Requests |-> work'[q]]
    BY DEF Crash
  <2>2. QED
    BY <1>1, <2>1
<1>3. attachments' \in [Attachments -> Attachment]
  BY DEF Crash, Typed, TypeOK, Attachment
<1>4. Counts'
  BY <1>1 DEF Counts
<1>5. StepTyped
  BY <1>2, <1>3, <1>4 DEF StepTyped, Crash, history, Typed, TypeOK
<1>6. CallsNothing
  BY <1>1 DEF CallsNothing, Crash, history
<1>7. Proceeds
  BY <1>1, <1>6, ConversationKept DEF Proceeds, Crash, history, SameTools
<1>8. QED
  BY <1>5, <1>7

LEMMA RunCoordinatorShape ==
    ASSUME Typed, NEW q \in Requests, NEW m \in Messages, RunCoordinator(q, m)
    PROVE  StepTyped /\ Begins(q, 0) /\ overlaps' \subseteq SUBSET Requests
<1> DEFINE s == IF m.session = None THEN q ELSE m.session
           row == [status |-> "running", children |-> <<>>, tools |-> ResolveAllowedToolIds,
                   baseline |-> {}]
           asked == [work[q] EXCEPT !.message = m]
           next == Begun(asked, 0, sessions[s])
<1>1. /\ work \in [Requests -> Work] /\ sessions \in [SessionIds -> Session]
      /\ rows \in [Nodes -> Row] /\ context \in [Nodes -> Nodes \cup {None}]
      /\ attachments \in [Attachments -> Attachment] /\ work[q] \in Work
  BY DEF Typed, TypeOK
<1>2. s \in SessionIds /\ 0 \in Parts /\ Root(q) \in Nodes /\ Root(q) = <<q, 0>>
  BY OrchestrationAssumption DEF Message, SessionIds, Parts, Nodes, Root
<1>3. row \in Row /\ row.tools \cap Writers = {}
  BY OrchestrationAssumption DEF Row, ResolveAllowedToolIds, Tools, Typed, TypeOK
<1>4. asked \in Work /\ asked.message = m
  BY <1>1 DEF Work
<1>5. /\ work[q].at = "idle" /\ rows' = [rows EXCEPT ![Root(q)] = row]
      /\ work' = [work EXCEPT ![q] = next]
      /\ context' = [context EXCEPT ![Root(q)] = sessions[s].previous]
      /\ UNCHANGED <<sessions, attachments, left, called>>
  BY DEF RunCoordinator
<1> HIDE DEF asked, row
<1>6. /\ next \in Work /\ next.at = "query" /\ next.part = 0 /\ next.executed = 0
      /\ next.message = m
      /\ next.snapshot.agents = sessions[s].agents
      /\ next.snapshot.previous = sessions[s].previous
      /\ next.snapshot.title = sessions[s].title
  BY <1>1, <1>2, <1>4, BegunFacts
<1> HIDE DEF next
<1>7. /\ work' \in [Requests -> Work] /\ work'[q] = next
      /\ \A r \in Requests \ {q} : work'[r] = work[r]
  BY <1>1, <1>5, <1>6
<1>8. SessionOf(q)' = s
  BY <1>6, <1>7 DEF SessionOf
<1>9. Counts'
  BY <1>6, <1>7 DEF Typed, Counts
<1>10. sessions[s].previous \in Nodes \cup {None}
  BY <1>1, <1>2 DEF Session
<1>11. /\ rows' \in [Nodes -> Row] /\ rows'[Root(q)] = row
       /\ \A n \in Nodes \ {Root(q)} : rows'[n] = rows[n]
  BY <1>1, <1>2, <1>3, <1>5
<1>12. StepTyped
  BY <1>1, <1>5, <1>7, <1>9, <1>10, <1>11 DEF StepTyped
<1> HIDE DEF s
<1>13. Begins(q, 0)
  BY <1>2, <1>3, <1>5, <1>6, <1>7, <1>8, <1>11 DEF Begins
<1>14. overlaps' \subseteq SUBSET Requests
  <2>1. overlaps' = overlaps \cup {{q, r} : r \in RunningIn(s)}
    BY DEF RunCoordinator, s
  <2>2. overlaps \subseteq SUBSET Requests /\ RunningIn(s) \subseteq Requests
    BY DEF Typed, TypeOK, RunningIn
  <2>3. \A r \in RunningIn(s) : {q, r} \in SUBSET Requests
    BY <2>2
  <2>4. QED
    BY <2>1, <2>2, <2>3
<1>15. QED
  BY <1>12, <1>13, <1>14

LEMMA FinalAnswerShape ==
    ASSUME Typed, NEW q \in Requests, FinalAnswer(q)
    PROVE  StepTyped /\ Answers(q) /\ left' \in [Nodes -> Nodes \cup {None}]
<1> DEFINE next == Rest(work[q], "remember")
<1>1. /\ work \in [Requests -> Work] /\ sessions \in [SessionIds -> Session]
      /\ work[q] \in Work /\ Node(q) \in Nodes /\ SessionOf(q) \in SessionIds
      /\ sessions[SessionOf(q)] \in Session /\ work[q].snapshot \in Session
      /\ left \in [Nodes -> Nodes \cup {None}]
  BY Places DEF Typed, TypeOK, Work
<1>2. /\ next \in Work /\ next.at = "remember" /\ next.part = work[q].part
      /\ next.message = work[q].message
  BY <1>1, RestFacts DEF Awaits
<1>3. work' = [work EXCEPT ![q] = next] /\ work[q].at = "adapter"
      /\ UNCHANGED <<rows, attachments, context, called>>
  BY DEF FinalAnswer
<1> HIDE DEF next
<1>4. /\ work' \in [Requests -> Work] /\ work'[q] = next
      /\ \A r \in Requests \ {q} : work'[r] = work[r]
  BY <1>1, <1>2, <1>3
<1>5. PICK previous \in {Node(q), work[q].snapshot.previous} :
         /\ sessions' = [sessions EXCEPT ![SessionOf(q)] =
                            Extended(@, work[q].snapshot, Node(q), previous)]
         /\ left' = [left EXCEPT ![Node(q)] = previous]
  <2>1. PICK id \in BOOLEAN :
           LET previous == IF id THEN Node(q) ELSE work[q].snapshot.previous
           IN  /\ sessions' = [sessions EXCEPT ![SessionOf(q)] =
                                Extended(@, work[q].snapshot, Node(q), previous)]
               /\ left' = [left EXCEPT ![Node(q)] = previous]
    BY DEF FinalAnswer
  <2>2. QED
    BY <2>1
<1>6. previous \in Nodes \cup {None}
  BY <1>1 DEF Session
<1>7. Extended(sessions[SessionOf(q)], work[q].snapshot, Node(q), previous) \in Session
  BY <1>1, <1>6, ExtendedFacts
<1>8. sessions' \in [SessionIds -> Session] /\ left' \in [Nodes -> Nodes \cup {None}]
  BY <1>1, <1>5, <1>6, <1>7
<1>9. Counts'
  BY <1>2, <1>4 DEF Typed, Counts
<1>10. StepTyped
  BY <1>3, <1>4, <1>8, <1>9 DEF StepTyped, Typed, TypeOK
<1>11. Answers(q)
  BY <1>2, <1>3, <1>4, <1>5 DEF Answers
<1>12. QED
  BY <1>8, <1>10, <1>11

LEMMA WriteArtifactShape ==
    ASSUME Typed, NEW q \in Requests, WriteArtifact(q)
    PROVE  StepTyped /\ Proceeds
<1> DEFINE written == IF work[q].drafts = 1 THEN "done" ELSE "artifacts"
           goesOn == [work[q] EXCEPT !.at = written]
           fails == [work[q] EXCEPT !.at = "failed"]
           less == [goesOn EXCEPT !.drafts = work[q].drafts - 1]
           none == [fails EXCEPT !.drafts = 0]
<1>1. /\ work \in [Requests -> Work] /\ work[q] \in Work /\ work[q].at = "artifacts"
      /\ work[q].drafts \in 1..MaxArtifacts
  BY OrchestrationAssumption DEF Typed, TypeOK, Counts, WriteArtifact, Work
<1>2. work' = [work EXCEPT ![q] = less] \/ work' = [work EXCEPT ![q] = none]
  BY <1>1 DEF WriteArtifact, Work
<1>3. /\ goesOn \in Work /\ goesOn.at = written /\ goesOn.part = work[q].part
      /\ goesOn.message = work[q].message
      /\ fails \in Work /\ fails.at = "failed" /\ fails.part = work[q].part
      /\ fails.message = work[q].message
  <2>1. written \in Awaits /\ "failed" \in Awaits
    BY DEF Awaits
  <2> HIDE DEF written
  <2>2. QED
    BY <1>1, <2>1, AtFacts
<1>4. work[q].drafts - 1 \in 0..MaxArtifacts /\ 0 \in 0..MaxArtifacts
  BY <1>1, OrchestrationAssumption
<1> HIDE DEF goesOn, fails
<1>5. /\ less \in Work /\ less.at = written /\ less.part = work[q].part
      /\ less.message = work[q].message /\ less.drafts = work[q].drafts - 1
      /\ none \in Work /\ none.at = "failed" /\ none.part = work[q].part
      /\ none.message = work[q].message
  <2> DEFINE left1 == work[q].drafts - 1
  <2> HIDE DEF left1, written
  <2>1. /\ [goesOn EXCEPT !.drafts = left1] \in Work
        /\ [goesOn EXCEPT !.drafts = left1].at = goesOn.at
        /\ [goesOn EXCEPT !.drafts = left1].part = goesOn.part
        /\ [goesOn EXCEPT !.drafts = left1].message = goesOn.message
        /\ [goesOn EXCEPT !.drafts = left1].drafts = left1
    BY <1>3, <1>4 DEF Work, left1
  <2>2. /\ none \in Work /\ none.at = fails.at /\ none.part = fails.part
        /\ none.message = fails.message
    BY <1>3, <1>4 DEF Work
  <2>3. QED
    BY <1>3, <2>1, <2>2 DEF left1
<1>6. PICK next \in Work :
         /\ work' = [work EXCEPT ![q] = next] /\ next.part = work[q].part
         /\ next.message = work[q].message /\ next.at \in {"done", "artifacts", "failed"}
         /\ next.at = "artifacts" => next.drafts > 0
  <2>1. written = "artifacts" => work[q].drafts - 1 > 0
    BY <1>1
  <2> HIDE DEF less, none
  <2>2. QED
    BY <1>2, <1>5, <2>1
<1> HIDE DEF less, none
<1>7. /\ work' \in [Requests -> Work] /\ work'[q] = next
      /\ \A r \in Requests \ {q} : work'[r] = work[r]
  BY <1>1, <1>6
<1>8. UNCHANGED <<rows, sessions, attachments, context, left, called>>
  BY DEF WriteArtifact, history
<1>9. Counts'
  BY <1>6, <1>7 DEF Typed, Counts
<1>10. StepTyped
  BY <1>7, <1>8, <1>9 DEF StepTyped, Typed, TypeOK
<1>11. (\A r \in Requests : Carries(work[r], work'[r])) /\ CallsNothing
  BY <1>1, <1>6, <1>7, <1>8 DEF Carries, CallsNothing, Agent
<1>12. Proceeds
  BY <1>8, <1>11, ConversationKept DEF Proceeds, SameTools
<1>13. QED
  BY <1>10, <1>12

\* What the steps of a request leave alone.
Aside ==
    /\ left' \in [Nodes -> Nodes \cup {None}]
    /\ called' \in [Nodes -> Seq(Tools)]
    /\ overlaps' \subseteq SUBSET Requests
    /\ UNCHANGED settings

LEMMA StepShape ==
    ASSUME Typed, NEW q \in Requests, Step(q)
    PROVE  StepTyped /\ Shape /\ Aside
<1>1. /\ left \in [Nodes -> Nodes \cup {None}] /\ called \in [Nodes -> Seq(Tools)]
      /\ overlaps \subseteq SUBSET Requests
      /\ work \in [Requests -> Work] /\ work[q] \in Work
  BY DEF Typed, TypeOK
<1>2. ASSUME Shaped PROVE StepTyped /\ Shape
  BY <1>2 DEF Shaped, Shape
<1>3. ASSUME NEW m \in Messages, RunCoordinator(q, m) PROVE StepTyped /\ Shape /\ Aside
  <2>1. StepTyped /\ Begins(q, 0) /\ overlaps' \subseteq SUBSET Requests
    BY <1>3, RunCoordinatorShape
  <2>2. 0 \in Parts
    BY <2>1 DEF Begins
  <2>3. Aside
    BY <1>1, <1>3, <2>1 DEF RunCoordinator, Aside
  <2>4. QED
    BY <2>1, <2>2, <2>3 DEF Shape
<1>4. CASE Recall(q)
  <2>1. UNCHANGED <<settings, left, called, overlaps>> /\ work[q].at = "query"
    BY <1>4 DEF Recall
  <2>2. CASE AgentFails(q)
    BY <1>1, <1>2, <2>1, <2>2, AgentFailsShape DEF Aside, Running
  <2>3. CASE /\ work' = [work EXCEPT ![q].at = "adapter"]
             /\ UNCHANGED <<rows, sessions, attachments, context>>
    <3> DEFINE next == [work[q] EXCEPT !.at = "adapter"]
    <3>1. /\ next \in Work /\ next.at = "adapter" /\ next.part = work[q].part
          /\ next.message = work[q].message /\ next.snapshot = work[q].snapshot
          /\ next.executed = work[q].executed
      BY <1>1, AtFacts DEF Awaits
    <3>2. work' = [work EXCEPT ![q] = next]
      BY <2>3
    <3> HIDE DEF next
    <3>3. Carries(work[q], next) /\ work[q].at \in Running
      BY <2>1, <3>1 DEF Carries, Agent, Running
    <3>4. Shaped
      BY <2>1, <2>3, <3>1, <3>2, <3>3, OnlyWorkShape
    <3>5. QED
      BY <1>1, <1>2, <2>1, <3>4 DEF Aside
  <2>4. QED
    BY <1>4, <2>2, <2>3 DEF Recall
<1>5. ASSUME NEW calls \in 0..MaxCalls
      PROVE  LET wk == [work[q] EXCEPT !.calls = calls]
             IN  /\ wk \in Work /\ wk.at = work[q].at /\ wk.part = work[q].part
                 /\ wk.message = work[q].message /\ wk.snapshot = work[q].snapshot
                 /\ wk.executed = work[q].executed
  BY <1>1 DEF Work
<1>6. CASE AnswerWithCalls(q)
  <2>1. PICK n \in 1..MaxCalls : NextCall(q, [work[q] EXCEPT !.calls = n])
    BY <1>6 DEF AnswerWithCalls
  <2>2. UNCHANGED <<settings, left, overlaps>> /\ work[q].at = "adapter" /\ n \in 0..MaxCalls
    BY <1>6, OrchestrationAssumption DEF AnswerWithCalls
  <2> DEFINE wk == [work[q] EXCEPT !.calls = n]
  <2>3. /\ wk \in Work /\ wk.at = work[q].at /\ wk.part = work[q].part
        /\ wk.message = work[q].message /\ wk.snapshot = work[q].snapshot
        /\ wk.executed = work[q].executed
    BY <1>5, <2>2
  <2>4. NextCall(q, wk)
    BY <2>1
  <2> HIDE DEF wk
  <2>5. Shaped /\ called' \in [Nodes -> Seq(Tools)]
    BY <2>2, <2>3, <2>4, NextCallShape
  <2>6. QED
    BY <1>1, <1>2, <2>2, <2>5 DEF Aside
<1>7. CASE ToolReturns(q)
  <2>1. /\ UNCHANGED <<settings, left, overlaps>> /\ work[q].at = "tool"
        /\ NextCall(q, [work[q] EXCEPT !.calls = @ - 1])
    BY <1>7 DEF ToolReturns
  <2>2. work[q].calls \in 1..MaxCalls
    BY <1>1, <2>1, OrchestrationAssumption DEF Typed, Counts, Work
  <2>3. work[q].calls - 1 \in 0..MaxCalls
    BY <2>2, OrchestrationAssumption
  <2> DEFINE wk == [work[q] EXCEPT !.calls = work[q].calls - 1]
  <2>4. /\ wk \in Work /\ wk.at = work[q].at /\ wk.part = work[q].part
        /\ wk.message = work[q].message /\ wk.snapshot = work[q].snapshot
        /\ wk.executed = work[q].executed
    BY <1>5, <2>3
  <2>5. NextCall(q, wk)
    BY <2>1
  <2> HIDE DEF wk
  <2>6. Shaped /\ called' \in [Nodes -> Seq(Tools)]
    BY <2>1, <2>4, <2>5, NextCallShape
  <2>7. QED
    BY <1>1, <1>2, <2>1, <2>6 DEF Aside
<1>8. CASE FinalAnswer(q)
  <2>1. StepTyped /\ Answers(q) /\ left' \in [Nodes -> Nodes \cup {None}]
    BY <1>8, FinalAnswerShape
  <2>2. QED
    BY <1>1, <1>8, <2>1 DEF FinalAnswer, Shape, Aside
<1>9. CASE AdapterFails(q) \/ ToolFails(q)
  <2>1. /\ AgentFails(q) /\ UNCHANGED <<settings, left, called, overlaps>>
        /\ work[q].at \in Running
    BY <1>9 DEF AdapterFails, ToolFails, Running
  <2>2. Shaped
    BY <2>1, AgentFailsShape
  <2>3. QED
    BY <1>1, <1>2, <2>1, <2>2 DEF Aside
<1>10. CASE Remember(q)
  <2>1. UNCHANGED <<settings, left, called, overlaps>> /\ work[q].at \in Running
    BY <1>10 DEF Remember, Running
  <2> DEFINE ended == IF work[q].part = 0 THEN rows ELSE Ended(q, "completed")
  <2>2. ended \in [Nodes -> Row] /\ SameTools(ended)
    <3>1. rows \in [Nodes -> Row] /\ SameTools(rows)
      BY DEF Typed, TypeOK, SameTools
    <3>2. Ended(q, "completed") \in [Nodes -> Row] /\ SameTools(Ended(q, "completed"))
      BY EndedFacts DEF Typed
    <3>3. QED
      BY <3>1, <3>2
  <2>3. NextPart(q, ended) \/ AgentFails(q)
    BY <1>10 DEF Remember
  <2> HIDE DEF ended
  <2>4. Shaped
    BY <2>1, <2>2, <2>3, NextPartShape, AgentFailsShape
  <2>5. QED
    BY <1>1, <1>2, <2>1, <2>4 DEF Aside
<1>11. CASE WriteArtifact(q)
  <2>1. StepTyped /\ Proceeds
    BY <1>11, WriteArtifactShape
  <2>2. QED
    BY <1>1, <1>11, <2>1 DEF WriteArtifact, history, Shape, Aside
<1>12. QED
  BY <1>3, <1>4, <1>6, <1>7, <1>8, <1>9, <1>10, <1>11 DEF Step

\* Steps outside of the requests: uploads, tools, roles.
LEMMA OutsideTyped ==
    ASSUME Typed,
           \/ \E a \in Attachments :
                 \/ \E s \in SessionIds, run \in Requests \cup {None} : Upload(a, s, run)
                 \/ RecordUploaded(a)
           \/ \E tool \in Dynamic : RegisterDynamic(tool) \/ UnregisterDynamic(tool)
           \/ \E role \in Roles : (\E tools \in SUBSET Tools : UpdateRole(role, tools)) \/ ResetRole(role)
    PROVE  Typed' /\ Proceeds
<1>1. UNCHANGED <<work, rows, sessions, context, left, called, overlaps>>
  BY DEF Upload, RecordUploaded, RegisterDynamic, UnregisterDynamic, UpdateRole, ResetRole, history
<1>2. attachments' \in [Attachments -> Attachment]
  <2>1. ASSUME NEW a \in Attachments, NEW s \in SessionIds, NEW run \in Requests \cup {None},
               Upload(a, s, run)
        PROVE  attachments' \in [Attachments -> Attachment]
    BY <2>1 DEF Upload, Attachment, Typed, TypeOK
  <2>2. ASSUME NEW a \in Attachments, RecordUploaded(a)
        PROVE  attachments' \in [Attachments -> Attachment]
    <3>1. attachments \in [Attachments -> Attachment] /\ attachments[a] \in Attachment
      BY DEF Typed, TypeOK
    <3> DEFINE stored == [attachments[a] EXCEPT !.at = "stored"]
               indexed == [stored EXCEPT !.index = attachments[a].run]
               gone == [at |-> "none", session |-> None, run |-> None, index |-> None]
    <3>2. stored \in Attachment /\ attachments[a].run \in Requests \cup {None}
      BY <3>1 DEF Attachment
    <3>3. \/ attachments' = [attachments EXCEPT ![a] = indexed]
          \/ attachments' = [attachments EXCEPT ![a] = gone]
      BY <2>2, <3>1 DEF RecordUploaded
    <3> HIDE DEF stored
    <3>4. indexed \in Attachment /\ gone \in Attachment
      BY <3>2 DEF Attachment
    <3> HIDE DEF indexed, gone
    <3>5. QED
      BY <3>1, <3>3, <3>4
  <2>3. CASE UNCHANGED attachments
    BY <2>3 DEF Typed, TypeOK
  <2>4. QED
    BY <2>1, <2>2, <2>3 DEF RegisterDynamic, UnregisterDynamic, UpdateRole, ResetRole
<1>3. /\ registered' \subseteq Dynamic /\ overrides' \in [Roles -> SUBSET Tools]
      /\ changes' \in 0..MaxChanges
  <2>1. /\ registered \subseteq Dynamic /\ overrides \in [Roles -> SUBSET Tools]
        /\ changes \in 0..MaxChanges
    BY DEF Typed, TypeOK
  <2>2. CASE \E a \in Attachments, s \in SessionIds, run \in Requests \cup {None} : Upload(a, s, run)
    BY <2>1, <2>2, OrchestrationAssumption DEF Upload
  <2>3. CASE \E a \in Attachments : RecordUploaded(a)
    BY <2>1, <2>3 DEF RecordUploaded, settings
  <2>4. CASE \E tool \in Dynamic : RegisterDynamic(tool) \/ UnregisterDynamic(tool)
    BY <2>1, <2>4, OrchestrationAssumption DEF RegisterDynamic, UnregisterDynamic
  <2>5. ASSUME NEW role \in Roles, NEW tools \in SUBSET Tools, UpdateRole(role, tools)
        PROVE  /\ registered' \subseteq Dynamic /\ overrides' \in [Roles -> SUBSET Tools]
               /\ changes' \in 0..MaxChanges
    BY <2>1, <2>5, OrchestrationAssumption DEF UpdateRole
  <2>6. ASSUME NEW role \in Roles, ResetRole(role)
        PROVE  /\ registered' \subseteq Dynamic /\ overrides' \in [Roles -> SUBSET Tools]
               /\ changes' \in 0..MaxChanges
    BY <2>1, <2>6 DEF ResetRole
  <2>7. QED
    BY <2>2, <2>3, <2>4, <2>5, <2>6
<1>4. Typed'
  BY <1>1, <1>2, <1>3 DEF Typed, TypeOK, Counts
<1>5. QED
  BY <1>1, <1>4, Apart

LEMMA NextShape ==
    ASSUME Typed, [Next]_vars
    PROVE  Typed' /\ Shape
<1>1. ASSUME StepTyped, Aside PROVE Typed'
  BY <1>1 DEF StepTyped, Aside, settings, Typed, TypeOK
<1>2. ASSUME NEW q \in Requests, Step(q) PROVE Typed' /\ Shape
  BY <1>1, <1>2, StepShape
<1>3. CASE Crash
  <2>1. StepTyped /\ Proceeds
    BY <1>3, CrashShape
  <2>2. /\ UNCHANGED <<registered, overrides, left, called, overlaps>>
        /\ changes' \in 0..MaxChanges
    BY <1>3, OrchestrationAssumption DEF Crash, history, Typed, TypeOK
  <2>3. Typed'
    BY <2>1, <2>2 DEF StepTyped, Typed, TypeOK
  <2>4. QED
    BY <2>1, <2>3 DEF Shape
<1>4. CASE UNCHANGED vars
  <2>1. Typed'
    BY <1>4 DEF vars, Typed, TypeOK, Counts
  <2>2. QED
    BY <1>4, <2>1, Apart DEF vars, Shape
<1>5. CASE \/ \E a \in Attachments :
                 \/ \E s \in SessionIds, run \in Requests \cup {None} : Upload(a, s, run)
                 \/ RecordUploaded(a)
           \/ \E tool \in Dynamic : RegisterDynamic(tool) \/ UnregisterDynamic(tool)
           \/ \E role \in Roles : (\E tools \in SUBSET Tools : UpdateRole(role, tools)) \/ ResetRole(role)
  BY <1>5, OutsideTyped DEF Shape
<1>6. QED
  BY <1>2, <1>3, <1>4, <1>5 DEF Next, Change

LEMMA InitTyped == Init => Typed
<1> SUFFICES ASSUME Init PROVE Typed
  OBVIOUS
<1>1. NoSession \in Session /\ (CHOOSE m \in Messages : TRUE) \in Messages
  BY OrchestrationAssumption DEF NoSession, Session
<1>2. work \in [Requests -> Work] /\ Counts
  BY <1>1, OrchestrationAssumption DEF Init, Work, Awaits, Parts, Counts
<1>3. /\ rows \in [Nodes -> Row] /\ sessions \in [SessionIds -> Session]
      /\ called \in [Nodes -> Seq(Tools)]
  BY <1>1 DEF Init, Row
<1>4. QED
  BY <1>2, <1>3, OrchestrationAssumption DEF Init, Typed, TypeOK, Attachment

\* The variables keep their types, and a request that awaits a tool or the disk has
\* something left to do.
THEOREM TypeCorrect == Spec => []Typed
<1>1. Typed /\ [Next]_vars => Typed'
  BY NextShape
<1>2. QED
  BY InitTyped, <1>1, PTL DEF Spec

-----------------------------------------------------------------------------
(* Conversations *)

\* An agent run that will neither be begun nor be answered any more.
Past(n, wk) ==
    /\ wk[n[1]].at # "idle"
    /\ \/ n[2] < wk[n[1]].part
       \/ n[2] = wk[n[1]].part /\ wk[n[1]].at \notin Agent

\* A list of agent runs that are all past, each of which continued what the one
\* before it left, and what the last one left.
Kept(agents, previous, ctx, lft, wk) ==
    /\ \A i \in 1..Len(agents) : Past(agents[i], wk)
    /\ previous = IF agents = <<>> THEN None ELSE lft[agents[Len(agents)]]
    /\ \A i \in 1..Len(agents) : ctx[agents[i]] = IF i = 1 THEN None ELSE lft[agents[i - 1]]

\* Sessions are in conversation, and so is what the requests at work have read of them.
Conversations ==
    /\ \A s \in SessionIds : Kept(sessions[s].agents, sessions[s].previous, context, left, work)
    /\ \A q \in Requests : work[q].at \in Agent =>
          /\ Kept(work[q].snapshot.agents, work[q].snapshot.previous, context, left, work)
          /\ context[Node(q)] = work[q].snapshot.previous

\* What is past stays so, and a step disturbs nothing of it.
PastStays ==
    \A n \in Nodes : Past(n, work) =>
        Past(n, work') /\ context'[n] = context[n] /\ left'[n] = left[n]

LEMMA ShapeKeepsPast ==
    ASSUME Typed, Typed', Shape
    PROVE  PastStays
<1> SUFFICES ASSUME NEW r \in Requests, NEW i \in Parts, Past(<<r, i>>, work)
             PROVE  /\ Past(<<r, i>>, work')
                    /\ context'[<<r, i>>] = context[<<r, i>>] /\ left'[<<r, i>>] = left[<<r, i>>]
  BY DEF PastStays, Nodes
<1>1. /\ work[r].at # "idle"
      /\ i < work[r].part \/ (i = work[r].part /\ work[r].at \notin Agent)
  BY DEF Past
<1>2. /\ work[r].part \in Nat /\ i \in Nat /\ <<r, i>> \in Nodes
      /\ context \in [Nodes -> Nodes \cup {None}] /\ left \in [Nodes -> Nodes \cup {None}]
  BY OrchestrationAssumption DEF Typed, TypeOK, Work, Parts, Nodes
<1>3. CASE Proceeds
  <2>1. Carries(work[r], work'[r])
    BY <1>3 DEF Proceeds
  <2>2. Past(<<r, i>>, work')
    BY <1>1, <2>1 DEF Carries, Past
  <2>3. QED
    BY <1>3, <2>2 DEF Proceeds
<1>4. ASSUME NEW q \in Requests, Answers(q)
      PROVE  /\ Past(<<r, i>>, work')
             /\ context'[<<r, i>>] = context[<<r, i>>] /\ left'[<<r, i>>] = left[<<r, i>>]
  <2>1. <<r, i>> # Node(q)
    BY <1>1, <1>2, <1>4 DEF Answers, Node, Agent
  <2>2. Past(<<r, i>>, work')
    <3>1. CASE r = q
      BY <1>1, <1>4, <3>1 DEF Answers, Past, Agent
    <3>2. CASE r # q
      BY <1>1, <1>4, <3>2 DEF Answers, Past
    <3>3. QED
      BY <3>1, <3>2
  <2>3. left'[<<r, i>>] = left[<<r, i>>] /\ UNCHANGED context
    BY <1>2, <1>4, <2>1 DEF Answers
  <2>4. QED
    BY <2>2, <2>3
<1>5. ASSUME NEW q \in Requests, NEW p \in Parts, Begins(q, p)
      PROVE  /\ Past(<<r, i>>, work')
             /\ context'[<<r, i>>] = context[<<r, i>>] /\ left'[<<r, i>>] = left[<<r, i>>]
  <2>1. UNCHANGED left /\ context' = [context EXCEPT ![<<q, p>>] = sessions[SessionOf(q)'].previous]
    BY <1>5 DEF Begins
  <2>2. CASE r = q
    <3>1. p = work[q].part + 1 /\ work'[q].part = p /\ work'[q].at = "query"
      BY <1>1, <1>5, <2>2 DEF Begins
    <3>2. i < p
      BY <1>1, <1>2, <2>2, <3>1
    <3>3. Past(<<r, i>>, work')
      BY <2>2, <3>1, <3>2 DEF Past
    <3>4. <<r, i>> # <<q, p>>
      BY <1>2, <3>2
    <3>5. QED
      BY <1>2, <2>1, <3>3, <3>4
  <2>3. CASE r # q
    <3>1. work'[r] = work[r] /\ <<r, i>> # <<q, p>>
      BY <1>5, <2>3 DEF Begins
    <3>2. QED
      BY <1>1, <1>2, <2>1, <3>1 DEF Past
  <2>4. QED
    BY <2>2, <2>3
<1>6. QED
  BY <1>3, <1>4, <1>5 DEF Shape

\* A list that was in conversation is so after a step.
LEMMA KeptStays ==
    ASSUME PastStays, NEW agents \in Seq(Nodes), NEW previous,
           Kept(agents, previous, context, left, work)
    PROVE  Kept(agents, previous, context', left', work')
<1>1. \A i \in 1..Len(agents) : agents[i] \in Nodes
  OBVIOUS
<1>2. \A i \in 1..Len(agents) :
         /\ Past(agents[i], work') /\ context'[agents[i]] = context[agents[i]]
         /\ left'[agents[i]] = left[agents[i]]
  BY <1>1 DEF PastStays, Kept
<1>3. agents # <<>> => Len(agents) \in 1..Len(agents)
  OBVIOUS
<1>4. \A i \in 1..Len(agents) : i # 1 => i - 1 \in 1..Len(agents)
  OBVIOUS
<1>5. QED
  BY <1>2, <1>3, <1>4 DEF Kept

\* The run that is answered, appended to what it read.
LEMMA AnswerKept ==
    ASSUME NEW agents \in Seq(Nodes), NEW n \in Nodes, NEW ctx, NEW lft, NEW wk,
           NEW before, NEW previous, Kept(agents, before, ctx, lft, wk),
           Past(n, wk), ctx[n] = before, lft[n] = previous
    PROVE  Kept(Append(agents, n), previous, ctx, lft, wk)
<1> DEFINE all == Append(agents, n)
<1>1. /\ Len(all) = Len(agents) + 1 /\ all[Len(all)] = n /\ all # <<>>
      /\ \A i \in 1..Len(agents) : all[i] = agents[i]
      /\ Len(agents) \in Nat
  OBVIOUS
<1>2. agents = <<>> <=> Len(agents) = 0
  OBVIOUS
<1> HIDE DEF all
<1>3. \A i \in 1..Len(all) : Past(all[i], wk)
  BY <1>1 DEF Kept
<1>4. ASSUME NEW i \in 1..Len(all)
      PROVE  ctx[all[i]] = IF i = 1 THEN None ELSE lft[all[i - 1]]
  <2>1. CASE i \in 1..Len(agents)
    <3>1. i # 1 => i - 1 \in 1..Len(agents)
      BY <1>1, <2>1
    <3>2. QED
      BY <1>1, <2>1, <3>1 DEF Kept
  <2>2. CASE i = Len(agents) + 1
    <3>1. CASE Len(agents) = 0
      BY <1>1, <1>2, <2>2, <3>1 DEF Kept
    <3>2. CASE Len(agents) # 0
      <4>1. i # 1 /\ i - 1 = Len(agents) /\ Len(agents) \in 1..Len(agents)
        BY <1>1, <2>2, <3>2
      <4>2. QED
        BY <1>1, <1>2, <2>2, <3>2, <4>1 DEF Kept
    <3>3. QED
      BY <3>1, <3>2
  <2>3. QED
    BY <1>1, <2>1, <2>2
<1>5. previous = IF all = <<>> THEN None ELSE lft[all[Len(all)]]
  BY <1>1
<1>6. QED
  BY <1>3, <1>4, <1>5 DEF Kept, all

LEMMA ConversationsStay ==
    ASSUME Typed, Conversations, [Next]_vars
    PROVE  Conversations'
<1>1. Typed' /\ Shape /\ PastStays
  BY NextShape, ShapeKeepsPast
<1>2. /\ \A s \in SessionIds : sessions[s].agents \in Seq(Nodes)
      /\ \A q \in Requests : work[q].snapshot.agents \in Seq(Nodes) /\ Node(q) \in Nodes
      /\ \A q \in Requests : SessionOf(q) \in SessionIds /\ work[q].snapshot \in Session
      /\ sessions \in [SessionIds -> Session]
  BY Places DEF Typed, TypeOK, Work, Session
<1>3. \A s \in SessionIds : Kept(sessions[s].agents, sessions[s].previous, context', left', work')
  BY <1>1, <1>2, KeptStays DEF Conversations
<1>4. \A q \in Requests : work[q].at \in Agent =>
         Kept(work[q].snapshot.agents, work[q].snapshot.previous, context', left', work')
  BY <1>1, <1>2, KeptStays DEF Conversations
<1> DEFINE Sessions1 == \A s \in SessionIds :
              Kept(sessions'[s].agents, sessions'[s].previous, context', left', work')
           Request1(q) == work'[q].at \in Agent =>
              /\ Kept(work'[q].snapshot.agents, work'[q].snapshot.previous, context', left', work')
              /\ context'[<<q, work'[q].part>>] = work'[q].snapshot.previous
<1>5. CASE Proceeds
  <2>1. Sessions1
    BY <1>3, <1>5 DEF Proceeds, SameConversation
  <2>2. ASSUME NEW q \in Requests PROVE Request1(q)
    BY <1>4, <1>5 DEF Proceeds, Carries, Conversations, Node
  <2>3. QED
    BY <2>1, <2>2 DEF Conversations, Node
<1>6. ASSUME NEW q \in Requests, Answers(q) PROVE Conversations'
  <2>1. PICK previous \in {Node(q), work[q].snapshot.previous} :
           /\ sessions' = [sessions EXCEPT ![SessionOf(q)] =
                             Extended(@, work[q].snapshot, Node(q), previous)]
           /\ left' = [left EXCEPT ![Node(q)] = previous]
    BY <1>6 DEF Answers
  <2>2. /\ work[q].at \in Agent /\ work[q].at # "idle" /\ UNCHANGED context
        /\ work'[q].at = "remember" /\ work'[q].part = work[q].part
    BY <1>6 DEF Answers, Agent
  <2>3. Past(Node(q), work')
    BY <2>2 DEF Past, Node, Agent
  <2>4. context'[Node(q)] = work[q].snapshot.previous /\ left'[Node(q)] = previous
    BY <1>2, <2>1, <2>2 DEF Conversations, Typed, TypeOK
  <2>5. Kept(Append(work[q].snapshot.agents, Node(q)), previous, context', left', work')
    BY <1>2, <1>4, <2>2, <2>3, <2>4, AnswerKept
  <2> DEFINE extended == Extended(sessions[SessionOf(q)], work[q].snapshot, Node(q), previous)
  <2>6. /\ extended.agents = Append(work[q].snapshot.agents, Node(q))
        /\ extended.previous = previous
    BY DEF Extended
  <2>7. sessions'[SessionOf(q)] = extended
        /\ \A s \in SessionIds \ {SessionOf(q)} : sessions'[s] = sessions[s]
    BY <1>2, <2>1
  <2> HIDE DEF extended
  <2>8. Sessions1
    BY <1>3, <2>5, <2>6, <2>7
  <2>9. ASSUME NEW r \in Requests PROVE Request1(r)
    <3>1. CASE r = q
      BY <2>2, <3>1 DEF Agent
    <3>2. CASE r # q
      <4>1. work'[r] = work[r]
        BY <1>6, <3>2 DEF Answers
      <4>2. work[r].at \in Agent => context[<<r, work[r].part>>] = work[r].snapshot.previous
        BY DEF Conversations, Node
      <4>3. QED
        BY <1>4, <2>2, <4>1, <4>2
    <3>3. QED
      BY <3>1, <3>2
  <2>10. QED
    BY <2>8, <2>9 DEF Conversations, Node
<1>7. ASSUME NEW q \in Requests, NEW p \in Parts, Begins(q, p) PROVE Conversations'
  <2>1. UNCHANGED sessions
    BY <1>7 DEF Begins
  <2>2. Sessions1
    BY <1>3, <2>1
  <2>3. SessionOf(q)' \in SessionIds
    <3>1. work' \in [Requests -> Work]
      BY <1>1 DEF Typed, TypeOK
    <3>2. work'[q].message \in Message
      BY <3>1, OrchestrationAssumption DEF Work
    <3>3. QED
      BY <3>2 DEF SessionOf, SessionIds, Message
  <2>4. /\ work'[q].part = p
        /\ work'[q].snapshot.agents = sessions[SessionOf(q)'].agents
        /\ work'[q].snapshot.previous = sessions[SessionOf(q)'].previous
        /\ context' = [context EXCEPT ![<<q, p>>] = sessions[SessionOf(q)'].previous]
    BY <1>7 DEF Begins
  <2>5. Request1(q)
    <3>1. <<q, p>> \in Nodes /\ context \in [Nodes -> Nodes \cup {None}]
      BY DEF Nodes, Typed, TypeOK
    <3>2. QED
      BY <1>3, <2>3, <2>4, <3>1
  <2>6. ASSUME NEW r \in Requests, r # q PROVE Request1(r)
    <3>1. work'[r] = work[r]
      BY <1>7, <2>6 DEF Begins
    <3>2. <<r, work[r].part>> \in Nodes /\ <<r, work[r].part>> # <<q, p>>
          /\ context \in [Nodes -> Nodes \cup {None}]
      BY <1>2, <2>6 DEF Node, Typed, TypeOK
    <3>3. context'[<<r, work[r].part>>] = context[<<r, work[r].part>>]
      BY <2>4, <3>2
    <3>4. QED
      BY <1>4, <3>1, <3>3 DEF Conversations, Node
  <2>7. QED
    BY <2>2, <2>5, <2>6 DEF Conversations, Node
<1>8. QED
  BY <1>1, <1>5, <1>6, <1>7 DEF Shape

\* The conversation that the provider would continue is the one that the session
\* lists, for any number of requests, subagents, failures and deaths.
THEOREM ConversationIsListedAlways == Spec => []ConversationIsListed
<1>1. Init => Typed /\ Conversations
  <2>1. ASSUME Init PROVE Conversations
    BY <2>1 DEF Init, Conversations, Kept, NoSession, Agent
  <2>2. QED
    BY <2>1, InitTyped
<1>2. Typed /\ Conversations /\ [Next]_vars => (Typed /\ Conversations)'
  BY NextShape, ConversationsStay
<1>3. Conversations => ConversationIsListed
  BY DEF Conversations, Kept, ConversationIsListed, InConversation
<1>4. QED
  BY <1>1, <1>2, <1>3, PTL DEF Spec

-----------------------------------------------------------------------------
(* Tools *)

\* What keeps the calls within bounds: a part that is not begun has called nothing,
\* and one at work counts its calls.
Calls ==
    \A q \in Requests :
        /\ rows[Root(q)].tools \cap Writers = {}
        /\ work[q].at \in Agent => Len(called[Node(q)]) = work[q].executed
        /\ \A p \in Parts :
              /\ rows[<<q, p>>].tools \subseteq rows[Root(q)].tools
              /\ Len(called[<<q, p>>]) <= MaxToolCalls
              /\ \A i \in 1..Len(called[<<q, p>>]) : called[<<q, p>>][i] \in rows[<<q, p>>].tools
              /\ work[q].at = "idle" \/ p > work[q].part => called[<<q, p>>] = <<>>
              /\ work[q].at = "idle" => rows[<<q, p>>].tools = {}

LEMMA CallsStay ==
    ASSUME Typed, Calls, [Next]_vars
    PROVE  Calls'
<1>1. Typed' /\ Shape
  BY NextShape
<1>2. /\ \A q \in Requests : \A p \in Parts : <<q, p>> \in Nodes
      /\ \A q \in Requests : Root(q) = <<q, 0>> /\ Node(q) = <<q, work[q].part>> /\ work[q].part \in Parts
      /\ 0 \in Parts /\ Parts \subseteq Nat
      /\ called \in [Nodes -> Seq(Tools)]
  BY OrchestrationAssumption DEF Typed, TypeOK, Work, Parts, Nodes, Root, Node
<1> DEFINE Request1(r) ==
        /\ rows'[<<r, 0>>].tools \cap Writers = {}
        /\ work'[r].at \in Agent => Len(called'[<<r, work'[r].part>>]) = work'[r].executed
        /\ \A p \in Parts :
              /\ rows'[<<r, p>>].tools \subseteq rows'[<<r, 0>>].tools
              /\ Len(called'[<<r, p>>]) <= MaxToolCalls
              /\ \A i \in 1..Len(called'[<<r, p>>]) : called'[<<r, p>>][i] \in rows'[<<r, p>>].tools
              /\ work'[r].at = "idle" \/ p > work'[r].part => called'[<<r, p>>] = <<>>
              /\ work'[r].at = "idle" => rows'[<<r, p>>].tools = {}
<1> SUFFICES ASSUME NEW r \in Requests PROVE Request1(r)
  BY DEF Calls, Root, Node
<1>3. /\ rows[<<r, 0>>].tools \cap Writers = {}
      /\ work[r].at \in Agent => Len(called[<<r, work[r].part>>]) = work[r].executed
      /\ \A p \in Parts :
            /\ rows[<<r, p>>].tools \subseteq rows[<<r, 0>>].tools
            /\ Len(called[<<r, p>>]) <= MaxToolCalls
            /\ \A i \in 1..Len(called[<<r, p>>]) : called[<<r, p>>][i] \in rows[<<r, p>>].tools
            /\ work[r].at = "idle" \/ p > work[r].part => called[<<r, p>>] = <<>>
            /\ work[r].at = "idle" => rows[<<r, p>>].tools = {}
  BY <1>2 DEF Calls
<1>4. CASE Proceeds
  <2>1. /\ Carries(work[r], work'[r])
        /\ \A p \in Parts : rows'[<<r, p>>].tools = rows[<<r, p>>].tools
    BY <1>2, <1>4 DEF Proceeds, SameTools
  <2>2. CASE CallsNothing
    BY <1>2, <1>3, <2>1, <2>2 DEF Carries, CallsNothing
  <2>3. ASSUME NEW q \in Requests, NEW tool \in Tools, CallsOne(q, tool) PROVE Request1(r)
    <3>1. /\ called' = [called EXCEPT ![<<q, work[q].part>>] = Append(@, tool)]
          /\ tool \in rows[<<q, work[q].part>>].tools
          /\ work[q].executed < MaxToolCalls /\ work'[q].executed = work[q].executed + 1
          /\ work[q].at \in Agent
      BY <1>2, <2>3 DEF CallsOne, Policy
    <3>2. CASE r # q
      <4>1. /\ \A p \in Parts : called'[<<r, p>>] = called[<<r, p>>]
            /\ work'[r] = work[r]
        BY <1>2, <2>3, <3>1, <3>2 DEF CallsOne
      <4>2. QED
        BY <1>2, <1>3, <2>1, <4>1
    <3>3. CASE r = q
      <4> DEFINE before == called[<<r, work[r].part>>]
                 after == Append(before, tool)
      <4>1. /\ before \in Seq(Tools) /\ called'[<<r, work[r].part>>] = after
            /\ \A p \in Parts \ {work[r].part} : called'[<<r, p>>] = called[<<r, p>>]
        BY <1>2, <3>1, <3>3
      <4>2. /\ Len(after) = Len(before) + 1 /\ after[Len(before) + 1] = tool
            /\ \A i \in 1..Len(before) : after[i] = before[i]
            /\ Len(before) \in Nat
        BY <4>1
      <4>3. Len(before) = work[r].executed /\ work[r].executed \in Nat
        BY <1>3, <3>1, <3>3, OrchestrationAssumption DEF Typed, TypeOK, Work
      <4>4. Len(after) <= MaxToolCalls /\ Len(after) = work'[r].executed
        BY <3>1, <3>3, <4>2, <4>3, OrchestrationAssumption
      <4>5. \A i \in 1..Len(after) : after[i] \in rows[<<r, work[r].part>>].tools
        <5>1. \A i \in 1..Len(before) : before[i] \in rows[<<r, work[r].part>>].tools
          BY <1>2, <1>3
        <5>2. tool \in rows[<<r, work[r].part>>].tools
          BY <3>1, <3>3
        <5> HIDE DEF before, after
        <5>3. \A i \in 1..Len(after) : i \in 1..Len(before) \/ i = Len(before) + 1
          BY <4>2
        <5>4. QED
          BY <4>2, <5>1, <5>2, <5>3
      <4> HIDE DEF before, after
      <4>6. work'[r].part = work[r].part /\ work'[r].at # "idle" /\ work[r].part \in Nat
        BY <1>2, <2>1, <3>1, <3>3 DEF Carries, Agent
      <4>7. /\ rows'[<<r, 0>>].tools \cap Writers = {}
            /\ \A p \in Parts : rows'[<<r, p>>].tools \subseteq rows'[<<r, 0>>].tools
        BY <1>2, <1>3, <2>1
      <4>8. work'[r].at \in Agent => Len(called'[<<r, work'[r].part>>]) = work'[r].executed
        BY <4>1, <4>4, <4>6
      <4>9. ASSUME NEW p \in Parts
            PROVE  /\ Len(called'[<<r, p>>]) <= MaxToolCalls
                   /\ \A i \in 1..Len(called'[<<r, p>>]) :
                         called'[<<r, p>>][i] \in rows'[<<r, p>>].tools
                   /\ p > work'[r].part => called'[<<r, p>>] = <<>>
        <5>1. CASE p = work[r].part
          <6>1. called'[<<r, p>>] = after
            BY <4>1, <5>1
          <6>2. \A i \in 1..Len(after) : after[i] \in rows'[<<r, p>>].tools
            BY <2>1, <4>5, <5>1
          <6>3. ~(p > work'[r].part)
            BY <4>6, <5>1
          <6>4. QED
            BY <4>4, <6>1, <6>2, <6>3
        <5>2. CASE p # work[r].part
          BY <1>3, <2>1, <4>1, <4>6, <5>2
        <5>3. QED
          BY <5>1, <5>2
      <4>10. QED
        BY <4>6, <4>7, <4>8, <4>9
    <3>4. QED
      BY <3>2, <3>3
  <2>4. QED
    BY <1>4, <2>2, <2>3 DEF Proceeds
<1>5. ASSUME NEW q \in Requests, Answers(q) PROVE Request1(r)
  <2>1. UNCHANGED <<rows, called>>
    BY <1>5 DEF Answers
  <2>2. CASE r = q
    BY <1>2, <1>3, <1>5, <2>1, <2>2 DEF Answers, Agent
  <2>3. CASE r # q
    BY <1>2, <1>3, <1>5, <2>1, <2>3 DEF Answers
  <2>4. QED
    BY <2>2, <2>3
<1>6. ASSUME NEW q \in Requests, NEW p \in Parts, Begins(q, p) PROVE Request1(r)
  <2>1. UNCHANGED called /\ \A n \in Nodes \ {<<q, p>>} : rows'[n].tools = rows[n].tools
    BY <1>6 DEF Begins
  <2>2. CASE r # q
    <3>1. work'[r] = work[r] /\ \A i \in Parts : rows'[<<r, i>>].tools = rows[<<r, i>>].tools
      BY <1>2, <1>6, <2>1, <2>2 DEF Begins
    <3>2. QED
      BY <1>2, <1>3, <2>1, <3>1
  <2>3. CASE r = q
    <3>1. work'[r].at = "query" /\ work'[r].part = p /\ work'[r].executed = 0
      BY <1>6, <2>3 DEF Begins
    <3>2. called[<<r, p>>] = <<>> /\ \A i \in Parts : i > p => called[<<r, i>>] = <<>>
      <4>1. /\ p \in Parts
            /\ \/ work[r].at = "idle" /\ p = 0
               \/ work[r].at \in Running /\ p = work[r].part + 1
        BY <1>6, <2>3 DEF Begins
      <4>2. \A i \in Parts : work[r].at = "idle" \/ i > work[r].part => called[<<r, i>>] = <<>>
        BY DEF Calls
      <4>3. work[r].part \in Nat /\ Parts \subseteq Nat
        BY <1>2
      <4>4. CASE work[r].at = "idle"
        BY <4>1, <4>2, <4>4
      <4>5. CASE p = work[r].part + 1
        BY <4>1, <4>2, <4>3, <4>5
      <4>6. QED
        BY <4>1, <4>4, <4>5
    <3>3. /\ rows'[<<r, 0>>].tools \cap Writers = {}
          /\ \A i \in Parts : rows'[<<r, i>>].tools \subseteq rows'[<<r, 0>>].tools
      <4>1. CASE p = 0
        <5>1. work[r].at = "idle" /\ rows'[<<r, 0>>].tools \cap Writers = {}
          <6>1. work[r].at = "idle"
            <7>1. work[r].part \in Nat /\ (work[r].at = "idle" \/ p = work[r].part + 1)
              BY <1>2, <1>6, <2>3 DEF Begins
            <7>2. QED
              BY <4>1, <7>1
          <6>2. QED
            BY <1>2, <1>6, <2>3, <4>1, <6>1 DEF Begins
        <5>2. \A i \in Parts \ {0} : rows'[<<r, i>>].tools = {}
          BY <1>2, <1>3, <2>1, <2>3, <4>1, <5>1
        <5>3. QED
          BY <5>1, <5>2
      <4>2. CASE p # 0
        <5>1. rows'[<<r, p>>].tools \subseteq rows[<<r, 0>>].tools
          BY <1>2, <1>6, <2>3, <4>2 DEF Begins
        <5>2. \A i \in Parts \ {p} : rows'[<<r, i>>].tools = rows[<<r, i>>].tools
          BY <1>2, <2>1, <2>3
        <5>3. QED
          BY <1>2, <1>3, <4>2, <5>1, <5>2
      <4>3. QED
        BY <4>1, <4>2
    <3>4. \A i \in Parts : \A k \in 1..Len(called[<<r, i>>]) :
             called[<<r, i>>][k] \in rows'[<<r, i>>].tools
      <4>1. \A i \in Parts \ {p} : rows'[<<r, i>>].tools = rows[<<r, i>>].tools
        BY <1>2, <2>1, <2>3
      <4>2. 1..Len(called[<<r, p>>]) = {}
        BY <3>2
      <4>3. QED
        BY <1>3, <4>1, <4>2
    <3>5. Len(called[<<r, p>>]) = 0
      BY <3>2
    <3>6. QED
      BY <1>3, <2>1, <3>1, <3>2, <3>3, <3>4, <3>5
  <2>4. QED
    BY <2>2, <2>3
<1>7. QED
  BY <1>1, <1>4, <1>5, <1>6 DEF Shape

\* A subagent has nothing that its role, as it was, or its spawn did not permit.
Scoped ==
    \A q \in Requests : \A p \in Parts \ {0} : Within(rows[<<q, p>>], work[q].message.subs[p])

LEMMA ScopedStay ==
    ASSUME Typed, Calls, Scoped, [Next]_vars
    PROVE  Scoped'
<1>1. Shape
  BY NextShape
<1>2. \A q \in Requests : \A p \in Parts : <<q, p>> \in Nodes
  BY DEF Nodes
<1> SUFFICES ASSUME NEW r \in Requests, NEW i \in Parts \ {0}
             PROVE  Within(rows'[<<r, i>>], work'[r].message.subs[i])
  BY DEF Scoped
<1>3. Within(rows[<<r, i>>], work[r].message.subs[i])
  BY DEF Scoped
<1>4. ASSUME rows'[<<r, i>>].tools = rows[<<r, i>>].tools,
             rows'[<<r, i>>].baseline = rows[<<r, i>>].baseline,
             rows[<<r, i>>].tools = {} \/ work'[r].message = work[r].message
      PROVE  Within(rows'[<<r, i>>], work'[r].message.subs[i])
  BY <1>3, <1>4 DEF Within
<1>5. CASE Proceeds
  BY <1>2, <1>4, <1>5 DEF Proceeds, SameTools, Carries
<1>6. ASSUME NEW q \in Requests, Answers(q)
      PROVE  Within(rows'[<<r, i>>], work'[r].message.subs[i])
  <2>1. UNCHANGED rows /\ work'[r].message = work[r].message
    BY <1>6 DEF Answers
  <2>2. QED
    BY <2>1, <1>4
<1>7. ASSUME NEW q \in Requests, NEW p \in Parts, Begins(q, p)
      PROVE  Within(rows'[<<r, i>>], work'[r].message.subs[i])
  <2>1. CASE r # q
    BY <1>2, <1>4, <1>7, <2>1 DEF Begins
  <2>2. CASE r = q /\ i = p
    BY <1>7, <2>2 DEF Begins
  <2>3. CASE r = q /\ i # p
    <3>1. /\ rows'[<<r, i>>].tools = rows[<<r, i>>].tools
          /\ rows'[<<r, i>>].baseline = rows[<<r, i>>].baseline
      BY <1>2, <1>7, <2>3 DEF Begins
    <3>2. CASE p # 0
      BY <1>4, <1>7, <2>3, <3>1, <3>2 DEF Begins
    <3>3. CASE p = 0
      <4>1. work[r].at = "idle" \/ (work[r].at \in Running /\ 0 = work[r].part + 1)
        BY <1>7, <2>3, <3>3 DEF Begins
      <4>2. work[r].part \in Nat
        BY OrchestrationAssumption DEF Typed, TypeOK, Work, Parts
      <4>3. rows[<<r, i>>].tools = {}
        BY <4>1, <4>2 DEF Calls
      <4>4. QED
        BY <1>4, <3>1, <4>3
    <3>4. QED
      BY <3>2, <3>3
  <2>4. QED
    BY <2>1, <2>2, <2>3
<1>8. QED
  BY <1>1, <1>5, <1>6, <1>7 DEF Shape

\* No run has called a tool outside of its own policy or its coordinator's, a tool that
\* writes, one outside of its role or of what its spawn asked for, or more than it may:
\* whatever tools come and go and whatever roles are changed meanwhile.
THEOREM CallsInBoundsAlways == Spec => []CallsInBounds
<1>1. Init => Typed /\ Calls /\ Scoped
  <2>1. ASSUME Init PROVE Calls /\ Scoped
    BY <2>1, OrchestrationAssumption
       DEF Init, Calls, Scoped, Within, Root, Node, Nodes, Parts, Agent
  <2>2. QED
    BY <2>1, InitTyped
<1>2. Typed /\ Calls /\ Scoped /\ [Next]_vars => (Typed /\ Calls /\ Scoped)'
  BY NextShape, CallsStay, ScopedStay
<1>3. Typed /\ Calls /\ Scoped => CallsInBounds
  <2> SUFFICES ASSUME Typed, Calls, Scoped, NEW q \in Requests, NEW p \in Parts
               PROVE  /\ Len(called[<<q, p>>]) <= MaxToolCalls
                      /\ \A i \in DOMAIN called[<<q, p>>] :
                            LET tool == called[<<q, p>>][i]
                            IN  /\ tool \in rows[<<q, p>>].tools
                                /\ tool \in rows[Root(q)].tools \ Writers
                                /\ p > 0 => /\ Permits(rows[<<q, p>>].baseline, tool)
                                           /\ Permits(work[q].message.subs[p].tools, tool)
    BY DEF CallsInBounds
  <2>1. called[<<q, p>>] \in Seq(Tools)
    BY Places DEF Typed, TypeOK
  <2>2. Len(called[<<q, p>>]) <= MaxToolCalls
    BY DEF Calls
  <2>3. ASSUME NEW i \in DOMAIN called[<<q, p>>]
        PROVE  /\ called[<<q, p>>][i] \in rows[<<q, p>>].tools
               /\ called[<<q, p>>][i] \in rows[Root(q)].tools \ Writers
    BY <2>1, <2>3 DEF Calls
  <2>4. ASSUME p > 0, NEW tool \in rows[<<q, p>>].tools
        PROVE  /\ Permits(rows[<<q, p>>].baseline, tool)
               /\ Permits(work[q].message.subs[p].tools, tool)
    <3>1. p \in Parts \ {0}
      BY <2>4, OrchestrationAssumption DEF Parts
    <3>2. QED
      BY <3>1, <2>4 DEF Scoped, Within
  <2>5. QED
    BY <2>2, <2>3, <2>4
<1>4. QED
  BY <1>1, <1>2, <1>3, PTL DEF Spec

-----------------------------------------------------------------------------
(* Titles *)

\* A title that a request at work has read is that of its session.
TitlesRead ==
    \A q \in Requests : work[q].at \in Agent =>
        work[q].snapshot.title \in {None, sessions[SessionOf(q)].title}

LEMMA TitlesStay ==
    ASSUME Typed, TitlesRead, [Next]_vars
    PROVE  /\ TitlesRead'
           /\ \A s \in SessionIds : sessions[s].title # None => sessions'[s].title = sessions[s].title
<1>1. Typed' /\ Shape
  BY NextShape
<1>2. \A q \in Requests : SessionOf(q) \in SessionIds
  BY Places DEF Typed
<1>3. CASE Proceeds
  <2>1. \A s \in SessionIds : sessions[s].title # None => sessions'[s].title = sessions[s].title
    BY <1>3 DEF Proceeds, SameConversation
  <2>2. ASSUME NEW q \in Requests, work'[q].at \in Agent
        PROVE  work'[q].snapshot.title \in {None, sessions'[SessionOf(q)'].title}
    <3>1. work[q].at \in Agent /\ work'[q].snapshot = work[q].snapshot /\ SessionOf(q)' = SessionOf(q)
      BY <1>3, <2>2 DEF Proceeds, Carries, SessionOf
    <3>2. QED
      BY <1>2, <2>1, <3>1 DEF TitlesRead
  <2>3. QED
    BY <2>1, <2>2 DEF TitlesRead
<1>4. ASSUME NEW q \in Requests, Answers(q)
      PROVE  /\ TitlesRead'
             /\ \A s \in SessionIds : sessions[s].title # None => sessions'[s].title = sessions[s].title
  <2>1. PICK previous :
           sessions' = [sessions EXCEPT ![SessionOf(q)] =
                          Extended(@, work[q].snapshot, Node(q), previous)]
    BY <1>4 DEF Answers
  <2> DEFINE extended == Extended(sessions[SessionOf(q)], work[q].snapshot, Node(q), previous)
  <2>2. extended.title = IF work[q].snapshot.title = None THEN sessions[SessionOf(q)].title
                         ELSE work[q].snapshot.title
    BY DEF Extended
  <2>3. sessions' = [sessions EXCEPT ![SessionOf(q)] = extended]
    BY <2>1
  <2> HIDE DEF extended
  <2>4. work[q].snapshot.title \in {None, sessions[SessionOf(q)].title}
    BY <1>4 DEF Answers, Agent, TitlesRead
  <2>5. \A s \in SessionIds : sessions'[s].title = sessions[s].title
    BY <1>2, <2>2, <2>3, <2>4 DEF Typed, TypeOK
  <2>6. ASSUME NEW r \in Requests, work'[r].at \in Agent
        PROVE  work'[r].snapshot.title \in {None, sessions'[SessionOf(r)'].title}
    <3>1. r # q /\ work'[r] = work[r] /\ SessionOf(r)' = SessionOf(r)
      BY <1>4, <2>6 DEF Answers, Agent, SessionOf
    <3>2. QED
      BY <1>2, <2>5, <2>6, <3>1 DEF TitlesRead
  <2>7. QED
    BY <2>5, <2>6 DEF TitlesRead
<1>5. ASSUME NEW q \in Requests, NEW p \in Parts, Begins(q, p)
      PROVE  /\ TitlesRead'
             /\ \A s \in SessionIds : sessions[s].title # None => sessions'[s].title = sessions[s].title
  <2>1. UNCHANGED sessions /\ work'[q].snapshot.title = sessions[SessionOf(q)'].title
    BY <1>5 DEF Begins
  <2>2. ASSUME NEW r \in Requests, work'[r].at \in Agent
        PROVE  work'[r].snapshot.title \in {None, sessions'[SessionOf(r)'].title}
    <3>1. CASE r = q
      BY <2>1, <3>1
    <3>2. CASE r # q
      <4>1. work'[r] = work[r] /\ SessionOf(r)' = SessionOf(r)
        BY <1>5, <3>2 DEF Begins, SessionOf
      <4>2. QED
        BY <2>1, <2>2, <4>1 DEF TitlesRead
    <3>3. QED
      BY <3>1, <3>2
  <2>3. QED
    BY <2>1, <2>2 DEF TitlesRead
<1>6. QED
  BY <1>1, <1>3, <1>4, <1>5 DEF Shape

\* The first title that a session gets stays, although every answer writes back the
\* session as it was read before.
THEOREM TitleStaysAlways == Spec => TitleStays
<1>1. Init => Typed /\ TitlesRead
  <2>1. ASSUME Init PROVE TitlesRead
    BY <2>1 DEF Init, TitlesRead, Agent
  <2>2. QED
    BY <2>1, InitTyped
<1>2. Typed /\ TitlesRead /\ [Next]_vars => (Typed /\ TitlesRead)'
  BY NextShape, TitlesStay
<1>3. Typed /\ TitlesRead /\ [Next]_vars
        => [\A s \in SessionIds : sessions[s].title # None => sessions'[s].title = sessions[s].title]_vars
  BY TitlesStay
<1>4. QED
  BY <1>1, <1>2, <1>3, PTL DEF Spec, TitleStays

-----------------------------------------------------------------------------
(* The course of a request *)

\* The part that a request is at ends, but not the request: `some` are the rows then.
PartEnds(q, some) ==
    /\ work[q].at \in Running
    /\ \/ work[q].part = 0 /\ work[q].at = "remember" /\ some = rows
       \/ /\ work[q].part # 0
          /\ \E status \in {"completed", "failed"} :
                some = Ended(q, status) /\ (status = "completed" => work[q].at = "remember")

\* The coordinator's own agent run throws.
RootFails(q) ==
    /\ work[q].at \in Running /\ work[q].part = 0
    /\ rows' = Ended(q, "failed")
    /\ work' = [work EXCEPT ![q] = Rest(@, "failed")]
    /\ UNCHANGED <<sessions, attachments, overlaps>>

\* A request stays with its part, or dies with it.
Keeps(wk, next) ==
    /\ next.part = wk.part /\ next.message = wk.message
    /\ \/ next.at = wk.at /\ next.snapshot = wk.snapshot
       \/ wk.at \in Agent /\ next.at \in Agent /\ next.snapshot = wk.snapshot
       \/ wk.at \in Running \cup {"artifacts"} /\ next.at = "lost"
       \/ wk.at = "artifacts" /\ next.at \in {"artifacts", "done", "failed"}

NoAttachment == [at |-> "none", session |-> None, run |-> None, index |-> None]

GoesOn ==
    /\ \A q \in Requests : Keeps(work[q], work'[q])
    /\ \A a \in Attachments : attachments'[a] = attachments[a] \/ attachments'[a] = NoAttachment
    /\ UNCHANGED <<rows, sessions, overlaps>>

Uploading ==
    /\ \E a \in Attachments :
          \/ \E s \in SessionIds, run \in Requests \cup {None} : Upload(a, s, run)
          \/ RecordUploaded(a)
    /\ UNCHANGED <<work, rows, sessions, overlaps>>

Turns(q) ==
    \/ \E m \in Messages : RunCoordinator(q, m)
    \/ \E some : PartEnds(q, some) /\ NextPart(q, some) /\ UNCHANGED overlaps
    \/ RootFails(q)
    \/ FinalAnswer(q)

Course == (\E q \in Requests : Turns(q)) \/ GoesOn \/ Uploading

LEMMA AgentFailsTurns ==
    ASSUME NEW q \in Requests, work[q].at \in Running, AgentFails(q), UNCHANGED overlaps
    PROVE  Turns(q)
<1>1. CASE work[q].part = 0
  BY <1>1 DEF AgentFails, Turns, RootFails
<1>2. CASE work[q].part # 0
  BY <1>2 DEF AgentFails, Turns, PartEnds
<1>3. QED
  BY <1>1, <1>2

\* One request stays with its part.
LEMMA OneGoesOn ==
    ASSUME Typed, NEW q \in Requests, NEW next, Keeps(work[q], next),
           work' = [work EXCEPT ![q] = next], UNCHANGED <<rows, sessions, attachments, overlaps>>
    PROVE  GoesOn
<1>1. work \in [Requests -> Work]
  BY DEF Typed, TypeOK
<1>2. \A r \in Requests : work'[r] = IF r = q THEN next ELSE work[r]
  BY <1>1
<1>3. \A r \in Requests : Keeps(work[r], work'[r])
  BY <1>2 DEF Keeps
<1>4. QED
  BY <1>3 DEF GoesOn

LEMMA NextCallTurns ==
    ASSUME Typed, NEW q \in Requests, NEW wk \in Work, work[q].at \in {"adapter", "tool"},
           wk.part = work[q].part, wk.message = work[q].message, wk.snapshot = work[q].snapshot,
           NextCall(q, wk), UNCHANGED overlaps
    PROVE  Turns(q) \/ GoesOn
<1>1. work[q].at \in Running /\ work[q].at \in Agent
  BY DEF Running, Agent
<1>2. CASE AgentFails(q)
  BY <1>1, <1>2, AgentFailsTurns
<1>3. ASSUME NEW next, next.part = wk.part, next.message = wk.message, next.snapshot = wk.snapshot,
             next.at \in Agent, work' = [work EXCEPT ![q] = next],
             UNCHANGED <<rows, sessions, attachments>>
      PROVE  GoesOn
  <2>1. Keeps(work[q], next)
    BY <1>1, <1>3 DEF Keeps
  <2>2. QED
    BY <1>3, <2>1, OneGoesOn
<1>4. CASE /\ work' = [work EXCEPT ![q] = [wk EXCEPT !.at = "adapter"]]
           /\ UNCHANGED <<rows, sessions, attachments>>
  <2> DEFINE next == [wk EXCEPT !.at = "adapter"]
  <2>1. /\ next.at \in Agent /\ next.part = wk.part /\ next.message = wk.message
        /\ next.snapshot = wk.snapshot
    BY AtFacts DEF Awaits, Agent
  <2>2. work' = [work EXCEPT ![q] = next]
    BY <1>4
  <2> HIDE DEF next
  <2>3. QED
    BY <1>3, <1>4, <2>1, <2>2
<1>5. CASE /\ work' = [work EXCEPT ![q] = [wk EXCEPT !.at = "tool", !.executed = @ + 1]]
           /\ UNCHANGED <<rows, sessions, attachments>>
  <2> DEFINE at == [wk EXCEPT !.at = "tool"]
             next == [at EXCEPT !.executed = wk.executed + 1]
  <2>1. /\ at \in Work /\ at.at = "tool" /\ at.part = wk.part /\ at.message = wk.message
        /\ at.snapshot = wk.snapshot /\ at.executed = wk.executed
    BY AtFacts DEF Awaits
  <2>2. work' = [work EXCEPT ![q] = next]
    BY <1>5, <2>1
  <2> HIDE DEF at
  <2>3. /\ next.at = "tool" /\ next.part = at.part /\ next.message = at.message
        /\ next.snapshot = at.snapshot
    BY <2>1 DEF Work
  <2> HIDE DEF next
  <2>4. QED
    BY <1>3, <1>5, <2>1, <2>2, <2>3 DEF Agent
<1>6. QED
  BY <1>2, <1>4, <1>5 DEF NextCall

\* Every step is one of these.
LEMMA Courses ==
    ASSUME Typed, [Next]_vars
    PROVE  Course
<1>0. work \in [Requests -> Work]
  BY DEF Typed, TypeOK
<1>1. ASSUME UNCHANGED <<work, rows, sessions, attachments, overlaps>> PROVE GoesOn
  BY <1>1 DEF GoesOn, Keeps
<1>2. ASSUME NEW q \in Requests, Step(q) PROVE Turns(q) \/ GoesOn
  <2>0. work[q] \in Work
    BY <1>0
  <2>1. CASE Recall(q)
    <3>1. work[q].at = "query" /\ UNCHANGED overlaps
      BY <2>1 DEF Recall
    <3>2. CASE AgentFails(q)
      BY <3>1, <3>2, AgentFailsTurns DEF Running
    <3>3. CASE work' = [work EXCEPT ![q].at = "adapter"] /\ UNCHANGED <<rows, sessions, attachments>>
      <4> DEFINE next == [work[q] EXCEPT !.at = "adapter"]
      <4>1. /\ next.at = "adapter" /\ next.part = work[q].part /\ next.message = work[q].message
            /\ next.snapshot = work[q].snapshot
        BY <2>0, AtFacts DEF Awaits
      <4>2. work' = [work EXCEPT ![q] = next]
        BY <3>3
      <4> HIDE DEF next
      <4>3. Keeps(work[q], next)
        BY <3>1, <4>1 DEF Keeps, Agent
      <4>4. QED
        BY <3>1, <3>3, <4>2, <4>3, OneGoesOn
    <3>4. QED
      BY <2>1, <3>2, <3>3 DEF Recall
  <2>2. ASSUME NEW calls \in 0..MaxCalls
        PROVE  LET wk == [work[q] EXCEPT !.calls = calls]
               IN  /\ wk \in Work /\ wk.part = work[q].part
                   /\ wk.message = work[q].message /\ wk.snapshot = work[q].snapshot
    BY <2>0 DEF Work
  <2>3. CASE AnswerWithCalls(q)
    <3>1. PICK n \in 1..MaxCalls : NextCall(q, [work[q] EXCEPT !.calls = n])
      BY <2>3 DEF AnswerWithCalls
    <3>2. UNCHANGED overlaps /\ work[q].at = "adapter" /\ n \in 0..MaxCalls
      BY <2>3, OrchestrationAssumption DEF AnswerWithCalls
    <3>3. QED
      BY <2>2, <3>1, <3>2, NextCallTurns
  <2>4. CASE ToolReturns(q)
    <3>1. /\ UNCHANGED overlaps /\ work[q].at = "tool"
          /\ NextCall(q, [work[q] EXCEPT !.calls = @ - 1])
      BY <2>4 DEF ToolReturns
    <3>2. work[q].calls \in 1..MaxCalls
      BY <2>0, <3>1, OrchestrationAssumption DEF Typed, Counts, Work
    <3>3. work[q].calls - 1 \in 0..MaxCalls
      BY <3>2, OrchestrationAssumption
    <3>4. NextCall(q, [work[q] EXCEPT !.calls = work[q].calls - 1])
      BY <3>1
    <3>5. QED
      BY <2>2, <3>1, <3>3, <3>4, NextCallTurns
  <2>5. CASE AdapterFails(q) \/ ToolFails(q)
    BY <2>5, AgentFailsTurns DEF AdapterFails, ToolFails, Running
  <2>6. CASE Remember(q)
    <3>1. work[q].at = "remember" /\ work[q].at \in Running /\ UNCHANGED overlaps
      BY <2>6 DEF Remember, Running
    <3> DEFINE some == IF work[q].part = 0 THEN rows ELSE Ended(q, "completed")
    <3>2. NextPart(q, some) \/ AgentFails(q)
      BY <2>6 DEF Remember
    <3>3. PartEnds(q, some)
      BY <3>1 DEF PartEnds
    <3> HIDE DEF some
    <3>4. QED
      BY <3>1, <3>2, <3>3, AgentFailsTurns DEF Turns
  <2>7. CASE WriteArtifact(q)
    <3> DEFINE goesOn == [work[q] EXCEPT !.at = IF work[q].drafts = 1 THEN "done" ELSE "artifacts"]
               fails == [work[q] EXCEPT !.at = "failed"]
               less == [goesOn EXCEPT !.drafts = work[q].drafts - 1]
               none == [fails EXCEPT !.drafts = 0]
    <3>1. work[q].at = "artifacts" /\ UNCHANGED <<rows, sessions, attachments, overlaps>>
      BY <2>7 DEF WriteArtifact, history
    <3>2. work' = [work EXCEPT ![q] = less] \/ work' = [work EXCEPT ![q] = none]
      BY <2>0, <2>7 DEF WriteArtifact, Work
    <3>3. /\ goesOn \in Work /\ goesOn.at \in {"artifacts", "done"} /\ goesOn.part = work[q].part
          /\ goesOn.message = work[q].message
          /\ fails \in Work /\ fails.at = "failed" /\ fails.part = work[q].part
          /\ fails.message = work[q].message
      BY <2>0 DEF Work, Awaits
    <3> HIDE DEF goesOn, fails
    <3>4. /\ less.at = goesOn.at /\ less.part = goesOn.part /\ less.message = goesOn.message
      BY <3>3 DEF Work
    <3>5. /\ none.at = fails.at /\ none.part = fails.part /\ none.message = fails.message
      BY <3>3 DEF Work
    <3> HIDE DEF less, none
    <3>6. Keeps(work[q], less) /\ Keeps(work[q], none)
      BY <3>1, <3>3, <3>4, <3>5 DEF Keeps
    <3>7. QED
      BY <3>1, <3>2, <3>6, OneGoesOn
  <2>8. QED
    BY <1>2, <2>1, <2>3, <2>4, <2>5, <2>6, <2>7 DEF Step, Turns
<1>3. CASE Crash
  <2>1. \A a \in Attachments : attachments'[a] = attachments[a] \/ attachments'[a] = NoAttachment
    BY <1>3 DEF Crash, NoAttachment
  <2>2. ASSUME NEW q \in Requests PROVE Keeps(work[q], work'[q])
    <3>1. CASE work[q].at \in Running \cup {"artifacts"}
      <4> DEFINE rest == Rest(work[q], "lost")
                 next == [rest EXCEPT !.drafts = 0]
      <4>1. work'[q] = next
        BY <1>3, <3>1 DEF Crash
      <4>2. /\ rest \in Work /\ rest.at = "lost" /\ rest.part = work[q].part
            /\ rest.message = work[q].message
        BY <1>0, RestFacts DEF Awaits
      <4> HIDE DEF rest
      <4>3. /\ next.at = rest.at /\ next.part = rest.part /\ next.message = rest.message
        BY <4>2 DEF Work
      <4> HIDE DEF next
      <4>4. QED
        BY <3>1, <4>1, <4>2, <4>3 DEF Keeps
    <3>2. CASE work[q].at \notin Running \cup {"artifacts"}
      BY <1>3, <3>2 DEF Crash, Keeps
    <3>3. QED
      BY <3>1, <3>2
  <2>3. UNCHANGED <<rows, sessions, overlaps>>
    BY <1>3 DEF Crash, history
  <2>4. QED
    BY <2>1, <2>2, <2>3 DEF GoesOn, Course
<1>4. ASSUME NEW a \in Attachments,
             \/ \E s \in SessionIds, run \in Requests \cup {None} : Upload(a, s, run)
             \/ RecordUploaded(a)
      PROVE  Course
  BY <1>4 DEF Upload, RecordUploaded, Uploading, Course, history, settings
<1>5. QED
  BY <1>1, <1>2, <1>3, <1>4 DEF Next, Change, Course, RegisterDynamic, UnregisterDynamic, UpdateRole,
     ResetRole, history, vars

-----------------------------------------------------------------------------
(* The rows of the runs *)

\* The rows of a request go with the part it is at.
Run(q) ==
    LET root == rows[Root(q)]
    IN  /\ work[q].at = "idle" => \A p \in Parts : rows[<<q, p>>].status = "none"
        /\ work[q].at # "idle" =>
              /\ work[q].part <= Len(work[q].message.subs)
              /\ Len(root.children) = work[q].part
              /\ \A i \in 1..work[q].part : root.children[i] = i
              /\ \A p \in Parts :
                    /\ rows[<<q, p>>].status # "none" <=> p <= work[q].part
                    /\ p # 0 /\ rows[<<q, p>>].status = "running" =>
                          p = work[q].part /\ work[q].at \in Running \cup {"lost"}
              /\ root.status = "running" => work[q].at \in Running \cup {"lost"}
              /\ root.status = "completed" => work[q].part = Len(work[q].message.subs)
        /\ work[q].at \in Running => root.status = "running"

Runs == \A q \in Requests : Run(q)

-----------------------------------------------------------------------------
(* Attachments *)

IsRunOf(q, s) == rows[Root(q)].status = "completed" /\ SessionOf(q) = s

\* A session lists completed runs of its own.
ListedInSessions == \A s \in SessionIds : \A q \in sessions[s].coords : IsRunOf(q, s)

\* So did it when it was read.
ListedInSnapshots ==
    \A r \in Requests : work[r].at \in Agent => \A q \in work[r].snapshot.coords : IsRunOf(q, SessionOf(r))

\* An attachment is given to a completed run of its session.
Attached(a) ==
    /\ attachments[a].run # None => IsRunOf(attachments[a].run, attachments[a].session)
    /\ attachments[a].at = "stored" => attachments[a].index = attachments[a].run

Listings == ListedInSessions /\ ListedInSnapshots /\ \A a \in Attachments : Attached(a)

-----------------------------------------------------------------------------
(* Lost entries *)

Among(n, list) == \E i \in DOMAIN list : list[i] = n

\* The session has been written with part p of request q, which has not failed since.
Answered(q, p) ==
    \/ rows[<<q, p>>].status = "completed"
    \/ work[q].at \in Running /\ p = 0 /\ work[q].part > 0
    \/ work[q].at = "remember" /\ p = work[q].part

Alone(q) == work[q].at # "idle" /\ \A pair \in overlaps : q \notin pair

\* What a session has to list of a request.
Holds(session, q) ==
    /\ work[q].message.web /\ rows[Root(q)].status = "completed" => q \in session.coords
    /\ \A p \in Parts : Answered(q, p) => Among(<<q, p>>, session.agents)

\* A request that ran alone is listed, and was when others read the session.
Entries ==
    \A q \in Requests : Alone(q) =>
        /\ Holds(sessions[SessionOf(q)], q)
        /\ \A r \in Requests : work[r].at \in Agent /\ SessionOf(r) = SessionOf(q) =>
              Holds(work[r].snapshot, q)

\* Requests at work in one session have met.
Met ==
    \A q, r \in Requests :
        q # r /\ work[q].at \in Running /\ work[r].at \in Running /\ SessionOf(q) = SessionOf(r) =>
            {q, r} \in overlaps

-----------------------------------------------------------------------------
(* What the turns of a request do to its rows, and to its session *)

LEMMA EndsFacts ==
    ASSUME Typed, NEW q \in Requests, NEW some, PartEnds(q, some)
    PROVE  /\ some \in [Nodes -> Row]
           /\ \A n \in Nodes : some[n].children = rows[n].children /\ (n # Node(q) => some[n] = rows[n])
           /\ work[q].part = 0 => some = rows /\ work[q].at = "remember"
           /\ work[q].part # 0 =>
                 /\ some[Node(q)].status \in {"completed", "failed"}
                 /\ some[Node(q)].status = "completed" => work[q].at = "remember"
<1>1. rows \in [Nodes -> Row] /\ Node(q) \in Nodes /\ rows[Node(q)] \in Row
  BY Places DEF Typed, TypeOK
<1>2. CASE work[q].part = 0
  BY <1>1, <1>2 DEF PartEnds
<1>3. CASE work[q].part # 0
  <2>1. PICK status \in {"completed", "failed"} :
           some = Ended(q, status) /\ (status = "completed" => work[q].at = "remember")
    BY <1>3 DEF PartEnds
  <2> DEFINE row == [rows[Node(q)] EXCEPT !.status = status]
  <2>2. row \in Row /\ row.status = status /\ row.children = rows[Node(q)].children
    BY <1>1 DEF Row
  <2>3. some = [rows EXCEPT ![Node(q)] = row]
    BY <2>1 DEF Ended
  <2> HIDE DEF row
  <2>4. QED
    BY <1>1, <1>3, <2>1, <2>2, <2>3
<1>4. QED
  BY <1>2, <1>3

LEMMA SpawnFacts ==
    ASSUME Typed, NEW q \in Requests, NEW some \in [Nodes -> Row],
           work[q].part < Len(work[q].message.subs), Spawned(q, some, work[q].part + 1)
    PROVE  LET p == work[q].part + 1
               session == sessions[SessionOf(q)]
           IN  /\ p \in Parts /\ p # 0 /\ <<q, p>> \in Nodes
               /\ \A r \in Requests \ {q} : work'[r] = work[r]
               /\ work'[q].at = "query" /\ work'[q].part = p /\ work'[q].message = work[q].message
               /\ work'[q].snapshot.agents = session.agents
               /\ work'[q].snapshot.coords = session.coords
               /\ rows'[Root(q)].status = some[Root(q)].status
               /\ rows'[Root(q)].children = Append(some[Root(q)].children, p)
               /\ rows'[<<q, p>>].status = "running"
               /\ \A n \in Nodes \ {Root(q), <<q, p>>} : rows'[n] = some[n]
               /\ UNCHANGED <<sessions, attachments>>
<1> DEFINE p == work[q].part + 1
           child == [status |-> "running", children |-> <<>>,
                     tools |-> BuildScopedPolicy(some[Root(q)].tools, work[q].message.subs[p]),
                     baseline |-> Baseline(work[q].message.subs[p].role)]
           children == Append(some[Root(q)].children, p)
           root == [some[Root(q)] EXCEPT !.children = children]
           session == sessions[SessionOf(q)]
           next == Begun(work[q], p, session)
<1>1. /\ work \in [Requests -> Work] /\ work[q] \in Work /\ work[q].message \in Messages
      /\ work[q].part \in Parts /\ session \in Session
  BY Places DEF Typed, TypeOK, Work
<1>2. p \in Parts /\ p # 0
  BY <1>1, OrchestrationAssumption DEF Message, Parts
<1>3. <<q, p>> \in Nodes /\ Root(q) \in Nodes /\ <<q, p>> # Root(q)
  BY <1>2, OrchestrationAssumption DEF Nodes, Root, Parts
<1>4. /\ next.at = "query" /\ next.part = p /\ next.message = work[q].message
      /\ next.snapshot.agents = session.agents /\ next.snapshot.coords = session.coords
  BY <1>1, <1>2, BegunFacts
<1>5. /\ rows' = [some EXCEPT ![Root(q)] = root, ![<<q, p>>] = child]
      /\ work' = [work EXCEPT ![q] = next] /\ UNCHANGED <<sessions, attachments>>
  BY DEF Spawned
<1>6. child.status = "running"
  OBVIOUS
<1> HIDE DEF children
<1>7. root.status = some[Root(q)].status /\ root.children = children
  BY <1>3 DEF Row
<1> HIDE DEF p, child, root, session, next
<1>8. work'[q] = next /\ \A r \in Requests \ {q} : work'[r] = work[r]
  BY <1>1, <1>5
<1>9. /\ rows'[<<q, p>>] = child /\ rows'[Root(q)] = root
      /\ \A n \in Nodes \ {Root(q), <<q, p>>} : rows'[n] = some[n]
  BY <1>3, <1>5
<1>10. QED
  BY <1>2, <1>3, <1>4, <1>5, <1>6, <1>7, <1>8, <1>9 DEF p, session, children

LEMMA CompleteFacts ==
    ASSUME Typed, NEW q \in Requests, NEW some \in [Nodes -> Row], Completed(q, some)
    PROVE  /\ \A r \in Requests \ {q} : work'[r] = work[r]
           /\ work'[q].at \in {"done", "failed", "artifacts"} /\ work'[q].part = work[q].part
           /\ work'[q].message = work[q].message
           /\ rows'[Root(q)].status = "completed" /\ rows'[Root(q)].children = some[Root(q)].children
           /\ \A n \in Nodes \ {Root(q)} : rows'[n] = some[n]
           /\ \A s \in SessionIds : sessions'[s].agents = sessions[s].agents
           /\ \A s \in SessionIds : sessions'[s].coords =
                 IF s = SessionOf(q) /\ work[q].message.web THEN sessions[s].coords \cup {q}
                 ELSE sessions[s].coords
           /\ \/ attachments' = attachments
              \/ attachments' = Linked(q) /\ (work[q].message.attached # {} => Linkable(q))
<1> DEFINE root == [some[Root(q)] EXCEPT !.status = "completed"]
           session == sessions[SessionOf(q)]
<1>1. /\ work \in [Requests -> Work] /\ sessions \in [SessionIds -> Session]
      /\ work[q] \in Work /\ SessionOf(q) \in SessionIds /\ session \in Session /\ Root(q) \in Nodes
  BY Places DEF Typed, TypeOK, Root
<1>2. root.status = "completed" /\ root.children = some[Root(q)].children
  BY <1>1 DEF Row
<1>3. rows' = [some EXCEPT ![Root(q)] = root]
  BY DEF Completed
<1>4. rows'[Root(q)] = root /\ \A n \in Nodes \ {Root(q)} : rows'[n] = some[n]
  <2> HIDE DEF root
  <2>1. QED
    BY <1>1, <1>3
<1>5. \E next : /\ work' = [work EXCEPT ![q] = next]
                /\ next.at \in {"done", "failed", "artifacts"} /\ next.part = work[q].part
                /\ next.message = work[q].message
  <2>1. ASSUME NEW at \in {"done", "failed", "artifacts"}
        PROVE  /\ Rest(work[q], at) \in Work /\ Rest(work[q], at).at = at
               /\ Rest(work[q], at).part = work[q].part /\ Rest(work[q], at).message = work[q].message
    BY <1>1, RestFacts DEF Awaits
  <2>2. ASSUME NEW n \in 0..MaxArtifacts, NEW at \in {"done", "failed", "artifacts"}
        PROVE  LET next == [Rest(work[q], at) EXCEPT !.drafts = n]
               IN  next.at = at /\ next.part = work[q].part /\ next.message = work[q].message
    <3> DEFINE rest == Rest(work[q], at)
    <3>1. rest \in Work /\ rest.at = at /\ rest.part = work[q].part /\ rest.message = work[q].message
      BY <2>1
    <3> HIDE DEF rest
    <3>2. /\ [rest EXCEPT !.drafts = n].at = rest.at /\ [rest EXCEPT !.drafts = n].part = rest.part
          /\ [rest EXCEPT !.drafts = n].message = rest.message
      BY <3>1 DEF Work
    <3>3. QED
      BY <3>1, <3>2 DEF rest
  <2>3. CASE \E at \in {"done", "failed"} : work' = [work EXCEPT ![q] = Rest(@, at)]
    BY <2>1, <2>3
  <2>4. CASE \E n \in 0..MaxArtifacts :
                work' = [work EXCEPT ![q] = [Rest(@, IF n = 0 THEN "done" ELSE "artifacts")
                                               EXCEPT !.drafts = n]]
    <3>1. PICK n \in 0..MaxArtifacts :
                work' = [work EXCEPT ![q] = [Rest(@, IF n = 0 THEN "done" ELSE "artifacts")
                                               EXCEPT !.drafts = n]]
      BY <2>4
    <3> DEFINE at == IF n = 0 THEN "done" ELSE "artifacts"
               next == [Rest(work[q], at) EXCEPT !.drafts = n]
    <3>2. work' = [work EXCEPT ![q] = next] /\ at \in {"done", "failed", "artifacts"}
      BY <3>1
    <3>3. next.at = at /\ next.part = work[q].part /\ next.message = work[q].message
      BY <2>2, <3>2
    <3> HIDE DEF next, at
    <3>4. QED
      BY <3>2, <3>3
  <2>5. QED
    BY <2>3, <2>4 DEF Completed
<1>6. /\ work'[q].at \in {"done", "failed", "artifacts"} /\ work'[q].part = work[q].part
      /\ work'[q].message = work[q].message
      /\ \A r \in Requests \ {q} : work'[r] = work[r]
  BY <1>1, <1>5
<1>7. /\ \A s \in SessionIds : sessions'[s].agents = sessions[s].agents
      /\ \A s \in SessionIds : sessions'[s].coords =
            IF s = SessionOf(q) /\ work[q].message.web THEN sessions[s].coords \cup {q}
            ELSE sessions[s].coords
  <2>1. CASE ~work[q].message.web
    BY <2>1 DEF Completed
  <2>2. CASE work[q].message.web
    <3> DEFINE coords == session.coords \cup {q}
               with == [session EXCEPT !.coords = coords]
               title == IF session.title = None THEN q ELSE session.title
               listed == [with EXCEPT !.title = title]
    <3> HIDE DEF coords, title
    <3>1. with \in [stored : BOOLEAN, web : BOOLEAN, agents : Seq(Nodes), coords : {coords},
                    previous : Nodes \cup {None}, title : Requests \cup {None}]
          /\ with.agents = session.agents /\ with.coords = coords /\ with.title = session.title
      BY <1>1 DEF Session
    <3> HIDE DEF with
    <3>2. listed.agents = with.agents /\ listed.coords = with.coords
      BY <3>1
    <3>3. Listed(q, session) = listed
      BY <3>1 DEF Listed, with, coords, title
    <3>4. sessions' = [sessions EXCEPT ![SessionOf(q)] = listed]
      BY <2>2, <3>3 DEF Completed
    <3> HIDE DEF listed
    <3>5. \A s \in SessionIds : sessions'[s] = IF s = SessionOf(q) THEN listed ELSE sessions[s]
      BY <1>1, <3>4
    <3>6. QED
      BY <2>2, <3>1, <3>2, <3>5 DEF coords
  <2>3. QED
    BY <2>1, <2>2
<1>8. \/ attachments' = attachments
      \/ attachments' = Linked(q) /\ (work[q].message.attached # {} => Linkable(q))
  BY DEF Completed
<1>9. QED
  BY <1>2, <1>4, <1>6, <1>7, <1>8

LEMMA StartFacts ==
    ASSUME Typed, NEW q \in Requests, NEW m \in Messages, RunCoordinator(q, m)
    PROVE  /\ work[q].at = "idle"
           /\ \A r \in Requests \ {q} : work'[r] = work[r]
           /\ work'[q].at = "query" /\ work'[q].part = 0 /\ work'[q].message = m
           /\ SessionOf(q)' \in SessionIds
           /\ work'[q].snapshot.agents = sessions[SessionOf(q)'].agents
           /\ work'[q].snapshot.coords = sessions[SessionOf(q)'].coords
           /\ rows'[Root(q)].status = "running" /\ rows'[Root(q)].children = <<>>
           /\ \A n \in Nodes \ {Root(q)} : rows'[n] = rows[n]
           /\ overlaps' = overlaps \cup {{q, r} : r \in RunningIn(SessionOf(q)')}
           /\ UNCHANGED <<sessions, attachments>>
<1> DEFINE s == IF m.session = None THEN q ELSE m.session
           row == [status |-> "running", children |-> <<>>, tools |-> ResolveAllowedToolIds,
                   baseline |-> {}]
           asked == [work[q] EXCEPT !.message = m]
           next == Begun(asked, 0, sessions[s])
<1>1. /\ work \in [Requests -> Work] /\ sessions \in [SessionIds -> Session]
      /\ rows \in [Nodes -> Row] /\ work[q] \in Work
  BY DEF Typed, TypeOK
<1>2. s \in SessionIds /\ 0 \in Parts /\ Root(q) \in Nodes
  BY OrchestrationAssumption DEF Message, SessionIds, Parts, Nodes, Root
<1>3. asked \in Work /\ asked.message = m
  BY <1>1 DEF Work
<1>4. sessions[s] \in Session
  BY <1>1, <1>2
<1> HIDE DEF asked, s
<1>5. /\ next.at = "query" /\ next.part = 0 /\ next.message = m
      /\ next.snapshot.agents = sessions[s].agents /\ next.snapshot.coords = sessions[s].coords
  BY <1>2, <1>3, <1>4, BegunFacts
<1>6. /\ work[q].at = "idle" /\ rows' = [rows EXCEPT ![Root(q)] = row]
      /\ work' = [work EXCEPT ![q] = next] /\ UNCHANGED <<sessions, attachments>>
      /\ overlaps' = overlaps \cup {{q, r} : r \in RunningIn(s)}
  BY DEF RunCoordinator, asked, s
<1> HIDE DEF next
<1>7. work'[q] = next /\ \A r \in Requests \ {q} : work'[r] = work[r]
  BY <1>1, <1>6
<1>8. SessionOf(q)' = s
  BY <1>5, <1>7 DEF SessionOf, s
<1>9. rows'[Root(q)] = row /\ \A n \in Nodes \ {Root(q)} : rows'[n] = rows[n]
  BY <1>1, <1>2, <1>6
<1>10. QED
  BY <1>2, <1>5, <1>6, <1>7, <1>8, <1>9

\* A coordinator that fails.
LEMMA RootFailsFacts ==
    ASSUME Typed, NEW q \in Requests, RootFails(q)
    PROVE  /\ \A r \in Requests \ {q} : work'[r] = work[r]
           /\ work'[q].at = "failed" /\ work'[q].part = work[q].part /\ work'[q].message = work[q].message
           /\ rows'[Root(q)].status = "failed" /\ rows'[Root(q)].children = rows[Root(q)].children
           /\ \A n \in Nodes \ {Root(q)} : rows'[n] = rows[n]
<1> DEFINE row == [rows[Root(q)] EXCEPT !.status = "failed"]
           next == Rest(work[q], "failed")
<1>1. /\ rows \in [Nodes -> Row] /\ Root(q) \in Nodes /\ Node(q) = Root(q)
      /\ work \in [Requests -> Work] /\ work[q] \in Work
  BY Places DEF Typed, TypeOK, Node, Root, RootFails
<1>2. row.status = "failed" /\ row.children = rows[Root(q)].children
  BY <1>1 DEF Row
<1>3. next.at = "failed" /\ next.part = work[q].part /\ next.message = work[q].message
  BY <1>1, RestFacts DEF Awaits
<1>4. rows' = [rows EXCEPT ![Root(q)] = row] /\ work' = [work EXCEPT ![q] = next]
  BY <1>1 DEF RootFails, Ended
<1> HIDE DEF row, next
<1>5. QED
  BY <1>1, <1>2, <1>3, <1>4

LEMMA AnswerFacts ==
    ASSUME Typed, NEW q \in Requests, FinalAnswer(q)
    PROVE  /\ \A r \in Requests \ {q} : work'[r] = work[r]
           /\ work[q].at = "adapter" /\ work'[q].at = "remember" /\ work'[q].part = work[q].part
           /\ work'[q].message = work[q].message
           /\ \A s \in SessionIds :
                 /\ s # SessionOf(q) => sessions'[s] = sessions[s]
                 /\ s = SessionOf(q) => /\ sessions'[s].agents = Append(work[q].snapshot.agents, Node(q))
                                        /\ sessions'[s].coords = work[q].snapshot.coords
           /\ UNCHANGED <<rows, attachments, overlaps>>
<1>1. Answers(q) /\ UNCHANGED <<attachments, overlaps>>
  BY FinalAnswerShape DEF FinalAnswer
<1>2. PICK previous \in {Node(q), work[q].snapshot.previous} :
         sessions' = [sessions EXCEPT ![SessionOf(q)] = Extended(@, work[q].snapshot, Node(q), previous)]
  BY <1>1 DEF Answers
<1> DEFINE extended == Extended(sessions[SessionOf(q)], work[q].snapshot, Node(q), previous)
<1>3. /\ extended.agents = Append(work[q].snapshot.agents, Node(q))
      /\ extended.coords = work[q].snapshot.coords
  BY DEF Extended
<1>4. sessions' = [sessions EXCEPT ![SessionOf(q)] = extended]
  BY <1>2
<1> HIDE DEF extended
<1>5. sessions \in [SessionIds -> Session] /\ SessionOf(q) \in SessionIds
  BY Places DEF Typed, TypeOK
<1>6. QED
  BY <1>1, <1>3, <1>4, <1>5 DEF Answers

-----------------------------------------------------------------------------
(* The rows go with the requests *)

LEMMA NodeFacts ==
    ASSUME NEW q \in Requests, NEW p \in Parts
    PROVE  /\ <<q, p>> \in Nodes /\ 0 \in Parts
           /\ <<q, p>> = Root(q) <=> p = 0
           /\ <<q, p>> = Node(q) <=> p = work[q].part
           /\ \A r \in Requests \ {q} : \A i \in Parts :
                 <<r, i>> # <<q, p>> /\ <<r, i>> # Root(q) /\ <<r, i>> # Node(q)
BY OrchestrationAssumption DEF Nodes, Root, Node, Parts

\* A step of one request leaves the rows of the others.
Only(q) ==
    \A r \in Requests \ {q} :
        work'[r] = work[r] /\ \A p \in Parts : rows'[<<r, p>>] = rows[<<r, p>>]

LEMMA TurnsOnly ==
    ASSUME Typed, NEW q \in Requests, Turns(q)
    PROVE  Only(q)
<1>1. \A r \in Requests \ {q}, p \in Parts :
         <<r, p>> \in Nodes /\ <<r, p>> # Root(q) /\ <<r, p>> # Node(q)
         /\ \A i \in Parts : <<r, p>> # <<q, i>>
  BY DEF Nodes, Root, Node
<1>2. ASSUME NEW m \in Messages, RunCoordinator(q, m) PROVE Only(q)
  BY <1>1, <1>2, StartFacts DEF Only
<1>3. ASSUME NEW some, PartEnds(q, some), NextPart(q, some) PROVE Only(q)
  <2>1. some \in [Nodes -> Row] /\ \A r \in Requests \ {q}, p \in Parts : some[<<r, p>>] = rows[<<r, p>>]
    BY <1>1, <1>3, EndsFacts
  <2>2. CASE work[q].part < Len(work[q].message.subs)
    <3>1. Spawned(q, some, work[q].part + 1)
      BY <1>3, <2>2 DEF NextPart
    <3>2. /\ work[q].part + 1 \in Parts
          /\ \A r \in Requests \ {q} : work'[r] = work[r]
          /\ \A n \in Nodes \ {Root(q), <<q, work[q].part + 1>>} : rows'[n] = some[n]
      BY <2>1, <2>2, <3>1, SpawnFacts
    <3>3. QED
      BY <1>1, <2>1, <3>2 DEF Only
  <2>3. CASE ~(work[q].part < Len(work[q].message.subs))
    <3>1. Completed(q, some)
      BY <1>3, <2>3 DEF NextPart
    <3>2. QED
      BY <1>1, <2>1, <3>1, CompleteFacts DEF Only
  <2>4. QED
    BY <2>2, <2>3
<1>4. CASE RootFails(q)
  BY <1>1, <1>4, RootFailsFacts DEF Only
<1>5. CASE FinalAnswer(q)
  BY <1>5, AnswerFacts DEF Only
<1>6. QED
  BY <1>2, <1>3, <1>4, <1>5 DEF Turns

LEMMA RunStays ==
    ASSUME NEW q \in Requests, Run(q), work'[q].message = work[q].message,
           work'[q].part = work[q].part, \A p \in Parts : rows'[<<q, p>>] = rows[<<q, p>>],
           \/ work'[q].at = work[q].at
           \/ work[q].at \in Running /\ work'[q].at \in Running
           \/ work[q].at \in Running \cup {"artifacts"} /\ work'[q].at = "lost"
           \/ work[q].at = "artifacts" /\ work'[q].at \in {"artifacts", "done", "failed"}
    PROVE  Run(q)'
<1>1. rows'[Root(q)] = rows[Root(q)]
  BY OrchestrationAssumption DEF Root, Parts
<1>2. CASE work[q].at = "idle"
  BY <1>2 DEF Run, Running
<1>3. CASE work[q].at # "idle"
  <2>1. work'[q].at # "idle"
    BY <1>3 DEF Running
  <2>2. work'[q].at \in Running => work[q].at \in Running
    BY DEF Running
  <2>3. work[q].at \in Running \cup {"lost"} => work'[q].at \in Running \cup {"lost"}
    BY DEF Running
  <2>4. QED
    BY <1>1, <1>3, <2>1, <2>2, <2>3 DEF Run, Root
<1>4. QED
  BY <1>2, <1>3

\* The request that takes a turn.
LEMMA RunTurns ==
    ASSUME Typed, NEW q \in Requests, Run(q), Turns(q)
    PROVE  Run(q)'
<1>0. /\ 0 \in Parts /\ Root(q) \in Nodes /\ work[q].part \in Parts /\ work[q].part \in Nat
      /\ \A p \in Parts : <<q, p>> \in Nodes /\ (<<q, p>> = Root(q) <=> p = 0)
                          /\ (<<q, p>> = Node(q) <=> p = work[q].part)
      /\ \A n \in Nodes : rows[n].children \in Seq(Parts)
      /\ Len(work[q].message.subs) \in Nat
  <2>1. work[q] \in Work /\ work[q].message \in Message /\ rows \in [Nodes -> Row]
    BY Places DEF Typed, TypeOK
  <2>2. /\ 0 \in Parts /\ work[q].part \in Parts /\ Root(q) \in Nodes /\ Parts \subseteq Nat
    BY <2>1, OrchestrationAssumption DEF Work, Parts, Root, Nodes
  <2>3. \A n \in Nodes : rows[n].children \in Seq(Parts)
    BY <2>1 DEF Row
  <2>4. Len(work[q].message.subs) \in Nat
    BY <2>1 DEF Message
  <2>5. QED
    BY <2>2, <2>3, <2>4, NodeFacts
<1>1. ASSUME NEW m \in Messages, RunCoordinator(q, m) PROVE Run(q)'
  <2>1. /\ work[q].at = "idle" /\ work'[q].at = "query" /\ work'[q].part = 0 /\ work'[q].message = m
        /\ rows'[Root(q)].status = "running" /\ rows'[Root(q)].children = <<>>
        /\ \A n \in Nodes \ {Root(q)} : rows'[n] = rows[n]
    BY <1>1, StartFacts
  <2>2. \A p \in Parts : rows[<<q, p>>].status = "none"
    BY <2>1 DEF Run
  <2>3. \A p \in Parts \ {0} : rows'[<<q, p>>].status = "none"
    BY <1>0, <2>1, <2>2
  <2>4. Len(m.subs) \in Nat
    BY OrchestrationAssumption DEF Message
  <2>5. rows'[<<q, 0>>].status = "running" /\ \A p \in Parts : p <= 0 <=> p = 0
    BY <2>1, OrchestrationAssumption DEF Root, Parts
  <2>6. QED
    BY <1>0, <2>1, <2>3, <2>4, <2>5 DEF Run, Running
<1>2. ASSUME NEW some, PartEnds(q, some), NextPart(q, some) PROVE Run(q)'
  <2>1. /\ some \in [Nodes -> Row]
        /\ \A n \in Nodes : some[n].children = rows[n].children /\ (n # Node(q) => some[n] = rows[n])
        /\ work[q].part = 0 => some = rows
        /\ work[q].part # 0 => some[Node(q)].status \in {"completed", "failed"}
    BY <1>2, EndsFacts
  <2>2. work[q].at \in Running /\ work[q].at # "idle"
    BY <1>2 DEF PartEnds, Running
  <2>3. /\ rows[Root(q)].status = "running" /\ Len(rows[Root(q)].children) = work[q].part
        /\ \A i \in 1..work[q].part : rows[Root(q)].children[i] = i
        /\ work[q].part <= Len(work[q].message.subs)
        /\ \A p \in Parts : rows[<<q, p>>].status # "none" <=> p <= work[q].part
        /\ \A p \in Parts : p # 0 /\ rows[<<q, p>>].status = "running" => p = work[q].part
    BY <2>2 DEF Run
  <2>4. some[Root(q)].status = "running" /\ some[Root(q)].children = rows[Root(q)].children
    BY <1>0, <2>1, <2>3 DEF Root, Node
  <2>5. \A p \in Parts \ {0} : /\ some[<<q, p>>].status # "none" <=> p <= work[q].part
                               /\ some[<<q, p>>].status # "running"
    BY <1>0, <2>1, <2>3
  <2>6. CASE work[q].part < Len(work[q].message.subs)
    <3> DEFINE next == work[q].part + 1
    <3>1. Spawned(q, some, next)
      BY <1>2, <2>6 DEF NextPart
    <3>2. /\ next \in Parts /\ next # 0
          /\ work'[q].at = "query" /\ work'[q].part = next /\ work'[q].message = work[q].message
          /\ rows'[Root(q)].status = some[Root(q)].status
          /\ rows'[Root(q)].children = Append(some[Root(q)].children, next)
          /\ rows'[<<q, next>>].status = "running"
          /\ \A n \in Nodes \ {Root(q), <<q, next>>} : rows'[n] = some[n]
      BY <2>1, <2>6, <3>1, SpawnFacts
    <3>3. /\ next \in Nat /\ next <= Len(work[q].message.subs)
          /\ \A p \in Parts : p <= next <=> p <= work[q].part \/ p = next
      <4>1. Parts \subseteq Nat /\ work[q].part \in Nat /\ Len(work[q].message.subs) \in Nat
        BY <1>0, OrchestrationAssumption DEF Parts
      <4>2. next \in Nat /\ next <= Len(work[q].message.subs)
        BY <4>1, <2>6
      <4>3. QED
        BY <4>1, <4>2
    <3>4. /\ Len(rows'[Root(q)].children) = next
          /\ \A i \in 1..next : rows'[Root(q)].children[i] = i
      <4> DEFINE old == some[Root(q)].children
      <4>1. /\ old \in Seq(Parts) /\ next \in Parts /\ rows'[Root(q)].children = Append(old, next)
            /\ Len(old) = work[q].part /\ \A i \in 1..work[q].part : old[i] = i
        BY <1>0, <2>3, <2>4, <3>2
      <4> HIDE DEF old
      <4>2. /\ Len(Append(old, next)) = Len(old) + 1
            /\ \A i \in 1..Len(old) : Append(old, next)[i] = old[i]
            /\ Append(old, next)[Len(old) + 1] = next
        BY <4>1
      <4>3. QED
        BY <3>3, <4>1, <4>2
    <3> HIDE DEF next
    <3>5. \A p \in Parts \ {0, next} : rows'[<<q, p>>] = some[<<q, p>>]
      BY <1>0, <3>2
    <3>6. rows'[<<q, 0>>].status = "running" /\ 0 <= next
      BY <2>4, <3>2, <3>3 DEF Root
    <3>7. \A p \in Parts : /\ rows'[<<q, p>>].status # "none" <=> p <= next
                           /\ p # 0 /\ rows'[<<q, p>>].status = "running" => p = next
      BY <2>5, <3>2, <3>3, <3>5, <3>6
    <3>8. QED
      BY <3>2, <3>3, <3>4, <3>6, <3>7, <2>4 DEF Run, Running
  <2>7. CASE ~(work[q].part < Len(work[q].message.subs))
    <3>1. Completed(q, some)
      BY <1>2, <2>7 DEF NextPart
    <3>2. /\ work'[q].at \in {"done", "failed", "artifacts"} /\ work'[q].part = work[q].part
          /\ work'[q].message = work[q].message
          /\ rows'[Root(q)].status = "completed" /\ rows'[Root(q)].children = some[Root(q)].children
          /\ \A n \in Nodes \ {Root(q)} : rows'[n] = some[n]
      BY <2>1, <3>1, CompleteFacts
    <3>3. work[q].part = Len(work[q].message.subs)
      BY <1>0, <2>3, <2>7
    <3>4. \A p \in Parts \ {0} : rows'[<<q, p>>] = some[<<q, p>>]
      BY <1>0, <3>2
    <3>5. rows'[<<q, 0>>].status = "completed" /\ 0 <= work[q].part
      BY <1>0, <3>2 DEF Root
    <3>6. \A p \in Parts : /\ rows'[<<q, p>>].status # "none" <=> p <= work[q].part
                           /\ p # 0 => rows'[<<q, p>>].status # "running"
      BY <2>5, <3>4, <3>5
    <3>7. QED
      BY <2>3, <2>4, <3>2, <3>3, <3>6 DEF Run, Running
  <2>8. QED
    BY <2>6, <2>7
<1>3. CASE RootFails(q)
  <2>1. /\ work'[q].at = "failed" /\ work'[q].part = work[q].part /\ work'[q].message = work[q].message
        /\ rows'[Root(q)].status = "failed" /\ rows'[Root(q)].children = rows[Root(q)].children
        /\ \A n \in Nodes \ {Root(q)} : rows'[n] = rows[n]
        /\ work[q].at \in Running /\ work[q].at # "idle" /\ work[q].part = 0
    BY <1>3, RootFailsFacts DEF RootFails, Running
  <2>2. \A p \in Parts \ {0} : rows'[<<q, p>>] = rows[<<q, p>>]
    BY <1>0, <2>1
  <2>3. rows'[<<q, 0>>].status = "failed" /\ \A p \in Parts : p <= 0 <=> p = 0
    BY <2>1, OrchestrationAssumption DEF Root, Parts
  <2>4. QED
    BY <1>0, <2>1, <2>2, <2>3 DEF Run, Running
<1>4. CASE FinalAnswer(q)
  BY <1>4, AnswerFacts, RunStays DEF Running
<1>5. QED
  BY <1>1, <1>2, <1>3, <1>4 DEF Turns

LEMMA RunsStay ==
    ASSUME Typed, Runs, [Next]_vars
    PROVE  Runs'
<1>1. ASSUME NEW q \in Requests, Turns(q) PROVE Runs'
  <2>1. ASSUME NEW r \in Requests \ {q} PROVE Run(r)'
    BY <1>1, <2>1, TurnsOnly, RunStays DEF Only, Runs
  <2>2. Run(q)'
    BY <1>1, RunTurns DEF Runs
  <2>3. QED
    BY <2>1, <2>2 DEF Runs
<1>2. CASE GoesOn
  <2>1. ASSUME NEW r \in Requests PROVE Run(r)'
    BY <1>2, RunStays DEF GoesOn, Keeps, Runs, Agent, Running
  <2>2. QED
    BY <2>1 DEF Runs
<1>3. CASE Uploading
  <2>1. ASSUME NEW r \in Requests PROVE Run(r)'
    BY <1>3, RunStays DEF Uploading, Runs
  <2>2. QED
    BY <2>1 DEF Runs
<1>4. QED
  BY <1>1, <1>2, <1>3, Courses DEF Course

LEMMA InitRuns == Init => Runs
BY OrchestrationAssumption DEF Init, Runs, Run, Running, Nodes, Parts

\* Whatever fails and whenever the process dies, a run is marked as running exactly
\* while its request is at it or was when it died, and the children of a coordinator
\* are those it has spawned, in their order, all of them ended when it has: spawning,
\* the end of a part and of the coordinator change the row and the request together.
THEOREM RunsAccountedAlways == Spec => []RunsAccounted
<1>1. Init => Typed /\ Runs
  BY InitTyped, InitRuns
<1>2. Typed /\ Runs /\ [Next]_vars => (Typed /\ Runs)'
  BY NextShape, RunsStay
<1>3. Typed /\ Runs => RunsAccounted
  <2> SUFFICES ASSUME Typed, Runs, NEW q \in Requests
               PROVE  /\ work[q].at \in Running => rows[Root(q)].status = "running"
                      /\ rows[Root(q)].status = "running" => work[q].at \in Running \cup {"lost"}
                      /\ \A p \in Parts \ {0} :
                            rows[<<q, p>>].status = "running" =>
                                work[q].part = p /\ work[q].at \in Running \cup {"lost"}
                      /\ rows[Root(q)].status # "none" =>
                            /\ \A i \in DOMAIN rows[Root(q)].children : rows[Root(q)].children[i] = i
                            /\ {p \in Parts : rows[<<q, p>>].status # "none"}
                                 = {0} \cup (DOMAIN rows[Root(q)].children)
                      /\ rows[Root(q)].status = "completed" =>
                            Len(rows[Root(q)].children) = Len(work[q].message.subs)
    BY DEF RunsAccounted
  <2>1. /\ Run(q) /\ Root(q) = <<q, 0>> /\ 0 \in Parts /\ Root(q) \in Nodes
        /\ rows[Root(q)].children \in Seq(Parts) /\ work[q].part \in Parts
    BY Places DEF Runs, Root, Node, Typed, TypeOK, Work, Row
  <2>2. CASE work[q].at = "idle"
    <3>1. \A p \in Parts : rows[<<q, p>>].status = "none"
      BY <2>1, <2>2 DEF Run
    <3>2. work[q].at \notin Running
      BY <2>2 DEF Running
    <3>3. rows[Root(q)].status = "none"
      BY <2>1, <3>1
    <3>4. QED
      BY <3>1, <3>2, <3>3
  <2>3. CASE work[q].at # "idle"
    <3>1. /\ DOMAIN rows[Root(q)].children = 1..work[q].part
          /\ \A i \in 1..work[q].part : rows[Root(q)].children[i] = i
      <4>1. /\ Len(rows[Root(q)].children) = work[q].part
            /\ \A i \in 1..work[q].part : rows[Root(q)].children[i] = i
        BY <2>1, <2>3 DEF Run
      <4>2. DOMAIN rows[Root(q)].children = 1..Len(rows[Root(q)].children)
        BY <2>1
      <4>3. QED
        BY <4>1, <4>2
    <3>2. {p \in Parts : p <= work[q].part} = {0} \cup (1..work[q].part)
      BY <2>1, OrchestrationAssumption DEF Parts
    <3>3. {p \in Parts : rows[<<q, p>>].status # "none"} = {0} \cup (1..work[q].part)
      BY <2>3, <2>1, <3>2 DEF Run
    <3>4. QED
      BY <2>1, <2>3, <3>1, <3>3 DEF Run
  <2>4. QED
    BY <2>2, <2>3
<1>4. QED
  BY <1>1, <1>2, <1>3, PTL DEF Spec

-----------------------------------------------------------------------------
(* What sessions and attachments say of runs *)

\* A request whose run has completed takes no turn.
LEMMA CompletedRests ==
    ASSUME Typed, NEW q \in Requests, Run(q), Turns(q)
    PROVE  rows[Root(q)].status # "completed"
<1>1. CASE work[q].at = "idle"
  <2>1. rows[<<q, 0>>].status = "none"
    BY <1>1, NodeFacts, OrchestrationAssumption DEF Run, Parts
  <2>2. QED
    BY <2>1 DEF Root
<1>2. CASE work[q].at \in Running
  BY <1>2 DEF Run
<1>3. work[q].at = "idle" \/ work[q].at \in Running
  BY DEF Turns, RunCoordinator, PartEnds, RootFails, FinalAnswer, Running
<1>4. QED
  BY <1>1, <1>2, <1>3

\* What has completed in a session stays so.
LEMMA RunsOfStay ==
    ASSUME Typed, Runs, [Next]_vars
    PROVE  \A q \in Requests : rows[Root(q)].status = "completed" =>
              /\ rows'[Root(q)] = rows[Root(q)] /\ SessionOf(q)' = SessionOf(q)
              /\ work'[q].message = work[q].message
<1>1. ASSUME NEW r \in Requests, Turns(r), NEW q \in Requests, rows[Root(q)].status = "completed"
      PROVE  rows'[Root(q)] = rows[Root(q)] /\ work'[q] = work[q]
  <2>1. q # r
    BY <1>1, CompletedRests DEF Runs
  <2>2. QED
    BY <1>1, <2>1, TurnsOnly, OrchestrationAssumption DEF Only, Root, Parts
<1>2. ASSUME NEW q \in Requests, rows[Root(q)].status = "completed"
      PROVE  rows'[Root(q)] = rows[Root(q)] /\ work'[q].message = work[q].message
  BY <1>1, <1>2, Courses DEF Course, GoesOn, Keeps, Uploading
<1>3. QED
  BY <1>2 DEF SessionOf

\* What has become of an attachment that a completed run is given.
LEMMA LinkedFacts ==
    ASSUME Typed, NEW q \in Requests, NEW a \in Attachments
    PROVE  /\ a \in work[q].message.attached =>
                 /\ Linked(q)[a].run = q /\ Linked(q)[a].index = q
                 /\ Linked(q)[a].session = attachments[a].session
           /\ a \notin work[q].message.attached => Linked(q)[a] = attachments[a]
<1> DEFINE ran == [attachments[a] EXCEPT !.run = q]
           both == [ran EXCEPT !.index = q]
<1>1. attachments[a] \in Attachment
  BY DEF Typed, TypeOK
<1>2. ran \in Attachment /\ ran.run = q /\ ran.session = attachments[a].session
  BY <1>1 DEF Attachment
<1>3. a \in work[q].message.attached => Linked(q)[a] = both
  BY <1>1 DEF Linked, Attachment
<1> HIDE DEF ran
<1>4. both.run = q /\ both.index = q /\ both.session = attachments[a].session
  BY <1>2 DEF Attachment
<1> HIDE DEF both
<1>5. a \notin work[q].message.attached => Linked(q)[a] = attachments[a]
  BY DEF Linked
<1>6. QED
  BY <1>3, <1>4, <1>5

LEMMA UploadingAttached ==
    ASSUME Typed, Runs, Listings, [Next]_vars, Uploading, NEW b \in Attachments
    PROVE  Attached(b)'
<1>0. attachments \in [Attachments -> Attachment] /\ Attached(b)
  BY DEF Listings, Typed, TypeOK
<1>1. \A q \in Requests, s \in SessionIds \cup {None} : IsRunOf(q, s) => IsRunOf(q, s)'
  BY RunsOfStay DEF IsRunOf
<1>2. CASE attachments'[b] = attachments[b]
  BY <1>0, <1>1, <1>2 DEF Attached, Attachment
<1>3. CASE attachments'[b] = NoAttachment
  BY <1>3 DEF Attached, NoAttachment
<1>4. ASSUME NEW s \in SessionIds, NEW run \in Requests \cup {None},
             run = None \/ run \in sessions[s].coords,
             attachments'[b] = [at |-> "writing", session |-> s, run |-> run, index |-> None]
      PROVE  Attached(b)'
  <2>1. run # None => IsRunOf(run, s)'
    BY <1>1, <1>4 DEF Listings, ListedInSessions
  <2>2. QED
    BY <1>4, <2>1 DEF Attached
<1>5. CASE attachments'[b] = [[attachments[b] EXCEPT !.at = "stored"] EXCEPT !.index = attachments[b].run]
  <2> DEFINE stored == [attachments[b] EXCEPT !.at = "stored"]
             both == [stored EXCEPT !.index = attachments[b].run]
  <2>1. stored \in Attachment /\ stored.run = attachments[b].run /\ stored.session = attachments[b].session
    BY <1>0 DEF Attachment
  <2>2. attachments'[b] = both
    BY <1>5
  <2> HIDE DEF stored
  <2>3. /\ both.run = attachments[b].run /\ both.index = attachments[b].run
        /\ both.session = attachments[b].session
    BY <2>1 DEF Attachment
  <2> HIDE DEF both
  <2>4. \A q \in Requests, s \in SessionIds \cup {None} :
           attachments[b].run = q /\ attachments[b].session = s => IsRunOf(q, s)'
    BY <1>0, <1>1, OrchestrationAssumption DEF Attached, SessionIds
  <2>5. QED
    BY <1>0, <2>2, <2>3, <2>4 DEF Attached, IsRunOf, Attachment
<1>6. ASSUME NEW a \in Attachments, NEW s \in SessionIds, NEW run \in Requests \cup {None},
             Upload(a, s, run)
      PROVE  Attached(b)'
  <2>1. /\ run = None \/ run \in sessions[s].coords
        /\ attachments' = [attachments EXCEPT ![a] =
                             [at |-> "writing", session |-> s, run |-> run, index |-> None]]
    BY <1>6 DEF Upload
  <2>2. QED
    BY <1>0, <1>2, <1>4, <2>1
<1>7. ASSUME NEW a \in Attachments, RecordUploaded(a) PROVE Attached(b)'
  <2>1. \/ attachments' = [attachments EXCEPT ![a].at = "stored", ![a].index = attachments[a].run]
        \/ attachments' = [attachments EXCEPT ![a] = NoAttachment]
    BY <1>7 DEF RecordUploaded, NoAttachment
  <2>2. CASE attachments' = [attachments EXCEPT ![a] = NoAttachment]
    BY <1>0, <1>2, <1>3, <2>2
  <2>3. CASE attachments' = [attachments EXCEPT ![a].at = "stored", ![a].index = attachments[a].run]
    BY <1>0, <1>2, <1>5, <2>3
  <2>4. QED
    BY <2>1, <2>2, <2>3
<1>8. QED
  BY <1>6, <1>7 DEF Uploading

LEMMA ListingsStay ==
    ASSUME Typed, Runs, Listings, [Next]_vars
    PROVE  Listings'
<1>0. /\ ListedInSessions /\ ListedInSnapshots /\ \A a \in Attachments : Attached(a)
      /\ attachments \in [Attachments -> Attachment] /\ sessions \in [SessionIds -> Session]
      /\ work \in [Requests -> Work]
  BY DEF Listings, Typed, TypeOK
<1>1. \A q \in Requests, s \in SessionIds \cup {None} : IsRunOf(q, s) => IsRunOf(q, s)'
  BY RunsOfStay DEF IsRunOf
<1>2. ASSUME NEW a \in Attachments, attachments'[a] = attachments[a] \/ attachments'[a] = NoAttachment
      PROVE  Attached(a)'
  BY <1>0, <1>1, <1>2 DEF Attached, NoAttachment, Attachment
<1>3. ASSUME \A s \in SessionIds : sessions'[s].coords = sessions[s].coords
      PROVE  ListedInSessions'
  BY <1>0, <1>1, <1>3 DEF ListedInSessions, Session
<1>4. ASSUME NEW r \in Requests, work[r].at \in Agent,
             work'[r].snapshot = work[r].snapshot, work'[r].message = work[r].message
      PROVE  \A q \in work'[r].snapshot.coords : IsRunOf(q, SessionOf(r))'
  <2>1. SessionOf(r)' = SessionOf(r) /\ SessionOf(r) \in SessionIds
        /\ work[r].snapshot.coords \subseteq Requests
    BY <1>0, <1>4, Places DEF SessionOf, Typed, Work, Session
  <2>2. \A q \in work[r].snapshot.coords : IsRunOf(q, SessionOf(r))
    BY <1>0, <1>4 DEF ListedInSnapshots
  <2>3. QED
    BY <1>1, <1>4, <2>1, <2>2 DEF IsRunOf
<1>5. ASSUME NEW r \in Requests, SessionOf(r)' \in SessionIds,
             work'[r].snapshot.coords = sessions[SessionOf(r)'].coords
      PROVE  \A q \in work'[r].snapshot.coords : IsRunOf(q, SessionOf(r))'
  <2> DEFINE s == SessionOf(r)'
  <2>1. \A q \in sessions[s].coords : q \in Requests /\ IsRunOf(q, s)
    BY <1>0, <1>5 DEF ListedInSessions, Session
  <2>2. \A q \in sessions[s].coords : rows'[Root(q)].status = "completed" /\ SessionOf(q)' = s
    <3> HIDE DEF s
    <3>1. QED
      BY <2>1, RunsOfStay DEF IsRunOf
  <2>3. QED
    BY <1>5, <2>2 DEF IsRunOf
<1>6. ASSUME NEW q \in Requests, Turns(q), work'[q].at \notin Agent
      PROVE  ListedInSnapshots'
  BY <1>4, <1>6, TurnsOnly DEF Only, ListedInSnapshots
<1>7. ASSUME NEW q \in Requests, Turns(q), SessionOf(q)' \in SessionIds,
             work'[q].snapshot.coords = sessions[SessionOf(q)'].coords
      PROVE  ListedInSnapshots'
  BY <1>4, <1>5, <1>7, TurnsOnly DEF Only, ListedInSnapshots
<1>8. ASSUME NEW q \in Requests, Turns(q) PROVE Listings'
  <2>0. SessionOf(q) \in SessionIds
    BY Places DEF Typed
  <2>1. ASSUME NEW m \in Messages, RunCoordinator(q, m) PROVE Listings'
    <3>1. /\ SessionOf(q)' \in SessionIds /\ UNCHANGED <<sessions, attachments>>
          /\ work'[q].snapshot.coords = sessions[SessionOf(q)'].coords
      BY <2>1, StartFacts
    <3>2. QED
      BY <1>2, <1>3, <1>7, <1>8, <3>1 DEF Listings
  <2>2. ASSUME NEW some, PartEnds(q, some), NextPart(q, some) PROVE Listings'
    <3>1. some \in [Nodes -> Row]
      BY <2>2, EndsFacts
    <3>2. CASE work[q].part < Len(work[q].message.subs)
      <4>1. Spawned(q, some, work[q].part + 1)
        BY <2>2, <3>2 DEF NextPart
      <4>2. /\ UNCHANGED <<sessions, attachments>> /\ work'[q].message = work[q].message
            /\ work'[q].snapshot.coords = sessions[SessionOf(q)].coords
        BY <3>1, <3>2, <4>1, SpawnFacts
      <4>3. SessionOf(q)' = SessionOf(q)
        BY <4>2 DEF SessionOf
      <4>4. QED
        BY <1>2, <1>3, <1>7, <1>8, <2>0, <4>2, <4>3 DEF Listings
    <3>3. CASE ~(work[q].part < Len(work[q].message.subs))
      <4>1. Completed(q, some)
        BY <2>2, <3>3 DEF NextPart
      <4>2. /\ work'[q].at \in {"done", "failed", "artifacts"}
            /\ work'[q].message = work[q].message /\ rows'[Root(q)].status = "completed"
            /\ \A s \in SessionIds : sessions'[s].coords =
                  IF s = SessionOf(q) /\ work[q].message.web THEN sessions[s].coords \cup {q}
                  ELSE sessions[s].coords
            /\ \/ attachments' = attachments
               \/ attachments' = Linked(q) /\ (work[q].message.attached # {} => Linkable(q))
        BY <3>1, <4>1, CompleteFacts
      <4>3. SessionOf(q)' = SessionOf(q) /\ IsRunOf(q, SessionOf(q))'
        BY <4>2 DEF SessionOf, IsRunOf
      <4>4. ListedInSnapshots'
        BY <1>6, <1>8, <4>2 DEF Agent
      <4>5. ListedInSessions'
        <5> SUFFICES ASSUME NEW s \in SessionIds, NEW r \in sessions'[s].coords PROVE IsRunOf(r, s)'
          BY DEF ListedInSessions
        <5>1. CASE r \in sessions[s].coords
          BY <1>0, <1>1, <5>1 DEF ListedInSessions, Session
        <5>2. CASE r = q /\ s = SessionOf(q)
          BY <4>3, <5>2 DEF IsRunOf
        <5>3. QED
          BY <4>2, <5>1, <5>2
      <4>6. ASSUME NEW a \in Attachments PROVE Attached(a)'
        <5>1. CASE attachments'[a] = attachments[a]
          BY <1>2, <5>1
        <5>2. CASE attachments' # attachments /\ a \in work[q].message.attached
          <6>1. attachments[a].session = SessionOf(q)
            BY <4>2, <5>2 DEF Linkable
          <6>2. /\ attachments'[a].run = q /\ attachments'[a].index = q
                /\ attachments'[a].session = SessionOf(q)
            BY <4>2, <5>2, <6>1, LinkedFacts
          <6>3. QED
            BY <4>3, <6>2 DEF Attached, IsRunOf
        <5>3. QED
          BY <4>2, <5>1, <5>2, LinkedFacts
      <4>7. QED
        BY <4>4, <4>5, <4>6 DEF Listings
    <3>4. QED
      BY <3>2, <3>3
  <2>3. CASE RootFails(q)
    <3>1. work'[q].at \notin Agent /\ UNCHANGED <<sessions, attachments>>
      BY <2>3, RootFailsFacts DEF RootFails, Agent
    <3>2. QED
      BY <1>2, <1>3, <1>6, <1>8, <3>1 DEF Listings
  <2>4. CASE FinalAnswer(q)
    <3>1. /\ work[q].at \in Agent /\ work'[q].at \notin Agent /\ UNCHANGED attachments
          /\ \A s \in SessionIds : \/ sessions'[s] = sessions[s]
                                   \/ s = SessionOf(q) /\ sessions'[s].coords = work[q].snapshot.coords
      BY <2>4, AnswerFacts DEF Agent
    <3>2. work[q].snapshot.coords \subseteq Requests
          /\ \A r \in work[q].snapshot.coords : IsRunOf(r, SessionOf(q))
      BY <1>0, <3>1 DEF ListedInSnapshots, Work, Session
    <3>3. ListedInSessions'
      <4> SUFFICES ASSUME NEW s \in SessionIds, NEW r \in sessions'[s].coords PROVE IsRunOf(r, s)'
        BY DEF ListedInSessions
      <4>1. r \in Requests /\ IsRunOf(r, s)
        BY <1>0, <3>1, <3>2 DEF ListedInSessions, Session
      <4>2. QED
        BY <1>1, <4>1
    <3>4. QED
      BY <1>2, <1>6, <1>8, <3>1, <3>3 DEF Listings
  <2>5. QED
    BY <1>8, <2>1, <2>2, <2>3, <2>4 DEF Turns
<1>9. CASE GoesOn
  <2>1. \A r \in Requests : work'[r].at \in Agent =>
           /\ work[r].at \in Agent /\ work'[r].snapshot = work[r].snapshot
           /\ work'[r].message = work[r].message
    BY <1>9 DEF GoesOn, Keeps, Agent
  <2>2. ListedInSnapshots'
    BY <1>4, <2>1 DEF ListedInSnapshots
  <2>3. QED
    BY <1>2, <1>3, <1>9, <2>2 DEF Listings, GoesOn
<1>10. CASE Uploading
  <2>1. UNCHANGED <<work, rows, sessions>>
    BY <1>10 DEF Uploading
  <2>2. ListedInSnapshots'
    BY <1>4, <2>1 DEF ListedInSnapshots
  <2>3. QED
    BY <1>3, <1>10, <2>1, <2>2, UploadingAttached DEF Listings
<1>11. QED
  BY <1>8, <1>9, <1>10, Courses DEF Course

\* However uploads, completions, lost rows and deaths interleave, an attachment that
\* is kept and its text index name one run, a completed one of the attachment's own
\* session: what lists a run lists a completed one, and uploads choose from the list.
THEOREM AttachmentsAgreeAlways == Spec => []AttachmentsAgree
<1>1. Init => Typed /\ Runs /\ Listings
  <2>1. Init => Listings
    BY DEF Init, Listings, ListedInSessions, ListedInSnapshots, Attached, NoSession, Agent
  <2>2. QED
    BY <2>1, InitTyped, InitRuns
<1>2. Typed /\ Runs /\ Listings /\ [Next]_vars => (Typed /\ Runs /\ Listings)'
  BY NextShape, RunsStay, ListingsStay
<1>3. Listings => AttachmentsAgree
  BY DEF Listings, Attached, AttachmentsAgree, IsRunOf
<1>4. QED
  BY <1>1, <1>2, <1>3, PTL DEF Spec

-----------------------------------------------------------------------------
(* What is written comes from what was read *)

LEMMA MetStays ==
    ASSUME Typed, Met, [Next]_vars
    PROVE  Met'
<1>1. ASSUME NEW q \in Requests, NEW m \in Messages, RunCoordinator(q, m) PROVE Met'
  <2>1. /\ \A r \in Requests \ {q} : work'[r] = work[r]
        /\ overlaps' = overlaps \cup {{q, r} : r \in RunningIn(SessionOf(q)')}
    BY <1>1, StartFacts
  <2>2. \A r \in Requests \ {q} : SessionOf(r)' = SessionOf(r)
    BY <2>1 DEF SessionOf
  <2>3. ASSUME NEW r \in Requests \ {q}, work'[r].at \in Running, SessionOf(r)' = SessionOf(q)'
        PROVE  {q, r} \in overlaps'
    BY <2>1, <2>2, <2>3 DEF RunningIn
  <2>4. ASSUME NEW a \in Requests, NEW b \in Requests, a # b,
               work'[a].at \in Running, work'[b].at \in Running, SessionOf(a)' = SessionOf(b)'
        PROVE  {a, b} \in overlaps'
    <3>1. CASE a = q
      BY <2>3, <2>4, <3>1
    <3>2. CASE b = q
      <4>1. {b, a} \in overlaps'
        BY <2>3, <2>4, <3>2
      <4>2. {a, b} = {b, a}
        OBVIOUS
      <4>3. QED
        BY <4>1, <4>2
    <3>3. CASE a # q /\ b # q
      BY <2>1, <2>2, <2>4, <3>3 DEF Met
    <3>4. QED
      BY <3>1, <3>2, <3>3
  <2>5. QED
    BY <2>4 DEF Met
<1>2. ASSUME \A r \in Requests : /\ work'[r].at \in Running => work[r].at \in Running
                                 /\ work'[r].message = work[r].message,
             UNCHANGED overlaps
      PROVE  Met'
  BY <1>2 DEF Met, SessionOf
<1>3. ASSUME NEW q \in Requests, \A r \in Requests \ {q} : work'[r] = work[r],
             work[q].at \in Running, work'[q].message = work[q].message, UNCHANGED overlaps
      PROVE  Met'
  BY <1>2, <1>3
<1>4. ASSUME NEW q \in Requests, NEW some, PartEnds(q, some), NextPart(q, some), UNCHANGED overlaps
      PROVE  Met'
  <2>1. some \in [Nodes -> Row] /\ work[q].at \in Running
    BY <1>4, EndsFacts DEF PartEnds
  <2>2. CASE work[q].part < Len(work[q].message.subs)
    <3>1. Spawned(q, some, work[q].part + 1)
      BY <1>4, <2>2 DEF NextPart
    <3>2. /\ \A r \in Requests \ {q} : work'[r] = work[r]
          /\ work'[q].message = work[q].message
      BY <2>1, <2>2, <3>1, SpawnFacts
    <3>3. QED
      BY <1>3, <1>4, <2>1, <3>2
  <2>3. CASE ~(work[q].part < Len(work[q].message.subs))
    <3>1. Completed(q, some)
      BY <1>4, <2>3 DEF NextPart
    <3>2. QED
      BY <1>3, <1>4, <2>1, <3>1, CompleteFacts
  <2>4. QED
    BY <2>2, <2>3
<1>5. ASSUME NEW q \in Requests, RootFails(q) \/ FinalAnswer(q) PROVE Met'
  <2>1. /\ \A r \in Requests \ {q} : work'[r] = work[r]
        /\ work[q].at \in Running /\ work'[q].message = work[q].message /\ UNCHANGED overlaps
    BY <1>5, RootFailsFacts, AnswerFacts DEF RootFails, Running
  <2>2. QED
    BY <1>3, <2>1
<1>6. CASE GoesOn
  BY <1>2, <1>6 DEF GoesOn, Keeps, Agent, Running
<1>7. CASE Uploading
  BY <1>2, <1>7 DEF Uploading
<1>8. QED
  BY <1>1, <1>4, <1>5, <1>6, <1>7, Courses DEF Course, Turns

\* A session lists what another one does.
Covers(session, other) ==
    /\ other.coords \subseteq session.coords
    /\ \A n \in Nodes : Among(n, other.agents) => Among(n, session.agents)

\* It was made from session s, or from what a run of the session had read.
MadeFrom(session, s) ==
    \/ Covers(session, sessions[s])
    \/ \E r \in Requests : work[r].at \in Agent /\ SessionOf(r) = s /\ Covers(session, work[r].snapshot)

LEMMA AmongAppend ==
    ASSUME NEW list \in Seq(Nodes), NEW n \in Nodes
    PROVE  /\ Among(n, Append(list, n))
           /\ \A m : Among(m, list) => Among(m, Append(list, n))
<1>1. Append(list, n) \in Seq(Nodes) /\ Len(list) + 1 \in DOMAIN Append(list, n)
      /\ Append(list, n)[Len(list) + 1] = n
  OBVIOUS
<1>2. \A i \in DOMAIN list : i \in DOMAIN Append(list, n) /\ Append(list, n)[i] = list[i]
  OBVIOUS
<1>3. QED
  BY <1>1, <1>2 DEF Among

LEMMA Written ==
    ASSUME Typed, [Next]_vars
    PROVE  /\ \A s \in SessionIds : MadeFrom(sessions'[s], s)
           /\ \A r \in Requests : work'[r].at \in Agent => MadeFrom(work'[r].snapshot, SessionOf(r)')
<1>1. ASSUME NEW session, NEW other, session.agents = other.agents,
             other.coords \subseteq session.coords
      PROVE  Covers(session, other)
  BY <1>1 DEF Covers
<1>2. ASSUME NEW r \in Requests, work[r].at \in Agent, work'[r].snapshot = work[r].snapshot,
             work'[r].message = work[r].message
      PROVE  MadeFrom(work'[r].snapshot, SessionOf(r)')
  <2>1. SessionOf(r)' = SessionOf(r)
    BY <1>2 DEF SessionOf
  <2>2. Covers(work'[r].snapshot, work[r].snapshot)
    BY <1>2 DEF Covers
  <2>3. QED
    BY <1>2, <2>1, <2>2 DEF MadeFrom
<1>3. ASSUME NEW q \in Requests, \A r \in Requests \ {q} : work'[r] = work[r],
             work'[q].at \in Agent => MadeFrom(work'[q].snapshot, SessionOf(q)')
      PROVE  \A r \in Requests : work'[r].at \in Agent => MadeFrom(work'[r].snapshot, SessionOf(r)')
  BY <1>2, <1>3
<1>4. ASSUME NEW q \in Requests,
             work'[q].snapshot.agents = sessions[SessionOf(q)'].agents,
             work'[q].snapshot.coords = sessions[SessionOf(q)'].coords
      PROVE  MadeFrom(work'[q].snapshot, SessionOf(q)')
  BY <1>4 DEF MadeFrom, Covers
<1>5. ASSUME \A s \in SessionIds : /\ sessions'[s].agents = sessions[s].agents
                                   /\ sessions[s].coords \subseteq sessions'[s].coords
      PROVE  \A s \in SessionIds : MadeFrom(sessions'[s], s)
  BY <1>1, <1>5 DEF MadeFrom
<1> DEFINE Goal == /\ \A s \in SessionIds : MadeFrom(sessions'[s], s)
                   /\ \A r \in Requests : work'[r].at \in Agent =>
                         MadeFrom(work'[r].snapshot, SessionOf(r)')
<1>6. ASSUME NEW q \in Requests, NEW m \in Messages, RunCoordinator(q, m) PROVE Goal
  <2>1. /\ \A r \in Requests \ {q} : work'[r] = work[r]
        /\ UNCHANGED sessions
        /\ work'[q].snapshot.agents = sessions[SessionOf(q)'].agents
        /\ work'[q].snapshot.coords = sessions[SessionOf(q)'].coords
    BY <1>6, StartFacts
  <2>2. QED
    BY <1>3, <1>4, <1>5, <2>1
<1>7. ASSUME NEW q \in Requests, NEW some, PartEnds(q, some), NextPart(q, some) PROVE Goal
  <2>1. some \in [Nodes -> Row]
    BY <1>7, EndsFacts
  <2>2. CASE work[q].part < Len(work[q].message.subs)
    <3>1. Spawned(q, some, work[q].part + 1)
      BY <1>7, <2>2 DEF NextPart
    <3>2. /\ \A r \in Requests \ {q} : work'[r] = work[r]
          /\ work'[q].message = work[q].message /\ UNCHANGED sessions
          /\ work'[q].snapshot.agents = sessions[SessionOf(q)].agents
          /\ work'[q].snapshot.coords = sessions[SessionOf(q)].coords
      BY <2>1, <2>2, <3>1, SpawnFacts
    <3>3. SessionOf(q)' = SessionOf(q)
      BY <3>2 DEF SessionOf
    <3>4. QED
      BY <1>3, <1>4, <1>5, <3>2, <3>3
  <2>3. CASE ~(work[q].part < Len(work[q].message.subs))
    <3>1. Completed(q, some)
      BY <1>7, <2>3 DEF NextPart
    <3>2. /\ \A r \in Requests \ {q} : work'[r] = work[r]
          /\ work'[q].at \in {"done", "failed", "artifacts"}
          /\ \A s \in SessionIds : sessions'[s].agents = sessions[s].agents
          /\ \A s \in SessionIds : sessions'[s].coords =
                IF s = SessionOf(q) /\ work[q].message.web THEN sessions[s].coords \cup {q}
                ELSE sessions[s].coords
      BY <2>1, <3>1, CompleteFacts
    <3>3. QED
      BY <1>3, <1>5, <3>2 DEF Agent
  <2>4. QED
    BY <2>2, <2>3
<1>8. ASSUME NEW q \in Requests, RootFails(q) PROVE Goal
  BY <1>3, <1>5, <1>8, RootFailsFacts DEF RootFails, Agent
<1>9. ASSUME NEW q \in Requests, FinalAnswer(q) PROVE Goal
  <2>1. /\ \A r \in Requests \ {q} : work'[r] = work[r]
        /\ work[q].at = "adapter" /\ work'[q].at = "remember"
        /\ \A s \in SessionIds :
              /\ s # SessionOf(q) => sessions'[s] = sessions[s]
              /\ s = SessionOf(q) => /\ sessions'[s].agents = Append(work[q].snapshot.agents, Node(q))
                                     /\ sessions'[s].coords = work[q].snapshot.coords
    BY <1>9, AnswerFacts
  <2>2. work[q].snapshot.agents \in Seq(Nodes) /\ Node(q) \in Nodes
    BY Places DEF Typed, Work, Session
  <2>3. SessionOf(q) \in SessionIds
    BY Places DEF Typed
  <2>4. Covers(sessions'[SessionOf(q)], work[q].snapshot)
    BY <2>1, <2>2, <2>3, AmongAppend DEF Covers
  <2>5. MadeFrom(sessions'[SessionOf(q)], SessionOf(q))
    BY <2>1, <2>4 DEF MadeFrom, Agent
  <2>6. \A s \in SessionIds \ {SessionOf(q)} : MadeFrom(sessions'[s], s)
    BY <1>1, <2>1 DEF MadeFrom
  <2>7. QED
    BY <1>3, <2>1, <2>5, <2>6 DEF Agent
<1>10. ASSUME GoesOn PROVE Goal
  <2>1. UNCHANGED sessions
    BY <1>10 DEF GoesOn
  <2>2. \A r \in Requests : work'[r].at \in Agent =>
           /\ work[r].at \in Agent /\ work'[r].snapshot = work[r].snapshot
           /\ work'[r].message = work[r].message
    BY <1>10 DEF GoesOn, Keeps, Agent
  <2>3. QED
    BY <1>2, <1>5, <2>1, <2>2
<1>11. ASSUME Uploading PROVE Goal
  BY <1>2, <1>5, <1>11 DEF Uploading
<1> HIDE DEF Goal
<1>12. ASSUME NEW q \in Requests, Turns(q) PROVE Goal
  BY <1>6, <1>7, <1>8, <1>9, <1>12 DEF Turns
<1>13. Goal
  BY <1>10, <1>11, <1>12, Courses DEF Course
<1>14. QED
  BY <1>13 DEF Goal

-----------------------------------------------------------------------------
(* A request that ran alone is listed *)

\* The step adds nothing to what a session has to list of the request.
AsBefore(q) ==
    /\ work[q].at = "idle" => work'[q].at = "idle"
    /\ work'[q].message = work[q].message
    /\ rows'[Root(q)].status = "completed" => rows[Root(q)].status = "completed"
    /\ \A p \in Parts : Answered(q, p)' => Answered(q, p)

\* What was listed of a request that ran alone, is.
LEMMA HoldsStay ==
    ASSUME Typed, NEW q \in Requests, Alone(q), Entries, NEW session,
           MadeFrom(session, SessionOf(q))
    PROVE  Holds(session, q)
<1>1. \A p \in Parts : <<q, p>> \in Nodes
  BY NodeFacts
<1>2. ASSUME NEW other, Covers(session, other), Holds(other, q) PROVE Holds(session, q)
  BY <1>1, <1>2 DEF Covers, Holds
<1>3. Holds(sessions[SessionOf(q)], q)
      /\ \A r \in Requests : work[r].at \in Agent /\ SessionOf(r) = SessionOf(q) => Holds(work[r].snapshot, q)
  BY DEF Entries
<1>4. QED
  BY <1>2, <1>3 DEF MadeFrom

\* No other request is at work in its session.
LEMMA AloneAtWork ==
    ASSUME NEW q \in Requests, Alone(q), Met, work[q].at \in Running,
           NEW r \in Requests \ {q}, SessionOf(r) = SessionOf(q)
    PROVE  work[r].at \notin Running
<1>1. \A pair \in overlaps : q \notin pair
  BY DEF Alone
<1>2. {q, r} \notin overlaps
  BY <1>1
<1>3. QED
  BY <1>2 DEF Met

LEMMA EndsAnswered ==
    ASSUME Typed, NEW q \in Requests, Run(q), NEW some, PartEnds(q, some), NEW p \in Parts
    PROVE  /\ p # 0 /\ some[<<q, p>>].status = "completed" => Answered(q, p)
           /\ Answered(q, 0)
<1>1. work[q].part \in Parts /\ work[q].part \in Nat
  BY Places, OrchestrationAssumption DEF Typed, Work, Parts
<1>2. <<q, p>> \in Nodes /\ (<<q, p>> = Node(q) <=> p = work[q].part)
  BY NodeFacts
<1>3. Answered(q, 0)
  BY <1>1 DEF PartEnds, Answered
<1>4. ASSUME p # 0, some[<<q, p>>].status = "completed" PROVE Answered(q, p)
  <2>1. CASE p = work[q].part
    BY <1>2, <1>4, <2>1, EndsFacts DEF Answered
  <2>2. CASE p # work[q].part
    BY <1>2, <1>4, <2>2, EndsFacts DEF Answered
  <2>3. QED
    BY <2>1, <2>2
<1>5. QED
  BY <1>3, <1>4

LEMMA SpawnAsBefore ==
    ASSUME Typed, NEW q \in Requests, Run(q), NEW some, PartEnds(q, some),
           work[q].part < Len(work[q].message.subs), Spawned(q, some, work[q].part + 1)
    PROVE  AsBefore(q)
<1> DEFINE next == work[q].part + 1
<1>1. /\ some \in [Nodes -> Row] /\ work[q].at \in Running /\ work[q].at # "idle"
      /\ some[Root(q)].status = "running"
  <2>1. rows[Root(q)].status = "running" /\ Root(q) \in Nodes /\ (work[q].part # 0 => Root(q) # Node(q))
    BY NodeFacts, OrchestrationAssumption DEF PartEnds, Run, Root, Node, Nodes, Parts
  <2>2. QED
    BY <2>1, EndsFacts DEF PartEnds, Running
<1>2. /\ next \in Parts /\ next # 0
      /\ work'[q].at = "query" /\ work'[q].part = next /\ work'[q].message = work[q].message
      /\ rows'[Root(q)].status = some[Root(q)].status
      /\ rows'[<<q, next>>].status = "running"
      /\ \A n \in Nodes \ {Root(q), <<q, next>>} : rows'[n] = some[n]
  BY <1>1, SpawnFacts
<1> HIDE DEF next
<1>3. ASSUME NEW p \in Parts, Answered(q, p)' PROVE Answered(q, p)
  <2>1. CASE p = 0
    BY <2>1, EndsAnswered
  <2>2. CASE p # 0
    <3>1. rows'[<<q, p>>].status = "completed"
      BY <1>2, <1>3, <2>2 DEF Answered
    <3>2. <<q, p>> \in Nodes /\ <<q, p>> # Root(q) /\ p # next
      BY <1>2, <2>2, <3>1, NodeFacts
    <3>3. some[<<q, p>>].status = "completed"
      BY <1>2, <3>1, <3>2
    <3>4. QED
      BY <2>2, <3>3, EndsAnswered
  <2>3. QED
    BY <2>1, <2>2
<1>4. QED
  BY <1>1, <1>2, <1>3 DEF AsBefore

LEMMA FailsAsBefore ==
    ASSUME Typed, NEW q \in Requests, RootFails(q)
    PROVE  AsBefore(q)
<1>1. /\ work'[q].at = "failed" /\ work'[q].message = work[q].message
      /\ rows'[Root(q)].status = "failed" /\ \A n \in Nodes \ {Root(q)} : rows'[n] = rows[n]
      /\ work[q].at # "idle"
  BY RootFailsFacts DEF RootFails, Running
<1>2. ASSUME NEW p \in Parts, Answered(q, p)' PROVE Answered(q, p)
  <2>1. rows'[<<q, p>>].status = "completed"
    BY <1>1, <1>2 DEF Answered, Running
  <2>2. <<q, p>> \in Nodes /\ <<q, p>> # Root(q)
    BY <1>1, <2>1, NodeFacts
  <2>3. QED
    BY <1>1, <2>1, <2>2 DEF Answered
<1>3. QED
  BY <1>1, <1>2 DEF AsBefore

LEMMA OthersAsBefore ==
    ASSUME NEW q \in Requests, work'[q].part = work[q].part, work'[q].message = work[q].message,
           \/ work'[q].at = work[q].at
           \/ work[q].at # "idle" /\ work'[q].at # "remember"
              /\ (work'[q].at \in Running => work[q].at \in Running),
           \A p \in Parts : rows'[<<q, p>>] = rows[<<q, p>>]
    PROVE  AsBefore(q)
BY OrchestrationAssumption DEF AsBefore, Answered, Root, Parts

\* The session lists the coordinator's run that has completed.
LEMMA CompleteHolds ==
    ASSUME Typed, Entries, NEW q \in Requests, Alone(q), Run(q), NEW some, PartEnds(q, some),
           Completed(q, some)
    PROVE  Holds(sessions[SessionOf(q)], q)'
<1>1. some \in [Nodes -> Row] /\ work[q].at \in Running /\ SessionOf(q) \in SessionIds
  BY EndsFacts, Places DEF PartEnds, Typed
<1>2. /\ work'[q].at \in {"done", "failed", "artifacts"}
      /\ work'[q].message = work[q].message
      /\ \A n \in Nodes \ {Root(q)} : rows'[n] = some[n]
      /\ sessions'[SessionOf(q)].agents = sessions[SessionOf(q)].agents
      /\ work[q].message.web => q \in sessions'[SessionOf(q)].coords
  BY <1>1, CompleteFacts
<1>3. SessionOf(q)' = SessionOf(q)
  BY <1>2 DEF SessionOf
<1>4. ASSUME NEW p \in Parts, Answered(q, p)' PROVE Answered(q, p)
  <2>1. rows'[<<q, p>>].status = "completed"
    BY <1>2, <1>4 DEF Answered, Running
  <2>2. CASE p = 0
    BY <2>2, EndsAnswered
  <2>3. CASE p # 0
    <3>1. some[<<q, p>>].status = "completed"
      BY <1>2, <2>1, <2>3, NodeFacts
    <3>2. QED
      BY <2>3, <3>1, EndsAnswered
  <2>4. QED
    BY <2>2, <2>3
<1>5. \A p \in Parts : Answered(q, p) => Among(<<q, p>>, sessions[SessionOf(q)].agents)
  BY DEF Entries, Holds
<1>6. \A p \in Parts : Answered(q, p)' => Among(<<q, p>>, sessions'[SessionOf(q)].agents)
  BY <1>2, <1>4, <1>5
<1>7. QED
  BY <1>2, <1>3, <1>6 DEF Holds

\* The session lists the part that has been answered.
LEMMA AnswerHolds ==
    ASSUME Typed, Entries, NEW q \in Requests, Alone(q), Run(q), FinalAnswer(q)
    PROVE  Holds(sessions[SessionOf(q)], q)'
<1>1. /\ work[q].at = "adapter" /\ work'[q].at = "remember" /\ work'[q].part = work[q].part
      /\ work'[q].message = work[q].message
      /\ sessions'[SessionOf(q)].agents = Append(work[q].snapshot.agents, Node(q))
      /\ UNCHANGED rows
  BY AnswerFacts, Places DEF Typed
<1>2. SessionOf(q)' = SessionOf(q)
  BY <1>1 DEF SessionOf
<1>3. work[q].snapshot.agents \in Seq(Nodes) /\ Node(q) \in Nodes
  BY Places DEF Typed, Work, Session
<1>4. \A p \in Parts : Answered(q, p) => Among(<<q, p>>, work[q].snapshot.agents)
  BY <1>1 DEF Entries, Holds, Agent
<1>5. ASSUME NEW p \in Parts, Answered(q, p)'
      PROVE  Among(<<q, p>>, sessions'[SessionOf(q)].agents)
  <2>1. Answered(q, p) \/ <<q, p>> = Node(q)
    BY <1>1, <1>5 DEF Answered, Running, Node
  <2>2. QED
    BY <1>1, <1>3, <1>4, <2>1, AmongAppend
<1>6. rows'[Root(q)].status # "completed"
  BY <1>1 DEF Run, Running
<1>7. QED
  BY <1>2, <1>5, <1>6 DEF Holds

\* A request that starts has nothing to be listed yet.
LEMMA StartHolds ==
    ASSUME Typed, NEW q \in Requests, Run(q), NEW m \in Messages, RunCoordinator(q, m)
    PROVE  \A session : Holds(session, q)'
<1>1. /\ work[q].at = "idle" /\ work'[q].at = "query" /\ work'[q].part = 0
      /\ rows'[Root(q)].status = "running" /\ \A n \in Nodes \ {Root(q)} : rows'[n] = rows[n]
  BY StartFacts
<1>2. \A p \in Parts : rows'[<<q, p>>].status # "completed"
  BY <1>1, NodeFacts DEF Run
<1>3. \A p \in Parts : ~Answered(q, p)'
  BY <1>1, <1>2 DEF Answered
<1>4. QED
  BY <1>1, <1>3 DEF Holds

\* What a turn is to the request that takes it.
LEMMA TurnCases ==
    ASSUME Typed, NEW q \in Requests, Run(q), Turns(q)
    PROVE  \/ \E m \in Messages : RunCoordinator(q, m)
           \/ AsBefore(q)
           \/ \E some : PartEnds(q, some) /\ Completed(q, some)
           \/ FinalAnswer(q)
<1>1. ASSUME NEW some, PartEnds(q, some), NextPart(q, some)
      PROVE  AsBefore(q) \/ Completed(q, some)
  BY <1>1, SpawnAsBefore DEF NextPart
<1>2. QED
  BY <1>1, FailsAsBefore DEF Turns

\* The requests whose run goes on, and those that rest.
LEMMA RestCases ==
    ASSUME Typed, NEW q \in Requests, [Next]_vars, ~Turns(q)
    PROVE  AsBefore(q)
<1>1. ASSUME NEW r \in Requests, Turns(r) PROVE AsBefore(q)
  <2>1. work'[q] = work[q] /\ \A p \in Parts : rows'[<<q, p>>] = rows[<<q, p>>]
    BY <1>1, TurnsOnly DEF Only
  <2>2. QED
    BY <2>1, OthersAsBefore
<1>2. CASE GoesOn
  <2>1. /\ work'[q].part = work[q].part /\ work'[q].message = work[q].message
        /\ \/ work'[q].at = work[q].at
           \/ work[q].at # "idle" /\ work'[q].at # "remember"
              /\ (work'[q].at \in Running => work[q].at \in Running)
        /\ rows' = rows
    BY <1>2 DEF GoesOn, Keeps, Agent, Running
  <2>2. QED
    BY <2>1, OthersAsBefore
<1>3. CASE Uploading
  BY <1>3, OthersAsBefore DEF Uploading
<1>4. QED
  BY <1>1, <1>2, <1>3, Courses DEF Course

LEMMA OverlapsGrow ==
    ASSUME Typed, [Next]_vars
    PROVE  overlaps \subseteq overlaps'
<1>1. ASSUME NEW q \in Requests, Turns(q) PROVE overlaps \subseteq overlaps'
  BY <1>1, StartFacts, AnswerFacts DEF Turns, RootFails
<1>2. QED
  BY <1>1, Courses DEF Course, GoesOn, Uploading

LEMMA EntriesStay ==
    ASSUME Typed, Runs, Met, Entries, [Next]_vars
    PROVE  Entries'
<1> DEFINE Entry(q) ==
        /\ Holds(sessions[SessionOf(q)], q)
        /\ \A r \in Requests : work[r].at \in Agent /\ SessionOf(r) = SessionOf(q) =>
              Holds(work[r].snapshot, q)
<1> SUFFICES ASSUME NEW q \in Requests, Alone(q)' PROVE Entry(q)'
  BY DEF Entries
<1>0. Run(q) /\ SessionOf(q) \in SessionIds
  BY Places DEF Runs, Typed
<1>1. work[q].at # "idle" => Alone(q)
  BY OverlapsGrow DEF Alone
<1>2. ASSUME AsBefore(q) PROVE Entry(q)'
  <2>1. Alone(q) /\ SessionOf(q)' = SessionOf(q)
    BY <1>1, <1>2 DEF AsBefore, Alone, SessionOf
  <2>2. ASSUME NEW session, Holds(session, q) PROVE Holds(session, q)'
    BY <1>2, <2>2 DEF AsBefore, Holds
  <2>3. Holds(sessions[SessionOf(q)], q)'
    <3>1. Holds(sessions'[SessionOf(q)], q)
      BY <1>0, <2>1, Written, HoldsStay
    <3>2. QED
      BY <2>1, <2>2, <3>1 DEF Holds
  <2>4. ASSUME NEW r \in Requests, work'[r].at \in Agent, SessionOf(r)' = SessionOf(q)'
        PROVE  Holds(work[r].snapshot, q)'
    <3>1. Holds(work'[r].snapshot, q)
      BY <2>1, <2>4, Written, HoldsStay
    <3>2. QED
      BY <2>2, <3>1 DEF Holds
  <2>5. QED
    BY <2>3, <2>4
<1>3. ASSUME NEW m \in Messages, RunCoordinator(q, m) PROVE Entry(q)'
  <2>1. \A session : Holds(session, q)'
    BY <1>0, <1>3, StartHolds
  <2>2. QED
    BY <2>1 DEF Holds
<1>4. ASSUME work[q].at \in Running, Turns(q), work'[q].at \notin Agent,
             work'[q].message = work[q].message, Holds(sessions[SessionOf(q)], q)'
      PROVE  Entry(q)'
  <2>1. Alone(q) /\ SessionOf(q)' = SessionOf(q)
    BY <1>1, <1>4 DEF Running, SessionOf
  <2>2. ASSUME NEW r \in Requests, work'[r].at \in Agent, SessionOf(r)' = SessionOf(q)'
        PROVE  FALSE
    <3>1. r # q /\ work'[r] = work[r]
      BY <1>4, <2>2, TurnsOnly DEF Only
    <3>2. SessionOf(r) = SessionOf(q) /\ work[r].at \in Running
      BY <2>1, <2>2, <3>1 DEF SessionOf, Agent, Running
    <3>3. QED
      BY <1>4, <2>1, <3>1, <3>2, AloneAtWork
  <2>3. QED
    BY <1>4, <2>2
<1>5. ASSUME NEW some, PartEnds(q, some), Completed(q, some), Turns(q) PROVE Entry(q)'
  <2>1. work[q].at \in Running /\ Alone(q) /\ some \in [Nodes -> Row]
    BY <1>1, <1>5, EndsFacts DEF PartEnds, Running
  <2>2. work'[q].at \notin Agent /\ work'[q].message = work[q].message
    BY <1>5, <2>1, CompleteFacts DEF Agent
  <2>3. Holds(sessions[SessionOf(q)], q)'
    BY <1>0, <1>5, <2>1, CompleteHolds
  <2>4. QED
    BY <1>4, <1>5, <2>1, <2>2, <2>3
<1>6. ASSUME FinalAnswer(q), Turns(q) PROVE Entry(q)'
  <2>1. /\ work[q].at \in Running /\ Alone(q)
        /\ work'[q].at \notin Agent /\ work'[q].message = work[q].message
    BY <1>1, <1>6, AnswerFacts DEF Running, Agent
  <2>2. Holds(sessions[SessionOf(q)], q)'
    BY <1>0, <1>6, <2>1, AnswerHolds
  <2>3. QED
    BY <1>4, <1>6, <2>1, <2>2
<1> HIDE DEF Entry
<1>7. CASE Turns(q)
  BY <1>0, <1>2, <1>3, <1>5, <1>6, <1>7, TurnCases
<1>8. CASE ~Turns(q)
  BY <1>2, <1>8, RestCases
<1>9. QED
  BY <1>7, <1>8

\* However agent runs interleave in a session and write back what they had read, one
\* whose request never shared the session is listed for good, and so is its completed
\* coordinator run: whoever wrote the session since had read it after that.
THEOREM LostOnlyToOverlapAlways == Spec => []LostOnlyToOverlap
<1>1. Init => Typed /\ Runs /\ Met /\ Entries
  <2>1. Init => Met /\ Entries
    BY DEF Init, Met, Entries, Alone, Running
  <2>2. QED
    BY <2>1, InitTyped, InitRuns
<1>2. Typed /\ Runs /\ Met /\ Entries /\ [Next]_vars => (Typed /\ Runs /\ Met /\ Entries)'
  BY NextShape, RunsStay, MetStays, EntriesStay
<1>3. Entries => LostOnlyToOverlap
  BY DEF Entries, LostOnlyToOverlap, Alone, Holds, Answered, Among
<1>4. QED
  BY <1>1, <1>2, <1>3, PTL DEF Spec
=============================================================================

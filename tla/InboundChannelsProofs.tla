----------------------- MODULE InboundChannelsProofs -----------------------
(***************************************************************************)
(* Proofs about InboundChannels, for any events, loops and bounds.         *)
(*                                                                         *)
(* What a step does to one event is told by the variables of that event:   *)
(* its row, its handler, its reporter, what was answered.  The invariants  *)
(* are a story of each event, and most steps are a chapter of one.         *)
(***************************************************************************)
EXTENDS InboundChannels, FiniteSetTheorems, SequenceTheorems, TLAPS

\* The handler of an event is under way, or has come to its end.
Handled(e) == task[e].at \notin {"none", "over"}

\* Nothing has been made of an event yet.
Fresh(e) == ~Known(e) /\ mission[e] = "none"

\* How far the handler of an event is, told by its row and by the runs started for it.
Stage(e) ==
    /\ mission[e] = "none"
    /\ task[e].at # "schedule"
    /\ rec[e].status \in {"none", "received"} => task[e].at = "none" /\ runs[e] = 0
    /\ task[e].at \in {"start", "queued"} => rec[e].status = "running" /\ runs[e] = 0
    /\ task[e].at \in {"run", "running"} => rec[e].status = "running" /\ runs[e] = 1
    /\ task[e].at \in {"completed", "answer", "record"} =>
          rec[e].status = "completed" /\ rec[e].out = "text"
    /\ task[e].at = "failed" => rec[e].status = "failed"
    /\ task[e].at = "over" => rec[e].status \in {"completed", "failed"}
    /\ rec[e].status \in {"completed", "failed"} => runs[e] = 1
    /\ runs[e] \in {0, 1}
    /\ task[e].at \in Phase \cup {"record"} => e \in SlackEvents

\* An event that became an assignment is in no row; a Slack event has its
\* acknowledgement to come, or has had it.
MissionStage(e) ==
    /\ rec[e].status = "none" /\ rec[e].responseTs = FALSE
    /\ task[e].at \in {"none", "schedule", "answer", "over"}
    /\ e \in Emails => task[e].at = "none"
    /\ mission[e] = "none" => task[e].at = "none"
    /\ task[e].at \in {"answer", "over"} => mission[e] = "scheduled"

\* Nothing is answered before the handler is at its answer, and the row of an answered
\* event tells the text.
Answering(e) ==
    /\ Fresh(e) \/ task[e].at \notin {"none", "record", "over"} => answers[e] = 0 /\ log[e] = <<>>
    /\ e \notin Missions /\ (answers[e] > 0 \/ rec[e].responseTs) =>
          rec[e].status = "completed" /\ rec[e].out = "text"

\* AnswersAccounted and RecordsTellTheTruth, of one event.
Truthful(e) ==
    /\ answers[e] <= 1 + lost[e]
    /\ Len(log[e]) <= 1
    /\ log[e] = <<"delivered">> => answers[e] >= 1
    /\ log[e] # <<"delivered">> => answers[e] <= lost[e]
    /\ e \in SlackEvents => [on |-> "answer", run |-> FALSE] \notin feedback[e]

Story(e) ==
    /\ IF e \in Missions THEN MissionStage(e) ELSE Stage(e)
    /\ Answering(e)
    /\ Truthful(e)

AnswersInv == \A e \in Async : Story(e)

\* A loop that has a message at hand has accepted it, or passes it over.
PollAccepts(l) ==
    /\ poll[l].at = "schedule" => poll[l].now \in Missions /\ mission[poll[l].now] # "none"
    /\ poll[l].at = "mark" /\ poll[l].now \notin AutoReplies =>
          Known(poll[l].now) \/ mission[poll[l].now] # "none"

PollsAccept == \A l \in Loops : PollAccepts(l)

\* The phase of an event, or its assignment, has somebody to carry it on.
Carried(e) ==
    e \notin died /\ (rec[e].status \in {"received", "running"} \/ mission[e] = "created") =>
        \/ Handled(e)
        \/ \E l \in Loops : poll[l].at = "schedule" /\ poll[l].now = e

MailInv == PollsAccept /\ SeenIsAccepted /\ \A e \in Async : Carried(e)

\* What webhook calls leave in a row, and who carries on what a call began.
HookRow(e) ==
    /\ rec[e].status = "received" => e \in died
    /\ rec[e].status = "failed" => e \in trouble
    /\ rec[e].status = "completed" => rec[e].out # "none"
    /\ rec[e].status = "running" /\ e \notin died =>
          \E d \in 1..MaxDeliveries : call[d].at = "run" /\ call[d].event = e
    /\ mission[e] = "created" /\ e \notin died =>
          \E d \in 1..MaxDeliveries : call[d].at = "schedule" /\ call[d].event = e

\* A call that runs has a row.
CallsKnown ==
    \A d \in 1..MaxDeliveries : call[d].at = "run" => Known(call[d].event)

CallsInv == CallsKnown /\ ConcurrentOnlyAfterFailure /\ \A e \in Hooks : HookRow(e)

-----------------------------------------------------------------------------

\* What a handler may have left to tell Slack.
Todos ==
    {<<>>, <<"post", "add">>, <<"add">>, <<"post">>, <<"update">>, <<"add", "post">>,
     <<"add", "update">>, <<"remove", "add", "post">>, <<"remove", "add", "update">>}

Has(todo, step) == \E i \in 1..Len(todo) : todo[i] = step

\* The reaction the reporter believes in, unless it is being replaced: the other
\* reactions on the message were set or removed by calls that were denied.
Reacting(e) ==
    LET todo == task[e].todo
        shown == slack[e].reactions
        active == reporter[e].active
    IN  /\ todo \in Todos
        /\ todo # <<>> => task[e].at \in Phase
        /\ Fresh(e) \/ e \in Missions \/ task[e].at = "start" => shown = {}
        /\ task[e].at # "none" => Cardinality(shown \ {active}) <= lost[e]
        /\ Has(todo, "add") => active # task[e].at
        /\ Has(todo, "add") /\ ~Has(todo, "remove") => active \notin shown
        /\ Cardinality(shown) <= 1 + lost[e]

\* As long as nothing went wrong, what Slack shows is what the reporter did.
Showing(e) ==
    LET at == task[e].at
        todo == task[e].todo
        shown == slack[e].reactions
        active == reporter[e].active
    IN  /\ Fresh(e) \/ at = "start" => shown = {}
        /\ at \in Phase =>
              /\ Has(todo, "remove") => shown = {active}
              /\ Has(todo, "add") /\ ~Has(todo, "remove") => shown = {}
              /\ ~Has(todo, "add") => active = at /\ shown = {active}
              /\ Has(todo, "post") \/ Has(todo, "update") \/ slack[e].message = at
        /\ at = "run" => active # "none" /\ shown = {active}
        /\ at \in {"answer", "record"} => shown = {"completed"} /\ slack[e].message = "completed"
        /\ at = "over" /\ rec[e].out # "empty" =>
              slack[e].message = rec[e].status /\ shown = {rec[e].status}

Display(e) ==
    /\ Reacting(e)
    /\ e \notin Missions \cup trouble => Showing(e)
    /\ rec[e].progress \in {"completed", "failed"} => rec[e].status = rec[e].progress

ReporterInv == \A e \in SlackEvents : Display(e)

-----------------------------------------------------------------------------
(* What the operators return *)

Steps == {"post", "remove", "add", "update"}

Budget == [deliveries : Nat, reports : Nat, incidents : Nat]

LEMMA TodosAreSequences == Todos \subseteq Seq(Steps)
BY DEF Todos, Steps

LEMMA Concatenations ==
    ASSUME NEW x, NEW y, NEW z
    PROVE  /\ <<>> \o <<>> = <<>>
           /\ <<>> \o <<x>> = <<x>> /\ <<x>> \o <<>> = <<x>>
           /\ <<x>> \o <<y>> = <<x, y>> /\ <<x, y>> \o <<>> = <<x, y>>
           /\ <<x, y>> \o <<z>> = <<x, y, z>>
<1> DEFINE S == {x, y, z}
<1>1. /\ <<>> \in Seq(S) /\ <<x>> \in Seq(S) /\ <<y>> \in Seq(S) /\ <<z>> \in Seq(S)
      /\ <<x, y>> \in Seq(S) /\ <<x, y, z>> \in Seq(S)
  OBVIOUS
<1> HIDE DEF S
<1>2. /\ <<>> \o <<>> = <<>> /\ <<>> \o <<x>> = <<x>>
      /\ <<x>> \o <<>> = <<x>> /\ <<x, y>> \o <<>> = <<x, y>>
  BY <1>1, ConcatEmptySeq
<1>3. <<x>> \o <<y>> = <<x, y>>
  <2>1. /\ <<x>> \o <<y>> \in Seq(S) /\ <<x, y>> \in Seq(S) /\ Len(<<x>> \o <<y>>) = 2 /\ Len(<<x, y>>) = 2
    BY <1>1, ConcatProperties
  <2>2. \A i \in 1..Len(<<x>> \o <<y>>) : (<<x>> \o <<y>>)[i] = <<x, y>>[i]
    <3>1. \A i \in 1..2 : i \in {1, 2}
      OBVIOUS
    <3>2. (<<x>> \o <<y>>)[1] = x /\ (<<x>> \o <<y>>)[2] = y
      BY <1>1, ConcatProperties
    <3>3. QED
      BY <2>1, <3>1, <3>2
  <2>3. QED
    BY <2>1, <2>2, SeqEqual
<1>4. <<x, y>> \o <<z>> = <<x, y, z>>
  <2>1. /\ <<x, y>> \o <<z>> \in Seq(S) /\ <<x, y, z>> \in Seq(S) /\ Len(<<x, y>> \o <<z>>) = 3 /\ Len(<<x, y, z>>) = 3
    BY <1>1, ConcatProperties
  <2>2. \A i \in 1..Len(<<x, y>> \o <<z>>) : (<<x, y>> \o <<z>>)[i] = <<x, y, z>>[i]
    <3>1. \A i \in 1..3 : i \in {1, 2, 3}
      OBVIOUS
    <3>2. (<<x, y>> \o <<z>>)[1] = x /\ (<<x, y>> \o <<z>>)[2] = y /\ (<<x, y>> \o <<z>>)[3] = z
      BY <1>1, ConcatProperties
    <3>3. QED
      BY <2>1, <3>1, <3>2
  <2>3. QED
    BY <2>1, <2>2, SeqEqual
<1>5. QED
  BY <1>2, <1>3, <1>4

LEMMA WorkFacts ==
    ASSUME NEW r \in [posted : BOOLEAN, active : Phase \cup {"none"}], NEW phase \in Phase,
           phase = "queued" => r = NoReporter
    PROVE  /\ Work(r, phase) \in Todos
           /\ Work(r, phase) # <<>>
           /\ Has(Work(r, phase), "remove") <=> r.active \notin {"none", phase}
           /\ Has(Work(r, phase), "add") <=> r.active # phase
           /\ Has(Work(r, phase), "post") \/ Has(Work(r, phase), "update")
<1> DEFINE last == IF r.posted THEN "update" ELSE "post"
<1>1. CASE phase = "queued"
  <2>1. Work(r, phase) = <<"post", "add">>
    <3>1. Work(r, phase) = (<<"post">> \o <<>>) \o <<"add">> \o <<>>
      BY <1>1 DEF Work, NoReporter
    <3>2. QED
      BY <3>1, Concatenations
  <2>2. QED
    BY <1>1, <2>1 DEF Todos, Has, NoReporter
<1>2. CASE phase # "queued" /\ r.active = "none"
  <2>1. Work(r, phase) = <<"add", last>>
    BY <1>2, Concatenations DEF Work, Phase
  <2>2. QED
    BY <1>2, <2>1 DEF Todos, Has, Phase
<1>3. CASE phase # "queued" /\ r.active = phase
  <2>1. Work(r, phase) = <<last>>
    BY <1>3, Concatenations DEF Work, Phase
  <2>2. QED
    BY <1>3, <2>1 DEF Todos, Has, Phase
<1>4. CASE phase # "queued" /\ r.active \notin {"none", phase}
  <2>1. Work(r, phase) = <<"remove", "add", last>>
    <3>1. Work(r, phase) = (<<>> \o <<"remove">>) \o <<"add">> \o <<last>>
      BY <1>4 DEF Work, Phase
    <3>2. Work(r, phase) = <<"remove", "add">> \o <<last>>
      BY <3>1, Concatenations
    <3>3. QED
      BY <3>2, Concatenations
  <2>2. QED
    BY <1>4, <2>1 DEF Todos, Has, Phase
<1>5. QED
  BY <1>1, <1>2, <1>3, <1>4

LEMMA SpendFacts ==
    ASSUME budget \in Budget, NEW field \in {"deliveries", "reports", "incidents"},
           NEW n \in Nat, Spend(field, n)
    PROVE  budget' \in Budget
BY DEF Budget, Spend

LEMMA NewRows == NoRow \in Row /\ Received \in Row /\ Running(Received) \in Row
BY DEF NoRow, Received, Running, Row, Status

LEMMA RowFacts ==
    ASSUME NEW row \in Row, NEW result \in Result, NEW phase \in Phase, NEW posted \in BOOLEAN
    PROVE  /\ Settled(row, result) \in Row
           /\ Progressed(row, phase, posted) \in Row
           /\ [row EXCEPT !.responseTs = TRUE] \in Row
<1>1. Settled(row, result) \in Row
  <2> DEFINE completed == [row EXCEPT !.status = "completed"]
  <2>1. completed \in Row /\ [row EXCEPT !.status = "failed"] \in Row
    BY DEF Row, Status
  <2>2. result # "failed" => Settled(row, result) = [completed EXCEPT !.out = result]
    BY DEF Settled
  <2>3. result = "failed" => Settled(row, result) = [row EXCEPT !.status = "failed"]
    BY DEF Settled
  <2> HIDE DEF completed
  <2>4. QED
    BY <2>1, <2>2, <2>3 DEF Row, Result
<1>2. Progressed(row, phase, posted) \in Row
  <2> DEFINE told == [row EXCEPT !.progress = phase]
  <2>1. told \in Row /\ told.progressTs = row.progressTs
    BY DEF Row
  <2>2. Progressed(row, phase, posted) = [told EXCEPT !.progressTs = row.progressTs \/ posted]
    BY DEF Progressed
  <2> HIDE DEF told
  <2>3. QED
    BY <2>1, <2>2 DEF Row
<1>3. [row EXCEPT !.responseTs = TRUE] \in Row
  BY DEF Row
<1>4. QED
  BY <1>1, <1>2, <1>3

\* The fields of a row that each change leaves as they were.
LEMMA SettledFields ==
    ASSUME NEW row \in Row, NEW result \in Result
    PROVE  /\ Settled(row, result).status = IF result = "failed" THEN "failed" ELSE "completed"
           /\ Settled(row, result).out = IF result = "failed" THEN row.out ELSE result
           /\ Settled(row, result).progress = row.progress
           /\ Settled(row, result).responseTs = row.responseTs
<1>1. row = [status |-> row.status, out |-> row.out, progress |-> row.progress,
             progressTs |-> row.progressTs, responseTs |-> row.responseTs]
  BY DEF Row
<1>2. QED
  BY <1>1 DEF Settled, Row, Result

LEMMA ProgressedFields ==
    ASSUME NEW row \in Row, NEW phase \in Phase, NEW posted \in BOOLEAN
    PROVE  /\ Progressed(row, phase, posted).status = row.status
           /\ Progressed(row, phase, posted).out = row.out
           /\ Progressed(row, phase, posted).progress = phase
           /\ Progressed(row, phase, posted).responseTs = row.responseTs
<1>1. row = [status |-> row.status, out |-> row.out, progress |-> row.progress,
             progressTs |-> row.progressTs, responseTs |-> row.responseTs]
  BY DEF Row
<1>2. QED
  BY <1>1 DEF Progressed, Row

-----------------------------------------------------------------------------
(* Types *)

Reporters == [posted : BOOLEAN, active : Phase \cup {"none"}]

Messages == [reactions : SUBSET Phase, message : Phase \cup {"none"}]

Clients == [client : {"none", "open", "dead", "spent"}, closing : Nat, uids : SUBSET Emails]

\* A webhook request or a poll that is under way has its event at hand.
Callers == \A d \in 1..MaxDeliveries : call[d].at \in {"schedule", "run"} => call[d].event \in Hooks

Mailers == \A l \in Loops : poll[l].at \in {"schedule", "mark"} => poll[l].now \in Emails

Typed == TypeOK /\ Callers /\ Mailers

\* The part of it that the poller changes.
Polling ==
    /\ poll \in [Loops -> Loop]
    /\ poller \in [running : BOOLEAN, timer : Loops]
    /\ Mailers

\* Two reporters that agree on both fields are one.
LEMMA PostedReporter ==
    ASSUME NEW r \in Reporters
    PROVE  [r EXCEPT !.posted = TRUE] = [posted |-> TRUE, active |-> r.active]
<1> DEFINE q == [r EXCEPT !.posted = TRUE]
           s == [posted |-> TRUE, active |-> r.active]
<1>1. q \in Reporters /\ q.posted = TRUE /\ q.active = r.active
  BY DEF Reporters
<1>2. s \in Reporters /\ s.posted = TRUE /\ s.active = r.active
  BY DEF Reporters
<1>3. \A a, b \in Reporters : a.posted = b.posted /\ a.active = b.active => a = b
  BY DEF Reporters
<1> HIDE DEF q, s
<1>4. q = s
  BY <1>1, <1>2, <1>3
<1>5. QED
  BY <1>4 DEF q, s

LEMMA LoopFacts ==
    ASSUME Polling
    PROVE  /\ Off \in Loop /\ Armed \in Loop
           /\ \A l \in Loops : ArmNext(l) => Polling'
           /\ StartPoller => Polling'
           /\ StopPoller => Polling'
<1>1. Off \in Loop /\ Armed \in Loop /\ Off.at = "off" /\ Armed.at = "armed"
  BY DEF Off, Armed, Loop
<1>2. poll \in [Loops -> Loop] /\ poller \in [running : BOOLEAN, timer : Loops] /\ Mailers
  BY DEF Polling
<1>3. ASSUME NEW l \in Loops, ArmNext(l) PROVE Polling'
  BY <1>1, <1>2, <1>3 DEF ArmNext, Polling, Mailers
<1>4. ASSUME StartPoller PROVE Polling'
  <2>1. CASE poller.running
    BY <1>2, <1>4, <2>1 DEF StartPoller, Polling, Mailers
  <2>2. CASE ~poller.running
    <3>1. PICK l \in Loops : /\ poller' = [running |-> TRUE, timer |-> l]
                            /\ poll' = [poll EXCEPT ![l] = Armed]
      BY <1>4, <2>2 DEF StartPoller
    <3>2. QED
      BY <1>1, <1>2, <3>1 DEF Polling, Mailers
  <2>3. QED
    BY <2>1, <2>2
<1>5. ASSUME StopPoller PROVE Polling'
  BY <1>1, <1>2, <1>5 DEF StopPoller, Polling, Mailers
<1>6. QED
  BY <1>1, <1>3, <1>4, <1>5

\* The IMAP client, whatever becomes of its calls.
LEMMA ClientFacts ==
    ASSUME imap \in Clients, budget \in Budget
    PROVE  /\ NoClient \in Clients
           /\ \A uids \in SUBSET Emails : ImapAnswers(uids) => imap' \in Clients
           /\ \A uids \in SUBSET Emails : ImapFails(uids) => imap' \in Clients /\ budget' \in Budget
           /\ StopPoller => imap' \in Clients
           /\ LoggedOut => imap' \in Clients /\ budget' \in Budget
<1>1. ASSUME NEW uids \in SUBSET Emails, NEW client \in {"none", "open", "dead", "spent"},
             imap' = [imap EXCEPT !.client = client, !.uids = uids]
      PROVE  imap' \in Clients
  <2> DEFINE c == [imap EXCEPT !.client = client]
  <2>1. c \in Clients /\ imap' = [c EXCEPT !.uids = uids]
    BY <1>1 DEF Clients
  <2> HIDE DEF c
  <2>2. QED
    BY <2>1 DEF Clients
<1>2. ASSUME NEW uids \in SUBSET Emails, imap' = [imap EXCEPT !.uids = uids] PROVE imap' \in Clients
  BY <1>2 DEF Clients
<1>3. ASSUME NEW client \in {"none", "open", "dead", "spent"}, NEW n \in Nat
      PROVE  /\ [imap EXCEPT !.client = client, !.closing = n] \in Clients
             /\ [client |-> "none", closing |-> n, uids |-> {}] \in Clients
  <2> DEFINE c == [imap EXCEPT !.client = client]
  <2>1. c \in Clients /\ [imap EXCEPT !.client = client, !.closing = n] = [c EXCEPT !.closing = n]
    BY DEF Clients
  <2> HIDE DEF c
  <2>2. [c EXCEPT !.closing = n] \in Clients
    BY <2>1 DEF Clients
  <2>3. QED
    BY <2>1, <2>2 DEF Clients
<1>4. NoClient \in Clients
  BY DEF NoClient, Clients
<1>5. ASSUME NEW uids \in SUBSET Emails, ImapFails(uids) PROVE imap' \in Clients /\ budget' \in Budget
  <2>1. budget' \in Budget
    BY <1>5, SpendFacts DEF ImapFails
  <2>2. \/ imap' = [imap EXCEPT !.uids = uids]
        \/ \E client \in {"open", "dead", "spent"} : imap' = [imap EXCEPT !.client = client, !.uids = uids]
    BY <1>5 DEF ImapFails
  <2>3. QED
    BY <1>1, <1>2, <2>1, <2>2
<1>6. ASSUME StopPoller PROVE imap' \in Clients
  BY <1>6 DEF StopPoller, Clients
<1>7. ASSUME LoggedOut PROVE imap' \in Clients /\ budget' \in Budget
  <2>1. budget' \in Budget
    BY <1>7, SpendFacts DEF LoggedOut
  <2>2. PICK n \in Nat : n = imap.closing - 1
    <3>1. imap.closing > 0 /\ imap.closing \in Nat
      BY <1>7 DEF LoggedOut, Clients
    <3>2. QED
      BY <3>1
  <2>3. PICK client \in {"none", "open", "dead", "spent"} :
          \/ imap' = [client |-> "none", closing |-> n, uids |-> {}]
          \/ imap' = [imap EXCEPT !.client = client, !.closing = n]
    BY <1>7, <2>2 DEF LoggedOut, Clients
  <2>4. QED
    BY <1>3, <2>1, <2>3
<1>8. QED
  BY <1>1, <1>4, <1>5, <1>6, <1>7 DEF ImapAnswers

LEMMA RouteAsyncTyped ==
    ASSUME Typed, NEW e \in Async, RouteAsync(e)
    PROVE  rec' \in [Events -> Row] /\ task' \in [Async -> Task]
<1>1. [at |-> "start", todo |-> <<>>] \in Task
  BY DEF Task
<1>2. rec \in [Events -> Row] /\ task \in [Async -> Task]
  BY DEF Typed, TypeOK
<1>3. CASE Routed(e)
  BY <1>1, <1>2, <1>3, NewRows DEF RouteAsync
<1>4. CASE ~Routed(e)
  BY <1>2, <1>4 DEF RouteAsync
<1>5. QED
  BY <1>3, <1>4

LEMMA TaskFacts ==
    ASSUME Typed, NEW e \in Async
    PROVE  /\ task[e] \in Task
           /\ Idle \in Task
           /\ \A at \in {"run", "answer", "record", "over"} : [task[e] EXCEPT !.at = at] \in Task
           /\ \A at \in {"start", "schedule", "over", "answer"} : [at |-> at, todo |-> <<>>] \in Task
           /\ \A phase \in Phase, todo \in Todos : [at |-> phase, todo |-> todo] \in Task
<1>1. task[e] \in Task
  BY DEF Typed, TypeOK
<1>2. \A todo \in Todos : todo \in Seq({"post", "remove", "add", "update"})
  BY TodosAreSequences DEF Steps
<1>3. <<>> \in Todos
  BY DEF Todos
<1>4. QED
  BY <1>1, <1>2, <1>3 DEF Task, Phase, Idle

LEMMA ReportsFacts ==
    ASSUME Typed, NEW e \in SlackEvents, NEW phase \in Phase \ {"queued"}
    PROVE  /\ Reports(e, phase) \in Task
           /\ Reports(e, phase).at = phase
           /\ Reports(e, phase).todo = Work(reporter[e], phase)
<1>1. reporter[e] \in [posted : BOOLEAN, active : Phase \cup {"none"}]
  BY DEF Typed, TypeOK
<1>2. Work(reporter[e], phase) \in Todos
  BY <1>1, WorkFacts
<1>3. e \in Async
  BY DEF Async
<1>4. QED
  BY <1>2, <1>3, TaskFacts DEF Reports

LEMMA AfterRunTyped ==
    ASSUME Typed, NEW e \in Async, NEW result \in Result
    PROVE  AfterRun(e, result) \in Task
<1>1. CASE e \in Emails
  BY <1>1, TaskFacts DEF AfterRun, Result
<1>2. CASE e \in SlackEvents /\ e \notin Emails /\ result # "empty"
  <2>1. AfterRun(e, result) = Reports(e, IF result = "text" THEN "completed" ELSE "failed")
    BY <1>2 DEF AfterRun, Result
  <2>2. QED
    BY <1>2, <2>1, ReportsFacts DEF Phase
<1>3. CASE result = "empty"
  BY <1>3, TaskFacts DEF AfterRun
<1>4. QED
  BY <1>1, <1>2, <1>3 DEF Async

\* One step for each action: what it assigns stays in its type.
LEMMA TypeKept ==
    ASSUME Typed, [Next]_vars
    PROVE  Typed'
<1> USE DEF durable, memory, outside, history
<1>0. /\ enabled \in [Channels -> BOOLEAN]
      /\ rec \in [Events -> Row]
      /\ mission \in [Events -> {"none", "created", "scheduled"}]
      /\ log \in [Async -> Seq({"delivered", "failed"})]
      /\ feedback \in [SlackEvents -> SUBSET [on : {"answer", "progress"}, run : BOOLEAN]]
      /\ up \in BOOLEAN
      /\ task \in [Async -> Task]
      /\ reporter \in [SlackEvents -> Reporters]
      /\ call \in [1..MaxDeliveries -> Call] /\ Callers
      /\ poller \in [running : BOOLEAN, timer : Loops]
      /\ poll \in [Loops -> Loop] /\ Mailers /\ Polling
      /\ mailbox \in [Emails -> {"absent", "unseen", "seen"}]
      /\ slack \in [SlackEvents -> Messages]
      /\ answers \in [Async -> Nat] /\ runs \in [Async -> Nat] /\ lost \in [Async -> Nat]
      /\ trouble \subseteq Events /\ died \subseteq Events
      /\ imap \in Clients
      /\ budget \in Budget
  BY DEF Typed, TypeOK, Reporters, Messages, Clients, Budget, Polling
<1>00. \A e \in Async : e \in Events
  BY DEF Events
<1>01. \A e \in SlackEvents : e \in Async /\ e \in Events
  BY DEF Async, Events
<1> DEFINE Changed ==
      /\ enabled' \in [Channels -> BOOLEAN]
      /\ rec' \in [Events -> Row]
      /\ mission' \in [Events -> {"none", "created", "scheduled"}]
      /\ log' \in [Async -> Seq({"delivered", "failed"})]
      /\ feedback' \in [SlackEvents -> SUBSET [on : {"answer", "progress"}, run : BOOLEAN]]
      /\ up' \in BOOLEAN
      /\ task' \in [Async -> Task]
      /\ reporter' \in [SlackEvents -> Reporters]
      /\ call' \in [1..MaxDeliveries -> Call] /\ Callers'
      /\ Polling'
      /\ mailbox' \in [Emails -> {"absent", "unseen", "seen"}]
      /\ slack' \in [SlackEvents -> Messages]
      /\ answers' \in [Async -> Nat] /\ runs' \in [Async -> Nat] /\ lost' \in [Async -> Nat]
      /\ trouble' \subseteq Events /\ died' \subseteq Events
      /\ imap' \in Clients
      /\ budget' \in Budget
<1>02. Changed => Typed'
  BY DEF Typed, TypeOK, Reporters, Messages, Clients, Budget, Polling
<1>03. /\ UNCHANGED <<poll, poller>> => Polling'
       /\ UNCHANGED call => call' \in [1..MaxDeliveries -> Call] /\ Callers'
  BY <1>0 DEF Polling, Callers, Mailers
<1>1. ASSUME NEW e \in SlackEvents, DeliverSlack(e) PROVE Changed
  <2>1. budget' \in Budget
    BY <1>0, <1>1, SpendFacts DEF DeliverSlack
  <2>2. /\ rec' \in [Events -> Row] /\ task' \in [Async -> Task]
        /\ mission' \in [Events -> {"none", "created", "scheduled"}]
    <3>1. CASE AsksForAssignment(e)
      <4>1. [at |-> "schedule", todo |-> <<>>] \in Task
        BY <1>01, TaskFacts
      <4>2. /\ rec' = rec
            /\ \/ UNCHANGED <<mission, task>>
               \/ /\ mission' = [mission EXCEPT ![e] = "created"]
                  /\ task' = [task EXCEPT ![e] = [at |-> "schedule", todo |-> <<>>]]
        BY <1>1, <3>1 DEF DeliverSlack
      <4>3. task' \in [Async -> Task]
        BY <1>0, <4>1, <4>2
      <4>4. mission' \in [Events -> {"none", "created", "scheduled"}]
        BY <1>0, <4>2
      <4>5. QED
        BY <1>0, <4>2, <4>3, <4>4
    <3>2. CASE ~AsksForAssignment(e)
      BY <1>0, <1>01, <1>1, <3>2, RouteAsyncTyped DEF DeliverSlack
    <3>3. QED
      BY <3>1, <3>2
  <2>3. QED
    BY <1>0, <1>03, <1>1, <2>1, <2>2 DEF DeliverSlack
<1>2. ASSUME NEW e \in SlackEvents, ReporterCall(e) PROVE Changed
  <2> DEFINE step == Head(task[e].todo)
  <2>1. /\ task[e] \in Task /\ task[e].at \in Phase /\ task[e].todo # <<>>
        /\ task[e].todo \in Seq(Steps)
        /\ reporter[e] \in Reporters /\ slack[e] \in Messages
    BY <1>0, <1>01, <1>2 DEF ReporterCall, Task, Steps
  <2>2. Tail(task[e].todo) \in Seq(Steps) /\ <<>> \in Seq(Steps)
    BY <2>1
  <2>3. task' \in [Async -> Task]
    <3>1. PICK todo \in Seq(Steps) : task' = [task EXCEPT ![e].todo = todo]
      BY <1>2, <2>2 DEF ReporterCall
    <3>2. [task[e] EXCEPT !.todo = todo] \in Task
      BY <2>1 DEF Task, Steps
    <3>3. QED
      BY <1>0, <3>1, <3>2
  <2>4. reporter' \in [SlackEvents -> Reporters]
    <3>1. PICK r \in Reporters : reporter' = [reporter EXCEPT ![e] = r]
      <4>1. [reporter[e] EXCEPT !.posted = TRUE] \in Reporters
            /\ [reporter[e] EXCEPT !.active = task[e].at] \in Reporters
        BY <2>1 DEF Reporters
      <4>2. \/ reporter' = reporter
            \/ reporter' = [reporter EXCEPT ![e] = [@ EXCEPT !.posted = TRUE]]
            \/ reporter' = [reporter EXCEPT ![e] = [@ EXCEPT !.active = task[e].at]]
            \/ reporter' = [reporter EXCEPT ![e] = @]
        BY <1>2 DEF ReporterCall
      <4>3. reporter' = reporter => reporter' = [reporter EXCEPT ![e] = reporter[e]]
        BY <1>0
      <4>4. QED
        BY <2>1, <4>1, <4>2, <4>3
    <3>2. QED
      BY <1>0, <3>1
  <2>5. Shown(e, step, task[e].at) \in Messages
    BY <2>1 DEF Shown, Messages
  <2>6. slack' \in [SlackEvents -> Messages]
    BY <1>0, <1>2, <2>5 DEF ReporterCall
  <2>7. budget' \in Budget
    BY <1>0, <1>2, SpendFacts DEF ReporterCall
  <2>8. lost' \in [Async -> Nat]
    <3>1. lost' = lost \/ lost' = [lost EXCEPT ![e] = @ + 1]
      BY <1>2 DEF ReporterCall
    <3>2. lost \in [Async -> Nat] /\ e \in Async
      BY <1>0, <1>01
    <3>3. QED
      BY <3>1, <3>2
  <2>9. trouble' \subseteq Events
    <3>1. trouble' = trouble \/ trouble' = trouble \cup {e}
      BY <1>2 DEF ReporterCall
    <3>2. QED
      BY <1>0, <1>01, <3>1
  <2>10. QED
    BY <1>0, <1>03, <1>2, <2>3, <2>4, <2>6, <2>7, <2>8, <2>9 DEF ReporterCall
<1>3. ASSUME NEW e \in SlackEvents, ReporterRecords(e) PROVE Changed
  <2>1. /\ task[e] \in Task /\ task[e].at \in Phase /\ rec[e] \in Row
        /\ reporter[e].posted \in BOOLEAN
    BY <1>0, <1>01, <1>3 DEF ReporterRecords, Reporters
  <2>2. Progressed(rec[e], task[e].at, reporter[e].posted) \in Row
    BY <2>1, RowFacts DEF Result
  <2>3. rec' \in [Events -> Row]
    BY <1>0, <1>3, <2>2 DEF ReporterRecords
  <2>4. task' \in [Async -> Task]
    <3>1. PICK at \in {"run", "answer", "over"} : task' = [task EXCEPT ![e].at = at]
      BY <1>3, <2>1 DEF ReporterRecords, Phase
    <3>2. QED
      BY <1>0, <1>01, <3>1, TaskFacts
  <2>5. runs' \in [Async -> Nat]
    <3>1. PICK n \in {0, 1} : runs' = [runs EXCEPT ![e] = @ + n]
      BY <1>3 DEF ReporterRecords
    <3>2. QED
      BY <1>0, <1>01, <3>1
  <2>6. QED
    BY <1>0, <1>03, <1>3, <2>3, <2>4, <2>5 DEF ReporterRecords
<1>4. ASSUME NEW e \in SlackEvents, RunEvent(e) PROVE Changed
  <2>1. budget' \in Budget /\ Reports(e, "running") \in Task
    BY <1>0, <1>4, SpendFacts, ReportsFacts DEF RunEvent, Phase
  <2>2. QED
    BY <1>0, <1>03, <1>4, <2>1 DEF RunEvent
<1>5. ASSUME NEW e \in SlackEvents, NEW target \in {"answer", "progress"},
             Spend("deliveries", 1), Rated(e, target),
             UNCHANGED <<enabled, rec, mission, log, up, memory, outside, history>>
      PROVE  Changed
  <2>1. budget' \in Budget
    BY <1>0, <1>5, SpendFacts
  <2>2. feedback' \in [SlackEvents -> SUBSET [on : {"answer", "progress"}, run : BOOLEAN]]
    <3>1. PICK run \in BOOLEAN :
            feedback' = [feedback EXCEPT ![e] = @ \cup {[on |-> target, run |-> run]}]
      BY <1>5 DEF Rated
    <3>2. QED
      BY <1>0, <3>1
  <2>3. QED
    BY <1>0, <1>03, <1>5, <2>1, <2>2
<1>6. ASSUME NEW e \in Emails, MailArrives(e) PROVE Changed
  <2>1. budget' \in Budget
    BY <1>0, <1>6, SpendFacts DEF MailArrives
  <2>2. QED
    BY <1>0, <1>03, <1>6, <2>1 DEF MailArrives
<1>7. ASSUME NEW e \in Async, ScheduleMission(e) PROVE Changed
  <2>1. task' \in [Async -> Task]
    BY <1>0, <1>7, TaskFacts DEF ScheduleMission
  <2>2. QED
    BY <1>0, <1>03, <1>7, <2>1 DEF ScheduleMission
<1>8. ASSUME NEW e \in Async, StartHandler(e) PROVE Changed
  <2>1. NoReporter \in Reporters
    BY DEF NoReporter, Reporters
  <2>2. [at |-> "queued", todo |-> Work(NoReporter, "queued")] \in Task
    BY <2>1, WorkFacts, TaskFacts DEF Phase, Reporters
  <2>3. CASE e \in SlackEvents
    <3>1. /\ reporter' = [reporter EXCEPT ![e] = NoReporter]
          /\ task' = [task EXCEPT ![e] = [at |-> "queued", todo |-> Work(NoReporter, "queued")]]
          /\ runs' = runs
      BY <1>8, <2>3 DEF StartHandler
    <3>2. task' \in [Async -> Task] /\ reporter' \in [SlackEvents -> Reporters]
      BY <1>0, <2>1, <2>2, <3>1
    <3>3. QED
      BY <1>0, <1>03, <1>8, <3>1, <3>2 DEF StartHandler
  <2>4. CASE e \notin SlackEvents
    <3>1. /\ task' = [task EXCEPT ![e].at = "run"]
          /\ runs' = [runs EXCEPT ![e] = @ + 1]
          /\ reporter' = reporter
      BY <1>8, <2>4 DEF StartHandler
    <3>2. task' \in [Async -> Task]
      BY <1>0, <3>1, TaskFacts
    <3>3. runs' \in [Async -> Nat]
      BY <1>0, <3>1
    <3>4. QED
      BY <1>0, <1>03, <1>8, <3>1, <3>2, <3>3 DEF StartHandler
  <2>5. QED
    BY <2>3, <2>4
<1>9. ASSUME NEW e \in Async, EndRun(e) PROVE Changed
  <2>1. PICK result \in Result : /\ rec' = [rec EXCEPT ![e] = Settled(@, result)]
                                /\ task' = [task EXCEPT ![e] = AfterRun(e, result)]
    BY <1>9 DEF EndRun
  <2>2. Settled(rec[e], result) \in Row
    BY <1>0, <1>00, RowFacts DEF Phase
  <2>3. AfterRun(e, result) \in Task
    BY AfterRunTyped
  <2>4. QED
    BY <1>0, <1>03, <1>9, <2>1, <2>2, <2>3 DEF EndRun
<1>10. ASSUME NEW e \in Async, SendAnswer(e) PROVE Changed
  <2>1. task' \in [Async -> Task]
    <3>1. PICK at \in {"record", "over"} : task' = [task EXCEPT ![e].at = at]
      BY <1>10 DEF SendAnswer, AnswerInSlack, SlackIsDisabled, AnswerByEmail
    <3>2. QED
      BY <1>0, <3>1, TaskFacts
  <2>2. \/ \E s \in Sends : Tried(e, s)
        \/ /\ rec' = [rec EXCEPT ![e] = AfterAnswer(e, @, FALSE)]
           /\ trouble' = trouble \cup {e}
           /\ UNCHANGED <<log, answers, lost, budget>>
    BY <1>10 DEF SendAnswer, AnswerInSlack, SlackIsDisabled, AnswerByEmail
  <2>3. CASE \E s \in Sends : Tried(e, s)
    <3>1. PICK s \in Sends : Tried(e, s)
      BY <2>3
    <3>2. s.failed \in Nat /\ s.lost \in Nat /\ s.ok \in BOOLEAN
      BY DEF Sends
    <3>3. budget' \in Budget
      BY <1>0, <3>1, <3>2, SpendFacts DEF Tried
    <3>4. answers' \in [Async -> Nat] /\ lost' \in [Async -> Nat]
      <4>1. Applied(s) \in Nat
        BY <3>2 DEF Applied
      <4>2. /\ answers' = [answers EXCEPT ![e] = @ + Applied(s)]
            /\ lost' = [lost EXCEPT ![e] = @ + s.lost]
        BY <3>1 DEF Tried
      <4>3. QED
        BY <1>0, <3>2, <4>1, <4>2
    <3>5. log' \in [Async -> Seq({"delivered", "failed"})]
      BY <1>0, <3>1, <3>2 DEF Tried
    <3>6. rec' \in [Events -> Row] /\ trouble' \subseteq Events
      BY <1>0, <1>00, <3>1, <3>2 DEF Tried, AfterAnswer
    <3>7. QED
      BY <1>0, <1>03, <1>10, <2>1, <3>3, <3>4, <3>5, <3>6 DEF SendAnswer
  <2>4. CASE /\ rec' = [rec EXCEPT ![e] = AfterAnswer(e, @, FALSE)]
             /\ trouble' = trouble \cup {e}
             /\ UNCHANGED <<log, answers, lost, budget>>
    <3>1. rec' \in [Events -> Row] /\ trouble' \subseteq Events
      BY <1>0, <1>00, <2>4 DEF AfterAnswer
    <3>2. QED
      BY <1>0, <1>03, <1>10, <2>1, <2>4, <3>1 DEF SendAnswer
  <2>5. QED
    BY <2>2, <2>3, <2>4
<1>11. ASSUME NEW e \in Async, RecordResponse(e) PROVE Changed
  <2>1. [rec[e] EXCEPT !.responseTs = TRUE] \in Row
    BY <1>0, <1>00, RowFacts DEF Result, Phase
  <2>2. task' \in [Async -> Task] /\ rec' \in [Events -> Row]
    BY <1>0, <1>11, <2>1, TaskFacts DEF RecordResponse
  <2>3. QED
    BY <1>0, <1>03, <1>11, <2>2 DEF RecordResponse
<1>12. ASSUME NEW d \in 1..MaxDeliveries, NEW e \in Hooks, CallWebhook(d, e) PROVE Changed
  <2>1. budget' \in Budget
    BY <1>0, <1>12, SpendFacts DEF CallWebhook
  <2>2. PICK at \in {"schedule", "run", "over"} :
          call' = [call EXCEPT ![d] = [at |-> at, event |-> e]]
    BY <1>12 DEF CallWebhook, RouteSync
  <2>3. call' \in [1..MaxDeliveries -> Call] /\ Callers'
    BY <1>0, <2>2 DEF Call, Callers
  <2>4. rec' \in [Events -> Row]
    <3>1. rec' = rec \/ rec' = [rec EXCEPT ![e] = Running(Received)]
      BY <1>12 DEF CallWebhook, RouteSync
    <3>2. QED
      BY <1>0, <3>1, NewRows
  <2>5. mission' \in [Events -> {"none", "created", "scheduled"}]
    <3>1. mission' = mission \/ mission' = [mission EXCEPT ![e] = "created"]
          \/ mission' = [mission EXCEPT ![e] = mission[e]]
      BY <1>12 DEF CallWebhook
    <3>2. QED
      BY <1>0, <3>1 DEF Events
  <2>6. QED
    BY <1>0, <1>03, <1>12, <2>1, <2>3, <2>4, <2>5 DEF CallWebhook
<1>13. ASSUME NEW d \in 1..MaxDeliveries, ScheduleCalled(d) PROVE Changed
  <2>1. call' \in [1..MaxDeliveries -> Call] /\ Callers'
    BY <1>0, <1>13 DEF ScheduleCalled, Call, Callers
  <2>2. QED
    BY <1>0, <1>03, <1>13, <2>1 DEF ScheduleCalled
<1>14. ASSUME NEW d \in 1..MaxDeliveries, EndCall(d) PROVE Changed
  <2>1. call[d].event \in Hooks /\ call[d].event \in Events
    BY <1>0, <1>14 DEF EndCall, Callers, Events
  <2>2. call' \in [1..MaxDeliveries -> Call] /\ Callers'
    BY <1>0, <1>14 DEF EndCall, Call, Callers
  <2>3. PICK result \in Result :
          /\ rec' = [rec EXCEPT ![call[d].event] = Settled(@, result)]
          /\ trouble' = IF result = "failed" THEN trouble \cup {call[d].event} ELSE trouble
    BY <1>14 DEF EndCall
  <2>4. Settled(rec[call[d].event], result) \in Row
    BY <1>0, <2>1, RowFacts DEF Phase
  <2>5. rec' \in [Events -> Row] /\ trouble' \subseteq Events
    BY <1>0, <2>1, <2>3, <2>4
  <2>6. QED
    BY <1>0, <1>03, <1>14, <2>2, <2>5 DEF EndCall
<1>15. ASSUME NEW l \in Loops, ListUnread(l) PROVE Changed
  <2>1. \A mails : Marked(mails) => mailbox' \in [Emails -> {"absent", "unseen", "seen"}]
    BY <1>0 DEF Marked
  <2>2. \A read \in SUBSET Emails : Remembered(read) \in SUBSET Emails
    BY <1>0 DEF Remembered, Clients
  <2>3. \A batch \in Batches : batch \in SUBSET Emails
    BY DEF Batches, Unseen
  <2>4. /\ Polling' /\ imap' \in Clients
        /\ mailbox' \in [Emails -> {"absent", "unseen", "seen"}]
        /\ budget' \in Budget
    <3>1. ASSUME NEW batch \in Batches, NEW refused \in SUBSET Oversized,
                 IF refused = {} THEN UNCHANGED budget ELSE Spend("incidents", 1),
                 ImapAnswers(Remembered(batch)),
                 Marked((batch \cap Oversized) \ refused),
                 poll' = [poll EXCEPT ![l] = Fetched(batch \ Oversized)],
                 UNCHANGED poller
          PROVE  /\ Polling' /\ imap' \in Clients
                 /\ mailbox' \in [Emails -> {"absent", "unseen", "seen"}]
                 /\ budget' \in Budget
      <4>1. Fetched(batch \ Oversized) \in Loop /\ Fetched(batch \ Oversized).at = "next"
        BY <2>3 DEF Fetched, Loop
      <4>2. Polling'
        BY <1>0, <3>1, <4>1 DEF Polling, Mailers
      <4>3. imap' \in Clients
        BY <1>0, <2>2, <2>3, <3>1, ClientFacts
      <4>4. budget' \in Budget
        BY <1>0, <3>1, SpendFacts
      <4>5. QED
        BY <2>1, <3>1, <4>2, <4>3, <4>4
    <3>2. ASSUME NEW batch \in Batches, NEW read \in SUBSET batch,
                 ImapFails(Remembered(read)), Marked(read \cap Oversized), ArmNext(l)
          PROVE  /\ Polling' /\ imap' \in Clients
                 /\ mailbox' \in [Emails -> {"absent", "unseen", "seen"}]
                 /\ budget' \in Budget
      <4>1. Remembered(read) \in SUBSET Emails
        BY <2>2, <2>3
      <4>2. Polling'
        BY <1>0, <3>2, LoopFacts
      <4>3. imap' \in Clients /\ budget' \in Budget
        BY <1>0, <3>2, <4>1, ClientFacts
      <4>4. QED
        BY <2>1, <3>2, <4>2, <4>3
    <3>3. CASE poll' = [poll EXCEPT ![l] = Off] /\ UNCHANGED <<poller, imap, mailbox, budget>>
      BY <1>0, <3>3, LoopFacts DEF Polling, Mailers, Off
    <3>4. QED
      BY <1>15, <3>1, <3>2, <3>3 DEF ListUnread
  <2>5. QED
    BY <1>0, <1>03, <1>15, <2>4 DEF ListUnread
<1>16. ASSUME NEW l \in Loops, NEW e \in Emails, PollNext(l, e) PROVE Changed
  <2>1. e \in Async /\ e \in Events
    BY DEF Async, Events
  <2>2. ASSUME NEW at \in {"mark", "schedule"}, poll' = [poll EXCEPT ![l] = Holding(l, at, e)],
               UNCHANGED poller
        PROVE  Polling'
    <3>1. Holding(l, at, e) \in Loop /\ Holding(l, at, e).now = e
      BY <1>0 DEF Holding, Loop
    <3>2. QED
      BY <1>0, <2>2, <3>1 DEF Polling, Mailers
  <2>3. /\ Polling'
        /\ rec' \in [Events -> Row] /\ task' \in [Async -> Task]
        /\ mission' \in [Events -> {"none", "created", "scheduled"}]
    <3>1. CASE ArmNext(l) /\ UNCHANGED <<rec, task, mission>>
      BY <1>0, <3>1, LoopFacts
    <3>2. CASE RouteAsync(e) /\ UNCHANGED <<mission, poller>>
               /\ poll' = [poll EXCEPT ![l] = Holding(l, "mark", e)]
      BY <1>0, <2>1, <2>2, <3>2, RouteAsyncTyped
    <3>3. CASE UNCHANGED <<rec, task, mission, poller>>
               /\ poll' = [poll EXCEPT ![l] = Holding(l, "mark", e)]
      BY <1>0, <2>2, <3>3
    <3>4. CASE /\ mission' = [mission EXCEPT ![e] = IF MakesAssignment(e) THEN "created" ELSE @]
               /\ poll' = [poll EXCEPT ![l] =
                              Holding(l, IF MakesAssignment(e) THEN "schedule" ELSE "mark", e)]
               /\ UNCHANGED <<rec, task, poller>>
      <4>1. PICK at \in {"mark", "schedule"} : poll' = [poll EXCEPT ![l] = Holding(l, at, e)]
        BY <3>4
      <4>2. QED
        BY <1>0, <2>1, <2>2, <3>4, <4>1
    <3>5. QED
      BY <1>16, <3>1, <3>2, <3>3, <3>4 DEF PollNext
  <2>4. QED
    BY <1>0, <1>03, <1>16, <2>3 DEF PollNext
<1>17. ASSUME NEW l \in Loops, PollSchedules(l) PROVE Changed
  <2>1. poll[l].now \in Emails /\ poll[l] \in Loop
    BY <1>0, <1>17 DEF PollSchedules, Mailers
  <2>2. [poll[l] EXCEPT !.at = "mark"] \in Loop /\ [poll[l] EXCEPT !.at = "mark"].now = poll[l].now
    BY <2>1 DEF Loop
  <2>3. Polling'
    BY <1>0, <1>17, <2>1, <2>2 DEF PollSchedules, Polling, Mailers
  <2>4. mission' \in [Events -> {"none", "created", "scheduled"}]
    BY <1>0, <1>17 DEF PollSchedules
  <2>5. QED
    BY <1>0, <1>03, <1>17, <2>3, <2>4 DEF PollSchedules
<1>18. ASSUME NEW l \in Loops, MarkSeen(l) PROVE Changed
  <2>1. imap.uids \in SUBSET Emails /\ imap.uids \ {poll[l].now} \in SUBSET Emails
    BY <1>0 DEF Clients
  <2>2. imap' \in Clients /\ budget' \in Budget
    <3>1. budget' = budget \/ Spend("incidents", 1) \/ ImapFails(imap.uids)
      BY <1>18 DEF MarkSeen
    <3>2. ImapAnswers(imap.uids \ {poll[l].now}) \/ ImapAnswers(imap.uids) \/ ImapFails(imap.uids)
      BY <1>18 DEF MarkSeen
    <3>3. QED
      BY <1>0, <2>1, <3>1, <3>2, ClientFacts, SpendFacts
  <2>3. Polling'
    <3>1. CASE ArmNext(l)
      BY <1>0, <3>1, LoopFacts
    <3>2. CASE poll' = [poll EXCEPT ![l] = Fetched(poll[l].todo \ {poll[l].now})] /\ UNCHANGED poller
      <4>1. poll[l].todo \subseteq Emails
        BY <1>0 DEF Loop
      <4>2. /\ Fetched(poll[l].todo \ {poll[l].now}) \in Loop
            /\ Fetched(poll[l].todo \ {poll[l].now}).at = "next"
        BY <4>1 DEF Fetched, Loop
      <4>3. QED
        BY <1>0, <3>2, <4>2 DEF Polling, Mailers
    <3>3. QED
      BY <1>18, <3>1, <3>2 DEF MarkSeen
  <2>4. mailbox' \in [Emails -> {"absent", "unseen", "seen"}]
    BY <1>0, <1>18 DEF MarkSeen, Marked
  <2>5. QED
    BY <1>0, <1>03, <1>18, <2>2, <2>3, <2>4 DEF MarkSeen
<1>19. ASSUME NEW l \in Loops, EndPoll(l) PROVE Changed
  <2>1. Polling'
    BY <1>0, <1>19, LoopFacts DEF EndPoll
  <2>2. QED
    BY <1>0, <1>03, <1>19, <2>1 DEF EndPoll
<1>20. ASSUME NEW c \in Channels, Toggle(c) PROVE Changed
  <2>1. budget' \in Budget
    BY <1>0, <1>20, SpendFacts DEF Toggle
  <2>2. Polling'
    <3>1. UNCHANGED <<poller, poll>> \/ StopPoller \/ StartPoller
      BY <1>20 DEF Toggle
    <3>2. QED
      BY <1>0, <1>03, <3>1, LoopFacts
  <2>3. imap' \in Clients
    <3>1. imap' = imap \/ StopPoller
      BY <1>20 DEF Toggle
    <3>2. QED
      BY <1>0, <3>1, ClientFacts
  <2>4. QED
    BY <1>0, <1>03, <1>20, <2>1, <2>2, <2>3 DEF Toggle
<1>21. ASSUME Crash PROVE Changed
  <2>1. budget' \in Budget
    BY <1>0, <1>21, SpendFacts DEF Crash
  <2>2. Polling'
    <3>1. 1 \in Loops
      BY InboundAssumption DEF Loops
    <3>2. QED
      BY <1>0, <1>21, <3>1, LoopFacts DEF Crash, Polling, Mailers, Off
  <2>3. task' \in [Async -> Task] /\ reporter' \in [SlackEvents -> Reporters]
    BY <1>21 DEF Crash, Idle, Task, NoReporter, Reporters
  <2>4. call' \in [1..MaxDeliveries -> Call] /\ Callers'
    <3>1. \A d \in 1..MaxDeliveries : [call[d] EXCEPT !.at = "over"] \in Call
      BY <1>0 DEF Call
    <3>2. call' = [d \in 1..MaxDeliveries |-> IF call[d].at = "none" THEN call[d] ELSE [call[d] EXCEPT !.at = "over"]]
      BY <1>0, <1>21 DEF Crash
    <3>3. \A d \in 1..MaxDeliveries : call'[d] \in Call /\ call'[d].at \in {"none", "over"}
      BY <1>0, <3>1, <3>2 DEF Call
    <3>4. QED
      BY <3>2, <3>3 DEF Callers
  <2>5. Attended \subseteq Events
    BY <1>0 DEF Attended, Events, Async, Callers, Mailers
  <2>6. rec' \in [Events -> Row]
    <3>1. rec' = rec \/ \E e \in Events : rec' = [rec EXCEPT ![e] = Received]
      BY <1>21 DEF Crash
    <3>2. QED
      BY <1>0, <3>1, NewRows
  <2>7. died' \subseteq Events
    <3>1. died' = died \cup Attended \/ \E e \in Events : died' = died \cup Attended \cup {e}
      BY <1>21 DEF Crash
    <3>2. QED
      BY <1>0, <2>5, <3>1
  <2>8. imap' \in Clients
    BY <1>0, <1>21, ClientFacts DEF Crash
  <2>9. QED
    BY <1>0, <1>21, <2>1, <2>2, <2>3, <2>4, <2>6, <2>7, <2>8 DEF Crash
<1>22. ASSUME Restart PROVE Changed
  <2>1. Polling'
    BY <1>0, <1>03, <1>22, LoopFacts DEF Restart
  <2>2. QED
    BY <1>0, <1>03, <1>22, <2>1 DEF Restart
<1>23. ASSUME UNCHANGED vars PROVE Changed
  BY <1>0, <1>03, <1>23 DEF vars
<1>24. ASSUME LoggedOut PROVE Changed
  <2>1. imap' \in Clients /\ budget' \in Budget
    BY <1>0, <1>24, ClientFacts
  <2>2. QED
    BY <1>0, <1>03, <1>24, <2>1 DEF LoggedOut
<1> HIDE DEF Changed
<1>25. QED
  BY <1>02, <1>1, <1>2, <1>3, <1>4, <1>5, <1>6, <1>7, <1>8, <1>9, <1>10, <1>11, <1>12, <1>13, <1>14,
     <1>15, <1>16, <1>17, <1>18, <1>19, <1>20, <1>21, <1>22, <1>23, <1>24
  DEF Next, Reporter, Handler, Caller, Poller, PressButton, ReactToMessage

LEMMA TypeInit ==
    ASSUME Init
    PROVE  Typed
<1>1. 1 \in Loops
  BY InboundAssumption DEF Loops
<1>2. Off \in Loop /\ Off.at = "off"
  BY DEF Off, Loop
<1>3. NoRow \in Row /\ Idle \in Task
  BY NewRows DEF Idle, Task
<1>4. [at |-> "none", event |-> "none"] \in Call
  BY DEF Call
<1>5. call \in [1..MaxDeliveries -> Call] /\ Callers
  BY <1>4 DEF Init, Callers
<1>6. poll \in [Loops -> Loop] /\ Mailers /\ poller \in [running : BOOLEAN, timer : Loops]
  BY <1>1, <1>2 DEF Init, Mailers
<1>7. rec \in [Events -> Row] /\ task \in [Async -> Task]
  BY <1>3 DEF Init
<1>8. budget \in [deliveries : Nat, reports : Nat, incidents : Nat]
  BY InboundAssumption DEF Init
<1>9. /\ reporter \in [SlackEvents -> Reporters] /\ slack \in [SlackEvents -> Messages]
      /\ log \in [Async -> Seq({"delivered", "failed"})]
  BY DEF Init, NoReporter, Reporters, Messages
<1>10. /\ answers \in [Async -> Nat] /\ runs \in [Async -> Nat] /\ lost \in [Async -> Nat]
       /\ enabled \in [Channels -> BOOLEAN]
       /\ mission \in [Events -> {"none", "created", "scheduled"}]
       /\ feedback \in [SlackEvents -> SUBSET [on : {"answer", "progress"}, run : BOOLEAN]]
       /\ up \in BOOLEAN /\ trouble \subseteq Events /\ died \subseteq Events
       /\ imap \in Clients
       /\ mailbox \in [Emails -> {"absent", "unseen", "seen"}]
  BY DEF Init, NoClient, Clients
<1>11. QED
  BY <1>5, <1>6, <1>7, <1>8, <1>9, <1>10 DEF Typed, TypeOK, Reporters, Messages, Clients

\* Every variable stays in its type: the rows keep their columns, a handler its steps.
THEOREM TypeCorrect == Spec => []TypeOK
<1>1. Init => Typed
  BY TypeInit
<1>2. Typed /\ [Next]_vars => Typed'
  BY TypeKept
<1>3. Typed => TypeOK
  BY DEF Typed
<1>4. QED
  BY <1>1, <1>2, <1>3, PTL DEF Spec

-----------------------------------------------------------------------------
(* The chapters of an event's story: what a step may do to one event *)

\* What its sender, its thread and the feedback on it show stays as it is.
Quiet(e) ==
    /\ answers'[e] = answers[e] /\ log'[e] = log[e] /\ lost'[e] = lost[e]
    /\ e \in SlackEvents => slack'[e] = slack[e] /\ feedback'[e] = feedback[e]

ReporterKept(e) == e \in SlackEvents => reporter'[e] = reporter[e]

Same(e) ==
    /\ rec'[e] = rec[e] /\ mission'[e] = mission[e] /\ task'[e] = task[e] /\ runs'[e] = runs[e]
    /\ Quiet(e) /\ ReporterKept(e)

Accepted(e) ==
    /\ ~Known(e) /\ e \notin Missions
    /\ rec'[e] = Running(Received) /\ task'[e] = [at |-> "start", todo |-> <<>>]
    /\ mission'[e] = mission[e] /\ runs'[e] = runs[e]
    /\ Quiet(e) /\ ReporterKept(e)

Made(e) ==
    /\ e \in Missions /\ mission[e] = "none" /\ mission'[e] = "created"
    /\ e \in Emails => \E l \in Loops : poll'[l].at = "schedule" /\ poll'[l].now = e
    /\ task'[e] = IF e \in SlackEvents THEN [at |-> "schedule", todo |-> <<>>] ELSE task[e]
    /\ rec'[e] = rec[e] /\ runs'[e] = runs[e]
    /\ Quiet(e) /\ ReporterKept(e)

Woken(e) ==
    /\ mission'[e] = "scheduled"
    /\ \/ task[e].at = "schedule" /\ task'[e] = [at |-> "answer", todo |-> task[e].todo]
       \/ task'[e] = task[e] /\ \E l \in Loops : poll[l].at = "schedule" /\ poll[l].now = e
    /\ rec'[e] = rec[e] /\ runs'[e] = runs[e]
    /\ Quiet(e) /\ ReporterKept(e)

Started(e) ==
    /\ task[e].at = "start"
    /\ \/ /\ e \in SlackEvents /\ reporter'[e] = NoReporter /\ runs'[e] = runs[e]
          /\ task'[e] = [at |-> "queued", todo |-> Work(NoReporter, "queued")]
       \/ /\ e \notin SlackEvents /\ runs'[e] = runs[e] + 1
          /\ task'[e] = [at |-> "run", todo |-> task[e].todo]
    /\ rec'[e] = rec[e] /\ mission'[e] = mission[e]
    /\ Quiet(e)

\* A call of the reporter: it is done, or the phase is given up.
Told(e) ==
    LET phase == task[e].at
        step == Head(task[e].todo)
    IN  /\ e \in SlackEvents /\ phase \in Phase /\ task[e].todo # <<>>
        /\ \/ /\ Accepts(e, step, phase) /\ slack'[e] = Shown(e, step, phase)
              /\ task'[e] = [at |-> phase, todo |-> Tail(task[e].todo)]
              /\ reporter'[e] = [posted |-> reporter[e].posted \/ step = "post",
                                 active |-> IF step = "add" THEN phase ELSE reporter[e].active]
              /\ lost'[e] = lost[e]
           \/ /\ task'[e] = [at |-> phase, todo |-> <<>>]
              /\ reporter'[e] = reporter[e] /\ e \in trouble'
              /\ \/ /\ Accepts(e, step, phase) /\ slack'[e] = Shown(e, step, phase)
                    /\ lost'[e] = lost[e] + 1
                 \/ slack'[e] = slack[e] /\ lost'[e] = lost[e]
        /\ rec'[e] = rec[e] /\ mission'[e] = mission[e] /\ runs'[e] = runs[e]
        /\ answers'[e] = answers[e] /\ log'[e] = log[e] /\ feedback'[e] = feedback[e]

Recorded(e) ==
    LET phase == task[e].at
    IN  /\ e \in SlackEvents /\ phase \in Phase /\ task[e].todo = <<>>
        /\ rec'[e] = Progressed(rec[e], phase, reporter[e].posted)
        /\ task'[e] = [at |-> CASE phase \in {"queued", "running"} -> "run"
                                [] phase = "completed" -> "answer"
                                [] phase = "failed" -> "over",
                       todo |-> <<>>]
        /\ runs'[e] = runs[e] + (IF phase = "queued" THEN 1 ELSE 0)
        /\ mission'[e] = mission[e]
        /\ Quiet(e) /\ ReporterKept(e)

Heard(e) ==
    /\ e \in SlackEvents /\ task[e].at = "run"
    /\ task'[e] = [at |-> "running", todo |-> Work(reporter[e], "running")]
    /\ rec'[e] = rec[e] /\ mission'[e] = mission[e] /\ runs'[e] = runs[e]
    /\ Quiet(e) /\ ReporterKept(e)

Ended(e) ==
    /\ task[e].at = "run"
    /\ \E result \in Result :
        /\ rec'[e] = Settled(rec[e], result)
        /\ task'[e] = AfterRun(e, result)
    /\ mission'[e] = mission[e] /\ runs'[e] = runs[e]
    /\ Quiet(e) /\ ReporterKept(e)

Answered(e) ==
    /\ task[e].at = "answer"
    /\ \/ \E s \in Sends :
            /\ answers'[e] = answers[e] + Applied(s) /\ lost'[e] = lost[e] + s.lost
            /\ log'[e] = IF s.thrown THEN log[e]
                         ELSE Append(log[e], IF s.ok THEN "delivered" ELSE "failed")
            /\ task'[e] = [at |-> IF s.ok /\ e \in SlackEvents \ Missions THEN "record" ELSE "over",
                           todo |-> task[e].todo]
            /\ s.ok \/ e \in trouble'
       \/ /\ answers'[e] = answers[e] /\ lost'[e] = lost[e] /\ log'[e] = log[e]
          /\ task'[e] = [at |-> "over", todo |-> task[e].todo] /\ e \in trouble'
    /\ rec'[e] = rec[e] /\ mission'[e] = mission[e] /\ runs'[e] = runs[e]
    /\ e \in SlackEvents => slack'[e] = slack[e] /\ feedback'[e] = feedback[e]
    /\ ReporterKept(e)

Linked(e) ==
    /\ task[e].at = "record" /\ task'[e] = [at |-> "over", todo |-> task[e].todo]
    /\ rec'[e] = [rec[e] EXCEPT !.responseTs = TRUE]
    /\ mission'[e] = mission[e] /\ runs'[e] = runs[e]
    /\ Quiet(e) /\ ReporterKept(e)

Judged(e) ==
    /\ e \in SlackEvents
    /\ \E on \in {"answer", "progress"} :
        /\ feedback'[e] = feedback[e] \cup {[on |-> on, run |-> rec[e].out # "none"]}
        /\ on = "answer" => rec[e].responseTs \/ (e \notin Missions /\ answers[e] > 0)
    /\ rec'[e] = rec[e] /\ mission'[e] = mission[e] /\ task'[e] = task[e] /\ runs'[e] = runs[e]
    /\ answers'[e] = answers[e] /\ log'[e] = log[e] /\ lost'[e] = lost[e]
    /\ slack'[e] = slack[e] /\ ReporterKept(e)

\* The process dies; the row of the event may just have been written.
Died(e) ==
    /\ \/ rec'[e] = rec[e]
       \/ ~Known(e) /\ e \notin Missions /\ rec'[e] = Received /\ e \in died'
    /\ Handled(e) => e \in died'
    /\ task'[e] = Idle
    /\ mission'[e] = mission[e] /\ runs'[e] = runs[e]
    /\ Quiet(e)
    /\ e \in SlackEvents => reporter'[e] = NoReporter

Chapter(e) ==
    \/ Same(e) \/ Accepted(e) \/ Made(e) \/ Woken(e) \/ Started(e) \/ Told(e) \/ Recorded(e)
    \/ Heard(e) \/ Ended(e) \/ Answered(e) \/ Linked(e) \/ Judged(e) \/ Died(e)

\* What an event has been through stays with it.
LEMMA TroubleGrows ==
    ASSUME [Next]_vars
    PROVE  trouble \subseteq trouble' /\ died \subseteq died'
<1> USE DEF durable, memory, outside, history
<1>1. ASSUME NEW x \in Async, Handler(x) PROVE trouble \subseteq trouble' /\ died' = died
  BY <1>1 DEF Handler, ScheduleMission, StartHandler, EndRun, SendAnswer, AnswerInSlack,
              SlackIsDisabled, AnswerByEmail, Tried, RecordResponse
<1>2. ASSUME NEW x \in SlackEvents,
             \/ DeliverSlack(x) \/ Reporter(x) \/ RunEvent(x) \/ PressButton(x)
             \/ \E target \in {"answer", "progress"} : ReactToMessage(x, target)
      PROVE  trouble \subseteq trouble' /\ died \subseteq died'
  BY <1>2 DEF DeliverSlack, Reporter, ReporterCall, ReporterRecords, RunEvent, PressButton,
              ReactToMessage
<1>3. ASSUME NEW d \in 1..MaxDeliveries, Caller(d) \/ \E x \in Hooks : CallWebhook(d, x)
      PROVE  trouble \subseteq trouble' /\ died \subseteq died'
  BY <1>3 DEF Caller, CallWebhook, ScheduleCalled, EndCall
<1>4. ASSUME NEW l \in Loops, Poller(l) PROVE trouble \subseteq trouble' /\ died' = died
  BY <1>4 DEF Poller, ListUnread, PollNext, PollSchedules, MarkSeen, EndPoll
<1>5. QED
  BY <1>1, <1>2, <1>3, <1>4 DEF Next, MailArrives, LoggedOut, Toggle, Crash, Restart, vars

\* Whatever the step, the story of an event goes on by a chapter.
LEMMA Chapters ==
    ASSUME Typed, [Next]_vars, NEW e \in Async
    PROVE  Chapter(e) /\ (e \in trouble => e \in trouble') /\ (e \in died => e \in died')
<1> USE DEF durable, memory, outside, history
<1>0. /\ rec \in [Events -> Row]
      /\ mission \in [Events -> {"none", "created", "scheduled"}]
      /\ log \in [Async -> Seq({"delivered", "failed"})]
      /\ feedback \in [SlackEvents -> SUBSET [on : {"answer", "progress"}, run : BOOLEAN]]
      /\ task \in [Async -> Task]
      /\ reporter \in [SlackEvents -> Reporters]
      /\ slack \in [SlackEvents -> Messages]
      /\ answers \in [Async -> Nat] /\ runs \in [Async -> Nat] /\ lost \in [Async -> Nat]
      /\ e \in Events /\ e \notin Hooks
      /\ e \in SlackEvents <=> e \notin Emails
      /\ SlackEvents \subseteq Async /\ Emails \subseteq Async /\ Async \subseteq Events
  BY InboundAssumption DEF Typed, TypeOK, Reporters, Messages, Events, Async
<1>01. \A x \in Async : \A at : [task[x] EXCEPT !.at = at] = [at |-> at, todo |-> task[x].todo]
  BY <1>0 DEF Task
<1>02. UNCHANGED <<rec, mission, task, runs, answers, log, lost, slack, feedback, reporter>> => Same(e)
  BY DEF Same, Quiet, ReporterKept
<1>03. ASSUME UNCHANGED <<mission, runs, answers, log, lost, slack, feedback, reporter>>,
              NEW x \in Async, RouteAsync(x), x = e => e \notin Missions
       PROVE  Same(e) \/ Accepted(e)
  <2>1. CASE x = e /\ Routed(x)
    <3>1. Accepted(e)
      BY <1>0, <1>03, <2>1 DEF RouteAsync, Routed, Accepted, Quiet, ReporterKept
    <3>2. QED
      BY <3>1
  <2>2. CASE ~(x = e /\ Routed(x))
    <3>1. Same(e)
      BY <1>0, <1>03, <2>2 DEF RouteAsync, Same, Quiet, ReporterKept
    <3>2. QED
      BY <3>1
  <2>3. QED
    BY <2>1, <2>2
<1>1. ASSUME NEW x \in SlackEvents, DeliverSlack(x) PROVE Chapter(e)
  <2>1. CASE ~AsksForAssignment(x)
    BY <1>0, <1>03, <1>1, <2>1 DEF DeliverSlack, AsksForAssignment, Chapter
  <2>2. CASE AsksForAssignment(x) /\ x = e /\ MakesAssignment(x)
    <3>1. e \notin Emails
      BY <1>0, <2>2
    <3>2. Made(e)
      BY <1>0, <1>1, <2>2, <3>1
      DEF DeliverSlack, AsksForAssignment, MakesAssignment, HasAssignment, Made, Quiet, ReporterKept
    <3>3. QED
      BY <3>2 DEF Chapter
  <2>3. CASE AsksForAssignment(x) /\ ~(x = e /\ MakesAssignment(x))
    <3>1. Same(e)
      BY <1>0, <1>1, <2>3 DEF DeliverSlack, Same, Quiet, ReporterKept
    <3>2. QED
      BY <3>1 DEF Chapter
  <2>4. QED
    BY <2>1, <2>2, <2>3
<1>2. ASSUME NEW x \in SlackEvents, ReporterCall(x) PROVE Chapter(e)
  <2> DEFINE step == Head(task[x].todo)
  <2>1. UNCHANGED <<rec, mission, runs, answers, log, feedback>>
    BY <1>2 DEF ReporterCall
  <2>2. CASE x # e
    <3>1. task'[e] = task[e]
      BY <1>0, <1>2, <2>2 DEF ReporterCall
    <3>2. lost'[e] = lost[e]
      BY <1>0, <1>2, <2>2 DEF ReporterCall
    <3>3. e \in SlackEvents => slack'[e] = slack[e]
      BY <1>0, <1>2, <2>2 DEF ReporterCall
    <3>4. e \in SlackEvents => reporter'[e] = reporter[e]
      BY <1>0, <1>2, <2>2 DEF ReporterCall
    <3>5. Same(e)
      BY <2>1, <3>1, <3>2, <3>3, <3>4 DEF Same, Quiet, ReporterKept
    <3>6. QED
      BY <3>5 DEF Chapter
  <2>3. CASE x = e
    <3>1. /\ task[e].at \in Phase /\ task[e].todo # <<>> /\ task[e] \in Task
          /\ reporter[e] \in Reporters /\ e \in SlackEvents
      BY <1>0, <1>2, <2>3 DEF ReporterCall
    <3>2. /\ [task[e] EXCEPT !.todo = Tail(task[e].todo)] = [at |-> task[e].at, todo |-> Tail(task[e].todo)]
          /\ [task[e] EXCEPT !.todo = <<>>] = [at |-> task[e].at, todo |-> <<>>]
      <4>1. \A t \in Task : \A todo : [t EXCEPT !.todo = todo] = [at |-> t.at, todo |-> todo]
        BY DEF Task
      <4>2. QED
        BY <3>1, <4>1
    <3>3. /\ [reporter[e] EXCEPT !.posted = TRUE] = [posted |-> TRUE, active |-> reporter[e].active]
          /\ [reporter[e] EXCEPT !.active = task[e].at] = [posted |-> reporter[e].posted, active |-> task[e].at]
          /\ reporter[e] = [posted |-> reporter[e].posted, active |-> reporter[e].active]
          /\ reporter[e].posted \in BOOLEAN
      <4>1. \A r \in Reporters : r = [posted |-> r.posted, active |-> r.active] /\ r.posted \in BOOLEAN
        BY DEF Reporters
      <4>2. \A r \in Reporters : [r EXCEPT !.posted = TRUE] = [posted |-> TRUE, active |-> r.active]
        BY PostedReporter
      <4>3. \A r \in Reporters : \A at : [r EXCEPT !.active = at] = [posted |-> r.posted, active |-> at]
        BY DEF Reporters
      <4>4. QED
        BY <3>1, <4>1, <4>2, <4>3
    <3>4. CASE /\ enabled["slack"] /\ Accepts(e, step, task[e].at)
               /\ slack' = [slack EXCEPT ![e] = Shown(e, step, task[e].at)]
               /\ task' = [task EXCEPT ![e].todo = Tail(@)]
               /\ reporter' = [reporter EXCEPT ![e] =
                        CASE step = "post" -> [@ EXCEPT !.posted = TRUE]
                          [] step = "add" -> [@ EXCEPT !.active = task[e].at]
                          [] OTHER -> @]
               /\ lost' = lost
      <4>1. task'[e] = [at |-> task[e].at, todo |-> Tail(task[e].todo)]
        BY <1>0, <3>2, <3>4
      <4>2. slack'[e] = Shown(e, step, task[e].at) /\ lost'[e] = lost[e]
        BY <1>0, <3>1, <3>4
      <4>3. reporter'[e] = CASE step = "post" -> [reporter[e] EXCEPT !.posted = TRUE]
                             [] step = "add" -> [reporter[e] EXCEPT !.active = task[e].at]
                             [] OTHER -> reporter[e]
        BY <1>0, <3>1, <3>4
      <4>4. reporter'[e] = [posted |-> reporter[e].posted \/ step = "post",
                            active |-> IF step = "add" THEN task[e].at ELSE reporter[e].active]
        <5>1. CASE step = "post"
          BY <3>3, <4>3, <5>1
        <5>2. CASE step = "add"
          BY <3>3, <4>3, <5>2
        <5>3. CASE step \notin {"post", "add"}
          BY <3>3, <4>3, <5>3
        <5>4. QED
          BY <5>1, <5>2, <5>3
      <4>5. Told(e)
        BY <2>1, <2>3, <3>1, <3>4, <4>1, <4>2, <4>4 DEF Told
      <4>6. QED
        BY <4>5 DEF Chapter
    <3>5. CASE /\ enabled["slack"] /\ Accepts(e, step, task[e].at)
               /\ slack' = [slack EXCEPT ![e] = Shown(e, step, task[e].at)]
               /\ task' = [task EXCEPT ![e].todo = <<>>]
               /\ trouble' = trouble \cup {e} /\ reporter' = reporter
               /\ lost' = [lost EXCEPT ![e] = @ + 1]
      <4>1. /\ task'[e] = [at |-> task[e].at, todo |-> <<>>]
            /\ slack'[e] = Shown(e, step, task[e].at)
            /\ lost'[e] = lost[e] + 1
        BY <1>0, <3>1, <3>2, <3>5
      <4>2. Told(e)
        BY <2>1, <2>3, <3>1, <3>5, <4>1 DEF Told
      <4>3. QED
        BY <4>2 DEF Chapter
    <3>6. CASE /\ task' = [task EXCEPT ![e].todo = <<>>]
               /\ trouble' = trouble \cup {e} /\ UNCHANGED <<reporter, slack, lost>>
      <4>1. task'[e] = [at |-> task[e].at, todo |-> <<>>]
        BY <1>0, <3>2, <3>6
      <4>2. Told(e)
        BY <2>1, <2>3, <3>1, <3>6, <4>1 DEF Told
      <4>3. QED
        BY <4>2 DEF Chapter
    <3>7. QED
      BY <1>2, <2>3, <3>4, <3>5, <3>6 DEF ReporterCall
  <2>4. QED
    BY <2>2, <2>3
<1>3. ASSUME NEW x \in SlackEvents, ReporterRecords(x) PROVE Chapter(e)
  <2>1. CASE x = e
    <3>1. /\ task[e].at \in Phase /\ task[e].todo = <<>> /\ e \in SlackEvents
      BY <1>3, <2>1 DEF ReporterRecords
    <3>2. /\ rec'[e] = Progressed(rec[e], task[e].at, reporter[e].posted)
          /\ runs'[e] = runs[e] + (IF task[e].at = "queued" THEN 1 ELSE 0)
      BY <1>0, <1>3, <2>1 DEF ReporterRecords
    <3> DEFINE at == CASE task[e].at \in {"queued", "running"} -> "run"
                       [] task[e].at = "completed" -> "answer"
                       [] task[e].at = "failed" -> "over"
    <3>3. task'[e] = [task[e] EXCEPT !.at = at]
      BY <1>0, <1>3, <2>1 DEF ReporterRecords
    <3> HIDE DEF at
    <3>4. task'[e] = [at |-> at, todo |-> <<>>]
      BY <1>0, <1>01, <3>1, <3>3
    <3>5. Recorded(e)
      BY <1>3, <2>1, <3>1, <3>2, <3>4 DEF ReporterRecords, Recorded, Quiet, ReporterKept, at
    <3>6. QED
      BY <3>5 DEF Chapter
  <2>2. CASE x # e
    <3>1. Same(e)
      BY <1>0, <1>3, <2>2 DEF ReporterRecords, Same, Quiet, ReporterKept
    <3>2. QED
      BY <3>1 DEF Chapter
  <2>3. QED
    BY <2>1, <2>2
<1>4. ASSUME NEW x \in SlackEvents, RunEvent(x) PROVE Chapter(e)
  <2>1. CASE x = e
    <3>1. Heard(e)
      BY <1>0, <1>4, <2>1 DEF RunEvent, Reports, Heard, Quiet, ReporterKept
    <3>2. QED
      BY <3>1 DEF Chapter
  <2>2. CASE x # e
    <3>1. Same(e)
      BY <1>0, <1>4, <2>2 DEF RunEvent, Same, Quiet, ReporterKept
    <3>2. QED
      BY <3>1 DEF Chapter
  <2>3. QED
    BY <2>1, <2>2
<1>5. ASSUME NEW x \in SlackEvents, NEW target \in {"answer", "progress"}, Rated(x, target),
             target = "answer" => rec[x].responseTs \/ (x \notin Missions /\ answers[x] > 0),
             UNCHANGED <<enabled, rec, mission, log, up, memory, outside, history>>
      PROVE  Chapter(e)
  <2>1. CASE x = e
    <3>1. /\ e \in SlackEvents
          /\ feedback'[e] = feedback[e] \cup {[on |-> target, run |-> rec[e].out # "none"]}
          /\ target = "answer" => rec[e].responseTs \/ (e \notin Missions /\ answers[e] > 0)
      BY <1>0, <1>5, <2>1 DEF Rated
    <3>2. Judged(e)
      BY <1>5, <3>1 DEF Judged, ReporterKept
    <3>3. QED
      BY <3>2 DEF Chapter
  <2>2. CASE x # e
    <3>1. Same(e)
      BY <1>0, <1>5, <2>2 DEF Rated, Same, Quiet, ReporterKept
    <3>2. QED
      BY <3>1 DEF Chapter
  <2>3. QED
    BY <2>1, <2>2
<1>6. ASSUME NEW x \in Async, ScheduleMission(x) PROVE Chapter(e)
  <2>1. CASE x = e
    <3>1. Woken(e)
      BY <1>0, <1>01, <1>6, <2>1 DEF ScheduleMission, Woken, Quiet, ReporterKept
    <3>2. QED
      BY <3>1 DEF Chapter
  <2>2. CASE x # e
    <3>1. Same(e)
      BY <1>0, <1>6, <2>2 DEF ScheduleMission, Same, Quiet, ReporterKept
    <3>2. QED
      BY <3>1 DEF Chapter
  <2>3. QED
    BY <2>1, <2>2
<1>7. ASSUME NEW x \in Async, StartHandler(x) PROVE Chapter(e)
  <2>1. CASE x = e /\ e \in SlackEvents
    <3>1. /\ task[e].at = "start" /\ reporter'[e] = NoReporter /\ runs' = runs
          /\ task'[e] = [at |-> "queued", todo |-> Work(NoReporter, "queued")]
          /\ UNCHANGED <<rec, mission, answers, log, lost, slack, feedback>>
      BY <1>0, <1>7, <2>1 DEF StartHandler
    <3>2. Started(e)
      BY <2>1, <3>1 DEF Started, Quiet
    <3>3. QED
      BY <3>2 DEF Chapter
  <2>2. CASE x = e /\ e \notin SlackEvents
    <3>1. /\ task[e].at = "start" /\ runs'[e] = runs[e] + 1
          /\ task'[e] = [task[e] EXCEPT !.at = "run"]
          /\ UNCHANGED <<rec, mission, answers, log, lost, slack, feedback>>
      BY <1>0, <1>7, <2>2 DEF StartHandler
    <3>2. Started(e)
      BY <1>01, <2>2, <3>1 DEF Started, Quiet
    <3>3. QED
      BY <3>2 DEF Chapter
  <2>3. CASE x # e
    <3>1. Same(e)
      BY <1>0, <1>7, <2>3 DEF StartHandler, Same, Quiet, ReporterKept
    <3>2. QED
      BY <3>1 DEF Chapter
  <2>4. QED
    BY <2>1, <2>2, <2>3
<1>8. ASSUME NEW x \in Async, EndRun(x) PROVE Chapter(e)
  <2>1. CASE x = e
    <3>1. Ended(e)
      BY <1>0, <1>8, <2>1 DEF EndRun, Ended, Quiet, ReporterKept
    <3>2. QED
      BY <3>1 DEF Chapter
  <2>2. CASE x # e
    <3>1. Same(e)
      BY <1>0, <1>8, <2>2 DEF EndRun, Same, Quiet, ReporterKept
    <3>2. QED
      BY <3>1 DEF Chapter
  <2>3. QED
    BY <2>1, <2>2
<1>9. ASSUME NEW x \in Async, SendAnswer(x) PROVE Chapter(e)
  <2>1. UNCHANGED <<mission, feedback, reporter, slack, runs>> /\ task[x].at = "answer"
    BY <1>9 DEF SendAnswer
  <2>2. rec'[e] = rec[e]
    BY <1>0, <1>9 DEF SendAnswer, AnswerInSlack, SlackIsDisabled, AnswerByEmail, Tried, AfterAnswer
  <2>3. CASE x # e
    <3>1. task'[e] = task[e]
      BY <1>0, <1>9, <2>3 DEF SendAnswer, AnswerInSlack, SlackIsDisabled, AnswerByEmail
    <3>2. answers'[e] = answers[e] /\ log'[e] = log[e] /\ lost'[e] = lost[e]
      BY <1>0, <1>9, <2>3 DEF SendAnswer, AnswerInSlack, SlackIsDisabled, AnswerByEmail, Tried
    <3>3. Same(e)
      BY <2>1, <2>2, <3>1, <3>2 DEF Same, Quiet, ReporterKept
    <3>4. QED
      BY <3>3 DEF Chapter
  <2>4. CASE x = e
    <3>1. CASE \E s \in Sends :
                 /\ Tried(e, s)
                 /\ task' = [task EXCEPT ![e].at =
                       IF s.ok /\ e \in SlackEvents \ Missions THEN "record" ELSE "over"]
      <4>1. PICK s \in Sends :
                 /\ Tried(e, s)
                 /\ task' = [task EXCEPT ![e].at =
                       IF s.ok /\ e \in SlackEvents \ Missions THEN "record" ELSE "over"]
        BY <3>1
      <4>2. task'[e] = [at |-> IF s.ok /\ e \in SlackEvents \ Missions THEN "record" ELSE "over",
                        todo |-> task[e].todo]
        BY <1>0, <1>01, <4>1
      <4>3. /\ answers'[e] = answers[e] + Applied(s) /\ lost'[e] = lost[e] + s.lost
            /\ log'[e] = IF s.thrown THEN log[e]
                         ELSE Append(log[e], IF s.ok THEN "delivered" ELSE "failed")
            /\ s.ok \/ e \in trouble'
        BY <1>0, <4>1 DEF Tried
      <4>4. Answered(e)
        BY <2>1, <2>2, <2>4, <4>2, <4>3 DEF Answered, ReporterKept
      <4>5. QED
        BY <4>4 DEF Chapter
    <3>2. CASE SlackIsDisabled(e)
      <4>1. /\ task'[e] = [at |-> "over", todo |-> task[e].todo] /\ e \in trouble'
            /\ answers'[e] = answers[e] /\ lost'[e] = lost[e] /\ log'[e] = log[e]
        BY <1>0, <1>01, <3>2 DEF SlackIsDisabled
      <4>2. Answered(e)
        BY <2>1, <2>2, <2>4, <4>1 DEF Answered, ReporterKept
      <4>3. QED
        BY <4>2 DEF Chapter
    <3>3. QED
      BY <1>0, <1>9, <2>4, <3>1, <3>2 DEF SendAnswer, AnswerInSlack, AnswerByEmail, AsksForAssignment
  <2>5. QED
    BY <2>3, <2>4
<1>10. ASSUME NEW x \in Async, RecordResponse(x) PROVE Chapter(e)
  <2>1. CASE x = e
    <3>1. Linked(e)
      BY <1>0, <1>01, <1>10, <2>1 DEF RecordResponse, Linked, Quiet, ReporterKept
    <3>2. QED
      BY <3>1 DEF Chapter
  <2>2. CASE x # e
    <3>1. Same(e)
      BY <1>0, <1>10, <2>2 DEF RecordResponse, Same, Quiet, ReporterKept
    <3>2. QED
      BY <3>1 DEF Chapter
  <2>3. QED
    BY <2>1, <2>2
<1>11. ASSUME NEW d \in 1..MaxDeliveries, NEW x \in Hooks, CallWebhook(d, x) PROVE Chapter(e)
  <2>1. /\ \/ UNCHANGED rec \/ rec' = [rec EXCEPT ![x] = Running(Received)]
        /\ \/ UNCHANGED mission
           \/ mission' = [mission EXCEPT ![x] = IF MakesAssignment(x) THEN "created" ELSE @]
        /\ UNCHANGED <<task, runs, answers, log, lost, slack, feedback, reporter>>
    BY <1>11 DEF CallWebhook, RouteSync
  <2>2. Same(e)
    BY <1>0, <2>1 DEF Same, Quiet, ReporterKept
  <2>3. QED
    BY <2>2 DEF Chapter
<1>12. ASSUME NEW d \in 1..MaxDeliveries, ScheduleCalled(d) \/ EndCall(d) PROVE Chapter(e)
  <2>1. call[d].event \in Hooks /\ call[d].event # e
    BY <1>0, <1>12 DEF ScheduleCalled, EndCall, Typed, Callers
  <2>2. Same(e)
    BY <1>0, <1>12, <2>1 DEF ScheduleCalled, EndCall, Same, Quiet, ReporterKept
  <2>3. QED
    BY <2>2 DEF Chapter
<1>13. ASSUME NEW l \in Loops, NEW x \in Emails, PollNext(l, x) PROVE Chapter(e)
  <2>1. UNCHANGED <<log, feedback, reporter, slack, answers, runs, lost>>
    BY <1>13 DEF PollNext
  <2>2. CASE RouteAsync(x) /\ UNCHANGED mission /\ ~AsksForAssignment(x)
    BY <1>0, <1>03, <2>1, <2>2 DEF AsksForAssignment, Chapter
  <2>3. CASE UNCHANGED <<rec, task, mission>>
    BY <1>02, <2>1, <2>3 DEF Chapter
  <2>4. CASE /\ UNCHANGED <<rec, task>> /\ AsksForAssignment(x)
             /\ mission' = [mission EXCEPT ![x] = IF MakesAssignment(x) THEN "created" ELSE @]
             /\ poll' = [poll EXCEPT ![l] =
                             Holding(l, IF MakesAssignment(x) THEN "schedule" ELSE "mark", x)]
    <3>1. CASE x = e /\ MakesAssignment(x)
      <4>1. poll'[l].at = "schedule" /\ poll'[l].now = e
        BY <2>4, <3>1 DEF Holding, Typed, TypeOK
      <4>2. Made(e)
        BY <1>0, <2>1, <2>4, <3>1, <4>1
        DEF AsksForAssignment, MakesAssignment, HasAssignment, Made, Quiet, ReporterKept
      <4>3. QED
        BY <4>2 DEF Chapter
    <3>2. CASE ~(x = e /\ MakesAssignment(x))
      <4>1. Same(e)
        BY <1>0, <2>1, <2>4, <3>2 DEF Same, Quiet, ReporterKept
      <4>2. QED
        BY <4>1 DEF Chapter
    <3>3. QED
      BY <3>1, <3>2
  <2>5. QED
    BY <1>13, <2>2, <2>3, <2>4 DEF PollNext
<1>14. ASSUME NEW l \in Loops, PollSchedules(l) PROVE Chapter(e)
  <2>1. UNCHANGED <<rec, task, runs, answers, log, lost, slack, feedback, reporter>>
    BY <1>14 DEF PollSchedules
  <2>2. CASE poll[l].now = e
    <3>1. mission'[e] = "scheduled"
      BY <1>0, <1>14, <2>2 DEF PollSchedules
    <3>2. Woken(e)
      BY <1>14, <2>1, <2>2, <3>1 DEF PollSchedules, Woken, Quiet, ReporterKept
    <3>3. QED
      BY <3>2 DEF Chapter
  <2>3. CASE poll[l].now # e
    <3>1. Same(e)
      BY <1>0, <1>14, <2>1, <2>3 DEF PollSchedules, Same, Quiet, ReporterKept
    <3>2. QED
      BY <3>1 DEF Chapter
  <2>4. QED
    BY <2>2, <2>3
<1>15. ASSUME \/ \E x \in Emails : MailArrives(x)
              \/ \E l \in Loops : ListUnread(l) \/ MarkSeen(l) \/ EndPoll(l)
              \/ \E c \in Channels : Toggle(c)
              \/ LoggedOut
              \/ Restart
              \/ UNCHANGED vars
       PROVE  Chapter(e)
  <2>1. UNCHANGED <<rec, mission, task, runs, answers, log, lost, slack, feedback, reporter>>
    BY <1>15 DEF MailArrives, ListUnread, MarkSeen, EndPoll, LoggedOut, Toggle, Restart, vars
  <2>2. QED
    BY <1>02, <2>1 DEF Chapter
<1>16. ASSUME Crash PROVE Chapter(e)
  <2>1. /\ task'[e] = Idle
        /\ e \in SlackEvents => reporter'[e] = NoReporter
        /\ UNCHANGED <<mission, log, feedback, slack, answers, runs, lost>>
    BY <1>16 DEF Crash
  <2>2. Handled(e) => e \in Attended
    BY DEF Handled, Attended
  <2>3. Handled(e) => e \in died'
    BY <1>16, <2>2 DEF Crash
  <2>4. \/ rec'[e] = rec[e]
        \/ ~Known(e) /\ e \notin Missions /\ rec'[e] = Received /\ e \in died'
    BY <1>0, <1>16 DEF Crash
  <2>5. Died(e)
    BY <2>1, <2>3, <2>4 DEF Died, Quiet
  <2>6. QED
    BY <2>5 DEF Chapter
<1>17. Chapter(e)
  BY <1>1, <1>2, <1>3, <1>4, <1>5, <1>6, <1>7, <1>8, <1>9, <1>10, <1>11, <1>12, <1>13, <1>14, <1>15, <1>16
  DEF Next, Reporter, Handler, Caller, Poller, PressButton, ReactToMessage, FoundBy
<1>18. trouble \subseteq trouble' /\ died \subseteq died'
  BY TroubleGrows
<1>19. QED
  BY <1>17, <1>18

-----------------------------------------------------------------------------
(* Answers *)

\* The rows that routing writes.
LEMMA RoutedRows ==
    /\ Running(Received).status = "running" /\ Received.status = "received"
    /\ \A row \in {Running(Received), Received, NoRow} :
          row.out = "none" /\ row.progress = "none" /\ row.responseTs = FALSE
BY DEF Running, Received, NoRow

LEMMA AfterRunFacts ==
    ASSUME Typed, NEW e \in Async, NEW result \in Result
    PROVE  /\ result = "empty" => AfterRun(e, result).at = "over"
           /\ result = "failed" /\ e \in Emails => AfterRun(e, result).at = "over"
           /\ result = "text" /\ e \in Emails => AfterRun(e, result).at = "answer"
           /\ result = "failed" /\ e \in SlackEvents =>
                 AfterRun(e, result) = [at |-> "failed", todo |-> Work(reporter[e], "failed")]
           /\ result = "text" /\ e \in SlackEvents =>
                 AfterRun(e, result) = [at |-> "completed", todo |-> Work(reporter[e], "completed")]
           /\ result = "empty" \/ e \in Emails => AfterRun(e, result).todo = <<>>
<1>1. e \in SlackEvents <=> e \notin Emails
  BY InboundAssumption DEF Async
<1>2. QED
  BY <1>1 DEF AfterRun, Reports, Result

\* A chapter leaves the story of an event true.
LEMMA StoryGoesOn ==
    ASSUME Typed, PollsAccept, NEW e \in Async, Story(e), Chapter(e)
    PROVE  Story(e)'
<1>0. /\ e \in SlackEvents <=> e \notin Emails
      /\ rec[e] \in Row /\ task[e] \in Task /\ e \in Events
      /\ mission[e] \in {"none", "created", "scheduled"}
      /\ answers[e] \in Nat /\ lost[e] \in Nat /\ runs[e] \in Nat
      /\ log[e] \in Seq({"delivered", "failed"})
  BY InboundAssumption DEF Typed, TypeOK, Events, Async
<1>1. CASE Same(e)
  BY <1>1 DEF Same, Quiet, Story, Stage, MissionStage, Answering, Truthful, Fresh, Known
<1>2. CASE Accepted(e)
  <2>1. Fresh(e) /\ rec'[e].status = "running" /\ rec'[e].responseTs = FALSE
    BY <1>2, RoutedRows DEF Accepted, Story, Stage, Fresh
  <2>2. QED
    BY <1>0, <1>2, <2>1
    DEF Accepted, Quiet, Story, Stage, Answering, Truthful, Fresh, Known, Phase
<1>3. CASE Made(e)
  BY <1>0, <1>3 DEF Made, Quiet, Story, MissionStage, Answering, Truthful, Fresh, Known
<1>4. CASE Woken(e)
  <2>1. e \in Missions
    BY <1>4 DEF Woken, Story, Stage, PollsAccept, PollAccepts
  <2>2. QED
    BY <1>0, <1>4, <2>1 DEF Woken, Quiet, Story, MissionStage, Answering, Truthful, Fresh, Known
<1>5. CASE Started(e)
  <2>1. e \notin Missions
    BY <1>5 DEF Started, Story, MissionStage
  <2>2. QED
    BY <1>0, <1>5, <2>1 DEF Started, Quiet, Story, Stage, Answering, Truthful, Fresh, Known, Phase
<1>6. CASE Told(e)
  <2>1. e \notin Missions /\ task'[e].at = task[e].at /\ lost'[e] >= lost[e] /\ lost'[e] \in Nat
    BY <1>0, <1>6 DEF Told, Story, MissionStage, Phase
  <2>2. QED
    BY <1>0, <1>6, <2>1 DEF Told, Story, Stage, Answering, Truthful, Fresh, Known
<1>7. CASE Recorded(e)
  <2>1. e \notin Missions
    BY <1>7 DEF Recorded, Story, MissionStage, Phase
  <2>2. /\ rec'[e].status = rec[e].status /\ rec'[e].out = rec[e].out
        /\ rec'[e].responseTs = rec[e].responseTs
    <3>1. reporter[e].posted \in BOOLEAN
      BY <1>7 DEF Recorded, Typed, TypeOK
    <3>2. QED
      BY <1>0, <1>7, <3>1, ProgressedFields DEF Recorded
  <2>3. CASE task[e].at = "queued"
    BY <1>0, <1>7, <2>1, <2>2, <2>3
    DEF Recorded, Quiet, Story, Stage, Answering, Truthful, Fresh, Known, Phase
  <2>4. CASE task[e].at = "running"
    BY <1>0, <1>7, <2>1, <2>2, <2>4
    DEF Recorded, Quiet, Story, Stage, Answering, Truthful, Fresh, Known, Phase
  <2>5. CASE task[e].at = "completed"
    BY <1>0, <1>7, <2>1, <2>2, <2>5
    DEF Recorded, Quiet, Story, Stage, Answering, Truthful, Fresh, Known, Phase
  <2>6. CASE task[e].at = "failed"
    BY <1>0, <1>7, <2>1, <2>2, <2>6
    DEF Recorded, Quiet, Story, Stage, Answering, Truthful, Fresh, Known, Phase
  <2>7. QED
    BY <1>7, <2>3, <2>4, <2>5, <2>6 DEF Recorded, Phase
<1>8. CASE Heard(e)
  <2>1. e \notin Missions
    BY <1>8 DEF Heard, Story, MissionStage
  <2>2. QED
    BY <1>0, <1>8, <2>1 DEF Heard, Quiet, Story, Stage, Answering, Truthful, Fresh, Known, Phase
<1>9. CASE Ended(e)
  <2>1. e \notin Missions
    BY <1>9 DEF Ended, Story, MissionStage
  <2>2. PICK result \in Result : rec'[e] = Settled(rec[e], result) /\ task'[e] = AfterRun(e, result)
    BY <1>9 DEF Ended
  <2>3. /\ rec'[e].status = IF result = "failed" THEN "failed" ELSE "completed"
        /\ rec'[e].out = IF result = "failed" THEN rec[e].out ELSE result
        /\ rec'[e].responseTs = rec[e].responseTs
    BY <1>0, <2>2, SettledFields
  <2>4. /\ rec[e].responseTs = FALSE /\ answers[e] = 0 /\ log[e] = <<>> /\ runs[e] = 1
        /\ mission[e] = "none"
    BY <1>0, <1>9, <2>1 DEF Ended, Story, Stage, Answering, Row
  <2>5. CASE e \in Emails
    BY <1>0, <1>9, <2>1, <2>2, <2>3, <2>4, <2>5, AfterRunFacts
    DEF Ended, Quiet, Story, Stage, Answering, Truthful, Fresh, Known, Result, Phase
  <2>6. CASE e \in SlackEvents
    BY <1>0, <1>9, <2>1, <2>2, <2>3, <2>4, <2>6, AfterRunFacts
    DEF Ended, Quiet, Story, Stage, Answering, Truthful, Fresh, Known, Result, Phase
  <2>7. QED
    BY <1>0, <2>5, <2>6
<1>10. CASE Answered(e)
  <2>1. answers[e] = 0 /\ log[e] = <<>>
    BY <1>10 DEF Answered, Story, Answering
  <2>2. PICK at \in {"record", "over"} :
          /\ task'[e] = [at |-> at, todo |-> task[e].todo]
          /\ at = "record" => e \in SlackEvents \ Missions
    BY <1>10 DEF Answered
  <2>3. Truthful(e)'
    <3>1. CASE \E s \in Sends :
                 /\ answers'[e] = answers[e] + Applied(s) /\ lost'[e] = lost[e] + s.lost
                 /\ log'[e] = IF s.thrown THEN log[e]
                              ELSE Append(log[e], IF s.ok THEN "delivered" ELSE "failed")
      <4>1. PICK s \in Sends :
                 /\ answers'[e] = answers[e] + Applied(s) /\ lost'[e] = lost[e] + s.lost
                 /\ log'[e] = IF s.thrown THEN log[e]
                              ELSE Append(log[e], IF s.ok THEN "delivered" ELSE "failed")
        BY <3>1
      <4>2. s.lost \in Nat /\ s.ok \in BOOLEAN /\ (s.ok => ~s.thrown)
        BY DEF Sends
      <4>3. /\ s.ok => log'[e] = <<"delivered">> /\ answers'[e] = s.lost + 1
            /\ ~s.ok => log'[e] \in {<<"failed">>, <<>>} /\ answers'[e] = s.lost
        BY <2>1, <4>1, <4>2 DEF Applied
      <4>4. answers'[e] <= 1 + lost'[e] /\ (~s.ok => answers'[e] <= lost'[e]) /\ (s.ok => answers'[e] >= 1)
        BY <1>0, <4>1, <4>2, <4>3
      <4>5. /\ Len(log'[e]) <= 1
            /\ log'[e] = <<"delivered">> => answers'[e] >= 1
            /\ log'[e] # <<"delivered">> => answers'[e] <= lost'[e]
        <5>1. /\ Len(<<"delivered">>) = 1 /\ Len(<<"failed">>) = 1 /\ Len(<<>>) = 0
              /\ <<"failed">> # <<"delivered">> /\ <<>> # <<"delivered">>
          OBVIOUS
        <5>2. CASE s.ok
          <6>1. log'[e] = <<"delivered">>
            BY <4>3, <5>2
          <6>2. Len(log'[e]) = 1
            BY <5>1, <6>1
          <6>3. QED
            BY <4>4, <5>2, <6>1, <6>2
        <5>3. CASE ~s.ok
          <6>1. log'[e] = <<"failed">> \/ log'[e] = <<>>
            BY <4>3, <5>3
          <6>2. log'[e] # <<"delivered">>
            BY <5>1, <6>1
          <6>3. PICK n \in {0, 1} : Len(log'[e]) = n
            <7>1. CASE log'[e] = <<"failed">>
              BY <5>1, <7>1
            <7>2. CASE log'[e] = <<>>
              BY <5>1, <7>2
            <7>3. QED
              BY <6>1, <7>1, <7>2
          <6>4. Len(log'[e]) <= 1
            <7>1. n <= 1
              OBVIOUS
            <7>2. QED
              BY <6>3, <7>1
          <6>5. answers'[e] <= lost'[e]
            BY <4>4, <5>3
          <6>6. QED
            BY <6>2, <6>4, <6>5
        <5>4. QED
          BY <5>2, <5>3
      <4>6. e \in SlackEvents => feedback'[e] = feedback[e]
        BY <1>10 DEF Answered
      <4>7. QED
        BY <4>4, <4>5, <4>6 DEF Truthful, Story
    <3>2. CASE answers'[e] = answers[e] /\ lost'[e] = lost[e] /\ log'[e] = log[e]
      BY <1>10, <3>2 DEF Answered, Truthful, Story
    <3>3. QED
      BY <1>10, <3>1, <3>2 DEF Answered
  <2>4. IF e \in Missions THEN MissionStage(e)' ELSE Stage(e)'
    BY <1>0, <1>10, <2>2 DEF Answered, Story, Stage, MissionStage, Phase
  <2>5. Answering(e)'
    BY <1>0, <1>10, <2>2 DEF Answered, Story, Stage, MissionStage, Answering, Fresh, Known
  <2>6. QED
    BY <2>3, <2>4, <2>5 DEF Story
<1>11. CASE Linked(e)
  <2>1. e \notin Missions
    BY <1>11 DEF Linked, Story, MissionStage
  <2>2. rec'[e].status = rec[e].status /\ rec'[e].out = rec[e].out
    BY <1>0, <1>11 DEF Linked, Row
  <2>3. QED
    BY <1>0, <1>11, <2>1, <2>2
    DEF Linked, Quiet, Story, Stage, Answering, Truthful, Fresh, Known, Phase
<1>12. CASE Judged(e)
  <2>1. PICK on \in {"answer", "progress"} :
          /\ feedback'[e] = feedback[e] \cup {[on |-> on, run |-> rec[e].out # "none"]}
          /\ on = "answer" => rec[e].responseTs \/ (e \notin Missions /\ answers[e] > 0)
    BY <1>12 DEF Judged
  <2>2. on = "answer" => rec[e].out = "text"
    BY <2>1 DEF Story, MissionStage, Answering
  <2>3. [on |-> on, run |-> rec[e].out # "none"] # [on |-> "answer", run |-> FALSE]
    BY <2>2
  <2>4. [on |-> "answer", run |-> FALSE] \notin feedback'[e]
    BY <1>12, <2>1, <2>3 DEF Judged, Story, Truthful
  <2>5. QED
    BY <1>0, <1>12, <2>4
    DEF Judged, Story, Stage, MissionStage, Answering, Truthful, Fresh, Known
<1>13. CASE Died(e)
  <2>1. CASE rec'[e] = rec[e]
    BY <1>0, <1>13, <2>1
    DEF Died, Idle, Quiet, Story, Stage, MissionStage, Answering, Truthful, Fresh, Known, Phase
  <2>2. CASE ~Known(e) /\ e \notin Missions /\ rec'[e] = Received
    <3>1. Fresh(e) /\ rec'[e].status = "received" /\ rec'[e].responseTs = FALSE
      BY <2>2, RoutedRows DEF Story, Stage, Fresh
    <3>2. QED
      BY <1>0, <1>13, <2>2, <3>1
      DEF Died, Idle, Quiet, Story, Stage, Answering, Truthful, Fresh, Known, Phase
  <2>3. QED
    BY <1>13, <2>1, <2>2 DEF Died
<1>14. QED
  BY <1>1, <1>2, <1>3, <1>4, <1>5, <1>6, <1>7, <1>8, <1>9, <1>10, <1>11, <1>12, <1>13 DEF Chapter

-----------------------------------------------------------------------------
(* Mails: what a step may do to a loop of the poller *)

\* A row and an assignment last.
LEMMA Lasting ==
    ASSUME Typed, NEW e \in Async, Chapter(e)
    PROVE  /\ Known(e) => Known(e)'
           /\ mission[e] # "none" => mission'[e] # "none"
<1>0. rec[e] \in Row /\ e \in Events /\ (e \in SlackEvents => reporter[e].posted \in BOOLEAN)
  BY DEF Typed, TypeOK, Events
<1>1. CASE Recorded(e)
  BY <1>0, <1>1, ProgressedFields DEF Recorded, Known
<1>2. CASE Ended(e)
  BY <1>0, <1>2, SettledFields DEF Ended, Known
<1>3. CASE Linked(e)
  <2>1. [rec[e] EXCEPT !.responseTs = TRUE].status = rec[e].status
    BY <1>0 DEF Row
  <2>2. QED
    BY <1>3, <2>1 DEF Linked, Known
<1>4. QED
  BY <1>1, <1>2, <1>3
  DEF Chapter, Same, Accepted, Made, Woken, Started, Told, Heard, Answered, Judged, Died, Known

Turn(l) ==
    \/ poll'[l] = poll[l]
    \/ /\ poll'[l].at \in {"off", "armed", "next"}
       /\ poll[l].at = "schedule" => poll[l].now \in died'
    \/ /\ poll[l].at = "next" /\ poll'[l].at \in {"schedule", "mark"}
       /\ poll'[l].at = "schedule" =>
             poll'[l].now \in Missions /\ mission'[poll'[l].now] # "none"
       /\ poll'[l].at = "mark" =>
             \/ poll'[l].now \in AutoReplies
             \/ rec'[poll'[l].now].status # "none"
             \/ mission'[poll'[l].now] # "none"
    \/ /\ poll[l].at = "schedule" /\ poll'[l].at = "mark" /\ poll'[l].now = poll[l].now
       /\ mission'[poll[l].now] = "scheduled"

\* Whatever the step, a loop takes a turn, and only what is marked is seen.
LEMMA Turns ==
    ASSUME Typed, [Next]_vars, NEW k \in Loops
    PROVE  Turn(k)
<1> USE DEF durable, memory, outside, history
<1>0. /\ poll \in [Loops -> Loop] /\ Mailers
      /\ rec \in [Events -> Row]
      /\ mission \in [Events -> {"none", "created", "scheduled"}]
      /\ Off.at = "off" /\ Armed.at = "armed"
  BY DEF Typed, TypeOK, Off, Armed
<1>1. ASSUME NEW l \in Loops, ArmNext(l), poll[l].at # "schedule" PROVE Turn(k)
  BY <1>0, <1>1 DEF ArmNext, Turn
<1>2. ASSUME NEW l \in Loops, ListUnread(l) PROVE Turn(k)
  <2>1. CASE \E batch \in Batches : poll' = [poll EXCEPT ![l] = Fetched(batch \ Oversized)]
    BY <1>0, <1>2, <2>1 DEF ListUnread, Turn, Fetched
  <2>2. CASE ArmNext(l)
    BY <1>1, <1>2, <2>2 DEF ListUnread
  <2>3. CASE poll' = [poll EXCEPT ![l] = Off]
    BY <1>0, <1>2, <2>3 DEF ListUnread, Turn
  <2>4. QED
    BY <1>2, <2>1, <2>2, <2>3 DEF ListUnread
<1>3. ASSUME NEW l \in Loops, NEW x \in Emails, PollNext(l, x) PROVE Turn(k)
  <2>1. x \in Events
    BY DEF Events, Async
  <2>2. ASSUME NEW at \in {"mark", "schedule"}, poll' = [poll EXCEPT ![l] = Holding(l, at, x)],
               at = "schedule" => x \in Missions /\ mission'[x] # "none",
               at = "mark" => x \in AutoReplies \/ rec'[x].status # "none" \/ mission'[x] # "none"
        PROVE  Turn(k)
    <3>1. CASE k = l
      <4>1. poll'[k].at = at /\ poll'[k].now = x
        BY <1>0, <2>2, <3>1 DEF Holding
      <4>2. QED
        BY <1>3, <2>2, <3>1, <4>1 DEF PollNext, Turn
    <3>2. CASE k # l
      BY <1>0, <2>2, <3>2 DEF Turn
    <3>3. QED
      BY <3>1, <3>2
  <2>3. CASE IsAutoReply(x) /\ poll' = [poll EXCEPT ![l] = Holding(l, "mark", x)]
    BY <2>2, <2>3 DEF IsAutoReply
  <2>4. CASE /\ AsksForAssignment(x)
             /\ mission' = [mission EXCEPT ![x] = IF MakesAssignment(x) THEN "created" ELSE @]
             /\ poll' = [poll EXCEPT ![l] =
                             Holding(l, IF MakesAssignment(x) THEN "schedule" ELSE "mark", x)]
    <3>1. mission'[x] # "none" /\ x \in Missions
      BY <1>0, <2>1, <2>4 DEF MakesAssignment, HasAssignment, AsksForAssignment
    <3>2. PICK at \in {"mark", "schedule"} : poll' = [poll EXCEPT ![l] = Holding(l, at, x)]
      BY <2>4
    <3>3. QED
      BY <2>2, <3>1, <3>2
  <2>5. CASE RouteAsync(x) /\ poll' = [poll EXCEPT ![l] = Holding(l, "mark", x)]
    <3>1. rec'[x].status # "none"
      BY <1>0, <2>1, <2>5, RoutedRows DEF RouteAsync, Routed, Known
    <3>2. QED
      BY <2>2, <2>5, <3>1
  <2>6. CASE ArmNext(l)
    BY <1>1, <1>3, <2>6 DEF PollNext
  <2>7. QED
    BY <1>3, <2>3, <2>4, <2>5, <2>6 DEF PollNext
<1>4. ASSUME NEW l \in Loops, PollSchedules(l) PROVE Turn(k)
  <2>1. CASE k = l
    <3>1. poll'[k] = [poll[k] EXCEPT !.at = "mark"] /\ poll[k] \in Loop
      BY <1>0, <1>4, <2>1 DEF PollSchedules
    <3>2. poll'[k].at = "mark" /\ poll'[k].now = poll[k].now
      BY <3>1 DEF Loop
    <3>3. mission'[poll[k].now] = "scheduled"
      BY <1>0, <1>4, <2>1 DEF PollSchedules, Mailers, Events, Async
    <3>4. QED
      BY <1>4, <2>1, <3>2, <3>3 DEF PollSchedules, Turn
  <2>2. CASE k # l
    BY <1>0, <1>4, <2>2 DEF PollSchedules, Turn
  <2>3. QED
    BY <2>1, <2>2
<1>5. ASSUME NEW l \in Loops, MarkSeen(l) PROVE Turn(k)
  <2>1. CASE ArmNext(l)
    BY <1>1, <1>5, <2>1 DEF MarkSeen
  <2>2. CASE poll' = [poll EXCEPT ![l] = Fetched(poll[l].todo \ {poll[l].now})]
    BY <1>0, <1>5, <2>2 DEF MarkSeen, Turn, Fetched
  <2>3. QED
    BY <1>5, <2>1, <2>2 DEF MarkSeen
<1>6. ASSUME NEW l \in Loops, EndPoll(l) PROVE Turn(k)
  BY <1>1, <1>6 DEF EndPoll
<1>7. ASSUME StopPoller PROVE Turn(k)
  BY <1>0, <1>7 DEF StopPoller, Turn
<1>8. ASSUME StartPoller PROVE Turn(k)
  BY <1>0, <1>8 DEF StartPoller, Turn
<1>9. ASSUME NEW c \in Channels, Toggle(c) PROVE Turn(k)
  <2>1. UNCHANGED <<poller, poll>> \/ StopPoller \/ StartPoller
    BY <1>9 DEF Toggle
  <2>2. QED
    BY <1>7, <1>8, <2>1 DEF Turn
<1>10. ASSUME Crash PROVE Turn(k)
  <2>1. poll'[k].at = "off"
    BY <1>0, <1>10 DEF Crash
  <2>2. poll[k].at = "schedule" => poll[k].now \in Attended
    BY DEF Attended
  <2>3. poll[k].at = "schedule" => poll[k].now \in died'
    BY <1>10, <2>2 DEF Crash
  <2>4. QED
    BY <2>1, <2>3 DEF Turn
<1>11. ASSUME Restart PROVE Turn(k)
  BY <1>8, <1>11 DEF Restart, Turn
<1>12. ASSUME UNCHANGED poll PROVE Turn(k)
  BY <1>12 DEF Turn
<1>13. \/ UNCHANGED poll
       \/ \E l \in Loops : \/ ListUnread(l) \/ PollSchedules(l) \/ MarkSeen(l) \/ EndPoll(l)
                           \/ \E x \in Emails : PollNext(l, x)
       \/ \E c \in Channels : Toggle(c)
       \/ Crash
       \/ Restart
  BY DEF Next, Reporter, Handler, Caller, Poller, PressButton, ReactToMessage, DeliverSlack,
         ReporterCall, ReporterRecords, RunEvent, MailArrives, ScheduleMission, StartHandler,
         EndRun, SendAnswer, RecordResponse, CallWebhook, ScheduleCalled, EndCall, LoggedOut, vars
<1>14. QED
  BY <1>2, <1>3, <1>4, <1>5, <1>6, <1>9, <1>10, <1>11, <1>12, <1>13

\* A mail that is seen was seen before, or is passed over, or is marked.
LEMMA OnlyMarkedIsSeen ==
    ASSUME Typed, [Next]_vars, NEW e \in Emails, mailbox'[e] = "seen"
    PROVE  \/ mailbox[e] = "seen" \/ e \in Oversized
           \/ \E l \in Loops : poll[l].at = "mark" /\ poll[l].now = e
<1> USE DEF durable, memory, outside, history
<1>0. mailbox \in [Emails -> {"absent", "unseen", "seen"}] /\ Mailers
  BY DEF Typed, TypeOK
<1>1. CASE UNCHANGED mailbox
  BY <1>1
<1>2. CASE \E x \in Emails : MailArrives(x)
  BY <1>0, <1>2 DEF MailArrives
<1>3. CASE \E l \in Loops : ListUnread(l)
  BY <1>0, <1>3 DEF ListUnread, Marked
<1>4. CASE \E l \in Loops : MarkSeen(l)
  BY <1>0, <1>4 DEF MarkSeen, Marked, Mailers
<1>5. QED
  BY <1>1, <1>2, <1>3, <1>4
  DEF Next, Reporter, Handler, Caller, Poller, PressButton, ReactToMessage, DeliverSlack,
      ReporterCall, ReporterRecords, RunEvent, ScheduleMission, StartHandler, EndRun, SendAnswer,
      RecordResponse, CallWebhook, ScheduleCalled, EndCall, PollNext, PollSchedules, EndPoll,
      LoggedOut, Toggle, Crash, Restart, vars

\* The account of the mails and of who carries an event on stays true.
LEMMA MailGoesOn ==
    ASSUME Typed, Typed', AnswersInv, MailInv, [Next]_vars
    PROVE  MailInv'
<1>1. \A e \in Async : Chapter(e) /\ (e \in died => e \in died')
  BY Chapters
<1>2. \A e \in Async : /\ Known(e) => Known(e)'
                       /\ mission[e] # "none" => mission'[e] # "none"
  BY <1>1, Lasting
<1>3. \A l \in Loops : Turn(l)
  BY Turns
<1>4. Mailers /\ Mailers' /\ Emails \subseteq Async
  BY DEF Typed, Async
<1>5. ASSUME NEW l \in Loops PROVE PollAccepts(l)'
  <2>1. PollAccepts(l) /\ Turn(l)
    BY <1>3 DEF MailInv, PollsAccept
  <2>2. CASE poll'[l] = poll[l]
    BY <1>2, <1>4, <2>1, <2>2 DEF PollAccepts, Mailers
  <2>3. CASE poll'[l].at \in {"off", "armed", "next"}
    BY <2>3 DEF PollAccepts
  <2>4. CASE poll'[l] # poll[l] /\ poll'[l].at \notin {"off", "armed", "next"}
    BY <2>1, <2>4 DEF Turn, PollAccepts, Known
  <2>5. QED
    BY <2>2, <2>3, <2>4
<1>6. ASSUME NEW e \in Emails \ (AutoReplies \cup Oversized), mailbox'[e] = "seen"
      PROVE  Known(e)' \/ mission'[e] # "none"
  <2>1. Known(e) \/ mission[e] # "none"
    BY <1>6, OnlyMarkedIsSeen DEF MailInv, SeenIsAccepted, PollsAccept, PollAccepts
  <2>2. QED
    BY <1>2, <1>4, <2>1
<1>7. ASSUME NEW e \in Async PROVE Carried(e)'
  <2> DEFINE held == \E l \in Loops : poll[l].at = "schedule" /\ poll[l].now = e
             heldNext == \E l \in Loops : poll'[l].at = "schedule" /\ poll'[l].now = e
  <2>1. /\ Carried(e) /\ Story(e) /\ Chapter(e)
        /\ e \in died => e \in died'
        /\ rec[e] \in Row /\ e \in Events /\ (e \in SlackEvents => reporter[e].posted \in BOOLEAN)
    BY <1>1 DEF MailInv, AnswersInv, Typed, TypeOK, Events
  <2>2. held => heldNext \/ e \in died' \/ mission'[e] = "scheduled"
    BY <1>3 DEF Turn
  <2>3. held => e \in Missions
    BY DEF MailInv, PollsAccept, PollAccepts
  <2> HIDE DEF held
  <2>4. Carried(e) <=> (e \notin died /\ (rec[e].status \in {"received", "running"} \/ mission[e] = "created")
                          => Handled(e) \/ held)
    BY DEF Carried, held
  <2>5. Carried(e)' <=> (e \notin died' /\ (rec'[e].status \in {"received", "running"} \/ mission'[e] = "created")
                          => Handled(e)' \/ heldNext)
    BY DEF Carried
  <2> HIDE DEF heldNext
  <2>6. CASE Same(e) \/ Judged(e)
    BY <2>1, <2>2, <2>3, <2>4, <2>5, <2>6 DEF Same, Judged, Handled, Story, MissionStage
  <2>7. CASE Accepted(e) \/ Heard(e)
    BY <2>5, <2>7 DEF Accepted, Heard, Handled
  <2>8. CASE Made(e)
    <3>1. e \in Emails => heldNext
      BY <2>8 DEF Made, heldNext
    <3>2. e \in SlackEvents => Handled(e)'
      BY <2>8 DEF Made, Handled
    <3>3. QED
      BY <2>5, <3>1, <3>2 DEF Async
  <2>9. CASE Woken(e)
    <3>1. e \in Missions
      BY <2>1, <2>3, <2>9 DEF Woken, Story, Stage, held
    <3>2. QED
      BY <2>1, <2>5, <2>9, <3>1 DEF Woken, Story, MissionStage
  <2>10. CASE Started(e)
    BY <2>5, <2>10 DEF Started, Handled
  <2>11. CASE Told(e)
    BY <2>5, <2>11 DEF Told, Handled, Phase
  <2>12. CASE Recorded(e)
    <3>1. rec'[e].status = rec[e].status
      BY <2>1, <2>12, ProgressedFields DEF Recorded
    <3>2. QED
      BY <2>1, <2>5, <2>12, <3>1 DEF Recorded, Handled, Story, Stage, MissionStage, Phase
  <2>13. CASE Ended(e)
    <3>1. rec'[e].status \in {"completed", "failed"}
      BY <2>1, <2>13, SettledFields DEF Ended
    <3>2. mission'[e] = "none"
      BY <2>1, <2>13 DEF Ended, Story, Stage, MissionStage
    <3>3. QED
      BY <2>5, <3>1, <3>2
  <2>14. CASE Answered(e)
    BY <2>1, <2>5, <2>14 DEF Answered, Story, Stage, MissionStage
  <2>15. CASE Linked(e)
    <3>1. [rec[e] EXCEPT !.responseTs = TRUE].status = rec[e].status
      BY <2>1 DEF Row
    <3>2. QED
      BY <2>1, <2>5, <2>15, <3>1 DEF Linked, Story, Stage, MissionStage
  <2>16. CASE Died(e)
    BY <2>1, <2>2, <2>3, <2>4, <2>5, <2>16 DEF Died, Story, MissionStage
  <2>17. QED
    BY <2>1, <2>6, <2>7, <2>8, <2>9, <2>10, <2>11, <2>12, <2>13, <2>14, <2>15, <2>16 DEF Chapter
<1>8. QED
  BY <1>5, <1>6, <1>7 DEF MailInv, PollsAccept, SeenIsAccepted

-----------------------------------------------------------------------------
(* Webhook calls *)

\* Only calls, and the death of the process, change what is known of a hook.
LEMMA HooksApart ==
    ASSUME Typed, [Next]_vars,
           ~(\E d \in 1..MaxDeliveries : \/ \E e \in Hooks : CallWebhook(d, e)
                                         \/ ScheduleCalled(d) \/ EndCall(d)),
           ~Crash
    PROVE  /\ call' = call
           /\ \A e \in Hooks : rec'[e] = rec[e] /\ mission'[e] = mission[e]
<1> USE DEF durable, memory, outside, history
<1>0. /\ rec \in [Events -> Row]
      /\ mission \in [Events -> {"none", "created", "scheduled"}]
      /\ Mailers
      /\ \A e \in Hooks : e \in Events /\ e \notin Async
      /\ SlackEvents \subseteq Async /\ Emails \subseteq Async
  BY InboundAssumption DEF Typed, TypeOK, Events, Async
<1>1. ASSUME NEW x \in Async, RouteAsync(x), UNCHANGED <<call, mission>>
      PROVE  call' = call /\ \A e \in Hooks : rec'[e] = rec[e] /\ mission'[e] = mission[e]
  BY <1>0, <1>1 DEF RouteAsync
<1>2. CASE \E x \in SlackEvents : DeliverSlack(x)
  <2>1. PICK x \in SlackEvents : DeliverSlack(x)
    BY <1>2
  <2>2. CASE AsksForAssignment(x)
    BY <1>0, <2>1, <2>2 DEF DeliverSlack
  <2>3. CASE ~AsksForAssignment(x)
    BY <1>0, <1>1, <2>1, <2>3 DEF DeliverSlack
  <2>4. QED
    BY <2>2, <2>3
<1>3. CASE \E x \in SlackEvents : ReporterRecords(x)
  BY <1>0, <1>3 DEF ReporterRecords
<1>4. CASE \E x \in Async : ScheduleMission(x)
  BY <1>0, <1>4 DEF ScheduleMission
<1>5. CASE \E x \in Async : EndRun(x)
  BY <1>0, <1>5 DEF EndRun
<1>6. CASE \E x \in Async : SendAnswer(x)
  BY <1>0, <1>6 DEF SendAnswer, AnswerInSlack, SlackIsDisabled, AnswerByEmail, Tried, AfterAnswer
<1>7. CASE \E x \in Async : RecordResponse(x)
  BY <1>0, <1>7 DEF RecordResponse
<1>8. CASE \E l \in Loops, x \in Emails : PollNext(l, x)
  <2>1. PICK l \in Loops, x \in Emails : PollNext(l, x)
    BY <1>8
  <2>2. CASE UNCHANGED <<rec, mission>>
    BY <2>1, <2>2 DEF PollNext
  <2>3. CASE RouteAsync(x) /\ UNCHANGED mission
    BY <1>0, <1>1, <2>1, <2>3 DEF PollNext
  <2>4. CASE rec' = rec /\ mission' = [mission EXCEPT ![x] = IF MakesAssignment(x) THEN "created" ELSE @]
    BY <1>0, <2>1, <2>4 DEF PollNext
  <2>5. QED
    BY <2>1, <2>2, <2>3, <2>4 DEF PollNext
<1>9. CASE \E l \in Loops : PollSchedules(l)
  BY <1>0, <1>9 DEF PollSchedules, Mailers
<1>10. CASE UNCHANGED <<rec, mission, call>>
  BY <1>10
<1>11. QED
  BY <1>2, <1>3, <1>4, <1>5, <1>6, <1>7, <1>8, <1>9, <1>10
  DEF Next, Reporter, Handler, Caller, Poller, PressButton, ReactToMessage, ReporterCall, RunEvent,
      MailArrives, StartHandler, ListUnread, MarkSeen, EndPoll, LoggedOut, Toggle, Restart, vars

\* What webhook calls leave behind stays accounted for.
LEMMA CallsGoOn ==
    ASSUME Typed, CallsInv, [Next]_vars
    PROVE  CallsInv'
<1> USE DEF durable, memory, outside, history
<1>0. /\ rec \in [Events -> Row]
      /\ mission \in [Events -> {"none", "created", "scheduled"}]
      /\ call \in [1..MaxDeliveries -> Call] /\ Callers
      /\ \A e \in Hooks : e \in Events /\ e \notin Async /\ rec[e] \in Row
      /\ trouble \subseteq Events /\ died \subseteq Events
  BY InboundAssumption DEF Typed, TypeOK, Events
<1>01. CallsKnown /\ ConcurrentOnlyAfterFailure /\ \A e \in Hooks : HookRow(e)
  BY DEF CallsInv
<1>1. ASSUME call' = call, \A e \in Hooks : rec'[e] = rec[e] /\ mission'[e] = mission[e],
             trouble \subseteq trouble', died \subseteq died'
      PROVE  CallsInv'
  <2>1. CallsKnown'
    BY <1>0, <1>01, <1>1 DEF CallsKnown, Callers, Known
  <2>2. ConcurrentOnlyAfterFailure'
    BY <1>01, <1>1 DEF ConcurrentOnlyAfterFailure
  <2>3. \A e \in Hooks : HookRow(e)'
    BY <1>01, <1>1 DEF HookRow
  <2>4. QED
    BY <2>1, <2>2, <2>3 DEF CallsInv
<1>2. ASSUME NEW d \in 1..MaxDeliveries, NEW x \in Hooks, CallWebhook(d, x) PROVE CallsInv'
  <2>1. call[d].at = "none" /\ UNCHANGED <<trouble, died>>
    BY <1>2 DEF CallWebhook
  <2>2. CASE AsksForAssignment(x)
    <3>1. /\ rec' = rec
          /\ mission' = [mission EXCEPT ![x] = IF MakesAssignment(x) THEN "created" ELSE @]
          /\ call' = [call EXCEPT ![d] =
                    [at |-> IF MakesAssignment(x) THEN "schedule" ELSE "over", event |-> x]]
      BY <1>2, <2>2 DEF CallWebhook
    <3>2. /\ \A c \in 1..MaxDeliveries : c # d => call'[c] = call[c]
          /\ call'[d].event = x
          /\ call'[d].at = IF MakesAssignment(x) THEN "schedule" ELSE "over"
      BY <1>0, <3>1
    <3>3. /\ mission'[x] = IF MakesAssignment(x) THEN "created" ELSE mission[x]
          /\ \A e \in Hooks : e # x => mission'[e] = mission[e]
      BY <1>0, <3>1
    <3>4. CallsKnown'
      BY <1>01, <3>1, <3>2 DEF CallsKnown, Known
    <3>5. ConcurrentOnlyAfterFailure'
      BY <1>01, <2>1, <3>2 DEF ConcurrentOnlyAfterFailure
    <3>6. ASSUME NEW e \in Hooks PROVE HookRow(e)'
      <4>1. HookRow(e)
        BY <1>01
      <4>2. rec'[e].status = "running" /\ e \notin died' =>
              \E c \in 1..MaxDeliveries : call'[c].at = "run" /\ call'[c].event = e
        BY <2>1, <3>1, <3>2, <4>1 DEF HookRow
      <4>3. mission'[e] = "created" /\ e \notin died' =>
              \E c \in 1..MaxDeliveries : call'[c].at = "schedule" /\ call'[c].event = e
        BY <2>1, <3>2, <3>3, <4>1 DEF HookRow
      <4>4. QED
        BY <2>1, <3>1, <4>1, <4>2, <4>3 DEF HookRow
    <3>7. QED
      BY <3>4, <3>5, <3>6 DEF CallsInv
  <2>3. CASE ~AsksForAssignment(x) /\ RefusedOrReplayed(x)
    <3>1. /\ UNCHANGED <<rec, mission>>
          /\ call' = [call EXCEPT ![d] = [at |-> "over", event |-> x]]
      BY <1>2, <2>3 DEF CallWebhook, RouteSync
    <3>2. /\ \A c \in 1..MaxDeliveries : c # d => call'[c] = call[c]
          /\ call'[d].at = "over"
      BY <1>0, <3>1
    <3>3. CallsKnown' /\ ConcurrentOnlyAfterFailure'
      BY <1>01, <2>1, <3>1, <3>2 DEF CallsKnown, ConcurrentOnlyAfterFailure, Known
    <3>4. \A e \in Hooks : HookRow(e)'
      BY <1>01, <2>1, <3>1, <3>2 DEF HookRow
    <3>5. QED
      BY <3>3, <3>4 DEF CallsInv
  <2>4. CASE ~AsksForAssignment(x) /\ ~RefusedOrReplayed(x)
    <3>1. /\ UNCHANGED mission
          /\ rec' = IF Known(x) THEN rec ELSE [rec EXCEPT ![x] = Running(Received)]
          /\ call' = [call EXCEPT ![d] = [at |-> "run", event |-> x]]
      BY <1>2, <2>4 DEF CallWebhook, RouteSync
    <3>2. /\ \A c \in 1..MaxDeliveries : c # d => call'[c] = call[c]
          /\ call'[d].at = "run" /\ call'[d].event = x
      BY <1>0, <3>1
    <3>3. /\ \A e \in Hooks : e # x => rec'[e] = rec[e]
          /\ Known(x) => rec' = rec
          /\ ~Known(x) => rec'[x].status = "running"
      BY <1>0, <3>1, RoutedRows
    <3>4. Known(x) => x \in trouble \cup died
      <4>1. Known(x) => rec[x].out = "none" /\ rec[x].status \in {"received", "completed", "failed"}
        BY <1>0, <2>4 DEF RefusedOrReplayed, Replayed, Refused, Known, Row, Status
      <4>2. QED
        BY <1>01, <4>1 DEF HookRow
    <3>5. CallsKnown'
      BY <1>0, <1>01, <3>2, <3>3 DEF CallsKnown, Known, Callers
    <3>6. ConcurrentOnlyAfterFailure'
      <4>1. \A c \in 1..MaxDeliveries : c # d /\ call[c].at = "run" /\ call[c].event = x => x \in trouble \cup died
        BY <1>01, <3>4 DEF CallsKnown
      <4>2. QED
        BY <1>01, <2>1, <3>2, <4>1 DEF ConcurrentOnlyAfterFailure
    <3>7. ASSUME NEW e \in Hooks PROVE HookRow(e)'
      <4>1. HookRow(e)
        BY <1>01
      <4>2. rec'[e].status = "running" /\ e \notin died' =>
              \E c \in 1..MaxDeliveries : call'[c].at = "run" /\ call'[c].event = e
        BY <2>1, <3>2, <3>3, <4>1 DEF HookRow
      <4>3. mission'[e] = "created" /\ e \notin died' =>
              \E c \in 1..MaxDeliveries : call'[c].at = "schedule" /\ call'[c].event = e
        BY <2>1, <3>1, <3>2, <4>1 DEF HookRow
      <4>4. e # x \/ Known(x) => rec'[e] = rec[e]
        BY <3>3
      <4>5. QED
        BY <2>1, <3>3, <4>1, <4>2, <4>3, <4>4 DEF HookRow
    <3>8. QED
      BY <3>5, <3>6, <3>7 DEF CallsInv
  <2>5. QED
    BY <2>2, <2>3, <2>4
<1>3. ASSUME NEW d \in 1..MaxDeliveries, ScheduleCalled(d) PROVE CallsInv'
  <2>1. /\ call[d].at = "schedule" /\ call[d].event \in Hooks
        /\ UNCHANGED <<rec, trouble, died>>
        /\ mission' = [mission EXCEPT ![call[d].event] = "scheduled"]
        /\ call' = [call EXCEPT ![d].at = "over"]
    BY <1>0, <1>3 DEF ScheduleCalled, Callers
  <2>2. /\ \A c \in 1..MaxDeliveries : c # d => call'[c] = call[c]
        /\ call'[d].at = "over"
        /\ mission'[call[d].event] = "scheduled"
        /\ \A e \in Hooks : e # call[d].event => mission'[e] = mission[e]
    BY <1>0, <2>1 DEF Call
  <2>3. CallsKnown' /\ ConcurrentOnlyAfterFailure'
    BY <1>01, <2>1, <2>2 DEF CallsKnown, ConcurrentOnlyAfterFailure, Known
  <2>4. \A e \in Hooks : HookRow(e)'
    BY <1>01, <2>1, <2>2 DEF HookRow
  <2>5. QED
    BY <2>3, <2>4 DEF CallsInv
<1>4. ASSUME NEW d \in 1..MaxDeliveries, EndCall(d) PROVE CallsInv'
  <2> DEFINE x == call[d].event
  <2>1. PICK result \in Result :
          /\ rec' = [rec EXCEPT ![x] = Settled(@, result)]
          /\ trouble' = IF result = "failed" THEN trouble \cup {x} ELSE trouble
          /\ died' = died
    BY <1>4 DEF EndCall
  <2>2. /\ call[d].at = "run" /\ x \in Hooks /\ UNCHANGED mission
        /\ call' = [call EXCEPT ![d].at = "over"]
    BY <1>0, <1>4 DEF EndCall, Callers
  <2>3. /\ \A c \in 1..MaxDeliveries : c # d => call'[c] = call[c]
        /\ call'[d].at = "over"
    BY <1>0, <2>2 DEF Call
  <2>4. /\ \A e \in Hooks : e # x => rec'[e] = rec[e]
        /\ rec'[x] = Settled(rec[x], result)
    BY <1>0, <2>1, <2>2
  <2>5. /\ rec'[x].status = IF result = "failed" THEN "failed" ELSE "completed"
        /\ rec'[x].out = IF result = "failed" THEN rec[x].out ELSE result
    BY <1>0, <2>2, <2>4, SettledFields
  <2>6. trouble \subseteq trouble' /\ died' = died /\ (result = "failed" => x \in trouble')
    BY <2>1
  <2> HIDE DEF x
  <2>7. CallsKnown'
    <3>1. \A e \in Hooks : Known(e) => Known(e)'
      BY <2>4, <2>5 DEF Known
    <3>2. QED
      BY <1>0, <1>01, <2>3, <3>1 DEF CallsKnown, Callers
  <2>8. ConcurrentOnlyAfterFailure'
    BY <1>01, <2>3, <2>6 DEF ConcurrentOnlyAfterFailure
  <2>9. ASSUME NEW e \in Hooks PROVE HookRow(e)'
    <3>1. HookRow(e)
      BY <1>01
    <3>2. CASE e = x
      <4>1. mission'[e] = "created" /\ e \notin died' =>
              \E c \in 1..MaxDeliveries : call'[c].at = "schedule" /\ call'[c].event = e
        BY <2>2, <2>3, <2>6, <3>1 DEF HookRow
      <4>2. QED
        BY <2>5, <2>6, <3>2, <4>1 DEF HookRow, Result
    <3>3. CASE e # x
      <4>1. \A c \in 1..MaxDeliveries : call[c].event = e => call'[c] = call[c]
        BY <2>3, <3>3 DEF x
      <4>2. rec'[e] = rec[e] /\ mission'[e] = mission[e]
        BY <2>2, <2>4, <3>3
      <4>3. QED
        BY <2>6, <3>1, <4>1, <4>2 DEF HookRow
    <3>4. QED
      BY <3>2, <3>3
  <2>10. QED
    BY <2>7, <2>8, <2>9 DEF CallsInv
<1>5. ASSUME Crash PROVE CallsInv'
  <2>1. \A d \in 1..MaxDeliveries : call'[d].at \in {"none", "over"}
    BY <1>0, <1>5 DEF Crash, Call
  <2>2. \A d \in 1..MaxDeliveries : call[d].at \in {"schedule", "run"} => call[d].event \in Attended
    BY <1>0 DEF Attended
  <2>3. /\ died \subseteq died' /\ Attended \subseteq died' /\ UNCHANGED <<mission, trouble>>
        /\ \A e \in Hooks : rec'[e] = rec[e] \/ (rec'[e] = Received /\ e \in died')
    BY <1>0, <1>5 DEF Crash
  <2>4. CallsKnown' /\ ConcurrentOnlyAfterFailure'
    BY <2>1 DEF CallsKnown, ConcurrentOnlyAfterFailure
  <2>5. ASSUME NEW e \in Hooks PROVE HookRow(e)'
    <3>1. HookRow(e)
      BY <1>01
    <3>2. CASE rec'[e] = rec[e]
      BY <2>2, <2>3, <3>1, <3>2 DEF HookRow
    <3>3. CASE rec'[e] = Received /\ e \in died'
      BY <3>3, RoutedRows DEF HookRow
    <3>4. QED
      BY <2>3, <3>2, <3>3
  <2>6. QED
    BY <2>4, <2>5 DEF CallsInv
<1>6. CASE ~(\E d \in 1..MaxDeliveries : \/ \E e \in Hooks : CallWebhook(d, e)
                                         \/ ScheduleCalled(d) \/ EndCall(d)) /\ ~Crash
  <2>1. trouble \subseteq trouble' /\ died \subseteq died'
    BY TroubleGrows
  <2>2. QED
    BY <1>1, <1>6, <2>1, HooksApart
<1>7. QED
  BY <1>2, <1>3, <1>4, <1>5, <1>6

-----------------------------------------------------------------------------
(* What follows of every behaviour *)

EventsInv == Typed /\ AnswersInv /\ MailInv /\ CallsInv

LEMMA EventsInit ==
    ASSUME Init
    PROVE  EventsInv
<1>1. Typed
  BY TypeInit
<1>2. \A e \in Async : e \in Events /\ rec[e] = NoRow /\ mission[e] = "none" /\ task[e].at = "none"
  BY DEF Init, Events, Idle
<1>3. NoRow.status = "none" /\ NoRow.responseTs = FALSE
  BY DEF NoRow
<1>4. ASSUME NEW e \in Async PROVE Story(e)
  <2>1. answers[e] = 0 /\ log[e] = <<>> /\ lost[e] = 0 /\ runs[e] = 0 /\ (e \in SlackEvents => feedback[e] = {})
    BY DEF Init
  <2>2. Len(log[e]) = 0 /\ log[e] # <<"delivered">>
    BY <2>1
  <2>3. Truthful(e)
    BY <2>1, <2>2 DEF Truthful
  <2>4. QED
    BY <1>2, <1>3, <2>1, <2>3 DEF Story, Stage, MissionStage, Answering, Phase
<1>5. \A l \in Loops : poll[l].at = "off"
  BY DEF Init, Off
<1>6. MailInv
  BY <1>2, <1>3, <1>5 DEF MailInv, PollsAccept, PollAccepts, SeenIsAccepted, Carried, Init
<1>7. CallsInv
  <2>1. \A d \in 1..MaxDeliveries : call[d].at = "none"
    BY DEF Init
  <2>2. \A e \in Hooks : rec[e].status = "none" /\ mission[e] = "none"
    BY <1>3 DEF Init, Events
  <2>3. QED
    BY <2>1, <2>2 DEF CallsInv, CallsKnown, ConcurrentOnlyAfterFailure, HookRow
<1>8. QED
  BY <1>1, <1>4, <1>6, <1>7 DEF EventsInv, AnswersInv

LEMMA EventsNext ==
    ASSUME EventsInv, [Next]_vars
    PROVE  EventsInv'
<1>1. Typed /\ AnswersInv /\ MailInv /\ CallsInv /\ PollsAccept
  BY DEF EventsInv, MailInv
<1>2. Typed'
  BY <1>1, TypeKept
<1>3. \A e \in Async : Chapter(e)
  BY <1>1, Chapters
<1>4. AnswersInv'
  BY <1>1, <1>3, StoryGoesOn DEF AnswersInv
<1>5. MailInv'
  BY <1>1, <1>2, MailGoesOn
<1>6. CallsInv'
  BY <1>1, CallsGoOn
<1>7. QED
  BY <1>2, <1>4, <1>5, <1>6 DEF EventsInv

LEMMA EventsInvAlways == Spec => []EventsInv
<1>1. Init => EventsInv
  BY EventsInit
<1>2. EventsInv /\ [Next]_vars => EventsInv'
  BY EventsNext
<1>3. QED
  BY <1>1, <1>2, PTL DEF Spec

\* However often an event is delivered, whatever is retried and whenever the process
\* dies: its sender hears one answer, plus one for each attempt that the provider took
\* and denied, and no two webhook calls run for it at a time unless one had failed or died.
THEOREM RedeliveryRepeatsNothingAlways == Spec => []RedeliveryRepeatsNothing
<1>1. EventsInv => RedeliveryRepeatsNothing
  BY DEF EventsInv, AnswersInv, Story, Truthful, CallsInv, RedeliveryRepeatsNothing, AnswersAccounted
<1>2. QED
  BY <1>1, EventsInvAlways, PTL

\* The delivery log has at most one row of an answer, which is delivered only if the
\* answer arrived, and feedback on an answer names the run that gave it.
THEOREM RecordsTellTheTruthAlways == Spec => []RecordsTellTheTruth
<1>1. ASSUME EventsInv PROVE RecordsTellTheTruth
  <2>1. \A e \in Async : Truthful(e)
    BY <1>1 DEF EventsInv, AnswersInv, Story
  <2>2. LogTellsTheTruth
    BY <2>1 DEF Truthful, LogTellsTheTruth
  <2>3. FeedbackNamesRun
    BY <2>1 DEF Truthful, FeedbackNamesRun, Async
  <2>4. QED
    BY <2>2, <2>3 DEF RecordsTellTheTruth
<1>2. QED
  BY <1>1, EventsInvAlways, PTL

\* A mail that is marked seen has its row or its assignment, and what is neither settled
\* nor scheduled has a handler, a webhook call or a poll to carry it on, or lost it to a
\* death of the process.
THEOREM NothingLostAlways == Spec => []NothingLost
<1>1. ASSUME EventsInv PROVE NothingLost
  <2>1. Typed /\ MailInv /\ CallsInv
    BY <1>1 DEF EventsInv
  <2>2. ASSUME NEW e \in Events \ died,
               rec[e].status \in {"received", "running"} \/ mission[e] = "created"
        PROVE  e \in Attended
    <3>1. CASE e \in Async
      BY <2>1, <2>2, <3>1 DEF MailInv, Carried, Handled, Attended
    <3>2. CASE e \in Hooks
      <4>1. \E d \in 1..MaxDeliveries : call[d].at \in {"schedule", "run"} /\ call[d].event = e
        BY <2>1, <2>2, <3>2 DEF CallsInv, HookRow
      <4>2. DOMAIN call = 1..MaxDeliveries
        BY <2>1 DEF Typed, TypeOK
      <4>3. QED
        BY <4>1, <4>2 DEF Attended
    <3>3. QED
      BY <3>1, <3>2 DEF Events
  <2>3. QED
    BY <2>1, <2>2 DEF MailInv, NothingLost, LostOnlyByCrash
<1>2. QED
  BY <1>1, EventsInvAlways, PTL

-----------------------------------------------------------------------------
(* What Slack shows *)

\* What is left to tell Slack, one call after the other.
LEMMA TodoFacts ==
    ASSUME NEW todo \in Todos, todo # <<>>
    PROVE  /\ Tail(todo) \in Todos /\ Head(todo) \in Steps
           /\ Head(todo) = "remove" =>
                 Has(todo, "remove") /\ Has(todo, "add") /\ Has(Tail(todo), "add") /\ ~Has(Tail(todo), "remove")
           /\ Head(todo) = "add" =>
                 Has(todo, "add") /\ ~Has(todo, "remove") /\ ~Has(Tail(todo), "add") /\ ~Has(Tail(todo), "remove")
           /\ Head(todo) \in {"post", "update"} =>
                 /\ ~Has(todo, "remove") /\ ~Has(Tail(todo), "remove")
                 /\ Has(Tail(todo), "add") <=> Has(todo, "add")
                 /\ ~Has(Tail(todo), "post") /\ ~Has(Tail(todo), "update")
           /\ Head(todo) \notin {"post", "update"} =>
                 /\ Has(Tail(todo), "post") <=> Has(todo, "post")
                 /\ Has(Tail(todo), "update") <=> Has(todo, "update")
<1>0. ~Has(<<>>, "add") /\ ~Has(<<>>, "remove") /\ ~Has(<<>>, "post") /\ ~Has(<<>>, "update")
  BY DEF Has
<1>1. CASE todo = <<"post", "add">>
  <2>1. Tail(todo) = <<"add">> /\ Head(todo) = "post"
    BY <1>1
  <2>2. QED
    BY <1>1, <2>1 DEF Todos, Has, Steps
<1>2. CASE todo = <<"add">>
  <2>1. Tail(todo) = <<>> /\ Head(todo) = "add"
    BY <1>2
  <2>2. QED
    BY <1>0, <1>2, <2>1 DEF Todos, Has, Steps
<1>3. CASE todo = <<"post">>
  <2>1. Tail(todo) = <<>> /\ Head(todo) = "post"
    BY <1>3
  <2>2. QED
    BY <1>0, <1>3, <2>1 DEF Todos, Has, Steps
<1>4. CASE todo = <<"update">>
  <2>1. Tail(todo) = <<>> /\ Head(todo) = "update"
    BY <1>4
  <2>2. QED
    BY <1>0, <1>4, <2>1 DEF Todos, Has, Steps
<1>5. CASE todo = <<"add", "post">>
  <2>1. Tail(todo) = <<"post">> /\ Head(todo) = "add"
    BY <1>5
  <2>2. QED
    BY <1>5, <2>1 DEF Todos, Has, Steps
<1>6. CASE todo = <<"add", "update">>
  <2>1. Tail(todo) = <<"update">> /\ Head(todo) = "add"
    BY <1>6
  <2>2. QED
    BY <1>6, <2>1 DEF Todos, Has, Steps
<1>7. CASE todo = <<"remove", "add", "post">>
  <2>1. Tail(todo) = <<"add", "post">> /\ Head(todo) = "remove"
    BY <1>7
  <2>2. QED
    BY <1>7, <2>1 DEF Todos, Has, Steps
<1>8. CASE todo = <<"remove", "add", "update">>
  <2>1. Tail(todo) = <<"add", "update">> /\ Head(todo) = "remove"
    BY <1>8
  <2>2. QED
    BY <1>8, <2>1 DEF Todos, Has, Steps
<1>9. QED
  BY <1>1, <1>2, <1>3, <1>4, <1>5, <1>6, <1>7, <1>8 DEF Todos

\* The reactions on a message, counted.
LEMMA ReactionFacts ==
    ASSUME NEW shown \in SUBSET Phase, NEW x
    PROVE  /\ IsFiniteSet(shown) /\ Cardinality(shown) \in Nat
           /\ Cardinality(shown \ {x}) \in Nat
           /\ Cardinality(shown \ {x}) <= Cardinality(shown)
           /\ x \notin shown => Cardinality(shown \cup {x}) = Cardinality(shown) + 1
                                /\ shown \ {x} = shown
           /\ Cardinality(shown) <= Cardinality(shown \ {x}) + 1
           /\ Cardinality({}) = 0
<1>1. IsFiniteSet(Phase)
  <2>1. IsFiniteSet({"queued"})
    BY FS_Singleton
  <2>2. IsFiniteSet({"queued"} \cup {"running"})
    BY <2>1, FS_AddElement
  <2>3. IsFiniteSet({"queued"} \cup {"running"} \cup {"completed"})
    BY <2>2, FS_AddElement
  <2>4. IsFiniteSet({"queued"} \cup {"running"} \cup {"completed"} \cup {"failed"})
    BY <2>3, FS_AddElement
  <2>5. Phase = {"queued"} \cup {"running"} \cup {"completed"} \cup {"failed"}
    BY DEF Phase
  <2>6. QED
    BY <2>4, <2>5
<1>2. IsFiniteSet(shown) /\ IsFiniteSet(shown \ {x})
  BY <1>1, FS_Subset
<1>3. Cardinality(shown) \in Nat /\ Cardinality(shown \ {x}) \in Nat
  BY <1>2, FS_CardinalityType
<1>4. Cardinality(shown \ {x}) <= Cardinality(shown)
  BY <1>2, FS_Subset
<1>5. x \notin shown => Cardinality(shown \cup {x}) = Cardinality(shown) + 1
  BY <1>2, FS_AddElement
<1>6. Cardinality(shown) <= Cardinality(shown \ {x}) + 1
  <2>1. CASE x \in shown
    BY <1>2, <1>3, <2>1, FS_RemoveElement
  <2>2. CASE x \notin shown
    <3>1. shown \ {x} = shown
      BY <2>2
    <3>2. QED
      BY <1>3, <3>1
  <2>3. QED
    BY <2>1, <2>2
<1>7. QED
  BY <1>2, <1>3, <1>4, <1>5, <1>6, FS_EmptySet

\* A chapter leaves what Slack shows of an event in step with its handler.
LEMMA DisplayGoesOn ==
    ASSUME Typed, Typed', PollsAccept, NEW e \in SlackEvents, Story(e), Display(e), Chapter(e),
           e \in trouble => e \in trouble'
    PROVE  Display(e)'
<1> DEFINE shown == slack[e].reactions
           active == reporter[e].active
           todo == task[e].todo
<1>0. /\ rec[e] \in Row /\ task[e] \in Task /\ e \in Async
      /\ reporter[e] \in Reporters /\ reporter[e].posted \in BOOLEAN
      /\ shown \in SUBSET Phase /\ lost[e] \in Nat
      /\ active \in Phase \cup {"none"}
  BY DEF Typed, TypeOK, Events, Async, Reporters
<1>01. /\ Reacting(e)
       /\ e \notin Missions \cup trouble => Showing(e)
       /\ rec[e].progress \in {"completed", "failed"} => rec[e].status = rec[e].progress
  BY DEF Display
<1>02. ~Has(<<>>, "add") /\ ~Has(<<>>, "remove") /\ ~Has(<<>>, "post") /\ ~Has(<<>>, "update")
       /\ <<>> \in Todos
  BY DEF Has, Todos
<1>03. e \in Missions => task[e].at \in {"none", "schedule", "answer", "over"}
  BY DEF Story, MissionStage
<1>04. lost'[e] \in Nat /\ lost[e] \in Nat
  BY DEF Typed, TypeOK, Async
<1>05. ASSUME slack'[e].reactions = {}
       PROVE  /\ Cardinality(slack'[e].reactions \ {reporter'[e].active}) <= lost'[e]
              /\ Cardinality(slack'[e].reactions) <= 1 + lost'[e]
              /\ reporter'[e].active \notin slack'[e].reactions
  <2>1. {} \ {reporter'[e].active} = {} /\ Cardinality({}) = 0
    BY FS_EmptySet
  <2>2. QED
    BY <1>04, <1>05, <2>1
<1>1. CASE Same(e) \/ Judged(e)
  <2>1. /\ rec'[e] = rec[e] /\ mission'[e] = mission[e] /\ task'[e] = task[e]
        /\ lost'[e] = lost[e] /\ slack'[e] = slack[e] /\ reporter'[e] = reporter[e]
    BY <1>1 DEF Same, Judged, Quiet, ReporterKept
  <2>2. Reacting(e)'
    BY <1>01, <2>1 DEF Reacting, Fresh, Known
  <2>3. Showing(e) => Showing(e)'
    BY <2>1 DEF Showing, Fresh, Known
  <2>4. QED
    BY <1>01, <2>1, <2>2, <2>3 DEF Display
<1>3. CASE Accepted(e)
  <2>1. shown = {} /\ Fresh(e)
    BY <1>01, <1>3 DEF Accepted, Reacting, Fresh, Story, Stage
  <2>2. /\ task'[e].at = "start" /\ task'[e].todo = <<>>
        /\ slack'[e].reactions = {} /\ lost'[e] = lost[e]
        /\ {} \ {active'} = {} /\ rec'[e].progress = "none"
    BY <1>3, <2>1, RoutedRows DEF Accepted, Quiet
  <2>3. Reacting(e)'
    BY <1>02, <1>05, <2>2 DEF Reacting
  <2>4. Showing(e)'
    BY <2>2 DEF Showing, Phase
  <2>5. QED
    BY <2>2, <2>3, <2>4 DEF Display
<1>4. CASE Made(e)
  <2>1. /\ e \in Missions /\ task'[e].at = "schedule" /\ task'[e].todo = <<>>
        /\ slack'[e] = slack[e] /\ lost'[e] = lost[e] /\ shown = {}
    BY <1>01, <1>02, <1>4 DEF Made, Quiet, Reacting, Story, MissionStage
  <2>2. Reacting(e)'
    BY <1>02, <1>05, <2>1 DEF Reacting
  <2>3. QED
    BY <1>01, <1>4, <2>1, <2>2 DEF Display, Made
<1>5. CASE Woken(e)
  <2>1. /\ e \in Missions /\ task'[e].todo = todo
        /\ slack'[e] = slack[e] /\ lost'[e] = lost[e] /\ shown = {}
    BY <1>01, <1>5 DEF Woken, Quiet, Story, Stage, PollsAccept, PollAccepts, Reacting
  <2>2. todo = <<>>
    BY <1>01, <1>03, <2>1 DEF Reacting, Phase
  <2>3. Reacting(e)'
    BY <1>02, <1>05, <2>1, <2>2 DEF Reacting
  <2>4. QED
    BY <1>01, <1>5, <2>1, <2>3 DEF Display, Woken
<1>6. CASE Started(e)
  <2>1. /\ reporter'[e] = NoReporter /\ task'[e].at = "queued"
        /\ task'[e].todo = Work(NoReporter, "queued")
        /\ slack'[e] = slack[e] /\ lost'[e] = lost[e] /\ rec'[e] = rec[e]
        /\ shown = {}
    BY <1>01, <1>6 DEF Started, Quiet, Reacting
  <2>2. NoReporter \in Reporters /\ NoReporter.active = "none" /\ "queued" \in Phase
    BY DEF NoReporter, Reporters, Phase
  <2>3. /\ Work(NoReporter, "queued") \in Todos
        /\ ~Has(Work(NoReporter, "queued"), "remove")
        /\ Has(Work(NoReporter, "queued"), "add")
        /\ Has(Work(NoReporter, "queued"), "post") \/ Has(Work(NoReporter, "queued"), "update")
    BY <2>2, WorkFacts DEF Reporters
  <2>4. Reacting(e)'
    BY <1>05, <2>1, <2>2, <2>3 DEF Reacting
  <2>5. Showing(e)'
    BY <2>1, <2>2, <2>3, <1>6 DEF Showing, Started
  <2>6. QED
    BY <1>01, <2>1, <2>4, <2>5 DEF Display
<1>7. ASSUME NEW phase \in Phase \ {"queued"},
             task'[e] = [at |-> phase, todo |-> Work(reporter[e], phase)],
             reporter'[e] = reporter[e], slack'[e] = slack[e], lost'[e] = lost[e],
             task[e].at = "run", rec'[e].status # "none"
      PROVE  Reacting(e)' /\ (e \notin trouble' => Showing(e)')
  <2>1. /\ Work(reporter[e], phase) \in Todos
        /\ Has(Work(reporter[e], phase), "remove") <=> active \notin {"none", phase}
        /\ Has(Work(reporter[e], phase), "add") <=> active # phase
        /\ Has(Work(reporter[e], phase), "post") \/ Has(Work(reporter[e], phase), "update")
    BY <1>0, WorkFacts DEF Reporters
  <2>2. /\ task'[e].at = phase /\ task'[e].todo = Work(reporter[e], phase)
        /\ e \notin Missions
        /\ Cardinality(shown \ {active}) <= lost[e] /\ Cardinality(shown) <= 1 + lost[e]
    BY <1>01, <1>03, <1>7 DEF Reacting
  <2>3. "none" \notin shown
    BY <1>0 DEF Phase
  <2>4. ~Fresh(e)'
    BY <1>7 DEF Fresh, Known
  <2>5. Reacting(e)'
    BY <1>7, <2>1, <2>2, <2>3, <2>4 DEF Reacting, Phase
  <2>6. e \notin trouble' => Showing(e)'
    BY <1>01, <1>7, <2>1, <2>2, <2>3, <2>4 DEF Showing, Phase
  <2>7. QED
    BY <2>5, <2>6
<1>8. CASE Heard(e)
  <2>1. Reacting(e)' /\ (e \notin trouble' => Showing(e)')
    <3>1. rec'[e].status # "none" /\ "running" \in Phase \ {"queued"}
      BY <1>03, <1>8 DEF Heard, Story, Stage, Phase
    <3>2. QED
      BY <1>7, <1>8, <3>1 DEF Heard, Quiet, ReporterKept
  <2>2. QED
    BY <1>01, <1>8, <2>1 DEF Display, Heard
<1>9. CASE Ended(e)
  <2>1. PICK result \in Result : rec'[e] = Settled(rec[e], result) /\ task'[e] = AfterRun(e, result)
    BY <1>9 DEF Ended
  <2>2. /\ rec'[e].status = IF result = "failed" THEN "failed" ELSE "completed"
        /\ rec'[e].out = IF result = "failed" THEN rec[e].out ELSE result
        /\ rec'[e].progress = rec[e].progress
    BY <1>0, <2>1, SettledFields
  <2>3. /\ task[e].at = "run" /\ e \notin Missions /\ rec[e].status = "running"
        /\ slack'[e] = slack[e] /\ lost'[e] = lost[e] /\ reporter'[e] = reporter[e]
    BY <1>03, <1>9 DEF Ended, Quiet, ReporterKept, Story, Stage
  <2>4. rec'[e].progress \notin {"completed", "failed"}
    BY <1>01, <2>2, <2>3
  <2>5. Reacting(e)' /\ (e \notin trouble' => Showing(e)')
    <3>1. CASE result = "empty"
      <4>1. task'[e].at = "over" /\ task'[e].todo = <<>>
        BY <1>0, <2>1, <3>1, AfterRunFacts
      <4>2. Reacting(e)'
        BY <1>01, <1>02, <2>2, <2>3, <3>1, <4>1 DEF Reacting, Fresh, Known
      <4>3. Showing(e)'
        BY <2>2, <3>1, <4>1 DEF Showing, Fresh, Known, Phase
      <4>4. QED
        BY <4>2, <4>3
    <3>2. CASE result = "text"
      <4>1. task'[e] = [at |-> "completed", todo |-> Work(reporter[e], "completed")]
        BY <1>0, <2>1, <3>2, AfterRunFacts
      <4>2. "completed" \in Phase \ {"queued"} /\ rec'[e].status # "none"
        BY <2>2, <3>2 DEF Phase
      <4>3. QED
        BY <1>7, <2>3, <4>1, <4>2
    <3>3. CASE result = "failed"
      <4>1. task'[e] = [at |-> "failed", todo |-> Work(reporter[e], "failed")]
        BY <1>0, <2>1, <3>3, AfterRunFacts
      <4>2. "failed" \in Phase \ {"queued"} /\ rec'[e].status # "none"
        BY <2>2, <3>3 DEF Phase
      <4>3. QED
        BY <1>7, <2>3, <4>1, <4>2
    <3>4. QED
      BY <3>1, <3>2, <3>3 DEF Result
  <2>6. QED
    BY <2>4, <2>5 DEF Display
<1>10. CASE Told(e)
  <2> DEFINE phase == task[e].at
             step == Head(task[e].todo)
  <2>1. /\ phase \in Phase /\ todo # <<>> /\ todo \in Todos /\ e \notin Missions /\ ~Fresh(e)
        /\ task'[e].at = phase /\ task'[e].todo \in {<<>>, Tail(todo)}
        /\ rec'[e] = rec[e] /\ mission'[e] = mission[e]
    BY <1>01, <1>03, <1>10 DEF Told, Reacting, Phase, Story, Stage, Fresh, Known
  <2>2. /\ Tail(todo) \in Todos /\ step \in Steps
        /\ step = "remove" =>
              Has(todo, "remove") /\ Has(todo, "add") /\ Has(Tail(todo), "add") /\ ~Has(Tail(todo), "remove")
        /\ step = "add" =>
              Has(todo, "add") /\ ~Has(todo, "remove") /\ ~Has(Tail(todo), "add") /\ ~Has(Tail(todo), "remove")
        /\ step \in {"post", "update"} =>
              /\ ~Has(todo, "remove") /\ ~Has(Tail(todo), "remove")
              /\ Has(Tail(todo), "add") <=> Has(todo, "add")
              /\ ~Has(Tail(todo), "post") /\ ~Has(Tail(todo), "update")
        /\ step \notin {"post", "update"} =>
              /\ Has(Tail(todo), "post") <=> Has(todo, "post")
              /\ Has(Tail(todo), "update") <=> Has(todo, "update")
    BY <2>1, TodoFacts
  <2>3. /\ Shown(e, step, phase).reactions =
              IF step = "remove" THEN shown \ {active}
              ELSE IF step = "add" THEN shown \cup {phase} ELSE shown
        /\ Shown(e, step, phase).message =
              IF step \in {"remove", "add"} THEN slack[e].message ELSE phase
    <3>1. slack[e] \in Messages
      BY DEF Typed, TypeOK, Messages
    <3>2. QED
      BY <2>2, <3>1 DEF Shown, Messages, Steps
  <2>4. /\ Cardinality(shown \ {active}) <= lost[e] /\ Cardinality(shown) <= 1 + lost[e]
        /\ Has(todo, "add") => active # phase
        /\ Has(todo, "add") /\ ~Has(todo, "remove") => active \notin shown
        /\ active \notin shown => shown \ {active} = shown
    BY <1>01, <2>1 DEF Reacting, Phase
  <2>5. /\ Cardinality(shown) \in Nat /\ Cardinality(shown \ {active}) \in Nat
        /\ Cardinality(shown \ {active}) <= Cardinality(shown)
        /\ phase \notin shown => Cardinality(shown \cup {phase}) = Cardinality(shown) + 1
        /\ phase \notin shown => (shown \cup {phase}) \ {phase} = shown
    BY <1>0, ReactionFacts
  <2> HIDE DEF shown, active, todo, phase, step
  <2>6. CASE /\ Accepts(e, step, phase) /\ slack'[e] = Shown(e, step, phase)
             /\ task'[e] = [at |-> phase, todo |-> Tail(todo)]
             /\ reporter'[e] = [posted |-> reporter[e].posted \/ step = "post",
                                active |-> IF step = "add" THEN phase ELSE active]
             /\ lost'[e] = lost[e]
    <3>1. /\ task'[e].todo = Tail(todo) /\ lost'[e] = lost[e]
          /\ reporter'[e].active = IF step = "add" THEN phase ELSE active
      BY <2>6
    <3>2. CASE step = "remove"
      <4>1. slack'[e].reactions = shown \ {active} /\ reporter'[e].active = active
            /\ slack'[e].message = slack[e].message
        BY <2>3, <2>6, <3>1, <3>2
      <4>2. (shown \ {active}) \ {active} = shown \ {active} /\ active \notin shown \ {active}
        OBVIOUS
      <4>6. /\ Cardinality(slack'[e].reactions \ {reporter'[e].active}) <= lost'[e]
            /\ Cardinality(slack'[e].reactions) <= 1 + lost'[e]
        <5>1. /\ slack'[e].reactions \ {reporter'[e].active} = shown \ {active}
              /\ slack'[e].reactions = shown \ {active}
          BY <4>1, <4>2
        <5>2. /\ Cardinality(shown \ {active}) <= lost'[e]
              /\ Cardinality(shown \ {active}) \in Nat /\ lost'[e] \in Nat
          BY <1>04, <2>4, <2>5, <3>1
        <5>3. Cardinality(shown \ {active}) <= 1 + lost'[e]
          BY <5>2
        <5>4. QED
          BY <5>1, <5>2, <5>3
      <4>3. Reacting(e)'
        BY <2>1, <2>2, <2>4, <2>6, <3>1, <3>2, <4>1, <4>2, <4>6 DEF Reacting, Fresh, Known, Phase
      <4>4. e \notin trouble' => Showing(e)'
        <5>1. e \notin trouble' => shown = {active} /\ shown \ {active} = {}
          BY <1>01, <2>1, <2>2, <3>2 DEF Showing, shown, active, todo, phase
        <5>2. e \notin trouble' => \/ Has(Tail(todo), "post") \/ Has(Tail(todo), "update")
                                   \/ slack[e].message = phase
          BY <1>01, <2>1, <2>2, <3>2 DEF Showing, shown, active, todo, phase
        <5>3. QED
          BY <2>1, <2>2, <3>1, <3>2, <4>1, <5>1, <5>2 DEF Showing, Fresh, Known, Phase
      <4>5. QED
        BY <1>01, <2>1, <4>3, <4>4 DEF Display
    <3>3. CASE step = "add"
      <4>1. slack'[e].reactions = shown \cup {phase} /\ reporter'[e].active = phase
            /\ slack'[e].message = slack[e].message
        BY <2>3, <2>6, <3>1, <3>3
      <4>2. phase \notin shown
        BY <2>6, <3>3 DEF Accepts, shown
      <4>6. Cardinality(shown) <= lost[e]
        BY <2>2, <2>4, <3>3
      <4>7. /\ Cardinality(slack'[e].reactions \ {reporter'[e].active}) <= lost'[e]
            /\ Cardinality(slack'[e].reactions) <= 1 + lost'[e]
        <5>1. /\ slack'[e].reactions \ {reporter'[e].active} = shown
              /\ slack'[e].reactions = shown \cup {phase}
          BY <2>5, <4>1, <4>2
        <5>2. Cardinality(shown \cup {phase}) = Cardinality(shown) + 1
          BY <2>5, <4>2
        <5>3. /\ Cardinality(shown) <= lost'[e]
              /\ Cardinality(shown) \in Nat /\ lost'[e] \in Nat
          BY <1>04, <2>5, <3>1, <4>6
        <5>4. Cardinality(shown \cup {phase}) <= 1 + lost'[e]
          BY <5>2, <5>3
        <5>5. QED
          BY <5>1, <5>3, <5>4
      <4>3. Reacting(e)'
        BY <2>1, <2>2, <2>4, <2>6, <3>1, <3>3, <4>1, <4>2, <4>7 DEF Reacting, Fresh, Known, Phase
      <4>4. e \notin trouble' => Showing(e)'
        <5>1. e \notin trouble' => shown = {}
          BY <1>01, <2>1, <2>2, <3>3 DEF Showing, shown, active, todo, phase
        <5>2. e \notin trouble' => \/ Has(Tail(todo), "post") \/ Has(Tail(todo), "update")
                                   \/ slack[e].message = phase
          BY <1>01, <2>1, <2>2, <3>3 DEF Showing, shown, active, todo, phase
        <5>3. QED
          BY <2>1, <2>2, <3>1, <3>3, <4>1, <5>1, <5>2 DEF Showing, Fresh, Known, Phase
      <4>5. QED
        BY <1>01, <2>1, <4>3, <4>4 DEF Display
    <3>4. CASE step \in {"post", "update"}
      <4>1. slack'[e].reactions = shown /\ reporter'[e].active = active
            /\ slack'[e].message = phase
        BY <2>3, <2>6, <3>1, <3>4
      <4>2. Reacting(e)'
        BY <1>0, <2>1, <2>2, <2>4, <2>5, <2>6, <3>1, <3>4, <4>1 DEF Reacting, Fresh, Known, Phase
      <4>3. e \notin trouble' => Showing(e)'
        <5>1. e \notin trouble' => /\ Has(todo, "add") /\ ~Has(todo, "remove") => shown = {}
                                   /\ ~Has(todo, "add") => active = phase /\ shown = {active}
          BY <1>01, <2>1 DEF Showing, shown, active, todo, phase
        <5>2. QED
          BY <2>1, <2>2, <3>1, <3>4, <4>1, <5>1 DEF Showing, Fresh, Known, Phase
      <4>4. QED
        BY <1>01, <2>1, <4>2, <4>3 DEF Display
    <3>5. QED
      BY <2>2, <3>2, <3>3, <3>4 DEF Steps
  <2>7. CASE /\ task'[e] = [at |-> phase, todo |-> <<>>]
             /\ reporter'[e] = reporter[e] /\ e \in trouble'
             /\ \/ /\ Accepts(e, step, phase) /\ slack'[e] = Shown(e, step, phase)
                   /\ lost'[e] = lost[e] + 1
                \/ slack'[e] = slack[e] /\ lost'[e] = lost[e]
    <3>1. task'[e].todo = <<>> /\ reporter'[e].active = active
      BY <2>7 DEF active
    <3>2. /\ Cardinality(slack'[e].reactions \ {active}) <= lost'[e]
          /\ Cardinality(slack'[e].reactions) <= 1 + lost'[e]
      <4>1. CASE slack'[e] = slack[e] /\ lost'[e] = lost[e]
        BY <2>4, <4>1 DEF shown
      <4>2. CASE Accepts(e, step, phase) /\ slack'[e] = Shown(e, step, phase) /\ lost'[e] = lost[e] + 1
        <5>1. CASE step = "remove"
          <6>1. slack'[e].reactions = shown \ {active} /\ (shown \ {active}) \ {active} = shown \ {active}
            BY <2>3, <4>2, <5>1
          <6>2. QED
            BY <1>04, <2>4, <2>5, <4>2, <6>1
        <5>2. CASE step = "add"
          <6>1. slack'[e].reactions = shown \cup {phase} /\ phase \notin shown
            BY <2>3, <4>2, <5>2 DEF Accepts, shown
          <6>2. active \notin shown
            BY <2>2, <2>4, <5>2
          <6>3. shown \cup {phase} \in SUBSET Phase
            BY <1>0, <2>1 DEF shown
          <6>4. Cardinality((shown \cup {phase}) \ {active}) <= Cardinality(shown \cup {phase})
                /\ Cardinality((shown \cup {phase}) \ {active}) \in Nat
            BY <6>3, ReactionFacts
          <6>5. Cardinality(shown) <= lost[e]
            BY <2>4, <6>2
          <6>6. Cardinality(shown \cup {phase}) = Cardinality(shown) + 1
            BY <2>5, <6>1
          <6>7. QED
            BY <1>04, <2>5, <4>2, <6>1, <6>4, <6>5, <6>6
        <5>3. CASE step \in {"post", "update"}
          <6>1. slack'[e].reactions = shown
            BY <2>3, <4>2, <5>3
          <6>2. QED
            BY <1>04, <2>4, <2>5, <4>2, <6>1
        <5>4. QED
          BY <2>2, <5>1, <5>2, <5>3 DEF Steps
      <4>3. QED
        BY <2>7, <4>1, <4>2
    <3>3. Reacting(e)'
      BY <1>02, <2>1, <2>7, <3>1, <3>2 DEF Reacting, Fresh, Known, Phase
    <3>4. QED
      BY <1>01, <2>1, <2>7, <3>3 DEF Display
  <2>8. QED
    BY <1>10, <2>6, <2>7 DEF Told, active, todo, phase, step
<1>11. CASE Recorded(e)
  <2>1. /\ task[e].at \in Phase /\ todo = <<>> /\ task'[e].todo = <<>> /\ e \notin Missions
        /\ task'[e].at \in {"run", "answer", "over"}
        /\ slack'[e] = slack[e] /\ lost'[e] = lost[e] /\ reporter'[e] = reporter[e]
        /\ mission'[e] = mission[e]
    BY <1>03, <1>11 DEF Recorded, Quiet, ReporterKept, Phase
  <2>2. /\ rec'[e].status = rec[e].status /\ rec'[e].out = rec[e].out
        /\ rec'[e].progress = task[e].at
    BY <1>0, <1>11, <2>1, ProgressedFields DEF Recorded
  <2>3. ~Fresh(e)'
    BY <2>1, <2>2 DEF Story, Stage, Fresh, Known, Phase
  <2>4. Reacting(e)'
    BY <1>01, <1>02, <2>1, <2>3 DEF Reacting, Phase
  <2>5. e \notin trouble' => Showing(e)'
    <3>1. e \notin trouble' => active = task[e].at /\ shown = {active} /\ slack[e].message = task[e].at
      BY <1>01, <1>02, <2>1 DEF Showing
    <3>2. /\ task'[e].at = "run" => task[e].at \in {"queued", "running"}
          /\ task'[e].at = "answer" => task[e].at = "completed"
          /\ task'[e].at = "over" => task[e].at = "failed" /\ rec[e].status = "failed"
      BY <1>11, <2>1 DEF Recorded, Story, Stage, Phase
    <3>3. QED
      BY <2>1, <2>2, <2>3, <3>1, <3>2 DEF Showing, Phase
  <2>6. rec'[e].progress \in {"completed", "failed"} => rec'[e].status = rec'[e].progress
    BY <2>1, <2>2 DEF Story, Stage
  <2>7. QED
    BY <2>4, <2>5, <2>6 DEF Display
<1>12. CASE Answered(e)
  <2>1. /\ task'[e].todo = todo /\ todo = <<>> /\ task[e].at = "answer"
        /\ task'[e].at \in {"record", "over"} /\ rec'[e] = rec[e] /\ mission'[e] = mission[e]
        /\ slack'[e] = slack[e] /\ reporter'[e] = reporter[e]
    <3>1. task[e].at = "answer" /\ todo = <<>>
      BY <1>01, <1>12 DEF Answered, Reacting, Phase
    <3>2. PICK at \in {"record", "over"} : task'[e] = [at |-> at, todo |-> todo]
      BY <1>12 DEF Answered
    <3>3. task'[e].at = at /\ task'[e].todo = todo
      BY <3>2
    <3>4. QED
      BY <1>12, <3>1, <3>3 DEF Answered, ReporterKept
  <2>2. lost'[e] >= lost[e] /\ lost'[e] \in Nat
    <3>1. CASE lost'[e] = lost[e]
      BY <1>04, <3>1
    <3>2. CASE \E s \in Sends : lost'[e] = lost[e] + s.lost
      <4>1. PICK s \in Sends : lost'[e] = lost[e] + s.lost
        BY <3>2
      <4>2. s.lost \in Nat
        BY DEF Sends
      <4>3. QED
        BY <1>04, <4>1, <4>2
    <3>3. QED
      BY <1>12, <3>1, <3>2 DEF Answered
  <2>3. Cardinality(shown) \in Nat /\ Cardinality(shown \ {active}) \in Nat
    BY <1>0, ReactionFacts
  <2>4. /\ Cardinality(shown \ {active}) <= lost'[e] /\ Cardinality(shown) <= 1 + lost'[e]
    <3>1. Cardinality(shown \ {active}) <= lost[e] /\ Cardinality(shown) <= 1 + lost[e]
      BY <1>01, <2>1 DEF Reacting
    <3>2. QED
      BY <1>04, <2>2, <2>3, <3>1
  <2>5. Reacting(e)'
    BY <1>01, <1>02, <2>1, <2>4 DEF Reacting, Fresh, Known
  <2>6. e \notin Missions \cup trouble' => Showing(e)'
    BY <1>01, <2>1 DEF Showing, Phase, Story, Stage, Fresh, Known
  <2>7. QED
    BY <1>01, <2>1, <2>5, <2>6 DEF Display
<1>13. CASE Linked(e)
  <2>1. /\ task'[e].todo = todo /\ todo = <<>> /\ task[e].at = "record" /\ task'[e].at = "over"
        /\ slack'[e] = slack[e] /\ reporter'[e] = reporter[e] /\ lost'[e] = lost[e]
        /\ mission'[e] = mission[e] /\ e \notin Missions
    BY <1>01, <1>03, <1>13 DEF Linked, Quiet, ReporterKept, Reacting, Phase
  <2>2. /\ rec'[e].status = rec[e].status /\ rec'[e].out = rec[e].out
        /\ rec'[e].progress = rec[e].progress
    BY <1>0, <1>13 DEF Linked, Row
  <2>3. rec[e].status = "completed"
    BY <2>1 DEF Story, Stage
  <2>4. Reacting(e)'
    BY <1>01, <1>02, <2>1, <2>2 DEF Reacting, Fresh, Known
  <2>5. e \notin trouble' => Showing(e)'
    BY <1>01, <2>1, <2>2, <2>3 DEF Showing, Phase, Fresh, Known
  <2>6. QED
    BY <1>01, <2>1, <2>2, <2>4, <2>5 DEF Display
<1>14. CASE Died(e)
  <2>1. /\ task'[e].at = "none" /\ task'[e].todo = <<>>
        /\ slack'[e] = slack[e] /\ lost'[e] = lost[e] /\ mission'[e] = mission[e]
    BY <1>14 DEF Died, Quiet, Idle
  <2>2. Fresh(e)' => Fresh(e)
    BY <1>14, RoutedRows DEF Died, Fresh, Known
  <2>3. Reacting(e)'
    BY <1>01, <1>02, <2>1, <2>2 DEF Reacting
  <2>4. e \notin Missions \cup trouble' => Showing(e)'
    BY <1>01, <2>1, <2>2 DEF Showing, Phase
  <2>5. rec'[e].progress \in {"completed", "failed"} => rec'[e].status = rec'[e].progress
    BY <1>01, <1>14, RoutedRows DEF Died
  <2>6. QED
    BY <2>3, <2>4, <2>5 DEF Display
<1>15. QED
  BY <1>1, <1>3, <1>4, <1>5, <1>6, <1>8, <1>9, <1>10, <1>11, <1>12, <1>13, <1>14 DEF Chapter

ShownInv == EventsInv /\ ReporterInv

\* However the calls of the reporter fail, the message carries one status reaction more
\* than were denied at most; the progress in the row is never ahead of its status; and
\* when nothing failed, a finished run leaves its own status in the thread.
THEOREM ReporterInStepAlways == Spec => []ReporterInStep
<1>1. ASSUME Init PROVE ShownInv
  <2>1. EventsInv
    BY <1>1, EventsInit
  <2>2. ASSUME NEW e \in SlackEvents PROVE Display(e)
    <3>1. /\ task[e].at = "none" /\ task[e].todo = <<>> /\ slack[e].reactions = {}
          /\ lost[e] = 0 /\ rec[e].progress = "none"
      BY <1>1 DEF Init, Idle, NoRow, Async, Events
    <3>2. <<>> \in Todos /\ ~Has(<<>>, "add") /\ {} \ {reporter[e].active} = {}
      BY DEF Todos, Has
    <3>3. Cardinality({}) = 0
      BY FS_EmptySet
    <3>4. QED
      BY <3>1, <3>2, <3>3 DEF Display, Reacting, Showing, Phase
  <2>3. QED
    BY <2>1, <2>2 DEF ShownInv, ReporterInv
<1>2. ASSUME ShownInv, [Next]_vars PROVE ShownInv'
  <2>1. EventsInv /\ EventsInv' /\ Typed /\ Typed' /\ PollsAccept
    BY <1>2, EventsNext DEF ShownInv, EventsInv, MailInv
  <2>2. ASSUME NEW e \in SlackEvents PROVE Display(e)'
    <3>1. e \in Async /\ Story(e) /\ Display(e)
      BY <1>2, <2>1 DEF ShownInv, ReporterInv, EventsInv, AnswersInv, Async
    <3>2. Chapter(e) /\ (e \in trouble => e \in trouble')
      BY <1>2, <2>1, <3>1, Chapters
    <3>3. QED
      BY <2>1, <3>1, <3>2, DisplayGoesOn
  <2>3. QED
    BY <2>1, <2>2 DEF ShownInv, ReporterInv
<1>3. ASSUME ShownInv PROVE ReporterInStep
  <2>1. \A e \in SlackEvents : Display(e)
    BY <1>3 DEF ShownInv, ReporterInv
  <2>2. QED
    BY <2>1 DEF Display, Reacting, Showing, ReporterInStep, OneReaction, FinalStatusShown, ProgressFollowsRow
<1>4. QED
  BY <1>1, <1>2, <1>3, PTL DEF Spec

-----------------------------------------------------------------------------
(* The handling of an event implements HandledOnce *)

Kept(e) == rec'[e] = rec[e] /\ runs'[e] = runs[e] /\ answers'[e] = answers[e]

\* A step is about one Slack event or email at most.
LEMMA OneAtATime ==
    ASSUME Typed, [Next]_vars
    PROVE  \E x : \A e \in Async \ {x} : Kept(e)
<1> USE DEF durable, memory, outside, history
<1>0. /\ rec \in [Events -> Row] /\ answers \in [Async -> Nat] /\ runs \in [Async -> Nat]
      /\ SlackEvents \subseteq Async /\ Emails \subseteq Async /\ Async \subseteq Events
      /\ \A e \in Hooks : e \notin Async
  BY InboundAssumption DEF Typed, TypeOK, Events, Async
<1>1. UNCHANGED <<rec, runs, answers>> => \A e \in Async : Kept(e)
  BY DEF Kept
<1>2. ASSUME NEW x, RouteAsync(x), UNCHANGED <<runs, answers>>
      PROVE  \A e \in Async \ {x} : Kept(e)
  BY <1>0, <1>2 DEF RouteAsync, Kept
<1>3. ASSUME NEW x \in SlackEvents, DeliverSlack(x) \/ Reporter(x) \/ RunEvent(x) \/ PressButton(x)
      PROVE  \A e \in Async \ {x} : Kept(e)
  <2>1. CASE DeliverSlack(x)
    BY <1>1, <1>2, <2>1 DEF DeliverSlack
  <2>2. CASE ReporterCall(x)
    BY <1>1, <2>2 DEF ReporterCall
  <2>3. CASE ReporterRecords(x)
    <3>1. answers' = answers /\ \A e \in Async \ {x} : rec'[e] = rec[e]
      BY <1>0, <2>3 DEF ReporterRecords
    <3>2. \A e \in Async \ {x} : runs'[e] = runs[e]
      BY <1>0, <2>3 DEF ReporterRecords
    <3>3. QED
      BY <3>1, <3>2 DEF Kept
  <2>4. CASE RunEvent(x) \/ PressButton(x)
    BY <1>1, <2>4 DEF RunEvent, PressButton
  <2>5. QED
    BY <1>3, <2>1, <2>2, <2>3, <2>4 DEF Reporter
<1>4. ASSUME NEW x \in Async, Handler(x)
      PROVE  \A e \in Async \ {x} : Kept(e)
  <2>1. CASE ScheduleMission(x)
    BY <1>1, <2>1 DEF ScheduleMission
  <2>2. CASE StartHandler(x)
    <3>1. rec' = rec /\ answers' = answers
      BY <2>2 DEF StartHandler
    <3>2. \A e \in Async \ {x} : runs'[e] = runs[e]
      BY <1>0, <2>2 DEF StartHandler
    <3>3. QED
      BY <3>1, <3>2 DEF Kept
  <2>3. CASE EndRun(x)
    BY <1>0, <2>3 DEF EndRun, Kept
  <2>4. CASE SendAnswer(x)
    <3>1. runs' = runs
      BY <2>4 DEF SendAnswer
    <3>2. CASE SlackIsDisabled(x)
      <4>1. answers' = answers /\ \A e \in Async \ {x} : rec'[e] = rec[e]
        BY <1>0, <3>2 DEF SlackIsDisabled
      <4>2. QED
        BY <3>1, <4>1 DEF Kept
    <3>3. ASSUME NEW s \in Sends, Tried(x, s)
          PROVE  \A e \in Async \ {x} : Kept(e)
      <4>1. \A e \in Async \ {x} : answers'[e] = answers[e]
        BY <1>0, <3>3 DEF Tried
      <4>2. \A e \in Async \ {x} : rec'[e] = rec[e]
        BY <1>0, <3>3 DEF Tried
      <4>3. QED
        BY <3>1, <4>1, <4>2 DEF Kept
    <3>4. QED
      BY <2>4, <3>2, <3>3 DEF SendAnswer, AnswerInSlack, AnswerByEmail
  <2>5. CASE RecordResponse(x)
    BY <1>0, <2>5 DEF RecordResponse, Kept
  <2>6. QED
    BY <1>4, <2>1, <2>2, <2>3, <2>4, <2>5 DEF Handler
<1>5. ASSUME NEW d \in 1..MaxDeliveries, NEW h \in Hooks, CallWebhook(d, h)
      PROVE  \A e \in Async : Kept(e)
  BY <1>0, <1>1, <1>5 DEF CallWebhook, RouteSync, Kept
<1>6. ASSUME NEW d \in 1..MaxDeliveries, Caller(d)
      PROVE  \A e \in Async : Kept(e)
  <2>1. CASE ScheduleCalled(d)
    BY <1>1, <2>1 DEF ScheduleCalled
  <2>2. CASE EndCall(d)
    <3>1. call[d].event \in Hooks
      BY <2>2 DEF EndCall, Typed, Callers
    <3>2. QED
      BY <1>0, <2>2, <3>1 DEF EndCall, Kept
  <2>3. QED
    BY <1>6, <2>1, <2>2 DEF Caller
<1>7. ASSUME NEW l \in Loops, Poller(l)
      PROVE  \E x : \A e \in Async \ {x} : Kept(e)
  <2>1. CASE ListUnread(l) \/ PollSchedules(l) \/ MarkSeen(l) \/ EndPoll(l)
    BY <1>1, <2>1 DEF ListUnread, PollSchedules, MarkSeen, EndPoll
  <2>2. ASSUME NEW x \in Emails, PollNext(l, x)
        PROVE  \A e \in Async \ {x} : Kept(e)
    BY <1>1, <1>2, <2>2 DEF PollNext
  <2>3. QED
    BY <1>7, <2>1, <2>2 DEF Poller
<1>8. CASE Crash
  <2>1. runs' = runs /\ answers' = answers
    BY <1>8 DEF Crash
  <2>2. rec' = rec \/ \E x \in Events : rec' = [rec EXCEPT ![x] = Received]
    BY <1>8 DEF Crash
  <2>3. \E x : \A e \in Async \ {x} : rec'[e] = rec[e]
    BY <1>0, <2>2
  <2>4. QED
    BY <2>1, <2>3 DEF Kept
<1>9. ASSUME \/ \E x \in SlackEvents, target \in {"answer", "progress"} : ReactToMessage(x, target)
             \/ \E x \in Emails : MailArrives(x)
             \/ \E c \in Channels : Toggle(c)
             \/ LoggedOut
             \/ Restart
             \/ UNCHANGED vars
      PROVE  \A e \in Async : Kept(e)
  BY <1>1, <1>9 DEF ReactToMessage, MailArrives, LoggedOut, Toggle, Restart, vars
<1>10. QED
  BY <1>3, <1>4, <1>5, <1>6, <1>7, <1>8, <1>9 DEF Next

\* A chapter of an event is a step of the abstract handling, or none.
LEMMA ChapterIsAbstract ==
    ASSUME Typed, Typed', PollsAccept, NEW e \in Plain, Story(e), Story(e)', Chapter(e)
    PROVE  \/ PhaseOf(e)' = PhaseOf(e) /\ answers'[e] = answers[e]
           \/ /\ <<PhaseOf(e), PhaseOf(e)'>> \in
                    {<<"new", "accepted">>, <<"accepted", "started">>, <<"started", "settled">>}
              /\ answers'[e] = answers[e]
           \/ PhaseOf(e) = "settled" /\ PhaseOf(e)' = "settled" /\ answers'[e] >= answers[e]
<1>0. /\ rec[e] \in Row /\ e \in Async /\ e \notin Missions
      /\ Stage(e) /\ Stage(e)' /\ answers[e] \in Nat /\ answers'[e] \in Nat /\ runs[e] \in {0, 1}
  BY DEF Plain, Typed, TypeOK, Events, Async, Story, Stage
<1>1. ASSUME rec'[e].status = rec[e].status, runs'[e] = runs[e]
      PROVE  PhaseOf(e)' = PhaseOf(e)
  BY <1>1 DEF PhaseOf, Known
<1>2. CASE Same(e) \/ Heard(e) \/ Told(e) \/ Judged(e)
  <2>1. rec'[e] = rec[e] /\ runs'[e] = runs[e] /\ answers'[e] = answers[e]
    BY <1>2 DEF Same, Heard, Told, Judged, Quiet
  <2>2. QED
    BY <1>1, <2>1
<1>3. CASE Accepted(e)
  <2>1. /\ rec[e].status = "none" /\ rec'[e].status = "running" /\ runs[e] = 0 /\ runs'[e] = 0
        /\ answers'[e] = answers[e]
    BY <1>0, <1>3, RoutedRows DEF Accepted, Quiet, Known, Stage
  <2>2. PhaseOf(e) = "new" /\ PhaseOf(e)' = "accepted"
    BY <2>1 DEF PhaseOf, Known
  <2>3. QED
    BY <2>1, <2>2
<1>4. CASE Made(e)
  BY <1>0, <1>4 DEF Made
<1>5. CASE Woken(e)
  BY <1>0, <1>5 DEF Woken, Stage, PollsAccept, PollAccepts
<1>6. CASE Started(e)
  <2>1. rec'[e] = rec[e] /\ answers'[e] = answers[e] /\ rec[e].status = "running" /\ runs[e] = 0
    BY <1>0, <1>6 DEF Started, Quiet, Stage
  <2>2. CASE runs'[e] = runs[e]
    BY <1>1, <2>1, <2>2
  <2>3. CASE runs'[e] = runs[e] + 1
    <3>1. PhaseOf(e) = "accepted" /\ PhaseOf(e)' = "started"
      BY <2>1, <2>3 DEF PhaseOf, Known
    <3>2. QED
      BY <2>1, <3>1
  <2>4. QED
    BY <1>6, <2>2, <2>3 DEF Started
<1>7. CASE Recorded(e)
  <2>1. /\ answers'[e] = answers[e] /\ task[e].at \in Phase
        /\ runs'[e] = runs[e] + (IF task[e].at = "queued" THEN 1 ELSE 0)
        /\ rec'[e] = Progressed(rec[e], task[e].at, reporter[e].posted)
    BY <1>7 DEF Recorded, Quiet
  <2>2. reporter[e].posted \in BOOLEAN
    BY <1>7 DEF Recorded, Typed, TypeOK
  <2>3. rec'[e].status = rec[e].status
    BY <1>0, <2>1, <2>2, ProgressedFields
  <2>4. CASE task[e].at # "queued"
    <3>1. runs'[e] = runs[e]
      BY <1>0, <2>1, <2>4
    <3>2. QED
      BY <1>1, <2>1, <2>3, <3>1
  <2>5. CASE task[e].at = "queued"
    <3>1. rec[e].status = "running" /\ runs[e] = 0 /\ runs'[e] = 1
      BY <1>0, <2>1, <2>5 DEF Stage
    <3>2. PhaseOf(e) = "accepted" /\ PhaseOf(e)' = "started"
      BY <2>3, <3>1 DEF PhaseOf, Known
    <3>3. QED
      BY <2>1, <3>2
  <2>6. QED
    BY <2>4, <2>5
<1>8. CASE Ended(e)
  <2>1. PICK result \in Result : rec'[e] = Settled(rec[e], result)
    BY <1>8 DEF Ended
  <2>2. rec'[e].status \in {"completed", "failed"}
    BY <1>0, <2>1, SettledFields
  <2>3. /\ rec[e].status = "running" /\ runs[e] = 1 /\ runs'[e] = 1 /\ answers'[e] = answers[e]
    BY <1>0, <1>8 DEF Ended, Stage, Quiet
  <2>4. PhaseOf(e) = "started" /\ PhaseOf(e)' = "settled"
    BY <2>2, <2>3 DEF PhaseOf, Known
  <2>5. QED
    BY <2>3, <2>4
<1>9. CASE Answered(e)
  <2>1. rec'[e] = rec[e] /\ rec[e].status = "completed" /\ runs[e] = 1 /\ runs'[e] = 1
    BY <1>0, <1>9 DEF Answered, Stage
  <2>2. answers'[e] >= answers[e]
    <3>1. CASE answers'[e] = answers[e]
      BY <1>0, <3>1
    <3>2. CASE \E s \in Sends : answers'[e] = answers[e] + Applied(s)
      <4>1. PICK s \in Sends : answers'[e] = answers[e] + Applied(s)
        BY <3>2
      <4>2. Applied(s) \in Nat
        BY DEF Applied, Sends
      <4>3. QED
        BY <1>0, <4>1, <4>2
    <3>3. QED
      BY <1>9, <3>1, <3>2 DEF Answered
  <2>3. PhaseOf(e) = "settled" /\ PhaseOf(e)' = "settled"
    BY <2>1 DEF PhaseOf, Known
  <2>4. QED
    BY <2>2, <2>3
<1>10. CASE Linked(e)
  <2>1. rec'[e].status = rec[e].status /\ runs'[e] = runs[e] /\ answers'[e] = answers[e]
    BY <1>0, <1>10 DEF Linked, Quiet, Row
  <2>2. QED
    BY <1>1, <2>1
<1>11. CASE Died(e)
  <2>1. runs'[e] = runs[e] /\ answers'[e] = answers[e]
    BY <1>11 DEF Died, Quiet
  <2>2. CASE rec'[e] = rec[e]
    BY <1>1, <2>1, <2>2
  <2>3. CASE ~Known(e) /\ rec'[e] = Received
    <3>1. rec[e].status = "none" /\ rec'[e].status = "received" /\ runs[e] = 0
      BY <1>0, <2>3, RoutedRows DEF Known, Stage
    <3>2. PhaseOf(e) = "new" /\ PhaseOf(e)' = "accepted"
      BY <2>1, <3>1 DEF PhaseOf, Known
    <3>3. QED
      BY <2>1, <3>2
  <2>4. QED
    BY <1>11, <2>2, <2>3 DEF Died
<1>12. QED
  BY <1>2, <1>3, <1>4, <1>5, <1>6, <1>7, <1>8, <1>9, <1>10, <1>11 DEF Chapter

\* However often a Slack event or an email is delivered and wherever the process dies,
\* its handling is one of HandledOnce: it is accepted once, one coordinator run is
\* started for it, its outcome is settled once, and only then does the sender hear of it.
THEOREM HandlesOnceAlways == Spec => HandlesOnce
<1> DEFINE phases == [e \in Plain |-> PhaseOf(e)]
           answered == {e \in Plain : answers[e] > 0}
<1>1. ASSUME Init PROVE Handling!Init
  <2>1. \A e \in Plain : runs[e] = 0 /\ rec[e].status = "none" /\ answers[e] = 0
    BY <1>1 DEF Init, Plain, NoRow, Events, Async
  <2>2. \A e \in Plain : PhaseOf(e) = "new" /\ ~(answers[e] > 0)
    BY <2>1 DEF PhaseOf, Known
  <2>3. QED
    BY <2>2 DEF Handling!Init
<1>2. ASSUME EventsInv, [Next]_vars PROVE [Handling!Next]_(Handling!vars)
  <2>1. EventsInv'
    BY <1>2, EventsNext
  <2>2. PICK x : \A e \in Async \ {x} : Kept(e)
    BY <1>2, OneAtATime DEF EventsInv
  <2>3. \A e \in Plain \ {x} : PhaseOf(e)' = PhaseOf(e) /\ answers'[e] = answers[e]
    BY <2>2 DEF Kept, PhaseOf, Known, Plain
  <2>4. \A e \in Plain : answers[e] \in Nat /\ answers'[e] \in Nat
    BY <1>2, <2>1 DEF EventsInv, Typed, TypeOK, Plain
  <2>5. phases' = [e \in Plain |-> PhaseOf(e)'] /\ answered' = {e \in Plain : answers'[e] > 0}
    OBVIOUS
  <2>6. CASE x \notin Plain \/ (x \in Plain /\ PhaseOf(x)' = PhaseOf(x) /\ answers'[x] = answers[x])
    <3>1. \A e \in Plain : PhaseOf(e)' = PhaseOf(e) /\ answers'[e] = answers[e]
      BY <2>3, <2>6
    <3>2. phases' = phases /\ answered' = answered
      BY <2>5, <3>1
    <3>3. QED
      BY <3>2 DEF Handling!vars
  <2>7. CASE x \in Plain /\ ~(PhaseOf(x)' = PhaseOf(x) /\ answers'[x] = answers[x])
    <3>1. \/ /\ <<PhaseOf(x), PhaseOf(x)'>> \in
                    {<<"new", "accepted">>, <<"accepted", "started">>, <<"started", "settled">>}
             /\ answers'[x] = answers[x]
          \/ PhaseOf(x) = "settled" /\ PhaseOf(x)' = "settled" /\ answers'[x] >= answers[x]
      <4>1. x \in Plain /\ x \in Async /\ Typed /\ Typed' /\ PollsAccept /\ Story(x) /\ Story(x)'
        BY <1>2, <2>1, <2>7 DEF EventsInv, AnswersInv, MailInv, Plain
      <4>2. Chapter(x)
        BY <1>2, <4>1, Chapters
      <4>3. QED
        BY <2>7, <4>1, <4>2, ChapterIsAbstract
    <3>2. phases' = [phases EXCEPT ![x] = PhaseOf(x)'] /\ phases[x] = PhaseOf(x)
      BY <2>3, <2>5, <2>7
    <3>3. CASE answers'[x] = answers[x]
      <4>1. answered' = answered
        BY <2>3, <2>5, <3>3
      <4>2. CASE PhaseOf(x) = "new" /\ PhaseOf(x)' = "accepted"
        BY <2>7, <3>2, <4>1, <4>2 DEF Handling!Next, Handling!Accept, Handling!Move
      <4>3. CASE PhaseOf(x) = "accepted" /\ PhaseOf(x)' = "started"
        BY <2>7, <3>2, <4>1, <4>3 DEF Handling!Next, Handling!Start, Handling!Move
      <4>4. CASE PhaseOf(x) = "started" /\ PhaseOf(x)' = "settled"
        BY <2>7, <3>2, <4>1, <4>4 DEF Handling!Next, Handling!Settle, Handling!Move
      <4>5. QED
        BY <2>7, <3>1, <3>3, <4>2, <4>3, <4>4
    <3>4. CASE answers'[x] # answers[x]
      <4>1. PhaseOf(x) = "settled" /\ PhaseOf(x)' = "settled" /\ answers'[x] >= answers[x]
        BY <3>1, <3>4
      <4>2. answers'[x] > 0
        BY <2>4, <2>7, <3>4, <4>1
      <4>3. answered' = answered \cup {x}
        BY <2>3, <2>5, <2>7, <4>2
      <4>4. phases' = phases
        BY <3>2, <4>1
      <4>5. QED
        BY <2>7, <3>2, <4>1, <4>3, <4>4 DEF Handling!Next, Handling!Answer
    <3>5. QED
      BY <3>3, <3>4
  <2>8. QED
    BY <2>6, <2>7
<1>3. QED
  BY <1>1, <1>2, EventsInvAlways, PTL DEF Spec, HandlesOnce, Handling!Spec
=============================================================================

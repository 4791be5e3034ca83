--------------------------- MODULE InboundChannels ---------------------------
(***************************************************************************)
(* Inbound channels: the event store and router (src/src/channels/         *)
(* inbound.ts), the response adapters of Slack and email                   *)
(* (inbound-response-dispatcher.ts, slack-progress.ts, slack.ts), the      *)
(* email poller (email.ts, email-transports.ts), feedback                  *)
(* (slack-feedback.ts) and the assignment intake in front of them.         *)
(*                                                                         *)
(* A provider delivers an event at least once.  Slack events and emails    *)
(* are acknowledged and handled by a task of their own; a webhook call     *)
(* waits for its run.  A step is what the code does between two awaits.    *)
(***************************************************************************)
EXTENDS Integers, Sequences, FiniteSets, SequencesExt

CONSTANTS
    SlackEvents, Emails, Hooks,  \* provider events, by channel
    Missions,      \* the events whose text asks for an assignment
    AutoReplies,   \* the emails an auto responder wrote
    Oversized,     \* the emails above EMAIL_MAX_MESSAGE_BYTES, or without a source to fetch
    BatchSize,     \* EMAIL_POLL_BATCH_SIZE
    MaxLoops,      \* bound: loops of the email poller that live at a time
    MaxDeliveries, \* bound: deliveries by the providers
    MaxReports,    \* bound: events of runs reported to Slack
    MaxIncidents   \* bound: failed calls of a provider's API, channels enabled or
                   \* disabled by the operator, and process deaths, together

Async == SlackEvents \cup Emails
Events == Async \cup Hooks
Channels == {"slack", "email", "webhook"}

ASSUME InboundAssumption ==
    /\ Missions \subseteq Events
    /\ AutoReplies \cup Oversized \subseteq Emails
    /\ SlackEvents \cap Emails = {} /\ Async \cap Hooks = {}
    /\ BatchSize \in Nat \ {0} /\ MaxLoops \in Nat \ {0}
    /\ MaxDeliveries \in Nat /\ MaxReports \in Nat /\ MaxIncidents \in Nat

ChannelOf(e) ==
    IF e \in SlackEvents THEN "slack" ELSE IF e \in Emails THEN "email" ELSE "webhook"

VARIABLES
    enabled,   \* the channel registry
    rec,       \* inbound_channel_events, one row for an event
    mission,   \* assignments made of events, and whether a wakeup is scheduled
    log,       \* channel_delivery_logs of the answers
    feedback,  \* inbound_channel_feedback
    up,        \* is the process alive
    task,      \* the handler of a Slack event or email
    reporter,  \* the SlackProgressReporter of an event
    call,      \* the webhook requests, by number
    poller,    \* the email poller: is it running, whose timer does it remember
    poll,      \* its loops: a timer, or a poll on its way
    imap,      \* its IMAP client, the close() calls on their way, and the UIDs it knows
    mailbox,   \* external: the mailbox
    slack,     \* external: what the Slack thread of an event shows
    answers,   \* external: answers the sender of an event has received
    runs,      \* history: coordinator runs started for an event
    lost,      \* history: API calls that took effect and were reported failed
    trouble,   \* history: events with a failed call or run
    died,      \* history: events whose handler died with the process
    budget     \* what is left of the bounds

durable == <<enabled, rec, mission, log, feedback>>
memory == <<task, reporter, call, poller, poll, imap>>
outside == <<mailbox, slack, answers>>
history == <<runs, lost, trouble, died>>
vars == <<durable, up, memory, outside, history, budget>>

-----------------------------------------------------------------------------
(* The event store *)

Status == {"none", "received", "running", "completed", "failed"}
Phase == {"queued", "running", "completed", "failed"}
Result == {"text", "empty", "failed"}

\* out is output_text; progress, progressTs and responseTs stand for the columns
\* progress_state, progress_message_ts and slack_response_message_ts.
NoRow == [status |-> "none", out |-> "none", progress |-> "none",
          progressTs |-> FALSE, responseTs |-> FALSE]

Known(e) == rec[e].status # "none"

Received == [NoRow EXCEPT !.status = "received"]

Running(row) == [row EXCEPT !.status = "running"]

\* recordProgress: the timestamp of the progress message is kept once there is one.
Progressed(row, phase, posted) ==
    [row EXCEPT !.progress = phase, !.progressTs = @ \/ posted]

\* Mutant of Settled: the result is written where the status belongs.
SettledAsResult(row, result) == [row EXCEPT !.status = result]

\* markCompleted and markFailed: COALESCE keeps the output of an earlier run.
Settled(row, result) ==
    IF result = "failed" THEN [row EXCEPT !.status = "failed"]
    ELSE [row EXCEPT !.status = "completed", !.out = result]

\* Spends one of a bound.
Spend(field, n) ==
    /\ budget[field] >= n
    /\ budget' = [budget EXCEPT ![field] = @ - n]

-----------------------------------------------------------------------------
(* Calls of the providers *)

\* The ends of SlackChannel.deliver and of the email adapter's loop, three attempts
\* at most: `failed` attempts, of which `lost` took effect all the same, then
\* perhaps one that succeeds.  Nothing in Slack's loop catches a fetch that is
\* rejected: the last attempt is `thrown` out of it.
Sends ==
    {s \in [failed : 0..3, lost : 0..3, ok : BOOLEAN, thrown : BOOLEAN] :
        /\ s.lost <= s.failed
        /\ IF s.ok THEN s.failed <= 2 /\ ~s.thrown ELSE s.failed >= 1}

\* Mutant of Applied: a call Slack took without posting anything counts as delivered.
AppliedUnseen(s) == s.lost

\* The answers that came of it.
Applied(s) == s.lost + (IF s.ok THEN 1 ELSE 0)

\* External: what Slack does of a call, and whether it accepts it.
Accepts(e, step, phase) ==
    CASE step = "remove" -> reporter[e].active \in slack[e].reactions
      [] step = "add" -> phase \notin slack[e].reactions
      [] OTHER -> TRUE

Shown(e, step, phase) ==
    CASE step = "remove" -> [slack[e] EXCEPT !.reactions = @ \ {reporter[e].active}]
      [] step = "add" -> [slack[e] EXCEPT !.reactions = @ \cup {phase}]
      [] OTHER -> [slack[e] EXCEPT !.message = phase]

\* Mutant of Work: the old reaction is left where it is.
WorkLeavesReaction(r, phase) ==
    (IF phase = "queued" THEN <<"post">> ELSE <<>>)
    \o (IF r.active # phase THEN <<"add">> ELSE <<>>)
    \o (IF phase = "queued" THEN <<>> ELSE <<IF r.posted THEN "update" ELSE "post">>)

\* What queued, onEvent, completed and failed of the reporter ask of Slack, in order.
Work(r, phase) ==
    (IF phase = "queued" THEN <<"post">> ELSE <<>>)
    \o (IF r.active \notin {"none", phase} THEN <<"remove">> ELSE <<>>)
    \o (IF r.active # phase THEN <<"add">> ELSE <<>>)
    \o (IF phase = "queued" THEN <<>> ELSE <<IF r.posted THEN "update" ELSE "post">>)

-----------------------------------------------------------------------------
(* Intake and router *)

Idle == [at |-> "none", todo |-> <<>>]
NoReporter == [posted |-> FALSE, active |-> "none"]

\* classifyAssignmentIntent: the text of the event asks for an assignment.
AsksForAssignment(e) == e \in Missions

\* findDuplicate: an assignment was made of this event before.
HasAssignment(e) == mission[e] # "none"

\* AssignmentIntakeService.handle up to its await: the assignment is made unless the
\* event has one; its wakeup follows, ScheduleMission.
MakesAssignment(e) == AsksForAssignment(e) /\ ~HasAssignment(e)

\* Mutant of Routed: a redelivered event that failed is handled again.
RoutedAgain(e) == rec[e].status \in {"none", "failed"}

\* Mutant of Routed: only a running event is a duplicate.
RoutedUnlessRunning(e) == rec[e].status # "running"

\* routeAsync goes on with events it has no row of.
Routed(e) == ~Known(e)

\* recordReceived, markRunning, and the microtask that runs runAsync.
RouteAsync(e) ==
    IF Routed(e)
    THEN /\ rec' = [rec EXCEPT ![e] = Running(Received)]
         /\ task' = [task EXCEPT ![e] = [at |-> "start", todo |-> <<>>]]
    ELSE UNCHANGED <<rec, task>>

\* POST /channels/slack/events.
DeliverSlack(e) ==
    /\ up /\ enabled["slack"]
    /\ Spend("deliveries", 1)
    /\ IF AsksForAssignment(e)
       THEN /\ IF MakesAssignment(e)
               THEN /\ mission' = [mission EXCEPT ![e] = "created"]
                    /\ task' = [task EXCEPT ![e] = [at |-> "schedule", todo |-> <<>>]]
               ELSE UNCHANGED <<mission, task>>
            /\ UNCHANGED rec
       ELSE RouteAsync(e) /\ UNCHANGED mission
    /\ UNCHANGED <<enabled, log, feedback, up, reporter, call, poller, poll, imap, outside, history>>

\* scheduleNext returns: the Slack handler acknowledges the mission in its thread.
ScheduleMission(e) ==
    /\ up /\ task[e].at = "schedule"
    /\ mission' = [mission EXCEPT ![e] = "scheduled"]
    /\ task' = [task EXCEPT ![e].at = "answer"]
    /\ UNCHANGED <<enabled, rec, log, feedback, up, reporter, call, poller, poll, imap, outside, history, budget>>

-----------------------------------------------------------------------------
(* The handler of a Slack event or email: runAsync *)

Reports(e, phase) == [at |-> phase, todo |-> Work(reporter[e], phase)]

\* beforeRun: a Slack event gets a reporter.
StartHandler(e) ==
    /\ up /\ task[e].at = "start"
    /\ IF e \in SlackEvents
       THEN /\ reporter' = [reporter EXCEPT ![e] = NoReporter]
            /\ task' = [task EXCEPT ![e] = [at |-> "queued", todo |-> Work(NoReporter, "queued")]]
            /\ UNCHANGED runs
       ELSE /\ task' = [task EXCEPT ![e].at = "run"]
            /\ runs' = [runs EXCEPT ![e] = @ + 1]
            /\ UNCHANGED reporter
    /\ UNCHANGED <<durable, up, call, poller, poll, imap, outside, lost, trouble, died, budget>>

\* One call of the reporter succeeds, or takes effect and is reported failed, or
\* fails; a failed one ends the phase.
ReporterCall(e) ==
    LET phase == task[e].at
        step == Head(task[e].todo)
        accepted == enabled["slack"] /\ Accepts(e, step, phase)
        shows == slack' = [slack EXCEPT ![e] = Shown(e, step, phase)]
        done == /\ task' = [task EXCEPT ![e].todo = Tail(@)]
                /\ reporter' = [reporter EXCEPT ![e] =
                        CASE step = "post" -> [@ EXCEPT !.posted = TRUE]
                          [] step = "add" -> [@ EXCEPT !.active = phase]
                          [] OTHER -> @]
                /\ UNCHANGED trouble
        gaveUp == /\ task' = [task EXCEPT ![e].todo = <<>>]
                  /\ trouble' = trouble \cup {e}
                  /\ UNCHANGED reporter
    IN  /\ up /\ phase \in Phase /\ task[e].todo # <<>>
        /\ \/ accepted /\ shows /\ done /\ UNCHANGED <<lost, budget>>
           \/ /\ accepted /\ Spend("incidents", 1)
              /\ shows /\ gaveUp /\ lost' = [lost EXCEPT ![e] = @ + 1]
           \/ /\ IF accepted THEN Spend("incidents", 1) ELSE UNCHANGED budget
              /\ gaveUp /\ UNCHANGED <<slack, lost>>
        /\ UNCHANGED <<durable, up, call, poller, poll, imap, mailbox, answers, runs, died>>

\* recordProgress, on success and on failure; the handler goes on.
ReporterRecords(e) ==
    LET phase == task[e].at
        next == CASE phase \in {"queued", "running"} -> "run"
                  [] phase = "completed" -> "answer"
                  [] phase = "failed" -> "over"
    IN  /\ up /\ phase \in Phase /\ task[e].todo = <<>>
        /\ rec' = [rec EXCEPT ![e] = Progressed(@, phase, reporter[e].posted)]
        /\ task' = [task EXCEPT ![e].at = next]
        /\ runs' = [runs EXCEPT ![e] = @ + (IF phase = "queued" THEN 1 ELSE 0)]
        /\ UNCHANGED <<enabled, mission, log, feedback, up, reporter, call, poller, poll, imap, outside,
                       lost, trouble, died, budget>>

\* onEvent: an event of the run, unless one was reported in the last 750 ms.
RunEvent(e) ==
    /\ up /\ task[e].at = "run"
    /\ Spend("reports", 1)
    /\ task' = [task EXCEPT ![e] = Reports(e, "running")]
    /\ UNCHANGED <<durable, up, reporter, call, poller, poll, imap, outside, history>>

\* Where onComplete and onFailure start.  Only Slack has an onFailure, and neither
\* adapter answers with an empty text.
AfterRun(e, result) ==
    CASE result = "empty" -> [at |-> "over", todo |-> <<>>]
      [] result = "failed" /\ e \in Emails -> [at |-> "over", todo |-> <<>>]
      [] result = "text" /\ e \in Emails -> [at |-> "answer", todo |-> <<>>]
      [] OTHER -> Reports(e, IF result = "text" THEN "completed" ELSE "failed")

\* runCoordinator returns or throws: markCompleted or markFailed, then the callback.
EndRun(e) ==
    /\ up /\ task[e].at = "run"
    /\ \E result \in Result :
        /\ rec' = [rec EXCEPT ![e] = Settled(@, result)]
        /\ task' = [task EXCEPT ![e] = AfterRun(e, result)]
    /\ UNCHANGED <<enabled, mission, log, feedback, up, reporter, call, poller, poll, imap, outside, history, budget>>

\* What the row becomes when the answer is delivered or not: runSideEffectCallback
\* swallows the error of onComplete.
AfterAnswer(e, row, delivered) == row

\* The answer was tried, as s says; a row of the delivery log tells the end of it,
\* unless an attempt was thrown.
Tried(e, s) ==
    /\ Spend("incidents", s.failed)
    /\ answers' = [answers EXCEPT ![e] = @ + Applied(s)]
    /\ lost' = [lost EXCEPT ![e] = @ + s.lost]
    /\ log' = [log EXCEPT ![e] =
            IF s.thrown THEN @ ELSE Append(@, IF s.ok THEN "delivered" ELSE "failed")]
    /\ rec' = [rec EXCEPT ![e] = AfterAnswer(e, @, s.ok)]
    /\ trouble' = IF s.ok THEN trouble ELSE trouble \cup {e}

\* onComplete of the Slack adapter: the answer goes into the thread; its timestamp is
\* recorded next.  Also the acknowledgement of a Slack mission, which has no row.
AnswerInSlack(e) ==
    /\ enabled["slack"]
    /\ \E s \in Sends :
        /\ Tried(e, s)
        /\ task' = [task EXCEPT ![e].at =
              IF s.ok /\ ~AsksForAssignment(e) THEN "record" ELSE "over"]

\* ... which throws at once when the channel is disabled, and logs no delivery.
SlackIsDisabled(e) ==
    /\ ~enabled["slack"]
    /\ task' = [task EXCEPT ![e].at = "over"]
    /\ rec' = [rec EXCEPT ![e] = AfterAnswer(e, @, FALSE)]
    /\ trouble' = trouble \cup {e}
    /\ UNCHANGED <<log, answers, lost, budget>>

\* onComplete of the email adapter: the reply is sent whatever the registry says,
\* and an error of the transport is caught.
AnswerByEmail(e) ==
    \E s \in Sends :
        /\ ~s.thrown
        /\ Tried(e, s)
        /\ task' = [task EXCEPT ![e].at = "over"]

SendAnswer(e) ==
    /\ up /\ task[e].at = "answer"
    /\ \/ e \in SlackEvents /\ (AnswerInSlack(e) \/ SlackIsDisabled(e))
       \/ e \in Emails /\ AnswerByEmail(e)
    /\ UNCHANGED <<enabled, mission, feedback, up, reporter, call, poller, poll, imap, mailbox, slack, runs, died>>

\* recordSlackResponseMessage.
RecordResponse(e) ==
    /\ up /\ task[e].at = "record"
    /\ rec' = [rec EXCEPT ![e].responseTs = TRUE]
    /\ task' = [task EXCEPT ![e].at = "over"]
    /\ UNCHANGED <<enabled, mission, log, feedback, up, reporter, call, poller, poll, imap, outside, history, budget>>

-----------------------------------------------------------------------------
(* Feedback on the messages of an event *)

\* findBySlackMessageTs finds the event of a message whose timestamp is stored.
FoundBy(e, target) ==
    IF target = "answer" THEN rec[e].responseTs ELSE rec[e].progressTs

\* record: one row for a provider's event; it names the run, if the inbound event has one.
Rated(e, target) ==
    feedback' = [feedback EXCEPT ![e] = @ \cup {[on |-> target, run |-> rec[e].out # "none"]}]

\* A reaction to the answer or to the progress message; one that is not found is no
\* message for the coordinator either.
ReactToMessage(e, target) ==
    /\ up /\ e \in SlackEvents
    /\ IF target = "answer" THEN answers[e] > 0 ELSE slack[e].message # "none"
    /\ FoundBy(e, target)
    /\ Spend("deliveries", 1)
    /\ Rated(e, target)
    /\ UNCHANGED <<enabled, rec, mission, log, up, memory, outside, history>>

\* POST /channels/slack/interactions: the buttons of the answer carry the event.
PressButton(e) ==
    /\ up /\ e \in SlackEvents \ Missions /\ answers[e] > 0
    /\ Spend("deliveries", 1)
    /\ Rated(e, "answer")
    /\ UNCHANGED <<enabled, rec, mission, log, up, memory, outside, history>>

-----------------------------------------------------------------------------
(* Webhook calls: routeSync *)

\* A redelivery is answered from the row, refused while the row is running, and
\* handled again otherwise, without marking the row.
Replayed(e) == rec[e].out # "none"
Refused(e) == ~Replayed(e) /\ rec[e].status = "running"
RefusedOrReplayed(e) == Known(e) /\ (Replayed(e) \/ Refused(e))

\* routeSync up to the run.
RouteSync(d, e) ==
    IF RefusedOrReplayed(e)
    THEN /\ call' = [call EXCEPT ![d] = [at |-> "over", event |-> e]]
         /\ UNCHANGED rec
    ELSE /\ call' = [call EXCEPT ![d] = [at |-> "run", event |-> e]]
         /\ rec' = IF Known(e) THEN rec ELSE [rec EXCEPT ![e] = Running(Received)]

\* POST /channels/webhook.
CallWebhook(d, e) ==
    /\ up /\ enabled["webhook"]
    /\ call[d].at = "none"
    /\ \A c \in DOMAIN call : c < d => call[c].at # "none"
    /\ Spend("deliveries", 1)
    /\ IF AsksForAssignment(e)
       THEN /\ mission' = [mission EXCEPT ![e] = IF MakesAssignment(e) THEN "created" ELSE @]
            /\ call' = [call EXCEPT ![d] =
                    [at |-> IF MakesAssignment(e) THEN "schedule" ELSE "over", event |-> e]]
            /\ UNCHANGED rec
       ELSE /\ RouteSync(d, e)
            /\ UNCHANGED mission
    /\ UNCHANGED <<enabled, log, feedback, up, task, reporter, poller, poll, imap, outside, history>>

\* scheduleNext returns.
ScheduleCalled(d) ==
    /\ up /\ call[d].at = "schedule"
    /\ mission' = [mission EXCEPT ![call[d].event] = "scheduled"]
    /\ call' = [call EXCEPT ![d].at = "over"]
    /\ UNCHANGED <<enabled, rec, log, feedback, up, task, reporter, poller, poll, imap, outside, history, budget>>

\* runCoordinator returns or throws; failed calls are remembered in trouble.
EndCall(d) ==
    /\ up /\ call[d].at = "run"
    /\ \E result \in Result :
        /\ rec' = [rec EXCEPT ![call[d].event] = Settled(@, result)]
        /\ trouble' = IF result = "failed" THEN trouble \cup {call[d].event} ELSE trouble
    /\ call' = [call EXCEPT ![d].at = "over"]
    /\ UNCHANGED <<enabled, mission, log, feedback, up, task, reporter, poller, poll, imap, outside, runs, lost, died, budget>>

-----------------------------------------------------------------------------
(* The email poller *)

Loops == 1..MaxLoops
Off == [at |-> "off", todo |-> {}, now |-> "none"]
Armed == [Off EXCEPT !.at = "armed"]
NoClient == [client |-> "none", closing |-> 0, uids |-> {}]

\* A loop with messages before it, and one with a message at hand.
Fetched(batch) == [at |-> "next", todo |-> batch, now |-> "none"]

Holding(l, at, e) == [at |-> at, todo |-> poll[l].todo, now |-> e]

\* armNext, at the end of a poll of loop l: the timer the poller remembers is the
\* last one set.
ArmNext(l) ==
    /\ poll' = [poll EXCEPT ![l] = IF poller.running THEN Armed ELSE Off]
    /\ poller' = [poller EXCEPT !.timer = IF poller.running THEN l ELSE @]

\* start: a new loop, unless the poller runs.
StartPoller ==
    IF poller.running THEN UNCHANGED <<poller, poll>>
    ELSE \E l \in Loops :
        /\ poll[l] = Off /\ \A k \in Loops : k < l => poll[k] # Off
        /\ poller' = [running |-> TRUE, timer |-> l]
        /\ poll' = [poll EXCEPT ![l] = Armed]

\* stop: the remembered timer is cleared, and close() of a client that was connected
\* is awaited (LoggedOut); a poll on its way goes on.
StopPoller ==
    /\ poller' = [poller EXCEPT !.running = FALSE]
    /\ poll' = [l \in Loops |-> IF l = poller.timer /\ poll[l] = Armed THEN Off ELSE poll[l]]
    /\ imap' = IF imap.client \in {"open", "dead"} THEN [imap EXCEPT !.closing = @ + 1] ELSE imap

\* External: a message comes in.
MailArrives(e) ==
    /\ mailbox[e] = "absent"
    /\ Spend("deliveries", 1)
    /\ mailbox' = [mailbox EXCEPT ![e] = "unseen"]
    /\ UNCHANGED <<durable, up, memory, slack, answers, history>>

Unseen == {e \in Emails : mailbox[e] = "unseen"}

\* A batch of listUnread: as many of the unread messages as fit.
Batches ==
    {batch \in SUBSET Unseen :
        Cardinality(batch) = (IF Cardinality(Unseen) < BatchSize
                              THEN Cardinality(Unseen) ELSE BatchSize)}

\* A poll's calls of the IMAP server succeed; getClient has connected a new client.
ImapAnswers(uids) ==
    /\ imap.client # "dead"
    /\ imap' = [imap EXCEPT !.client = "open", !.uids = uids]

\* One of them fails.  getClient keeps its client: one whose connection broke fails
\* every later call, and so may one that failed to connect, or is logging out.
ImapFails(uids) ==
    \/ /\ imap.client # "dead"
       /\ Spend("incidents", 1)
       /\ \E client \in {"open", "dead"} \cup (IF imap.client = "open" THEN {} ELSE {"spent"}) :
            imap' = [imap EXCEPT !.client = client, !.uids = uids]
    \/ /\ imap.client \in {"dead", "spent"} \/ imap.closing > 0
       /\ imap' = [imap EXCEPT !.uids = uids]
       /\ UNCHANGED budget

\* listUnread on a message of its batch: its UID is remembered, or, if it is too large
\* or cannot be fetched, it is marked.
Remembered(read) == imap.uids \cup (read \ Oversized)
Marked(mails) == mailbox' = [e \in Emails |-> IF e \in mails THEN "seen" ELSE mailbox[e]]

\* The timer of a loop fires: unless the poller was stopped, a batch is read, though
\* the server may refuse to mark a message; or listUnread throws, perhaps half way.
ListUnread(l) ==
    /\ up /\ poll[l].at = "armed"
    /\ \/ /\ poller.running
          /\ \E batch \in Batches, refused \in SUBSET Oversized :
              /\ refused \subseteq batch
              /\ IF refused = {} THEN UNCHANGED budget ELSE Spend("incidents", 1)
              /\ ImapAnswers(Remembered(batch))
              /\ Marked((batch \cap Oversized) \ refused)
              /\ poll' = [poll EXCEPT ![l] = Fetched(batch \ Oversized)]
          /\ UNCHANGED poller
       \/ /\ poller.running
          /\ \E batch \in Batches : \E read \in SUBSET batch :
              /\ ImapFails(Remembered(read))
              /\ read # {} => imap.client # "dead" /\ imap'.client \in {"open", "dead"}
              /\ Marked(read \cap Oversized)
          /\ ArmNext(l)
       \/ /\ ~poller.running
          /\ poll' = [poll EXCEPT ![l] = Off]
          /\ UNCHANGED <<poller, imap, mailbox, budget>>
    /\ UNCHANGED <<durable, up, task, reporter, call, slack, answers, history>>

\* Mutant of PollNext: the message is marked seen as soon as it is fetched.
MarksFirst(l, e) ==
    /\ up /\ poll[l].at = "next" /\ e \in poll[l].todo
    /\ poll' = [poll EXCEPT ![l].todo = @ \ {e}]
    /\ mailbox' = [mailbox EXCEPT ![e] = "seen"]
    /\ UNCHANGED <<durable, up, task, reporter, call, poller, imap, slack, answers, history, budget>>

\* Mutant of PollNext: a duplicate is left unread.
PollSkipsDuplicate(l, e) ==
    /\ up /\ poll[l].at = "next" /\ e \in poll[l].todo
    /\ IF Known(e)
       THEN poll' = [poll EXCEPT ![l].todo = @ \ {e}] /\ UNCHANGED <<rec, task>>
       ELSE /\ poll' = [poll EXCEPT ![l] = Holding(l, "mark", e)]
            /\ RouteAsync(e)
    /\ UNCHANGED <<enabled, mission, log, feedback, up, reporter, call, poller, imap, outside, history, budget>>

\* isAutoReply: by the headers of the mail.
IsAutoReply(e) == e \in AutoReplies

\* pollOnce at its next message: an auto reply is passed over, a mission becomes an
\* assignment, anything else is routed; a disabled channel throws and ends the poll.
PollNext(l, e) ==
    /\ up /\ poll[l].at = "next" /\ e \in poll[l].todo
    /\ \/ /\ IsAutoReply(e)
          /\ poll' = [poll EXCEPT ![l] = Holding(l, "mark", e)]
          /\ UNCHANGED <<rec, task, mission, poller>>
       \/ /\ ~IsAutoReply(e) /\ AsksForAssignment(e)
          /\ mission' = [mission EXCEPT ![e] = IF MakesAssignment(e) THEN "created" ELSE @]
          /\ poll' = [poll EXCEPT ![l] =
                          Holding(l, IF MakesAssignment(e) THEN "schedule" ELSE "mark", e)]
          /\ UNCHANGED <<rec, task, poller>>
       \/ /\ ~IsAutoReply(e) /\ ~AsksForAssignment(e) /\ enabled["email"]
          /\ RouteAsync(e)
          /\ poll' = [poll EXCEPT ![l] = Holding(l, "mark", e)]
          /\ UNCHANGED <<mission, poller>>
       \/ /\ ~IsAutoReply(e) /\ ~AsksForAssignment(e) /\ ~enabled["email"]
          /\ ArmNext(l)
          /\ UNCHANGED <<rec, task, mission>>
    /\ UNCHANGED <<enabled, log, feedback, up, reporter, call, imap, outside, history, budget>>

PollSchedules(l) ==
    /\ up /\ poll[l].at = "schedule"
    /\ mission' = [mission EXCEPT ![poll[l].now] = "scheduled"]
    /\ poll' = [poll EXCEPT ![l].at = "mark"]
    /\ UNCHANGED <<enabled, rec, log, feedback, up, task, reporter, call, poller, imap, outside, history, budget>>

\* markSeen, and the next message, though the server may refuse the flag; or it
\* throws, which ends the poll: also when the UID is forgotten by then.
MarkSeen(l) ==
    LET e == poll[l].now
    IN  /\ up /\ poll[l].at = "mark"
        /\ \/ /\ ImapAnswers(imap.uids \ {e})
              /\ Marked({e})
              /\ poll' = [poll EXCEPT ![l] = Fetched(poll[l].todo \ {e})]
              /\ UNCHANGED <<poller, budget>>
           \/ /\ Spend("incidents", 1)
              /\ ImapAnswers(imap.uids)
              /\ poll' = [poll EXCEPT ![l] = Fetched(poll[l].todo \ {e})]
              /\ UNCHANGED <<poller, mailbox>>
           \/ /\ \/ ImapFails(imap.uids)
                 \/ e \notin imap.uids /\ ImapAnswers(imap.uids) /\ UNCHANGED budget
              /\ ArmNext(l)
              /\ UNCHANGED mailbox
        /\ UNCHANGED <<durable, up, task, reporter, call, slack, answers, history>>

\* A close() on its way ends, and the client is dropped with the UIDs; or logout
\* throws, and the client stays.
LoggedOut ==
    /\ up /\ imap.closing > 0
    /\ \/ /\ imap' = [client |-> "none", closing |-> imap.closing - 1, uids |-> {}]
          /\ UNCHANGED budget
       \/ /\ IF imap.client = "dead" THEN UNCHANGED budget ELSE Spend("incidents", 1)
          /\ \E client \in {imap.client} \cup (IF imap.client = "open" THEN {"dead"} ELSE {}) :
                imap' = [imap EXCEPT !.client = client, !.closing = @ - 1]
    /\ UNCHANGED <<durable, up, task, reporter, call, poller, poll, outside, history>>

\* The batch is done.
EndPoll(l) ==
    /\ up /\ poll[l].at = "next" /\ poll[l].todo = {}
    /\ ArmNext(l)
    /\ UNCHANGED <<durable, up, task, reporter, call, imap, outside, history, budget>>

-----------------------------------------------------------------------------
(* Operator and process *)

\* POST /admin/channels: the registry, then the lifecycle of the channel up to its
\* first await.  Only email has one; what it throws, the registry keeps.
Toggle(c) ==
    /\ up
    /\ Spend("incidents", 1)
    /\ enabled' = [enabled EXCEPT ![c] = ~@]
    /\ CASE c # "email" -> UNCHANGED <<poller, poll, imap>>
         [] c = "email" /\ enabled[c] -> StopPoller
         [] c = "email" /\ ~enabled[c] -> StartPoller /\ UNCHANGED imap
    /\ UNCHANGED <<rec, mission, log, feedback, up, task, reporter, call, outside, history>>

\* The events a process death leaves without their handler.
Attended == {e \in Async : task[e].at \notin {"none", "over"}}
    \cup {call[d].event : d \in {c \in DOMAIN call : call[c].at \in {"schedule", "run"}}}
    \cup {poll[l].now : l \in {k \in Loops : poll[k].at = "schedule"}}

\* The process dies, perhaps within the routing of a message it has just taken.
Crash ==
    /\ up
    /\ Spend("incidents", 1)
    /\ up' = FALSE
    /\ \/ UNCHANGED rec /\ died' = died \cup Attended
       \/ \E e \in Events \ Missions :
          /\ ~Known(e) /\ enabled[ChannelOf(e)]
          /\ e \in Emails \ AutoReplies => \E l \in Loops : poll[l].at = "next" /\ e \in poll[l].todo
          /\ e \notin AutoReplies
          /\ rec' = [rec EXCEPT ![e] = Received]
          /\ died' = died \cup Attended \cup {e}
    /\ task' = [e \in Async |-> Idle]
    /\ reporter' = [e \in SlackEvents |-> NoReporter]
    /\ call' = [d \in DOMAIN call |-> IF call[d].at = "none" THEN call[d] ELSE [call[d] EXCEPT !.at = "over"]]
    /\ poller' = [running |-> FALSE, timer |-> 1]
    /\ poll' = [l \in Loops |-> Off]
    /\ imap' = NoClient
    /\ UNCHANGED <<enabled, mission, log, feedback, outside, runs, lost, trouble>>

\* The process starts, and email.start() with it.
Restart ==
    /\ ~up
    /\ up' = TRUE
    /\ IF enabled["email"] THEN StartPoller ELSE UNCHANGED <<poller, poll>>
    /\ UNCHANGED <<durable, task, reporter, call, imap, outside, history, budget>>

-----------------------------------------------------------------------------
Init ==
    /\ enabled = [c \in Channels |-> TRUE]
    /\ rec = [e \in Events |-> NoRow]
    /\ mission = [e \in Events |-> "none"]
    /\ log = [e \in Async |-> <<>>]
    /\ feedback = [e \in SlackEvents |-> {}]
    /\ up = FALSE
    /\ task = [e \in Async |-> Idle]
    /\ reporter = [e \in SlackEvents |-> NoReporter]
    /\ call = [d \in 1..MaxDeliveries |-> [at |-> "none", event |-> "none"]]
    /\ poller = [running |-> FALSE, timer |-> 1]
    /\ poll = [l \in Loops |-> Off]
    /\ imap = NoClient
    /\ mailbox = [e \in Emails |-> "absent"]
    /\ slack = [e \in SlackEvents |-> [reactions |-> {}, message |-> "none"]]
    /\ answers = [e \in Async |-> 0]
    /\ runs = [e \in Async |-> 0]
    /\ lost = [e \in Async |-> 0]
    /\ trouble = {} /\ died = {}
    /\ budget = [deliveries |-> MaxDeliveries, reports |-> MaxReports, incidents |-> MaxIncidents]

Handler(e) ==
    \/ ScheduleMission(e) \/ StartHandler(e) \/ EndRun(e)
    \/ SendAnswer(e) \/ RecordResponse(e)

Reporter(e) == ReporterCall(e) \/ ReporterRecords(e)

Poller(l) ==
    \/ ListUnread(l) \/ PollSchedules(l) \/ MarkSeen(l) \/ EndPoll(l)
    \/ \E e \in Emails : PollNext(l, e)

Caller(d) == ScheduleCalled(d) \/ EndCall(d)

Next ==
    \/ \E e \in SlackEvents : DeliverSlack(e) \/ Reporter(e) \/ RunEvent(e) \/ PressButton(e)
    \/ \E e \in SlackEvents, target \in {"answer", "progress"} : ReactToMessage(e, target)
    \/ \E e \in Emails : MailArrives(e)
    \/ \E e \in Async : Handler(e)
    \/ \E d \in 1..MaxDeliveries, e \in Hooks : CallWebhook(d, e)
    \/ \E d \in 1..MaxDeliveries : Caller(d)
    \/ \E l \in Loops : Poller(l)
    \/ LoggedOut
    \/ \E c \in Channels : Toggle(c)
    \/ Crash
    \/ Restart

Handlers ==
    \/ \E e \in Async : Handler(e)
    \/ \E e \in SlackEvents : Reporter(e)
    \/ \E d \in 1..MaxDeliveries : Caller(d)
    \/ LoggedOut

\* The event loop runs what is ready: handlers that were started go on (each has
\* finitely many steps), the poller's timer fires; and the process is started again.
Fairness == WF_vars(Handlers) /\ WF_vars((\E l \in Loops : Poller(l)) \/ Restart)

Spec == Init /\ [][Next]_vars /\ Fairness

-----------------------------------------------------------------------------
(* Properties *)

Row ==
    [status : Status, out : {"none", "text", "empty"}, progress : Phase \cup {"none"},
     progressTs : BOOLEAN, responseTs : BOOLEAN]

Task ==
    [at : Phase \cup {"none", "schedule", "start", "run", "answer", "record", "over"},
     todo : Seq({"post", "remove", "add", "update"})]

Call == [at : {"none", "schedule", "run", "over"}, event : Hooks \cup {"none"}]

Loop ==
    [at : {"off", "armed", "next", "schedule", "mark"}, todo : SUBSET Emails,
     now : Emails \cup {"none"}]

TypeOK ==
    /\ enabled \in [Channels -> BOOLEAN]
    /\ rec \in [Events -> Row]
    /\ mission \in [Events -> {"none", "created", "scheduled"}]
    /\ log \in [Async -> Seq({"delivered", "failed"})]
    /\ feedback \in [SlackEvents -> SUBSET [on : {"answer", "progress"}, run : BOOLEAN]]
    /\ up \in BOOLEAN
    /\ task \in [Async -> Task]
    /\ reporter \in [SlackEvents -> [posted : BOOLEAN, active : Phase \cup {"none"}]]
    /\ call \in [1..MaxDeliveries -> Call]
    /\ poller \in [running : BOOLEAN, timer : Loops]
    /\ poll \in [Loops -> Loop]
    /\ imap \in [client : {"none", "open", "dead", "spent"}, closing : Nat, uids : SUBSET Emails]
    /\ mailbox \in [Emails -> {"absent", "unseen", "seen"}]
    /\ slack \in [SlackEvents -> [reactions : SUBSET Phase, message : Phase \cup {"none"}]]
    /\ answers \in [Async -> Nat] /\ runs \in [Async -> Nat] /\ lost \in [Async -> Nat]
    /\ trouble \cup died \subseteq Events
    /\ budget \in [deliveries : Nat, reports : Nat, incidents : Nat]

\* The sender of an event hears one answer, and one more only for an attempt that
\* took effect although the provider reported its failure: redelivery, a restart
\* and the retries of a failed attempt add none.
AnswersAccounted == \A e \in Async : answers[e] <= 1 + lost[e]

\* Two webhook calls run the coordinator for one event at a time only when an
\* earlier run of it failed, or died with the process.
ConcurrentOnlyAfterFailure ==
    \A c, d \in 1..MaxDeliveries :
        c # d /\ call[c].at = "run" /\ call[d].at = "run" /\ call[c].event = call[d].event =>
            call[c].event \in trouble \cup died

\* Redelivery repeats nothing that is done or under way: neither the answer of an
\* asynchronous run nor, unless it failed, a synchronous run.  (inbound.ts:432, 481.)
RedeliveryRepeatsNothing == AnswersAccounted /\ ConcurrentOnlyAfterFailure

\* The delivery log tells of each answer once, and does not claim what did not happen:
\* a delivered row has its answer, a failed row at most answers Slack or SMTP denied.
LogTellsTheTruth ==
    \A e \in Async :
        /\ Len(log[e]) <= 1
        /\ log[e] = <<"delivered">> => answers[e] >= 1
        /\ log[e] # <<"delivered">> => answers[e] <= lost[e]

\* Feedback on an answer names the run that gave it.
FeedbackNamesRun ==
    \A e \in SlackEvents : [on |-> "answer", run |-> FALSE] \notin feedback[e]

\* What the tables tell of answers is so: the delivery log, and the feedback on them.
\* (inbound-response-dispatcher.ts:169, delivery-log.ts:37, slack-feedback.ts:51.)
RecordsTellTheTruth == LogTellsTheTruth /\ FeedbackNamesRun

\* A mail is marked seen only when it was durably accepted or turned into an
\* assignment ("after durable accept or dedupe succeeds", docs/channels.md:160),
\* unless it is one the poller passes over.
SeenIsAccepted ==
    \A e \in Emails \ (AutoReplies \cup Oversized) :
        mailbox[e] = "seen" => Known(e) \/ mission[e] # "none"

\* An event that is neither settled nor handled by anyone lost its handler to a process
\* death, and so did an assignment made of a message that got no wakeup.
LostOnlyByCrash ==
    \A e \in Events \ died :
        rec[e].status \in {"received", "running"} \/ mission[e] = "created" => e \in Attended

\* Nothing that came in is lost without a trace.  (email.ts:118, inbound.ts:510, intake.ts:136.)
NothingLost == SeenIsAccepted /\ LostOnlyByCrash

\* However the phases of a run fail and go on, the message carries one status
\* reaction, plus one for each reaction Slack set or removed and denied.
OneReaction ==
    \A e \in SlackEvents : Cardinality(slack[e].reactions) <= 1 + lost[e]

\* When nothing failed, a finished run that had an answer or an error leaves its own
\* status on the message, its text and its reaction, not that of a phase before.
FinalStatusShown ==
    \A e \in SlackEvents \ Missions :
        task[e].at = "over" /\ e \notin trouble /\ rec[e].out # "empty" =>
            /\ slack[e].message = rec[e].status
            /\ slack[e].reactions = {rec[e].status}

\* The progress of an event never runs ahead of its row.
ProgressFollowsRow ==
    \A e \in SlackEvents :
        rec[e].progress \in {"completed", "failed"} => rec[e].status = rec[e].progress

\* The three accounts of how far an event is, the reactions, the progress message and
\* the row, agree whichever side effect of the reporter fails.  (slack-progress.ts:113.)
ReporterInStep == OneReaction /\ FinalStatusShown /\ ProgressFollowsRow

\* Slack events and emails are handled at most once (HandledOnce): the phase of an
\* event is read off its row and the coordinator runs started for it.
PhaseOf(e) ==
    IF runs[e] > 1 THEN "again"
    ELSE IF ~Known(e) THEN "new"
    ELSE IF runs[e] = 0 THEN "accepted"
    ELSE IF rec[e].status \in {"completed", "failed"} THEN "settled" ELSE "started"

Plain == Async \ Missions

Handling == INSTANCE HandledOnce WITH
    Event <- Plain,
    phase <- [e \in Plain |-> PhaseOf(e)],
    answered <- {e \in Plain : answers[e] > 0}

HandlesOnce == Handling!Spec

\* Once the providers are quiet every routed event is settled, unless its handler died
\* with the process: a failing reporter, a disabled channel or a failed delivery keeps
\* none running.
EventsSettle ==
    <>[](\A e \in Async : rec[e].status = "running" => e \in died)

\* ... and every mail is read, however many come in at a time and whatever calls fail,
\* unless the channel is switched off, or its client cannot be used again: the poller
\* then fails until the operator or a restart drops that client.
MailIsRead ==
    <>[](\/ ~enabled["email"] \/ imap.client \in {"dead", "spent"}
         \/ \A e \in Emails : mailbox[e] # "unseen")

\* Everything that came in is dealt with in the end.  (inbound.ts:510, email.ts:190.)
EverythingSettles == EventsSettle /\ MailIsRead
=============================================================================

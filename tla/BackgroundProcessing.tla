-------------------------- MODULE BackgroundProcessing --------------------------
(***************************************************************************)
(* The path of an event through the service: the API answers 200 and       *)
(* enqueues it; the messaging worker receives it (one message at a time:   *)
(* the application sets no consumer option), looks its name up in Redis    *)
(* and, without waiting for the outcome, asks for a copy on the delay      *)
(* queue and for an email; the consumer then deletes the message.          *)
(*                                                                         *)
(* A rejected promise nobody handles ends a Node process (Node 18), as a   *)
(* signal does; it is started again.  Batches, positions and receipt       *)
(* handles are the subject of SqsConsumer.                                 *)
(***************************************************************************)
EXTENDS Naturals, FiniteSets

CONSTANTS
  Messages,        \* events posted to the API
  Events,          \* what they may carry and what Redis may hold for their names
  MaxReceiveCount, \* of the redrive policy (elasticmq.conf says 3); bounds the model
  None             \* no message

EventType == [
  parses : BOOLEAN,                        \* is the body JSON, with data?
  config : {"missing", "empty", "ok"},     \* no Redis key; one without configuration
  onReceived : BOOLEAN,                    \* is the list onReceived configured?
  delay : BOOLEAN,                         \* configuration.delay != 0
  type : {"email", "push", "other"},       \* configuration.type
  bucket : BOOLEAN,                        \* is bucketId configured?
  onComplete : BOOLEAN]                    \* is the list onComplete configured?

ASSUME ProcessingAssumption ==
  /\ Events \subseteq EventType
  /\ MaxReceiveCount \in Nat \ {0}
  /\ None \notin Messages

VARIABLES
  event,       \* the event each message carries
  queue,       \* where each message is
  receives,    \* how often it was received
  step,        \* where the worker's poll is suspended
  current,     \* the message it processes
  outstanding, \* requests of the worker that have not been answered
  delayed,     \* copies on the delay queue, which nothing consumes
  emails,      \* emails SendGrid has accepted
  requested,   \* history: messages an email was asked for
  handled      \* history: messages whose handler has fulfilled

queueVars == <<queue, receives>>
effectVars == <<outstanding, delayed, emails, requested>>
vars == <<event, queueVars, step, current, effectVars, handled>>

Requests == [to : {"delayQueue", "sendgrid"}, msg : Messages, attempt : 1..MaxReceiveCount]

TypeOK ==
  /\ event \in [Messages -> Events]
  /\ queue \in [Messages -> {"unsent", "sending", "lost", "visible", "inFlight", "deleted", "dead"}]
  /\ receives \in [Messages -> 0..MaxReceiveCount]
  /\ step \in {"polling", "lookup", "rejected", "fulfilled", "doomed"}
  /\ current \in Messages \cup {None}
  /\ step = "polling" <=> current = None
  /\ outstanding \in SUBSET Requests
  /\ delayed \in [Messages -> Nat]
  /\ emails \in [Messages -> Nat]
  /\ requested \in SUBSET Messages
  /\ handled \in SUBSET Messages

Init ==
  /\ event \in [Messages -> Events]
  /\ queue = [m \in Messages |-> "unsent"]
  /\ receives = [m \in Messages |-> 0]
  /\ step = "polling"
  /\ current = None
  /\ outstanding = {}
  /\ delayed = [m \in Messages |-> 0]
  /\ emails = [m \in Messages |-> 0]
  /\ requested = {}
  /\ handled = {}

-------------------------------------------------------------------------------
(***************************************************************************)
(* The API and the queue                                                   *)
(***************************************************************************)

\* POST /event is answered while handleWebhook is still sending.
ApiAnswers(m) ==
  /\ queue[m] = "unsent"
  /\ queue' = [queue EXCEPT ![m] = "sending"]
  /\ UNCHANGED <<event, receives, step, current, effectVars, handled>>

Enqueue(m) ==
  /\ queue[m] = "sending"
  /\ queue' = [queue EXCEPT ![m] = "visible"]
  /\ UNCHANGED <<event, receives, step, current, effectVars, handled>>

\* handleWebhook logs the error; the API was also free to crash.
EnqueueFails(m) ==
  /\ queue[m] = "sending"
  /\ queue' = [queue EXCEPT ![m] = "lost"]
  /\ UNCHANGED <<event, receives, step, current, effectVars, handled>>

\* Methods of MessagingService for trying the worker out.  They await send(): a
\* failure goes to their caller.  The event of produceRandomMessage has no data ...
ProduceRandomMessage(m) ==
  /\ queue[m] = "unsent"
  /\ ~event[m].parses
  /\ queue' = [queue EXCEPT ![m] = "visible"]
  /\ UNCHANGED <<event, receives, step, current, effectVars, handled>>

\* ... that of sendTestTemplateEmail has.
SendTestTemplateEmail(m) ==
  /\ queue[m] = "unsent"
  /\ event[m].parses
  /\ queue' = [queue EXCEPT ![m] = "visible"]
  /\ UNCHANGED <<event, receives, step, current, effectVars, handled>>

VisibilityExpires(m) ==
  /\ queue[m] = "inFlight"
  /\ queue' = [queue EXCEPT ![m] = "visible"]
  /\ UNCHANGED <<event, receives, step, current, effectVars, handled>>

Redrive(m) ==
  /\ queue[m] = "visible"
  /\ receives[m] = MaxReceiveCount
  /\ queue' = [queue EXCEPT ![m] = "dead"]
  /\ UNCHANGED <<event, receives, step, current, effectVars, handled>>

Take(m) ==
  /\ queue[m] = "visible"
  /\ receives[m] < MaxReceiveCount
  /\ queue' = [queue EXCEPT ![m] = "inFlight"]
  /\ receives' = [receives EXCEPT ![m] = @ + 1]

-------------------------------------------------------------------------------
(***************************************************************************)
(* What the configuration makes the handler do                             *)
(***************************************************************************)

\* The handler gets past onMessageReceived.
Accepted(e) == e.config = "ok" /\ e.onReceived

\* Mutant of WantsEmail: events with a delay are left to the delay queue.
WantsEmailNow(e) == Accepted(e) /\ e.type = "email" /\ e.bucket /\ ~e.delay

WantsEmail(e) == Accepted(e) /\ e.type = "email" /\ e.bucket

WantsDelay(e) == Accepted(e) /\ e.delay

\* Mutant of Throws: trackEventError logs unknown types without parsing again.
ThrowsEarly(e) ==
  \/ e.config = "missing"
  \/ e.config = "ok" /\ ~e.onReceived
  \/ Accepted(e) /\ e.type = "email" /\ ~e.bucket

\* Null has no configuration; undefined has no length and no toUpperCase; and
\* trackEventError, given the configuration, parses a body it does not have.
Throws(e) ==
  \/ e.config = "missing"
  \/ e.config = "ok" /\ ~e.onReceived
  \/ Accepted(e) /\ e.type = "email" /\ ~e.bucket
  \/ Accepted(e) /\ e.type = "other"

\* onMessageComplete is not awaited: without its list it rejects unhandled.
Doomed(e) == WantsEmail(e) /\ ~e.onComplete

Asked(m) ==
  {[to |-> "delayQueue", msg |-> n, attempt |-> receives[n]] :
     n \in {n \in {m} : WantsDelay(event[n])}}
  \cup {[to |-> "sendgrid", msg |-> n, attempt |-> receives[n]] :
     n \in {n \in {m} : WantsEmail(event[n])}}

\* The receivers execute some requests.
Execute(rs) ==
  /\ delayed' = [m \in Messages |->
       delayed[m] + Cardinality({r \in rs : r.to = "delayQueue" /\ r.msg = m})]
  /\ emails' = [m \in Messages |->
       emails[m] + Cardinality({r \in rs : r.to = "sendgrid" /\ r.msg = m})]

\* Mutant of Poll: the last message is not let go.
PollAgain == step' = "polling" /\ UNCHANGED current

Poll == step' = "polling" /\ current' = None

\* The process ends and starts again; of its requests rs some were executed.
Die(rs) ==
  /\ \E done \in SUBSET rs : Execute(done)
  /\ outstanding' = {}
  /\ Poll

-------------------------------------------------------------------------------
(***************************************************************************)
(* The worker                                                              *)
(***************************************************************************)

\* Mutant of StepOnError: the handler swallows its errors.
Swallow == "fulfilled"

StepOnError == "rejected"

Receive(m) ==
  /\ step = "polling"
  /\ Take(m)
  /\ current' = m
  /\ step' = IF event[m].parses THEN "lookup" ELSE StepOnError
  /\ handled' = IF step' = "fulfilled" THEN handled \cup {m} ELSE handled
  /\ UNCHANGED <<event, effectVars>>

\* The response with the message never arrives.
ReceiveLost(m) ==
  /\ step = "polling"
  /\ Take(m)
  /\ UNCHANGED <<event, step, current, effectVars, handled>>

\* Redis does not answer: the handler rejects.
LookupFails ==
  /\ step = "lookup"
  /\ step' = StepOnError
  /\ UNCHANGED <<event, queueVars, current, effectVars, handled>>

\* Redis answers: the rest of the handler runs without a pause.
LookupReturns ==
  /\ step = "lookup"
  /\ outstanding' = outstanding \cup Asked(current)
  /\ requested' = IF WantsEmail(event[current]) THEN requested \cup {current} ELSE requested
  /\ step' = CASE Throws(event[current]) -> StepOnError
               [] Doomed(event[current]) -> "doomed"
               [] OTHER -> "fulfilled"
  /\ handled' = IF step' = "rejected" THEN handled ELSE handled \cup {current}
  /\ UNCHANGED <<event, queueVars, current, delayed, emails>>

Delete(m) == queue' = [queue EXCEPT ![m] = IF @ = "dead" THEN "dead" ELSE "deleted"]

\* The unhandled rejection ends the process; the delete request may or may not
\* have been written to its socket by then.
DoomedProcessEnds ==
  /\ step = "doomed"
  /\ Delete(current) \/ UNCHANGED queue
  /\ Die(outstanding)
  /\ UNCHANGED <<event, receives, requested, handled>>

DeleteSucceeds ==
  /\ step = "fulfilled"
  /\ Delete(current)
  /\ Poll
  /\ UNCHANGED <<event, receives, effectVars, handled>>

\* Refused, or carried out with the response lost.
DeleteFails ==
  /\ step = "fulfilled"
  /\ Delete(current) \/ UNCHANGED queue
  /\ Poll
  /\ UNCHANGED <<event, receives, effectVars, handled>>

\* Mutant of AfterFailure: the poll of a failed message schedules no other.
NoPoll == UNCHANGED <<step, current>>

AfterFailure == Poll

\* Mutant of QueueAfterFailure: failed messages are deleted with the others.
DeletedAnyway(m) == Delete(m)

QueueAfterFailure(m) == UNCHANGED queue

\* END is emitted with the failure, which onMessageProcessingEnd logs; the message
\* stays in the queue.
FailureReported ==
  /\ step = "rejected"
  /\ QueueAfterFailure(current)
  /\ AfterFailure
  /\ UNCHANGED <<event, receives, effectVars, handled>>

-------------------------------------------------------------------------------
(***************************************************************************)
(* Answers to the requests nobody awaits, and the end of the process       *)
(***************************************************************************)

\* Mutant of AfterAnswer: an executed request is sent once more.
SendAgain(r) == outstanding

AfterAnswer(r) == outstanding \ {r}

\* Retries inside the clients of SQS and SendGrid are one request here.
RequestSucceeds(r) ==
  /\ Execute({r})
  /\ outstanding' = AfterAnswer(r)
  /\ UNCHANGED <<event, queueVars, step, current, requested, handled>>

\* DelayQueueService.send logs the error and carries on.
DelayFails(r) ==
  /\ r.to = "delayQueue"
  /\ outstanding' = outstanding \ {r}
  /\ UNCHANGED <<event, queueVars, step, current, delayed, emails, requested, handled>>

\* Nobody awaits or catches sendTemplateEmail, whatever is being processed by now.
EmailFails(r) ==
  /\ r.to = "sendgrid"
  /\ Die(outstanding)
  /\ UNCHANGED <<event, queueVars, requested, handled>>

Crash ==
  /\ step # "polling" \/ outstanding # {}
  /\ Die(outstanding)
  /\ UNCHANGED <<event, queueVars, requested, handled>>

-------------------------------------------------------------------------------
Answers(m) == Enqueue(m) \/ EnqueueFails(m)

TestSends(m) == ProduceRandomMessage(m) \/ SendTestTemplateEmail(m)

Next ==
  \/ \E m \in Messages :
       \/ ApiAnswers(m) \/ Answers(m) \/ TestSends(m)
       \/ VisibilityExpires(m) \/ Redrive(m)
       \/ Receive(m) \/ ReceiveLost(m)
  \/ LookupFails \/ LookupReturns \/ DoomedProcessEnds
  \/ DeleteSucceeds \/ DeleteFails \/ FailureReported
  \/ \E r \in outstanding : RequestSucceeds(r) \/ DelayFails(r) \/ EmailFails(r)
  \/ Crash

\* Requests are answered or fail, and the worker's poll loop and the queue go on;
\* nothing says that an email or a delete request is ever successful.
Fairness ==
  /\ \A m \in Messages :
       /\ WF_vars(Answers(m))
       /\ WF_vars(VisibilityExpires(m))
       /\ WF_vars(Redrive(m))
  /\ WF_vars(\E m \in Messages : Receive(m) \/ ReceiveLost(m))
  /\ WF_vars(LookupFails \/ LookupReturns)
  /\ WF_vars(DoomedProcessEnds)
  /\ WF_vars(DeleteSucceeds \/ DeleteFails)
  /\ WF_vars(FailureReported)

Spec == Init /\ [][Next]_vars
FairSpec == Spec /\ Fairness

-------------------------------------------------------------------------------
(***************************************************************************)
(* Properties                                                              *)
(***************************************************************************)

\* A message the worker cannot make sense of is never acknowledged: a body that
\* does not parse, a name Redis does not know, a type there is no channel for.
PoisonIsKept ==
  \A m \in Messages : queue[m] = "deleted" =>
    /\ event[m].parses
    /\ event[m].config # "missing"
    /\ event[m].config = "ok" => event[m].type # "other"

\* An acknowledged email event has had its email asked for, through crashes and
\* redeliveries (that it was sent is another matter).
AckedEmailRequested ==
  \A m \in Messages :
    (queue[m] = "deleted" /\ event[m].config = "ok" /\ event[m].type = "email")
      => m \in requested

\* Duplicates come from redelivery only: at most one email and one delayed copy
\* for each time the message was received, those under way included.
EffectsPerReceive ==
  \A m \in Messages : \A to \in {"delayQueue", "sendgrid"} :
    LET underWay == Cardinality({r \in outstanding : r.to = to /\ r.msg = m})
        executed == IF to = "sendgrid" THEN emails[m] ELSE delayed[m]
    IN  executed + underWay <= receives[m]

\* Every event the API has answered with 200, and every other in the queue, ends up
\* acknowledged, in the dead letter queue or, when it could not be enqueued, lost.
EventuallySettled ==
  \A m \in Messages :
    queue[m] \in {"sending", "visible"} ~> queue[m] \in {"deleted", "dead", "lost"}

\* With this handler too the consumer delivers at least once.
Fate == [m \in Messages |->
           CASE queue[m] = "deleted" -> "acked"
             [] queue[m] = "dead" -> "dead"
             [] OTHER -> "queued"]

Contract == INSTANCE DeliveryContract WITH fate <- Fate, attempts <- receives

ImplementsContract == Contract!ContractSpec

\* "This outgoing message will be handled by the selected message delivery
\* partners for email" (README.md:5): when the message is gone and no request is
\* under way, SendGrid has accepted the email.
AckedEmailSent ==
  \A m \in Messages :
    (/\ queue[m] = "deleted" /\ WantsEmail(event[m])
     /\ \A r \in outstanding : r.msg # m)
      => emails[m] > 0
===============================================================================

------------------------------ MODULE SqsConsumer ------------------------------
(***************************************************************************)
(* What SqsConsumer.poll() does with messages: receive a batch, run the    *)
(* handlers (sequentially or concurrently), delete what was handled,       *)
(* report the outcome, make the failures visible again.  Several consumers *)
(* (instances of the application) share one SQS queue.                     *)
(*                                                                         *)
(* start() and stop() are the subject of SqsConsumerLifecycle: here every  *)
(* consumer runs, and may crash at any point (the entry points never call  *)
(* enableShutdownHooks, so a signal just ends the process).                *)
(*                                                                         *)
(* Time is left out: a visibility timeout may expire whenever a message is *)
(* in flight.  So the heartbeat, which only puts that moment off and must  *)
(* not be relied on (its errors are swallowed), has no step here.          *)
(***************************************************************************)
EXTENDS Naturals, FiniteSets

CONSTANTS
  Consumers,           \* running poll loops on the queue
  Messages,            \* messages of the queue, by MessageId
  BatchSize,           \* the option batchSize
  MaxReceiveCount,     \* of the queue's redrive policy; also bounds the model
  Concurrent,          \* is the option processingMode CONCURRENT?
  HandleTimeout,       \* is the option handleMessageTimeout set?
  TerminateVisibility  \* the option terminateVisibilityTimeout

ASSUME ConsumerAssumption ==
  /\ BatchSize \in Nat \ {0}
  /\ MaxReceiveCount \in Nat \ {0}
  /\ Concurrent \in BOOLEAN
  /\ HandleTimeout \in BOOLEAN
  /\ TerminateVisibility \in BOOLEAN

VARIABLES
  queue,    \* SQS: "visible", "inFlight", "deleted" or "dead" (in the dead letter queue)
  receives, \* SQS: how often the message was received; numbers its receipt handles
  phase,    \* where each consumer is suspended
  batch,    \* the received messages, with the outcome of each handler
  success,  \* positions of the batch in the local variable success
  failed,   \* positions of the batch in the local variable failed
  refused,  \* positions of the batch in deleteResult.Failed
  late,     \* deliveries that timed out and whose handler still runs
  handled   \* history: messages for which some handler has fulfilled

queueVars == <<queue, receives>>
reportVars == <<success, failed, refused>>
vars == <<queueVars, phase, batch, reportVars, late, handled>>

Receipts == 1..MaxReceiveCount
Positions == 1..BatchSize
Outcomes == {"waiting", "running", "fulfilled", "rejected", "timedOut"}
Deliveries == [msg : Messages, receipt : Receipts, outcome : Outcomes]
Batches == UNION {[1..n -> Deliveries] : n \in 0..BatchSize}

\* "polling"     receiveMessage is awaited, or the polling timer runs
\* "processing"  messageProcessor.process is awaited
\* "deleting"    the delete request is on its way to SQS
\* "replied"     SQS has answered it, "replyLost": it has failed
\* "terminating" END was emitted, the visibility of the failures is being set to 0
\* "reported"    END was emitted and the poll is over
Phases == {"polling", "processing", "deleting", "replied", "replyLost",
           "terminating", "reported"}

TypeOK ==
  /\ queue \in [Messages -> {"visible", "inFlight", "deleted", "dead"}]
  /\ receives \in [Messages -> 0..MaxReceiveCount]
  /\ phase \in [Consumers -> Phases]
  /\ batch \in [Consumers -> Batches]
  /\ success \in [Consumers -> SUBSET Positions]
  /\ failed \in [Consumers -> SUBSET Positions]
  /\ refused \in [Consumers -> SUBSET Positions]
  /\ \A c \in Consumers : success[c] \cup failed[c] \cup refused[c] \subseteq DOMAIN batch[c]
  /\ late \in [Consumers -> SUBSET [msg : Messages, receipt : Receipts]]
  /\ handled \in SUBSET Messages

NoBatch == [i \in 1..0 |-> [msg |-> 0]]

Init ==
  /\ queue = [m \in Messages |-> "visible"]
  /\ receives = [m \in Messages |-> 0]
  /\ phase = [c \in Consumers |-> "polling"]
  /\ batch = [c \in Consumers |-> NoBatch]
  /\ success = [c \in Consumers |-> {}]
  /\ failed = [c \in Consumers |-> {}]
  /\ refused = [c \in Consumers |-> {}]
  /\ late = [c \in Consumers |-> {}]
  /\ handled = {}

-------------------------------------------------------------------------------
(***************************************************************************)
(* The queue                                                               *)
(***************************************************************************)

\* Messages SQS may hand out.  One received MaxReceiveCount times goes to the
\* dead letter queue instead.
Deliverable == {m \in Messages : queue[m] = "visible" /\ receives[m] < MaxReceiveCount}

Take(ms) ==
  /\ queue' = [m \in Messages |-> IF m \in ms THEN "inFlight" ELSE queue[m]]
  /\ receives' = [m \in Messages |-> IF m \in ms THEN receives[m] + 1 ELSE receives[m]]

VisibilityExpires(m) ==
  /\ queue[m] = "inFlight"
  /\ queue' = [queue EXCEPT ![m] = "visible"]
  /\ UNCHANGED <<receives, phase, batch, reportVars, late, handled>>

Redrive(m) ==
  /\ queue[m] = "visible"
  /\ receives[m] = MaxReceiveCount
  /\ queue' = [queue EXCEPT ![m] = "dead"]
  /\ UNCHANGED <<receives, phase, batch, reportVars, late, handled>>

-------------------------------------------------------------------------------
(***************************************************************************)
(* Receiving                                                               *)
(***************************************************************************)

MaxNumberOfMessages == BatchSize

\* Mutant of FirstOutcome: the loop of the sequential processor does not await.
AllRun(i) == "running"

\* The first handler starts at once; in concurrent mode all of them do.
FirstOutcome(i) == IF Concurrent \/ i = 1 THEN "running" ELSE "waiting"

Receive(c) ==
  /\ phase[c] = "polling"
  /\ \E n \in 1..MaxNumberOfMessages : \E msgs \in [1..n -> Deliverable] :
       /\ \A i, j \in 1..n : msgs[i] = msgs[j] => i = j
       /\ Take({msgs[i] : i \in 1..n})
       /\ batch' = [batch EXCEPT ![c] =
            [i \in 1..n |-> [msg |-> msgs[i], receipt |-> receives[msgs[i]] + 1,
                             outcome |-> FirstOutcome(i)]]]
  /\ phase' = [phase EXCEPT ![c] = "processing"]
  /\ UNCHANGED <<reportVars, late, handled>>

\* The request took messages, but its response never arrives (or a listener of
\* RECEIVE_END throws): the poll ends, the messages wait for their timeout.
ReceiveLost(c) ==
  /\ phase[c] = "polling"
  /\ \E ms \in SUBSET Deliverable :
       /\ ms # {}
       /\ Cardinality(ms) <= MaxNumberOfMessages
       /\ Take(ms)
  /\ UNCHANGED <<phase, batch, reportVars, late, handled>>

-------------------------------------------------------------------------------
(***************************************************************************)
(* Handlers                                                                *)
(***************************************************************************)

Running(c) == {i \in DOMAIN batch[c] : batch[c][i].outcome = "running"}

\* Mutant of NextStarts: the sequential processor stops at the first failure.
NextStartsOnSuccess(i, o) == ~Concurrent /\ o = "fulfilled"

\* The loop of the sequential processor goes on whatever the outcome was.
NextStarts(i, o) == ~Concurrent

Settle(c, i, o) ==
  /\ phase[c] = "processing"
  /\ i \in Running(c)
  /\ batch' = [batch EXCEPT ![c] =
       [j \in DOMAIN batch[c] |->
          [batch[c][j] EXCEPT !.outcome =
             IF j = i THEN o
             ELSE IF j = i + 1 /\ NextStarts(i, o) THEN "running" ELSE @]]]

HandlerFulfils(c, i) ==
  /\ Settle(c, i, "fulfilled")
  /\ handled' = handled \cup {batch[c][i].msg}
  /\ UNCHANGED <<queueVars, phase, reportVars, late>>

HandlerRejects(c, i) ==
  /\ Settle(c, i, "rejected")
  /\ UNCHANGED <<queueVars, phase, reportVars, late, handled>>

\* Promise.race rejects, but nothing stops the handler.
HandlerTimesOut(c, i) ==
  /\ HandleTimeout
  /\ Settle(c, i, "timedOut")
  /\ late' = [late EXCEPT ![c] = @ \cup
       {[msg |-> batch[c][i].msg, receipt |-> batch[c][i].receipt]}]
  /\ UNCHANGED <<queueVars, phase, reportVars, handled>>

LateHandlerFulfils(c, d) ==
  /\ late' = [late EXCEPT ![c] = @ \ {d}]
  /\ handled' = handled \cup {d.msg}
  /\ UNCHANGED <<queueVars, phase, batch, reportVars>>

LateHandlerRejects(c, d) ==
  /\ late' = [late EXCEPT ![c] = @ \ {d}]
  /\ UNCHANGED <<queueVars, phase, batch, reportVars, handled>>

-------------------------------------------------------------------------------
(***************************************************************************)
(* Acknowledging and reporting                                             *)
(***************************************************************************)

AfterReport == IF TerminateVisibility THEN "terminating" ELSE "reported"

\* Mutant of Succeeded: a timed-out handler counts as a success, as if the race
\* were resolved instead of rejected by the timeout.
SucceededOrTimedOut(c) ==
  {i \in DOMAIN batch[c] : batch[c][i].outcome \in {"fulfilled", "timedOut"}}

\* Mutant of Succeeded: the whole batch is deleted.
WholeBatch(c) == DOMAIN batch[c]

Succeeded(c) == {i \in DOMAIN batch[c] : batch[c][i].outcome = "fulfilled"}

Failed(c) == {i \in DOMAIN batch[c] : batch[c][i].outcome \in {"rejected", "timedOut"}}

Settled(c) == \A i \in DOMAIN batch[c] : batch[c][i].outcome \notin {"waiting", "running"}

\* processor.process() returns; with nothing to delete END is emitted right away.
ProcessingDone(c) ==
  /\ phase[c] = "processing"
  /\ Settled(c)
  /\ success' = [success EXCEPT ![c] = Succeeded(c)]
  /\ failed' = [failed EXCEPT ![c] = Failed(c)]
  /\ phase' = [phase EXCEPT ![c] = IF Succeeded(c) = {} THEN AfterReport ELSE "deleting"]
  /\ UNCHANGED <<queueVars, batch, refused, late, handled>>

\* The messages of the positions ps that are still in the queue.
InQueue(c, ps) == {m \in Messages : /\ queue[m] \in {"visible", "inFlight"}
                                    /\ \E i \in ps : batch[c][i].msg = m}

\* Positions whose receipt handle is the message's latest.
Fresh(c) == {i \in DOMAIN batch[c] : batch[c][i].receipt = receives[batch[c][i].msg]}

Delete(ms) == queue' = [m \in Messages |-> IF m \in ms THEN "deleted" ELSE queue[m]]

\* SQS executes the delete request.  It may refuse any of the entries; with an
\* older receipt handle it may answer "deleted" and keep the message.
SqsDeletes(c) ==
  /\ phase[c] = "deleting"
  /\ \E no \in SUBSET success[c] :
       /\ refused' = [refused EXCEPT ![c] = no]
       /\ \E stale \in SUBSET ((success[c] \ no) \ Fresh(c)) :
            Delete(InQueue(c, ((success[c] \ no) \cap Fresh(c)) \cup stale))
  /\ \E p \in {"replied", "replyLost"} : phase' = [phase EXCEPT ![c] = p]
  /\ UNCHANGED <<receives, batch, success, failed, late, handled>>

\* The request itself fails: SQS never executes it.
DeleteFails(c) ==
  /\ phase[c] = "deleting"
  /\ phase' = [phase EXCEPT ![c] = "replyLost"]
  /\ UNCHANGED <<queueVars, batch, reportVars, late, handled>>

\* The position at index 0 of the array of successes.
AtIndexZero(c, i) == \A j \in success[c] : i <= j

\* Mutant of MovedToFailed: the entries of deleteResult.Failed are not looked at.
NoneMoved(c) == {}

\* Mutant of MovedToFailed: counts positions from 0 where they start at 1.
NextMoved(c) == {i + 1 : i \in refused[c]}

\* "if (index)": a refused entry is moved to failed unless its index is 0.
MovedToFailed(c) == {i \in refused[c] : ~AtIndexZero(c, i)}

Report(c) ==
  /\ phase[c] = "replied"
  /\ success' = [success EXCEPT ![c] = @ \ MovedToFailed(c)]
  /\ failed' = [failed EXCEPT ![c] = @ \cup MovedToFailed(c)]
  /\ phase' = [phase EXCEPT ![c] = AfterReport]
  /\ UNCHANGED <<queueVars, batch, refused, late, handled>>

\* Mutant of KeptOnError: the catch block forgets "success = []".
KeepSuccess(c) == success[c]

KeptOnError(c) == {}

ReportAllFailed(c) ==
  /\ phase[c] = "replyLost"
  /\ success' = [success EXCEPT ![c] = KeptOnError(c)]
  /\ failed' = [failed EXCEPT ![c] = @ \cup success[c]]
  /\ phase' = [phase EXCEPT ![c] = AfterReport]
  /\ UNCHANGED <<queueVars, batch, refused, late, handled>>

\* The request for timeout 0 goes out whatever is in failed.  It may fail, for
\* all or for some entries, and its outcome is ignored.
TerminateVisibilityTimeout(c) ==
  /\ phase[c] = "terminating"
  /\ \E ms \in SUBSET {m \in InQueue(c, failed[c]) : queue[m] = "inFlight"} :
       queue' = [m \in Messages |-> IF m \in ms THEN "visible" ELSE queue[m]]
  /\ phase' = [phase EXCEPT ![c] = "reported"]
  /\ UNCHANGED <<receives, batch, reportVars, late, handled>>

\* Forgets the batch: its variables are locals of processMessages.
Forget(c) ==
  /\ phase' = [phase EXCEPT ![c] = "polling"]
  /\ batch' = [batch EXCEPT ![c] = NoBatch]
  /\ success' = [success EXCEPT ![c] = {}]
  /\ failed' = [failed EXCEPT ![c] = {}]
  /\ refused' = [refused EXCEPT ![c] = {}]

\* The polling timer fires.
NextPoll(c) ==
  /\ phase[c] = "reported"
  /\ Forget(c)
  /\ UNCHANGED <<queueVars, late, handled>>

\* The process dies, and is started again.
Crash(c) ==
  /\ phase[c] # "polling" \/ late[c] # {}
  /\ Forget(c)
  /\ late' = [late EXCEPT ![c] = {}]
  /\ UNCHANGED <<queueVars, handled>>

-------------------------------------------------------------------------------
HandlerSettles(c) ==
  \E i \in Running(c) :
     HandlerFulfils(c, i) \/ HandlerRejects(c, i) \/ HandlerTimesOut(c, i)

LateHandlerEnds(c) ==
  \E d \in late[c] : LateHandlerFulfils(c, d) \/ LateHandlerRejects(c, d)

ReportStep(c) == Report(c) \/ ReportAllFailed(c)

Next ==
  \/ \E c \in Consumers :
       \/ Receive(c) \/ ReceiveLost(c)
       \/ HandlerSettles(c) \/ LateHandlerEnds(c)
       \/ ProcessingDone(c) \/ SqsDeletes(c) \/ DeleteFails(c)
       \/ ReportStep(c) \/ TerminateVisibilityTimeout(c) \/ NextPoll(c)
       \/ Crash(c)
  \/ \E m \in Messages : VisibilityExpires(m) \/ Redrive(m)

(***************************************************************************)
(* Promised: requests end (the SDK bounds its retries), timers fire and    *)
(* the queue times out and redrives its messages.  A handler need not ever *)
(* settle: with handleMessageTimeout the timeout settles it.  Without, the *)
(* application has to promise it.                                          *)
(***************************************************************************)
ConsumerFairness(c) ==
  /\ WF_vars(Receive(c) \/ ReceiveLost(c))
  /\ WF_vars(ProcessingDone(c))
  /\ WF_vars(SqsDeletes(c) \/ DeleteFails(c))
  /\ WF_vars(ReportStep(c))
  /\ WF_vars(TerminateVisibilityTimeout(c))
  /\ WF_vars(NextPoll(c))
  /\ IF HandleTimeout
     THEN \A i \in Positions : WF_vars(i \in Running(c) /\ HandlerTimesOut(c, i))
     ELSE WF_vars(HandlerSettles(c))

QueueFairness(m) == WF_vars(VisibilityExpires(m)) /\ WF_vars(Redrive(m))

Fairness ==
  /\ \A c \in Consumers : ConsumerFairness(c)
  /\ \A m \in Messages : QueueFairness(m)

Spec == Init /\ [][Next]_vars
FairSpec == Spec /\ Fairness

-------------------------------------------------------------------------------
(***************************************************************************)
(* Properties                                                              *)
(***************************************************************************)

Reported(c) == phase[c] \in {"terminating", "reported"}

\* No message is deleted that no handler has fulfilled, whatever expired, timed
\* out, crashed or got lost (processMessages deletes only its successes).
AckedOnlyIfHandled == \A m \in Messages : queue[m] = "deleted" => m \in handled

\* The END event accounts for each received message exactly once, as processed
\* or as failed (sqs-consumer.ts:263-309).
ReportCoversBatch ==
  \A c \in Consumers : Reported(c) =>
    /\ success[c] \cup failed[c] = DOMAIN batch[c]
    /\ success[c] \cap failed[c] = {}

\* A message reported as processed is out of the queue, unless it was the first
\* of the successes or another consumer had received it in the meantime.
ProcessedIsGone ==
  \A c \in Consumers : Reported(c) =>
    \A i \in success[c] \cap Fresh(c) :
      AtIndexZero(c, i) \/ queue[batch[c][i].msg] \in {"deleted", "dead"}

\* In sequential mode handlers are started in the order of the batch, each when
\* the one before has settled, also after failures and timeouts.
SequentialOrder ==
  ~Concurrent => \A c \in Consumers : \A i, j \in DOMAIN batch[c] :
    (i < j /\ batch[c][j].outcome # "waiting")
       => batch[c][i].outcome \notin {"waiting", "running"}

\* A batch only ever deletes messages that its own handlers fulfilled: a failure
\* is never acknowledged on the strength of somebody else's success.
AckFromOwnDelivery ==
  [][\A c \in Consumers : SqsDeletes(c) =>
       \A m \in Messages : queue'[m] # queue[m] =>
         \E i \in DOMAIN batch[c] :
           batch[c][i].msg = m /\ batch[c][i].outcome = "fulfilled"]_vars

\* Every message is in the end acknowledged or dead-lettered; none is left
\* behind in flight or visible.
EventuallySettled == \A m \in Messages : <>(queue[m] \in {"deleted", "dead"})

\* Every batch comes to an end and the consumer polls again, even when handlers
\* hang, provided that handleMessageTimeout is set.
BatchEnds == \A c \in Consumers : phase[c] = "processing" ~> phase[c] = "polling"

\* The consumer implements at-least-once delivery.
Fate == [m \in Messages |->
           CASE queue[m] = "deleted" -> "acked"
             [] queue[m] = "dead" -> "dead"
             [] OTHER -> "queued"]

Contract == INSTANCE DeliveryContract WITH fate <- Fate, attempts <- receives

ImplementsContract == Contract!ContractSpec

\* "We failed to delete (acknowledge) some of the messages, thus we need to
\* report them as failed instead of processed." (sqs-consumer.ts:278-279)
RefusedIsReportedFailed ==
  \A c \in Consumers : Reported(c) => refused[c] \subseteq failed[c]
===============================================================================

# A verification project for MessagingService

MessagingService takes events over HTTP, queues them on SQS and turns them into
messages for delivery partners.  Most of its own logic is in the library under
`modules/sqs`: a consumer that polls a queue, runs handlers and acknowledges what
they handled, a producer that packs messages into batches, and the service that
puts both together when an application starts.  The applications `api`,
`messaging` and `delay` are small programs on top of it.

This directory holds TLA+ models of that code, TLC configurations that check
them on small instances and TLAPS proofs for any values of the constants.
Paths below are relative to `src/`; the file names of `modules/sqs/src` are given
without their directories where that is unambiguous.

Contents: 1 the system; 2 the modules; 3 what TLC checks; 4 fairness;
5 assumptions; 6 what is proved; 7 disagreements found; 8 behaviour noted but not
checked; 9 what is not modelled; 10 plan.

## 1. The system

| Part | Code | State | Operations |
|---|---|---|---|
| SqsConsumer, lifecycle | `sqs-consumer.ts`, `message-handler.ts` | `stopped`, `currentPoll`, `pollingTimer`, suspended calls | `start`, `stop`, `poll`, `schedulePollingTimer`, the Nest hooks |
| SqsConsumer, batches | `sqs-consumer.ts`, `processor/*`, `timeout.util.ts` | the local variables of one poll: batch, successes, failures, timers of handlers | `receiveMessage`, `processMessages`, `executeHandler`, `deleteMessageBatch`, `changeVisibilityTimeoutBatch` |
| Heartbeat | `sqs-consumer.ts` 240-260, 365-372 | one interval timer per batch, requests nobody awaits | `startHeartbeat`, `clearInterval` |
| SqsProducer | `sqs-producer.ts`, `sqs-message.batcher.ts`, validator | the local variables of one call | `send`, `sendBatch`, `getQueueAttributes` |
| SqsClientService | `sqs-client.service.ts`, `sqs.providers.ts`, decorators | `queueInfos`, `messageHandlers`, the SQS client | `getInfoForQueue`, `onModuleInit`, `onApplicationShutdown`, producer factories |
| SqsModule, decorators | `sqs.module.ts`, `inject-producer.decorator.ts` | the list of producer options, Nest providers | `InjectProducer`, `registerQueue(Async)`, `forRoot(Async)` |
| API | `apps/api/src` | none | `POST /event` → `ApiService.handleWebhook` |
| Messaging worker | `apps/messaging/src/background.processing.service.ts` | requests nobody awaits | `handleMessage` and what it calls |
| Delay | `apps/delay/src` | a queue, a Cassandra table | `DelayQueueService.send`, `getQueueCount`, Cassandra endpoints |
| Clients | `modules/sendgrid`, `modules/caching`, `libs/caching` | connections | `sendTemplateEmail`, `get` |
| Messaging test operations | `apps/messaging/src/messaging.service.ts` | none | `produceRandomMessage`, `sendTestTemplateEmail` |
| Configuration, event types, entry points | `libs/*`, `main.ts` | none | - |

**Interaction.**  While source files load, `InjectProducer` collects options in a list
and `registerQueue` makes providers of those it finds there.  Nest constructs the producers and calls
`SqsClientService.onModuleInit`, which gives each `MessageHandler` its consumer;
`onApplicationBootstrap` starts them.  A consumer calls the handler's
`handleMessage` and emits events through an `EventEmitter2`, synchronously, in
the middle of a poll.  Processes share nothing but the queues: SQS hides a
received message for its visibility timeout, shows it again if it has not been
deleted, and moves it to the dead letter queue after too many receives
(`elasticmq.conf`, 3).  In `messaging` the handler looks up Redis, then asks for a
copy on the delay queue and for an email through SendGrid without awaiting either.

**What is hard.**  Everything is one thread of asynchronous code, so the
interleavings are those of `await`: `stop()` suspended while a poll ends and arms
its timer; several factories between the two halves of `getInfoForQueue`; a
handler that has timed out and still runs; heartbeats that overlap each other and the
end of their batch.  The order in which files are imported decides which producers
exist.  The queue adds redelivery to a
second consumer while the first still works, stale receipt handles, lost
responses, deletes refused one by one.  A promise nobody awaits fails while some
other message is in progress and takes the process with it.  Process crashes are
ordinary: no `main.ts` calls `enableShutdownHooks`.

**What makes it correct**, by component:

* lifecycle: one poll at a time; a stopped consumer is idle; a running one never
  falls silent; `stop()` returns; the client goes last;
* batches: nothing is deleted that was not handled; every message of a batch is
  reported once; what is reported as processed has left the queue; sequential
  means in order; every batch and every message comes to an end;
* heartbeat: a batch stays hidden while its handlers run and is back in time afterwards;
* producer: batches within limits and in order; nothing sent if anything is
  invalid; the result accounts for every entry; calls end;
* client service: one consumer and one producer per queue, bound to that queue, no
  consumer before all is ready, no failure to start for a cause that is not named;
* worker: what cannot be understood is never acknowledged; an acknowledged email
  has been asked for; effects are bounded by receives; every event is settled.

`PROJECT.json` lists each hazard at its line, with the properties that cover it.

## 2. The modules

| Module | Models | Extended by |
|---|---|---|
| `SqsConsumerLifecycle` | start, stop, poll loop, Nest hooks of one consumer | `SqsConsumerLifecycleProofs` |
| `SerialPolling` | abstract: one life, one poll at a time | instantiated by `SqsConsumerLifecycle` |
| `SqsConsumer` | batches of several consumers on one queue | `MCSqsConsumer`, `SqsConsumerProofs` |
| `DeliveryContract` | abstract: the at-least-once promise | `DeliveryContractProofs`; instantiated by `SqsConsumer` and `BackgroundProcessing` |
| `BackgroundProcessing` | an event from the API or a test operation through the worker | `MCBackgroundProcessing`, `BackgroundProcessingProofs` |
| `Heartbeat` | one batch with a heartbeat, in discrete time | `HeartbeatProofs` |
| `SqsProducer` | one call of `send` or `sendBatch` | `SqsProducerProofs` |
| `SqsClientService` | loading, start and shutdown of an application | `MCSqsClientService`, `SqsClientServiceProofs` |

**SqsConsumerLifecycle.**  `stopped`, `currentPoll` and `pollingTimer` are the
fields; `polls` gives each poll promise's state, `timers` those armed, `awaiting`
the poll each suspended `stop()` waits for.  `Start` is `start()`, called by
`Bootstrap` or `ExplicitStart`; `StopCall` is `stop()` up to its `await` and
`StopReturns` the rest, called by the application (`ExplicitStop`) or by Nest
(`OnModuleDestroy`).  `PollEnds` is the `finally` of `poll()`, with
`SchedulePollingTimer`.  Node runs ready continuations before the next timer or
socket callback: that is operator `Microtasks`, a guard of `TimerFires` and
`ReceiveReturns`; without it the model would have races the program does not have.

**SerialPolling** is what that machinery is for: a consumer is new, running or
ended; while it runs it polls, one poll at a time; stopping takes effect between two
polls and nothing follows it; the client is destroyed only when the consumer does not
run.  Its `polling` is the set of polls in flight, and one may begin only when that is
empty: a second poll that began beside another would be a step the module does not
allow.  The lifecycle implements it without restarts (`ImplementsSerialPolling`): `started` and
`stopped` map to `life`, `Active` (the polls that have not settled) to `polling`, the end of
the application to `client`.

**SqsConsumer.**  `phase` is the `await` a consumer is suspended at; `batch` maps
positions to the message, the number of its receipt handle and the outcome of its
handler.  `Receive` performs the ReceiveMessage and starts the first handler or
all of them; `HandlerFulfils`, `HandlerRejects` and `HandlerTimesOut` settle one
(`NextStarts` starts the next in sequential mode); `ProcessingDone` fills
`success` and `failed`; `SqsDeletes` and `DeleteFails` are the delete request
executed (some entries refused) or failed, the latter with or without having been
executed; `Report` and `ReportAllFailed` are the code behind it, index test
included; `TerminateVisibilityTimeout`, `Forget` and `NextPoll` end the poll.
`late` are handlers that timed out and run on.  `Crash` ends the process.
Whether a receipt handle is still good is decided by its number (`Fresh`): SQS may
delete with a stale handle or refuse, and the model allows both.

**Heartbeat.**  One batch from its receive to its end, in units of time.  `sinceBeat` is
what the interval timer counts; `Fire` sends a request and does not wait for it, so
`beats` may hold several, which `Arrives` carries out in any order.  A request
fails for a message by listing it in `refused`, decided when it is sent so that
`MaxMisses` failures in a row can be counted.  `ProcessingDone` clears the interval;
`DeleteReturns`, `DeleteFails` and `Terminate` are the rest of `processMessages`, and
a beat may arrive among and after them: one that arrives when the message is visible
may hide it again or be refused, as SQS pleases.  `Tick` never passes over a timer or
a request whose time is up.

**DeliveryContract** knows of each message its fate (`queued`, `acked` or `dead`),
the number of attempts and whether a handler has ever fulfilled, and four steps:
`Attempt`, `Handle`, `Acknowledge` (only what is handled) and `DeadLetter` (only
after the last attempt).  Both `SqsConsumer` and `BackgroundProcessing` implement
it (`ImplementsContract`): the queue maps to `fate`, `receives` to `attempts`.

**BackgroundProcessing.**  `step` is where the worker's poll is suspended,
`outstanding` the requests it has made and not had answered; they outlive the
message they were made for.  What a configuration makes the handler do is in
`Accepted`, `WantsDelay`, `WantsEmail`, `Throws` and `Doomed`, one operator per
way through `reallyHandleMessage`.  An event is a record of those facts about its
body and its configuration, not its text.  `EmailFails` and `DoomedProcessEnds`
end the process (unhandled rejection); `DelayFails` is caught and logged.
`ProduceRandomMessage` and `SendTestTemplateEmail` enqueue an event without the
API; the former's has no data, so it does not parse for the worker.

**SqsProducer.**  An entry is a size and whether the validator accepts it.  The
packing loop is one action per branch (`SkipOversized`, `AppendToCurrent`,
`CloseBatch`, `FinishPacking`), sending one action per request.

**SqsClientService.**  Loading is a sequence of `InjectProducer` and `RegisterQueue`
steps in any order, because import order decides it; each registration makes a
provider of every option in the list so far, hence `Provider` is a pair of site and
registration.  `getInfoForQueue` is `FromCache`, `FromOptions`, or
`AskSqs` followed by `SqsAnswers` or `SqsRefuses`: the cache is read before the
`await` and appended to after it, and `queueInfos` may hold one queue twice.
`LookupThrows` is a queue without options, or with options whose factory has not
returned (`unready`) or never will (`NeverReturned`: the application's factory rejects,
or the options are given by `useClass`, 7.7).  Factories of producers run concurrently, handlers one after
the other.

The constant `Terminated` says how `Register` reads lines 61 to 72 of
`sqs-client.service.ts`.  Written without semicolons in front of parentheses they are one
expression (7.3).  With `Terminated = FALSE` the model does what the text means, with
`TRUE` what its layout means, and everything behind a start is reachable only
there.  The other modules take the class as constructed and handed over, that is as
laid out.

## 3. What TLC checks

Each property of a passing run has a mutant in `PROJECT.json`: a plausible
mistake in the code (a dropped guard, a flag set too early, an index off by one)
under which TLC finds the property violated in the same configuration.

| Run | Bounds | Shows |
|---|---|---|
| `consumer_lifecycle` | 3 polls, 2 timers, 3 callers, no restarts | `SinglePoll`, `NeverGoesQuiet`; `ImplementsSerialPolling`, `StopCompletes`, `KeepsPolling`, `ShutdownCompletes` |
| `consumer_restart` | 4 polls, 2 timers, 2 callers, restarts | violation of `SinglePoll` (7.1) |
| `consumer_sequential` | 1 consumer, 2 messages, batches of 2, 2 receives, sequential, timeouts, terminate | `ReportCoversBatch`, `SequentialOrder`; `EventuallySettled`, `BatchEnds` |
| `consumer_concurrent` | 2 consumers, 2 messages, batches of 2, 2 receives, concurrent, timeouts; symmetry | `AckedOnlyIfHandled`, `ProcessedIsGone`, `AckFromOwnDelivery`, `ImplementsContract` |
| `consumer_index_zero` | 1 consumer | violation of `RefusedIsReportedFailed` (7.2) |
| `heartbeat` | 2 messages, visibility timeout 11, interval 2, lateness 1, latency 2, 1 failure in a row, terminate | `HeldWhileProcessing`, `BackInTime` |
| `producer` | up to 4 entries, batch length 2, limit 4, sizes 1 to 5 | `BatchesWithinLimits`, `OrderKept`, `ResultIsExact`, `AllOrNothingValid`, `ThrowsExactlyForCause`; `SentInOrder`, `CallEnds` |
| `producer_empty_batch` | up to 2 entries | violation of `ThrowsOnlyWhenInvalid` (7.4) |
| `background_processing` | 2 events of 9 kinds, 2 receives | `PoisonIsKept`, `AckedEmailRequested`, `EffectsPerReceive`; `EventuallySettled`, `ImplementsContract` |
| `background_lost_email` | 1 well configured email | violation of `AckedEmailSent` (7.5) |
| `client_service` | 2 queues, 2 sites, 2 handlers, every setup with at most one fault, as laid out | `OneConsumerPerQueue`, `BoundToOwnQueue`, `OneProducerPerQueue`, `NothingRunsEarly`, `FailsOnlyForCause`; `StartupEnds` |
| `client_service_async` | 1 queue, 1 site, no handler, as written | violation of `AsyncOptionsAwaited` (7.6) |

Each component's module has one type invariant, `TypeOK`, checked by one of its passing runs.
`StoppedIsIdle` and `ClientOutlivesPolls` of the lifecycle follow from
`ImplementsSerialPolling` (a stopped consumer is `ended`, and `SerialPolling` neither
stops nor destroys during a poll); they are theorems and not checked a second time.
Neither is `NothingBehindAFailure` of the producer, which is close to what a failed
request does and is of use as a theorem.

**Why the bounds are enough.**
*Lifecycle*: poll promises and timers are identities that are used again, so the
run is not cut off after three polls; three are needed because one may be in
flight, one awaited by a `stop()` that has not resumed and one held in
`currentPoll` after it settled.  Two timers are one more than the code can arm
without restarts.  Three callers are the hook and two calls of the application that
overlap.  The state space is complete.
*Consumer*: two receives are the fewest with a redelivery, and a stale handle
needs no third; two messages are the fewest for which position 0 differs from
another and one handler can wait for another; two consumers are enough for one to
hold a delivery the other has overtaken.  `MaxReceiveCount` is a constant of the queue, so it bounds
the model without cutting a behaviour off.  Symmetry is used only in the safety
run: no definition tells messages or consumers apart, but TLC's liveness check is
unsound with it.
*Producer*: sizes 1 to 5 around a limit of 4 give an entry that fits with others,
one that only just fits, one exactly at the limit and one above it; four entries
give two full batches and an entry between them that is taken out.  The batch length is
one of the eleven the constructor accepts (0 to 10); 0, which is unlike the others, is
covered by the theorems.
*Background*: two messages let a request of one fail during the other; the nine
kinds take every branch of the handler (`MCBackgroundProcessing`), one of them asks for
its copy on the delay queue and throws behind that; a message may come by the API or by
a test operation.
*Heartbeat*: a gap of (1 + 1) × (2 + 1) = 6 and twice the latency, 4, is one unit less
than the timeout of 11, the least `MarginAssumption` allows; with an interval of 2
and a latency of 2 two requests are under way at once and overtake each other, and
one failure in a row distinguishes a renewed message from one that is not.  Two
messages are refused separately.  `sinceEnd` stops at `Horizon`, when all is over.
*Client service*: two sites of one queue make producers that overlap in
`getInfoForQueue`, or of two queues that do not; a site is loaded before, between or
after two registrations; two handlers collide on one queue or not.  One fault at a time, the application's or the library's (a factory that waits, a
`useClass`): the first fault ends the start, so a second is never met.

Deadlock is checked in `heartbeat`, where time must always be able to pass.
`CHECK_DEADLOCK FALSE` is set in all others: a consumer may be stopped for good, a
queue may be empty, a call ends, an application is down.

**Violations** are runs that check one statement of the repository's own comments
or documentation, which the code does not keep; see 7.

## 4. Fairness

Only what the runtime owes is fair, always weakly:

* a request to SQS is answered or fails - the AWS SDK bounds attempts and time;
* timers fire and ready continuations run - Node's event loop;
* a handler settles or, where `handleMessageTimeout` is set, its timer settles
  it.  `consumer_sequential` has the timeout and assumes nothing of handlers;
  without it `BatchEnds` holds only if handlers settle, and a handler that never
  does hangs the batch, the loop and `stop()`;
* visibility timeouts expire and the redrive policy is applied - SQS;
* in `BackgroundProcessing`, Redis answers or the lookup fails.  The client is
  created without a command timeout; if it waits for ever, the loop waits with it.

`Heartbeat` has no fairness: its properties bound times, and `Tick` is what cannot be
put off.

Nobody is obliged to call `start()`, to post an event or to close the application.
Crashes are never fair, and need not stop: `MaxReceiveCount` lets a message be
received only so often, so a process that always crashes still settles it in the
dead letter queue.  `EventuallySettled` says settled, not handled.

## 5. Assumptions

* `start()` is not called while Nest shuts down, and with `Restarts = FALSE` not
  after it has run once; a `stop()` before the bootstrap is explored only with
  `Restarts = TRUE`.  Nothing in the applications calls either method.
* A request with the SDK's own retries is one request that succeeds, fails
  unexecuted or fails executed.
* Messages do not reach their retention period (days) unsettled, and SQS does not
  deliver one without a body.
* SQS is at least once: it may deliver a message again whenever its visibility
  timeout has expired.  Duplicate delivery of a message still invisible, which AWS calls
  rare, is covered in effect: the timeout may expire at any moment.
* Listeners of consumer events do not throw, except where said in 8.
* `Heartbeat`: a timer fires within `MaxLateness`, a request arrives within
  `MaxLatency`, at most `MaxMisses` in a row fail for a message, and
  `MaxGap + 2 * MaxLatency < VisibilityTimeout`, where `MaxGap` is
  `(MaxMisses + 1) * (HeartbeatInterval + MaxLateness)`.  The code checks only
  `heartbeatInterval < visibilityTimeout` (`sqs-consumer.ts:392`), which is this with
  lateness, latency and failures all 0: the difference is what an operator
  has to leave.
* `SqsProducer`: `batchSize` is what the constructor lets through, 0 to 10
  (`sqs-producer.ts:44`).

## 6. What is proved

TLAPS checks the following for all values of the constants that satisfy the
modules' `ASSUME`s (`LifecycleAssumption`, `ConsumerAssumption`,
`ServiceAssumption`, `ProcessingAssumption`, `HeartbeatAssumption`, `MarginAssumption`,
`ProducerAssumption`); TLC evaluates the assumptions in the runs.

**`SqsConsumerLifecycleProofs`.**  `TypeCorrect` and `NeverQuiet` hold with
restarts too.  `OnePoll`, `IdleWhenStopped` and `ClientOutlives` assume
`NoRestart`, and must: `consumer_restart` refutes them otherwise.  `SinglePoll`
alone is not inductive, because a state with one poll in flight and a stale timer
armed satisfies it and the next step does not.  The invariant `IInv` adds that
only `currentPoll` can be active, that no timer is armed while a poll is active,
that the armed timer is the one `pollingTimer` names (so that `stop()` cancels it),
that each suspended `stop()` waits for the active poll if there is one, and that
the consumer stays stopped once the shutdown hook's `stop()` has returned.  The proof has one case per action;
the interesting ones are `PollEnds` (it arms a timer while a `stop()` waits: the
timer survives, and fires only after `stopped` is set) and `StopReturns`.
`PollsSerially` is the refinement of `SerialPolling` on the strength of the same invariant:
`StopReturns` maps to `Stop` for the first caller to resume and to a stutter for the
others; a timer that fires maps to `Begin` of the poll it starts, or to a stutter once
the consumer is stopped.  `Begin` asks that no poll is in flight, and `BeginIs` discharges
that from `IInv`: no timer is armed while a poll is active.  `BeginIs`, `EndIs`, `StopIs`,
`DestroyIs` and `StutterIs` say what each abstract step is in the variables of the
lifecycle, `StepSerial` goes through the actions.

**`SqsConsumerProofs`.**  `TypeCorrect`; `NoLoss` (`AckedOnlyIfHandled`);
`ReportComplete` (`ReportCoversBatch`); `Order` (`SequentialOrder`); and
`Refinement`, that every behaviour of `Spec` satisfies `DeliveryContract`'s
specification.  `IInv` says what the local variables mean at each `await`: before processing is done both
lists are empty, after it they partition the batch; what SQS refused is among the
successes; successes have fulfilled; fulfilled deliveries are in `handled`; a
delivery, running or late, has been received.  A late handler never
reaches a list, which is why its message is not deleted on its account.  The
refinement maps each action to a contract step per message it touches or to a
stutter; a batch that is deleted takes several messages at once, so the contract's steps
are stated for sets of messages.

Two more follow.  `OwnDelivery` (`AckFromOwnDelivery`) is the action property that
`SuccessesFulfilled` makes of each `SqsDeletes`.  `ProcessedGone` (`ProcessedIsGone`)
needs to know what a receipt handle is worth from the receive to the report, and
strengthens `IInv` by three facts: a handle is never newer than the latest receive
(`Issued`); once SQS has answered, a success with a fresh handle is refused or gone
(`AnsweredIsGone`); once the refused ones have been moved, it is gone or at position 0
(`ReportedIsGone`).  They survive the other consumers because gone messages do not come back
and receives only grow (`QueueMoves`), so a handle can lose its freshness but not regain it.

`FirstMisreported` bounds the defect of 7.2 from the other side: of the messages SQS
refuses, at most the one at index 0 of the successes is reported as processed.  The
invariant `RInv` follows the refused entries from the answer, where all are among the successes,
to the report, where `MovedToFailed` has moved all but that one.

**`DeliveryContractProofs`** proves of the contract itself what a user of a queue counts on:
`CausedFates` (acknowledged only if handled, dead only after the last attempt, handled
only if attempted) and `FinalFates` (no fate is taken back).  `SqsConsumerProofs` and
`BackgroundProcessingProofs` instantiate the module and inherit both through their
`Refinement`, as `DeadExhausted` (a message in the dead letter queue has been received
as often as the redrive policy allows) and `StaysGone` (what is deleted or dead is never
received again).  Neither implementation is looked at again for that.

**`HeartbeatProofs`.**  `TypeCorrect`, `BatchHeld` (`HeldWhileProcessing`) and
`BackAgain` (`BackInTime`).  "Hidden while processing" is not inductive.  `IInv` says of
each message, while handlers run, that one of two things holds: `Renewed`, time has
taken from its timeout no more than has passed since the last heartbeat that worked,
the latency included; or `OnItsWay`, a heartbeat that will renew it was sent
while that was so.  Misses are counted in periods, so the proof needs that
`misses * Period + sinceBeat` never exceeds `MaxGap` (lemma `Gap`); `MarginAssumption`
closes it.  `BackInTime` needs that a beat still under way after the end is at least
as old as the end (`SentBefore`): clearing the interval is enough because nothing
younger can exist.

**`SqsProducerProofs`.**  `TypeCorrect`, `AllOrNothing`, `ResultExact`,
`NothingBehind`, `WithinLimits` (`BatchesWithinLimits`), `OrderPreserved` (`OrderKept`),
`QueuedInOrder` (`SentInOrder`) and `ThrowsForCause` (`ThrowsExactlyForCause`), from three
invariants, for every `batchSize` the constructor accepts.  `BatchesWithinLimits` bounds the
length of a batch only for a `batchSize` other than 0, and must: with 0 nothing closes a
batch for its length once the empty first one is closed (7.10).
`IInv` says where each entry is.  `ResultIsExact` speaks of the end of the call; what carries it there
is a partition at each stage.  While packing, each entry passed is in exactly
one place - `failed`, the current batch, one closed batch (`PackedOnce`,
`Disjoint`); while sending, an entry is a success, failed or in a batch to come
(`AnsweredOnce`), and success is what the queue has.  `RestNotEnqueued` says batches to come have
nothing in the queue, also after a failure; `Validated` that whatever is packed
or sent comes from a list that passed validation.
`PInv` says what is inside the batches.  Their sizes are stated without a sum:
`AddUpTo` asks for a function of running totals, from 0 to the size of the batch, which
a proof can extend by one entry where it could not unfold a recursion.  `CurrentFits` says that
`currentSize` is such a total and that the batch may be closed as it is - which takes the
comparison with `>=` in the batcher and its exception, an entry exactly as large as the
limit, alone in its batch.  Order is `Increasing`: positions grow within a batch and
from one batch to the next, whichever batches lie between; `JustPacked` carries over to
the first request that nothing but the oversized entries has dropped out.  `SentEntries` says what is in
the queue comes from the batches sent so far, which with the order of the batches makes
`SentInOrder`.
`ThrowsForCause` is exact both ways: apart from a failed request a call throws only for an
invalid list, a `send()` that is too large or an empty first batch, and with one of these it
never returns.  The empty batch is described by the list alone (`StartsEmpty`): the first
entry that is not oversized has exactly the size of the limit, or `batchSize` is 0.  `TInv`
relates that to what the loop does: no batch but the first can be empty (`EmptyInFront`),
only lists are packed (`ListIsPacked`), and the sending loop does not get past an empty batch
(`NotPassed`).

**`SqsClientServiceProofs`.**  `TypeCorrect`, `OwnQueue`, `OneConsumer`,
`OneProducer`, `ReadyBeforeRunning`, `OnlyForCause` and `NeverUpAsWritten`.
`OnlyForCause` assumes `Terminated` and must (7.3); it goes through every way to fail and
finds the cause that each takes: a question to SQS that may be refused, a fault of the
application (`ApplicationAtFault`: a queue nobody registers, a factory that rejects, wrong
classes, options out of range, two handlers for a queue), or one of three faults of the
library, each with a name of its own: `LookedUpTooEarly` (7.6), `UnusableClass` (7.7) and
`LateSite` (7.8).  `NeverUpAsWritten` is the other reading of lines 61 to 72: without
`Terminated` no application that has a message handler comes up.  `IInv` adds that the registration loop
handles one class at a time and waits only for it, that a handler the loop has
passed is the host of its queue, that producers are ready before the loop runs, and that
handlers run only from the bootstrap on.  `SitesDistinct` says that the list of options
has one site per queue and that every provider was made of it, whichever registration
made it: that is why providers of several registrations agree.

**`BackgroundProcessingProofs`.**  `TypeCorrect`, `PoisonKept`, `EmailRequested`,
`EffectsBounded` and `Refinement`: all that is checked of the worker's safety.
`PoisonIsKept` is not inductive because the decision is made at the lookup and the
deletion comes later, after anything else has happened: `IInv` adds that a handled
event parses, does not make the handler throw and has had its email asked for,
that `fulfilled` and `doomed` are steps with a handled message, and that only
handled messages are deleted.  `EffectsBounded` needs a sharper bound,
`WithinReceives`: while the handler is at its lookup one effect of each kind is
still to be allowed for, which a receive grants and `LookupReturns` uses up.  It
counts finite sets of requests, so `IInv` also says that `outstanding` is finite.

**Only model-checked**: the liveness properties (`StopCompletes`, `KeepsPolling`,
`ShutdownCompletes`, `EventuallySettled`, `BatchEnds`, `CallEnds`, `StartupEnds`), because
fairness and `ENABLED` are outside the prover's reach.  Every invariant, action property and
refinement of a passing run is proved; the theorems `OnePoll`, `FirstMisreported`,
`OnlyForCause` and `ThrowsForCause` say how far the defects of 7 go.

## 7. Disagreements between the code and what it says

1. **A restart can leave two poll loops** (`sqs-consumer.ts:174`, run
   `consumer_restart`).  The poll that `stop()` awaits schedules the next one while
   `stop()` waits; `stop()` does not look at the timer again.  `start()` before it
   fires begins a second loop.
2. **The first refused message is reported as processed** (`sqs-consumer.ts:285`,
   `consumer_index_zero`).  `if (index)` is false for 0.  The comment above it
   says refused messages are reported as failed.
3. **The start of a consumer is one expression** (`sqs-client.service.ts:67`,
   theorem `NeverUpAsWritten`).  No semicolon ends `new SqsConsumer(...)` and the
   next line begins with a parenthesis, so the consumer is called with the handler as
   argument.  TypeScript rejects that; where types are not checked it throws
   for the first handler.  `sqs.module.ts:68` promises a consumer "when your app
   contains a message handler".
4. **A valid batch can be refused** (`sqs-message.batcher.ts:40`,
   `producer_empty_batch`).  An entry exactly as large as the limit closes the
   current batch even if it is empty, and SQS refuses an empty request.
5. **An email can be lost** (`background.processing.service.ts:186`,
   `background_lost_email`).  It is acknowledged before SendGrid has answered; the
   failure then ends the process and nothing retries.
6. **A producer does not wait for asynchronous queue options** (`sqs-client.service.ts:92`,
   `client_service_async`).  `sqs.module.ts:88-91` promises producers for
   `registerQueueAsync`.  The producer's factory depends on `SqsClientService` only
   (`sqs.providers.ts:20-23`) and fetches the options with `moduleRef.get`, which gives null
   while their factory is under way; reading `url` of it throws and the start fails.
   Whether it happens is a matter of which factory is faster.
7. **`useClass` cannot work** (`sqs.module.ts:169`, cause `UnusableClass`).
   `sqs-queue-options.interface.ts:38-42` says the class is "to be registered and injected";
   it is provided with `useValue`, so the class itself is injected where an instance is meant,
   `createOptions` is not found on it, and the options never come.
8. **Some producers depend on the order of imports** (`sqs.module.ts:73`, cause `LateSite`).
   `sqs.module.ts:67-68` says of `registerQueue` that it "will inject producers injected by the
   `@InjectProducer` decorator".  It does so for the decorators evaluated before it; for a
   class whose file is imported after the last registration there is no provider.
9. **The default batch size is not the documented one.**
   `sqs-producer-options.interface.ts:11` says "defaults to 10"; `sqs.providers.ts:13` uses 1.
   No property depends on it: `MaxBatchLength` is the value the producer gets.
10. **A `batchSize` of 0 is accepted and useless** (`sqs-producer.ts:44`, cause `StartsEmpty`).
    The batcher closes the first batch empty, which SQS refuses, so every list with an entry to
    pack throws although all its messages are valid (`sqs-producer.ts:77`); a length of
    1 never equals the limit again, so nothing else closes a batch for its length.

A defect has a run of its own where a trace says more than the line it stands in.
Items 7, 8 and 10 are causes that `FailsOnlyForCause` and `ThrowsExactlyForCause` name: each
is one the passing run or the theorem meets, none counts as a fault of the application.
Item 3 is a theorem because it holds of every application.

Properties of the passing runs are stated so as to hold beside these: for example
`ProcessedIsGone` excepts position 0, and says so.  Section 6 has theorems that
nothing else goes wrong: without restarts there is one poll (7.1); no other refused message
is misreported (7.2); as laid out, a start that has not asked SQS fails only for a fault of
the application or for 7.6, 7.7 or 7.8; and a valid list throws, unless a request fails, only
for 7.4 or 7.10.

## 8. Behaviour noted and not made a run

No document says what should happen in these cases, so a property would have to
invent it.

* `start()` while a `stop()` is pending is ignored: `stopped` is still false.
* After two overlapping `stop()` calls and a restart, the slower one resets
  `currentPoll` of the new loop, and a later `stop()` does not wait for that poll.
* A heartbeat in flight when the interval is cleared may hide a message again whose
  timeout has just been set to 0 (SQS may also refuse it).  The comment at
  `sqs-consumer.ts:259` clears the interval to avoid a race with the delete request;
  the request in flight remains, and `BackInTime` bounds what it can do.
* A negative `heartbeatInterval` passes `assertOptions`; 0 turns the heartbeat off.
* In sequential mode a handler that timed out runs on beside the next one
  (`sqs-message-processor.interface.ts:45` stops waiting, nothing stops the handler).
* With `terminateVisibilityTimeout`, a batch without failures still sends the
  request, empty; SQS refuses it and an ERROR event follows a success (311-318).
* A listener of MESSAGE_RECEIVE_END that throws turns a successful receive into a
  failed one; its messages wait for their visibility timeout.
* `getInfoForQueue` can store a queue twice (harmless: the first one is found).
* Of two `InjectProducer` decorators for a queue the first evaluated decides the
  options; `messaging` has two for its processing queue.  Each `registerQueue` makes
  providers of all options found so far, so a producer may be constructed once per
  registration.
* A listener of MESSAGE_PROCESSING_END that throws keeps failed messages from being
  terminated; one of STOPPED that throws makes `stop()` reject.
* `produceRandomMessage` sends an event without `data`, which the worker rejects
  until the redrive policy moves it to the dead letter queue.
* An event with a delay is copied to the delay queue and sent at once as well;
  nothing in the repository consumes the delay queue.
* `POST /event` answers 200 even when the event is not enqueued.
* `onMessageError` is unreachable: a promise is always truthy.

## 9. What is not modelled

* **SqsModule.forRoot(Async).**  They make the client or the application does not
  start; nothing else depends on the way.
* **Cassandra, SendGrid's other calls, configuration, entry points**: calls passed on
  to a client, constants, data classes and bootstrap scripts without state of their own.
* **`health`, `getQueueAttributes`, `getQueueCount`**: reads.
* **The heartbeat inside `SqsConsumer`.**  It only puts off the visibility timeout, which
  the untimed modules let expire at any time: they allow every behaviour with and
  without it.  What it is good for is `Heartbeat`'s subject.
* **Contents**: message text, personalisation, log lines, JSON beyond "parses".

## 10. Plan

Done, in this order: the lifecycle and its proofs; batches, contract and their
proofs; the producer; the worker; the client service and its proofs; the worker's
proofs; loading and wiring in the client service, with the ways a start can fail; the
heartbeat and its proofs; the test operations; the producer's proofs;
`ProcessedIsGone` and `AckFromOwnDelivery` as theorems; sizes and order of the batches
as theorems; `SerialPolling` and its refinement; the contract's own theorems and what
both implementations inherit; how far the defect 7.2 goes; `SerialPolling` over the set of
polls in flight; when exactly a producer throws, for every `batchSize`; the causes of a
failed start by name, with the race of the asynchronous options as a run.

Next:

1. A composition of lifecycle and batches: `stop()` during a batch, to show that
   stopping drops no message that was handled.  Today the lifecycle's `PollEnds`
   stands for the whole of a batch, and `BatchEnds` justifies that it comes.
2. A refinement: `Heartbeat`, without its times, implements the queue of
   `SqsConsumer` for one batch.  It would prove the argument of section 9.
3. The restart defect (7.1) under a repaired `stop()`, to show which of
   the obvious repairs suffices.

------------------------- MODULE SqsConsumerLifecycle -------------------------
(***************************************************************************)
(* The life of one SqsConsumer: start(), stop(), the self-rescheduling     *)
(* poll() and the Nest hooks that drive them (MessageHandler and           *)
(* SqsClientService).  What one poll does with the messages it receives is *)
(* the subject of module SqsConsumer; here a poll is only "receiving",     *)
(* "processing" or "settled".                                              *)
(*                                                                         *)
(* Promises and timers are identities: the code compares nothing else.  A  *)
(* poll promise nobody refers to any more is free to be used again, so no  *)
(* counter bounds the model.                                               *)
(*                                                                         *)
(* Node runs every ready promise continuation before the next timer        *)
(* callback or socket event.  Timers and responses therefore wait until no *)
(* suspended stop() is ready to resume; start(), stop() and the end of a   *)
(* batch may happen in a continuation themselves and do not wait.          *)
(***************************************************************************)
EXTENDS FiniteSets

CONSTANTS
  Polls,            \* identities of the promises poll() returns
  Timers,           \* identities of the timers setTimeout() returns
  Callers,          \* who may call stop()
  Nest,             \* the caller that is Nest's onModuleDestroy hook
  None,             \* undefined
  StartOnBootstrap, \* the option startOnApplicationBootstrap
  Restarts          \* may start() be called again once the consumer has run?

ASSUME LifecycleAssumption ==
  /\ None \notin Polls \cup Timers
  /\ Nest \in Callers
  /\ StartOnBootstrap \in BOOLEAN
  /\ Restarts \in BOOLEAN

VARIABLES
  stopped,      \* this.stopped
  polls,        \* the state of each poll promise
  currentPoll,  \* this.currentPoll
  timers,       \* timers that are armed
  pollingTimer, \* this.pollingTimer (the code never resets it when it fires)
  awaiting,     \* the poll each suspended stop() call waits for
  started,      \* has start() ever begun a poll?
  app           \* "init", "up", "closing" (onModuleDestroy), "down" (client destroyed)

consumerVars == <<stopped, polls, currentPoll, timers, pollingTimer>>
vars == <<consumerVars, awaiting, started, app>>

TypeOK ==
  /\ stopped \in BOOLEAN
  /\ polls \in [Polls -> {"receiving", "processing", "settled"}]
  /\ currentPoll \in Polls \cup {None}
  /\ timers \in SUBSET Timers
  /\ pollingTimer \in Timers \cup {None}
  /\ awaiting \in [Callers -> Polls \cup {None}]
  /\ started \in BOOLEAN
  /\ app \in {"init", "up", "closing", "down"}

Init ==
  /\ stopped = TRUE
  /\ polls = [p \in Polls |-> "settled"]
  /\ currentPoll = None
  /\ timers = {}
  /\ pollingTimer = None
  /\ awaiting = [c \in Callers |-> None]
  /\ started = FALSE
  /\ app = "init"

-------------------------------------------------------------------------------
(***************************************************************************)
(* Helpers                                                                 *)
(***************************************************************************)

\* Polls that have been sent off and have not settled.
Active == {p \in Polls : polls[p] # "settled"}

\* Promises nobody holds: a new call of poll() may be given this identity.
FreePolls ==
  {p \in Polls \ Active : p # currentPoll /\ \A c \in Callers : awaiting[c] # p}

\* Mutant of Resumable: stop() also waits for the flag that it is to set itself.
ResumableWhenStopped(c) == awaiting[c] # None /\ awaiting[c] \notin Active /\ stopped

\* A stop() whose awaited poll has settled: its continuation is ready to run.
Resumable(c) == awaiting[c] # None /\ awaiting[c] \notin Active

Microtasks == {c \in Callers : Resumable(c)}

\* this.currentPoll = this.poll(): a stopped consumer's poll returns at once.
Poll(p, isStopped) ==
  /\ p \in FreePolls
  /\ currentPoll' = p
  /\ polls' = [polls EXCEPT ![p] = IF isStopped THEN "settled" ELSE "receiving"]

-------------------------------------------------------------------------------
(***************************************************************************)
(* start(): does nothing unless the consumer is stopped                    *)
(***************************************************************************)

\* Mutant of MayStart: start() does not look at the flag.
StartUnchecked == TRUE

MayStart == stopped

Start ==
  /\ MayStart
  /\ stopped' = FALSE
  /\ started' = TRUE
  /\ \E p \in Polls : Poll(p, FALSE)
  /\ UNCHANGED <<timers, pollingTimer, awaiting>>

\* MessageHandler.start() called by the application, from the moment
\* SqsClientService.onModuleInit has given the handler its consumer.  An
\* application that is shutting down does not.
ExplicitStart ==
  /\ app \in {"init", "up"}
  /\ Restarts \/ ~started
  /\ Start
  /\ UNCHANGED app

\* onApplicationBootstrap of the message handler.
Bootstrap ==
  /\ app = "init"
  /\ app' = "up"
  /\ IF StartOnBootstrap /\ MayStart
     THEN Start
     ELSE UNCHANGED <<consumerVars, awaiting, started>>

-------------------------------------------------------------------------------
(***************************************************************************)
(* stop(): runs up to its await, and resumes when the poll has settled     *)
(***************************************************************************)

CancelTimer ==
  /\ timers' = timers \ {pollingTimer}
  /\ pollingTimer' = None

\* Mutant of StopWaits: awaits the wrong field, this.pollingTimer.
StopAwaitsTimer(c) ==
  /\ awaiting' = [awaiting EXCEPT ![c] = pollingTimer]
  /\ UNCHANGED <<stopped, currentPoll>>

StopWaits(c) ==
  IF currentPoll # None
  THEN /\ awaiting' = [awaiting EXCEPT ![c] = currentPoll]
       /\ UNCHANGED <<stopped, currentPoll>>
  ELSE /\ stopped' = TRUE
       /\ UNCHANGED <<awaiting, currentPoll>>

StopCall(c) ==
  /\ awaiting[c] = None
  /\ CancelTimer
  /\ StopWaits(c)
  /\ UNCHANGED <<polls, started>>

\* MessageHandler.stop() called by the application.  Before the bootstrap it
\* would make onApplicationBootstrap a restart.
ExplicitStop(c) ==
  /\ c # Nest
  /\ Restarts \/ app # "init"
  /\ StopCall(c)
  /\ UNCHANGED app

StopReturns(c) ==
  /\ Resumable(c)
  /\ awaiting' = [awaiting EXCEPT ![c] = None]
  /\ currentPoll' = None
  /\ stopped' = TRUE
  /\ UNCHANGED <<polls, timers, pollingTimer, started, app>>

\* app.close(): onModuleDestroy awaits stop() ...
OnModuleDestroy ==
  /\ app = "up"
  /\ app' = "closing"
  /\ StopCall(Nest)

StopHookDone == awaiting[Nest] = None

\* ... and only then onApplicationShutdown destroys the SQS client.
OnApplicationShutdown ==
  /\ app = "closing"
  /\ StopHookDone
  /\ app' = "down"
  /\ UNCHANGED <<consumerVars, awaiting, started>>

-------------------------------------------------------------------------------
(***************************************************************************)
(* poll()                                                                  *)
(***************************************************************************)

\* The receive request answers with messages.
ReceiveReturns(p) ==
  /\ polls[p] = "receiving"
  /\ Microtasks = {}
  /\ polls' = [polls EXCEPT ![p] = "processing"]
  /\ UNCHANGED <<stopped, currentPoll, timers, pollingTimer, awaiting, started, app>>

\* Mutant of SchedulePollingTimer: an early return skips the finally block.
SkipSchedule == UNCHANGED <<timers, pollingTimer>>

SchedulePollingTimer ==
  \E t \in Timers \ timers :
    /\ timers' = timers \cup {t}
    /\ pollingTimer' = t

\* The poll ends: an empty answer, a failed request, or the batch is done.  Its
\* finally block always schedules the next one.
PollEnds(p) ==
  /\ \/ polls[p] = "processing"
     \/ polls[p] = "receiving" /\ Microtasks = {}
  /\ polls' = [polls EXCEPT ![p] = "settled"]
  /\ SchedulePollingTimer
  /\ UNCHANGED <<stopped, currentPoll, awaiting, started, app>>

\* Mutant of FirePoll: the callback forgets to poll.
FireNothing == UNCHANGED <<polls, currentPoll>>

FirePoll == \E p \in Polls : Poll(p, stopped)

TimerFires(t) ==
  /\ t \in timers
  /\ Microtasks = {}
  /\ timers' = timers \ {t}
  /\ FirePoll
  /\ UNCHANGED <<stopped, pollingTimer, awaiting, started, app>>

-------------------------------------------------------------------------------
Next ==
  \/ Bootstrap
  \/ ExplicitStart
  \/ OnModuleDestroy
  \/ OnApplicationShutdown
  \/ \E c \in Callers : ExplicitStop(c) \/ StopReturns(c)
  \/ \E p \in Polls : ReceiveReturns(p) \/ PollEnds(p)
  \/ \E t \in Timers : TimerFires(t)

(***************************************************************************)
(* What the runtime owes: a request is answered or fails (the SDK bounds   *)
(* its retries), a batch ends (handlers settle, or handleMessageTimeout    *)
(* settles them), timers fire and ready continuations run.  Nobody owes a  *)
(* call of start() or stop().                                              *)
(***************************************************************************)
Fairness ==
  /\ \A p \in Polls : WF_vars(PollEnds(p))
  /\ \A c \in Callers : WF_vars(StopReturns(c))
  /\ \A t \in Timers : WF_vars(TimerFires(t))
  /\ WF_vars(OnApplicationShutdown)

Spec == Init /\ [][Next]_vars
FairSpec == Spec /\ Fairness

-------------------------------------------------------------------------------
(***************************************************************************)
(* Properties                                                              *)
(***************************************************************************)

\* The consumer never polls twice at a time: "it doesn't make sense to have
\* more then one consumer for the same queue" (sqs-client.service.ts:52-54).
\* Holds as long as start() is not called again after stop().
SinglePoll == \A p, q \in Active : p = q

\* Once stop() has returned nothing is in flight: stop() waits "to ensure that
\* we don't drop any messages" (sqs-consumer.ts:118).
StoppedIsIdle == stopped => Active = {}

\* The SQS client is destroyed only after the last poll has settled
\* (message-handler.ts:27, sqs-client.service.ts:78).
ClientOutlivesPolls == app = "down" => Active = {}

\* One life, one poll at a time: a consumer that is not restarted polls from its start
\* to its stop and never after it, begins a poll only when none is in flight, and only
\* with a client that is still there (sqs-client.service.ts:52-54, sqs-consumer.ts:118).
Serial == INSTANCE SerialPolling WITH
  life <- IF ~started THEN "new" ELSE IF stopped THEN "ended" ELSE "running",
  polling <- Active,
  client <- IF app = "down" THEN "destroyed" ELSE "open"

ImplementsSerialPolling == Serial!SerialSpec

\* A running consumer never goes quiet: a poll is in flight, the next one is
\* scheduled, or a stop() is about to finish.  A poll that ends without
\* rescheduling itself would leave the queue unattended for good.
NeverGoesQuiet ==
  ~stopped => \/ Active # {}
              \/ timers # {}
              \/ \E c \in Callers : awaiting[c] # None

\* Every stop() returns, whatever the poll in flight is doing when it is called.
StopCompletes == \A c \in Callers : awaiting[c] # None ~> awaiting[c] = None

\* A running consumer asks for messages again and again until it is stopped.
KeepsPolling == ~stopped ~> (stopped \/ \E p \in Polls : polls[p] = "receiving")

\* app.close() gets as far as destroying the client.
ShutdownCompletes == app = "closing" ~> app = "down"
===============================================================================

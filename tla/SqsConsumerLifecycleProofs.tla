---------------------- MODULE SqsConsumerLifecycleProofs ----------------------
(***************************************************************************)
(* Proofs about SqsConsumerLifecycle, for any number of polls, timers and  *)
(* callers of stop().  TypeOK holds always; the safety properties hold     *)
(* under NoRestart, and fail without it (run consumer_restart).            *)
(***************************************************************************)
EXTENDS SqsConsumerLifecycle, TLAPS

\* start() is not called again once the consumer has run.
NoRestart == ~Restarts

-------------------------------------------------------------------------------
(***************************************************************************)
(* The inductive invariant                                                 *)
(***************************************************************************)

\* The poll in flight is the one the consumer knows ...
OnlyCurrentPoll == \A p \in Active : p = currentPoll

\* ... no timer is armed meanwhile ...
NoTimerDuringPoll == Active # {} => timers = {}

\* ... and at most one is otherwise: the one stop() can cancel.
OnlyPollingTimer == timers \subseteq {pollingTimer}

\* A suspended stop() waits for the poll in flight, if there is one.
StopsWaitForActive ==
  \A c \in Callers : awaiting[c] # None => (awaiting[c] \in Active \/ Active = {})

\* Before the first start() nothing has happened.
NotStarted ==
  ~started => /\ stopped
              /\ currentPoll = None
              /\ timers = {}
              /\ Active = {}
              /\ \A c \in Callers : awaiting[c] = None

\* Nobody stops a consumer before the application is up.
NotStoppedDuringInit ==
  app = "init" => /\ started => ~stopped
                  /\ \A c \in Callers : awaiting[c] = None

\* Once the shutdown hook's stop() has returned, the consumer stays stopped.
StaysStopped ==
  /\ app = "closing" => (awaiting[Nest] = None => stopped)
  /\ app = "down" => stopped

IInv ==
  /\ TypeOK
  /\ OnlyCurrentPoll
  /\ NoTimerDuringPoll
  /\ OnlyPollingTimer
  /\ StoppedIsIdle
  /\ StopsWaitForActive
  /\ NotStarted
  /\ NotStoppedDuringInit
  /\ StaysStopped
-------------------------------------------------------------------------------
(***************************************************************************)
(* Type correctness                                                        *)
(***************************************************************************)

\* Every step keeps every variable in its type.
LEMMA TypeStep == TypeOK /\ [Next]_vars => TypeOK'
  <1> SUFFICES ASSUME TypeOK, [Next]_vars
               PROVE  TypeOK'
    OBVIOUS
  <1> USE DEF TypeOK, Start, Poll, FreePolls, Active, consumerVars
  <1>1. CASE Bootstrap
    BY <1>1 DEF Bootstrap
  <1>2. CASE ExplicitStart
    BY <1>2 DEF ExplicitStart
  <1>3. CASE OnModuleDestroy
    BY <1>3, LifecycleAssumption DEF OnModuleDestroy, StopCall, CancelTimer, StopWaits
  <1>4. CASE OnApplicationShutdown
    BY <1>4 DEF OnApplicationShutdown
  <1>5. ASSUME NEW c \in Callers, ExplicitStop(c)
        PROVE  TypeOK'
    BY <1>5 DEF ExplicitStop, StopCall, CancelTimer, StopWaits
  <1>6. ASSUME NEW c \in Callers, StopReturns(c)
        PROVE  TypeOK'
    BY <1>6 DEF StopReturns
  <1>7. ASSUME NEW p \in Polls, ReceiveReturns(p)
        PROVE  TypeOK'
    BY <1>7 DEF ReceiveReturns
  <1>8. ASSUME NEW p \in Polls, PollEnds(p)
        PROVE  TypeOK'
    BY <1>8 DEF PollEnds, SchedulePollingTimer
  <1>9. ASSUME NEW t \in Timers, TimerFires(t)
        PROVE  TypeOK'
    BY <1>9 DEF TimerFires, FirePoll
  <1>10. CASE UNCHANGED vars
    BY <1>10 DEF vars
  <1> QED
    BY <1>1, <1>2, <1>3, <1>4, <1>5, <1>6, <1>7, <1>8, <1>9, <1>10 DEF Next

LEMMA TypeInit == Init => TypeOK
  BY LifecycleAssumption DEF Init, TypeOK

\* Every variable of the consumer and of the application keeps its type.
THEOREM TypeCorrect == Spec => []TypeOK
  BY TypeInit, TypeStep, PTL DEF Spec

-------------------------------------------------------------------------------
(***************************************************************************)
(* The consumer never goes quiet, restarts or not                          *)
(***************************************************************************)

\* A poll that has been sent off stays in flight unless PollEnds settles it.
LEMMA QuietStep == TypeOK /\ NeverGoesQuiet /\ [Next]_vars => NeverGoesQuiet'
  <1> SUFFICES ASSUME TypeOK, NeverGoesQuiet, [Next]_vars
               PROVE  NeverGoesQuiet'
    OBVIOUS
  <1> USE DEF TypeOK, NeverGoesQuiet, Active, consumerVars
  <1>1. CASE Bootstrap
    BY <1>1 DEF Bootstrap, Start, Poll
  <1>2. CASE ExplicitStart
    BY <1>2 DEF ExplicitStart, Start, Poll
  <1>3. ASSUME NEW c \in Callers, StopCall(c)
        PROVE  NeverGoesQuiet'
    BY <1>3 DEF StopCall, StopWaits
  <1>4. CASE OnModuleDestroy
    BY <1>3, <1>4, LifecycleAssumption DEF OnModuleDestroy
  <1>5. CASE OnApplicationShutdown
    BY <1>5 DEF OnApplicationShutdown
  <1>6. ASSUME NEW c \in Callers, ExplicitStop(c)
        PROVE  NeverGoesQuiet'
    BY <1>3, <1>6 DEF ExplicitStop
  <1>7. ASSUME NEW c \in Callers, StopReturns(c)
        PROVE  NeverGoesQuiet'
    BY <1>7 DEF StopReturns
  <1>8. ASSUME NEW p \in Polls, ReceiveReturns(p)
        PROVE  NeverGoesQuiet'
    BY <1>8 DEF ReceiveReturns
  <1>9. ASSUME NEW p \in Polls, PollEnds(p)
        PROVE  NeverGoesQuiet'
    BY <1>9 DEF PollEnds, SchedulePollingTimer
  <1>10. ASSUME NEW t \in Timers, TimerFires(t)
         PROVE  NeverGoesQuiet'
    BY <1>10 DEF TimerFires, FirePoll, Poll
  <1>11. CASE UNCHANGED vars
    BY <1>11 DEF vars
  <1> QED
    BY <1>1, <1>2, <1>4, <1>5, <1>6, <1>7, <1>8, <1>9, <1>10, <1>11 DEF Next

\* A running consumer has a poll in flight, a poll scheduled, or a stop() about
\* to finish: poll() always reschedules itself, and stop() cancels the timer only
\* to stop the consumer (sqs-consumer.ts:109-131, 172-175).
THEOREM NeverQuiet == Spec => []NeverGoesQuiet
  <1>1. Init => NeverGoesQuiet
    BY DEF Init, NeverGoesQuiet
  <1> QED
    BY <1>1, TypeInit, TypeStep, QuietStep, PTL DEF Spec
-------------------------------------------------------------------------------
(***************************************************************************)
(* One poll at a time, as long as nobody restarts the consumer             *)
(***************************************************************************)

LEMMA IInvInit == Init => IInv
  <1> SUFFICES ASSUME Init PROVE IInv
    OBVIOUS
  <1>1. Active = {}
    BY DEF Init, Active
  <1> QED
    BY <1>1, TypeInit DEF Init, IInv, OnlyCurrentPoll, NoTimerDuringPoll, OnlyPollingTimer, StoppedIsIdle,
       StopsWaitForActive, NotStarted, NotStoppedDuringInit, StaysStopped

\* start() begins the first poll, and nothing else is going on.
LEMMA StartStep ==
  ASSUME IInv, Start, ~started, app \in {"init", "up"}, app' \in {"init", "up"}, TypeOK'
  PROVE  IInv'
  <1>1. PICK p \in Polls : Poll(p, FALSE)
    BY DEF Start
  <1>2. Active' = {p} /\ currentPoll' = p
    BY <1>1 DEF IInv, NotStarted, Poll, Active, TypeOK
  <1>3. timers' = {} /\ ~stopped' /\ started' /\ awaiting' = awaiting
    BY DEF Start, IInv, NotStarted
  <1>4. \A c \in Callers : awaiting[c] = None
    BY DEF IInv, NotStarted
  <1> QED
    BY <1>2, <1>3, <1>4 DEF IInv, OnlyCurrentPoll, NoTimerDuringPoll, OnlyPollingTimer, StoppedIsIdle,
       StopsWaitForActive, NotStarted, NotStoppedDuringInit, StaysStopped

\* stop() up to its await: it either waits for the poll in flight or, when there
\* is none, sets the flag.
LEMMA StopStep ==
  ASSUME IInv, NEW c \in Callers, StopCall(c), app # "init",
         (app' = app /\ c # Nest) \/ (app' = "closing" /\ c = Nest), TypeOK'
  PROVE  IInv'
  <1> USE DEF IInv
  <1>1. Active' = Active
    BY DEF StopCall, Active
  <1>2. timers' = {} /\ started' = started
    BY DEF StopCall, CancelTimer, OnlyPollingTimer
  <1>3. CASE currentPoll # None
    <2>1. /\ awaiting' = [awaiting EXCEPT ![c] = currentPoll]
          /\ UNCHANGED <<stopped, currentPoll>>
      BY <1>3 DEF StopCall, StopWaits
    <2>2. OnlyCurrentPoll' /\ NoTimerDuringPoll' /\ OnlyPollingTimer' /\ StoppedIsIdle'
      BY <1>1, <1>2, <2>1 DEF OnlyCurrentPoll, NoTimerDuringPoll, OnlyPollingTimer, StoppedIsIdle
    <2>3. StopsWaitForActive'
      BY <1>1, <2>1 DEF StopsWaitForActive, OnlyCurrentPoll, TypeOK
    <2>4. NotStarted' /\ NotStoppedDuringInit'
      BY <1>1, <1>2, <1>3, <2>1 DEF NotStarted, NotStoppedDuringInit, TypeOK
    <2>5. StaysStopped'
      BY <1>3, <2>1, LifecycleAssumption DEF StaysStopped, TypeOK
    <2> QED
      BY <2>2, <2>3, <2>4, <2>5
  <1>4. CASE currentPoll = None
    <2>1. stopped' = TRUE /\ UNCHANGED <<awaiting, currentPoll>>
      BY <1>4 DEF StopCall, StopWaits
    <2>2. Active = {}
      BY <1>4, LifecycleAssumption DEF OnlyCurrentPoll, Active
    <2> QED
      BY <1>1, <1>2, <2>1, <2>2 DEF OnlyCurrentPoll, NoTimerDuringPoll, OnlyPollingTimer, StoppedIsIdle,
         StopsWaitForActive, NotStarted, NotStoppedDuringInit, StaysStopped, TypeOK
  <1> QED
    BY <1>3, <1>4

\* Without restarts every step preserves the invariant.
LEMMA IInvStep == NoRestart /\ IInv /\ [Next]_vars => IInv'
  <1> SUFFICES ASSUME NoRestart, IInv, [Next]_vars
               PROVE  IInv'
    OBVIOUS
  <1> USE DEF IInv
  <1>0. TypeOK'
    BY TypeStep
  <1>1. CASE Bootstrap
    <2>1. CASE StartOnBootstrap /\ MayStart
      BY <1>0, <1>1, <2>1, StartStep DEF Bootstrap, Start, MayStart, NotStoppedDuringInit, TypeOK
    <2>2. CASE ~(StartOnBootstrap /\ MayStart)
      <3>1. UNCHANGED <<consumerVars, awaiting, started>> /\ app' = "up"
        BY <1>1, <2>2 DEF Bootstrap
      <3> QED
        BY <1>0, <3>1 DEF consumerVars, OnlyCurrentPoll, NoTimerDuringPoll, OnlyPollingTimer, StoppedIsIdle,
           StopsWaitForActive, NotStarted, NotStoppedDuringInit, StaysStopped, Active
    <2> QED
      BY <2>1, <2>2
  <1>2. CASE ExplicitStart
    BY <1>0, <1>2, StartStep DEF ExplicitStart, NoRestart
  <1>3. CASE OnModuleDestroy
    BY <1>0, <1>3, StopStep, LifecycleAssumption DEF OnModuleDestroy
  <1>4. CASE OnApplicationShutdown
    <2>1. UNCHANGED <<consumerVars, awaiting, started>> /\ app' = "down" /\ stopped
      BY <1>4 DEF OnApplicationShutdown, StopHookDone, StaysStopped
    <2> QED
      BY <1>0, <2>1 DEF consumerVars, OnlyCurrentPoll, NoTimerDuringPoll, OnlyPollingTimer, StoppedIsIdle,
         StopsWaitForActive, NotStarted, NotStoppedDuringInit, StaysStopped, Active
  <1>5. ASSUME NEW c \in Callers, ExplicitStop(c)
        PROVE  IInv'
    <2>1. StopCall(c) /\ app # "init" /\ app' = app /\ c # Nest
      BY <1>5 DEF ExplicitStop, NoRestart
    <2> QED
      BY <1>0, <2>1, StopStep
  <1>6. ASSUME NEW c \in Callers, StopReturns(c)
        PROVE  IInv'
    \* The awaited poll has settled, so by StopsWaitForActive none is in flight.
    <2>1. Active = {} /\ Active' = {}
      BY <1>6 DEF StopReturns, Resumable, StopsWaitForActive, Active
    <2>2. /\ stopped' = TRUE
          /\ awaiting' = [awaiting EXCEPT ![c] = None]
          /\ UNCHANGED <<timers, pollingTimer, started, app>>
      BY <1>6 DEF StopReturns
    <2>3. started /\ app # "init"
      BY <1>6 DEF StopReturns, Resumable, NotStarted, NotStoppedDuringInit
    <2> QED
      BY <1>0, <2>1, <2>2, <2>3 DEF OnlyCurrentPoll, NoTimerDuringPoll, OnlyPollingTimer, StoppedIsIdle,
         StopsWaitForActive, NotStarted, NotStoppedDuringInit, StaysStopped, TypeOK
  <1>7. ASSUME NEW p \in Polls, ReceiveReturns(p)
        PROVE  IInv'
    <2>1. Active' = Active
      BY <1>7 DEF ReceiveReturns, Active, TypeOK
    <2> QED
      BY <1>0, <1>7, <2>1 DEF ReceiveReturns, OnlyCurrentPoll, NoTimerDuringPoll, OnlyPollingTimer, StoppedIsIdle,
         StopsWaitForActive, NotStarted, NotStoppedDuringInit, StaysStopped
  <1>8. ASSUME NEW p \in Polls, PollEnds(p)
        PROVE  IInv'
    <2>1. p \in Active /\ started /\ ~stopped
      BY <1>8 DEF PollEnds, Active, NotStarted, StoppedIsIdle, TypeOK
    <2>2. Active' = {}
      BY <1>8, <2>1 DEF PollEnds, Active, OnlyCurrentPoll, TypeOK
    <2>3. timers' = {pollingTimer'}
      BY <1>8, <2>1 DEF PollEnds, SchedulePollingTimer, NoTimerDuringPoll
    <2> QED
      BY <1>0, <1>8, <2>1, <2>2, <2>3 DEF PollEnds, OnlyCurrentPoll, NoTimerDuringPoll, OnlyPollingTimer, StoppedIsIdle,
         StopsWaitForActive, NotStarted, NotStoppedDuringInit, StaysStopped
  <1>9. ASSUME NEW t \in Timers, TimerFires(t)
        PROVE  IInv'
    \* With a timer armed no poll is in flight, and no stop() may resume or wait.
    <2>1. Active = {} /\ started
      BY <1>9 DEF TimerFires, NoTimerDuringPoll, NotStarted
    <2>2. \A c \in Callers : awaiting[c] = None
      BY <1>9, <2>1 DEF TimerFires, Microtasks, Resumable
    <2>3. PICK p \in Polls : Poll(p, stopped)
      BY <1>9 DEF TimerFires, FirePoll
    <2>4. /\ currentPoll' = p
          /\ Active' = IF stopped THEN {} ELSE {p}
      BY <2>1, <2>3 DEF Poll, Active, TypeOK
    <2>5. UNCHANGED <<stopped, awaiting, started, app>>
      BY <1>9 DEF TimerFires
    <2>6. timers' = {}
      BY <1>9 DEF TimerFires, OnlyPollingTimer
    <2> QED
      BY <1>0, <2>1, <2>2, <2>4, <2>5, <2>6 DEF OnlyCurrentPoll, NoTimerDuringPoll, OnlyPollingTimer, StoppedIsIdle,
         StopsWaitForActive, NotStarted, NotStoppedDuringInit, StaysStopped
  <1>10. CASE UNCHANGED vars
    BY <1>10 DEF vars, consumerVars, TypeOK, OnlyCurrentPoll, NoTimerDuringPoll, OnlyPollingTimer, StoppedIsIdle,
       StopsWaitForActive, NotStarted, NotStoppedDuringInit, StaysStopped, Active
  <1> QED
    BY <1>1, <1>2, <1>3, <1>4, <1>5, <1>6, <1>7, <1>8, <1>9, <1>10 DEF Next
\* The invariant of a consumer that is not restarted.
THEOREM Inductive ==
  ASSUME NoRestart
  PROVE  Spec => []IInv
  <1>1. IInv /\ [Next]_vars => IInv'
    BY IInvStep
  <1> QED
    BY <1>1, IInvInit, PTL DEF Spec

\* A consumer that is not restarted never polls twice at a time
\* (sqs-client.service.ts:52-54).
THEOREM OnePoll ==
  ASSUME NoRestart
  PROVE  Spec => []SinglePoll
  <1>1. IInv => SinglePoll
    BY DEF IInv, OnlyCurrentPoll, SinglePoll
  <1> QED
    BY <1>1, Inductive, PTL

\* When stop() has returned nothing is in flight (sqs-consumer.ts:118).
THEOREM IdleWhenStopped ==
  ASSUME NoRestart
  PROVE  Spec => []StoppedIsIdle
  <1>1. IInv => StoppedIsIdle
    BY DEF IInv
  <1> QED
    BY <1>1, Inductive, PTL

\* No poll uses the SQS client after it was destroyed (sqs-client.service.ts:78-81).
THEOREM ClientOutlives ==
  ASSUME NoRestart
  PROVE  Spec => []ClientOutlivesPolls
  <1>1. IInv => ClientOutlivesPolls
    BY DEF IInv, StaysStopped, StoppedIsIdle, ClientOutlivesPolls
  <1> QED
    BY <1>1, Inductive, PTL

-------------------------------------------------------------------------------
(***************************************************************************)
(* A consumer that is not restarted implements SerialPolling               *)
(***************************************************************************)

Life == IF ~started THEN "new" ELSE IF stopped THEN "ended" ELSE "running"
Client == IF app = "down" THEN "destroyed" ELSE "open"

\* What the steps of SerialPolling are in terms of the consumer.
LEMMA BeginIs ==
  ASSUME NEW p \in Polls, Life # "ended", Active = {}, Client = "open",
         Life' = "running", Active' = {p}, Client' = Client
  PROVE  Serial!SerialNext
  BY DEF Serial!SerialNext, Serial!Begin, Life, Client

LEMMA EndIs ==
  ASSUME NEW p \in Active, Active' = Active \ {p}, Life' = Life, Client' = Client
  PROVE  Serial!SerialNext
  <1>1. p \in Polls
    BY DEF Active
  <1> QED
    BY <1>1 DEF Serial!SerialNext, Serial!End, Life, Client

LEMMA StopIs ==
  ASSUME Life = "running", Active = {}, Life' = "ended", Active' = {}, Client' = Client
  PROVE  Serial!SerialNext
  BY DEF Serial!SerialNext, Serial!Stop, Life, Client

LEMMA DestroyIs ==
  ASSUME Life # "running", Client = "open", Client' = "destroyed", Life' = Life,
         Active' = Active
  PROVE  Serial!SerialNext
  BY DEF Serial!SerialNext, Serial!Destroy, Life, Client

LEMMA StutterIs ==
  ASSUME Life' = Life, Active' = Active, Client' = Client
  PROVE  UNCHANGED Serial!serialVars
  BY DEF Serial!serialVars, Life, Client

\* start() begins the only life there is.
LEMMA StartSerial ==
  ASSUME IInv, Start, ~started, app \in {"init", "up"}, app' \in {"init", "up"}
  PROVE  Serial!SerialNext
  <1>1. Active = {}
    BY DEF IInv, NotStarted
  <1>2. PICK p \in Polls : Poll(p, FALSE)
    BY DEF Start
  <1>3. Active' = {p}
    BY <1>1, <1>2 DEF IInv, TypeOK, Poll, Active
  <1>4. Life = "new" /\ Life' = "running" /\ Client = "open" /\ Client' = "open"
    BY DEF Start, Life, Client
  <1> QED
    BY <1>1, <1>3, <1>4, BeginIs

\* stop() ends it at once when no poll is known, and leaves it alone otherwise.
LEMMA StopSerial ==
  ASSUME IInv, NEW c \in Callers, StopCall(c), app' # "down", app # "down"
  PROVE  [Serial!SerialNext]_(Serial!serialVars)
  <1>1. Active' = Active /\ started' = started /\ Client' = Client
    BY DEF StopCall, Active, Client
  <1>2. CASE currentPoll # None \/ ~started \/ stopped
    <2>1. Life' = Life
      BY <1>1, <1>2 DEF StopCall, StopWaits, IInv, NotStarted, Life
    <2> QED
      BY <1>1, <2>1, StutterIs
  <1>3. CASE currentPoll = None /\ started /\ ~stopped
    <2>1. Active = {}
      BY <1>3, LifecycleAssumption DEF IInv, OnlyCurrentPoll, Active
    <2>2. Life = "running" /\ Life' = "ended"
      BY <1>1, <1>3 DEF StopCall, StopWaits, Life
    <2> QED
      BY <1>1, <2>1, <2>2, StopIs
  <1> QED
    BY <1>2, <1>3

LEMMA StepSerial ==
  NoRestart /\ IInv /\ [Next]_vars => [Serial!SerialNext]_(Serial!serialVars)
  <1> SUFFICES ASSUME NoRestart, IInv, [Next]_vars
               PROVE  [Serial!SerialNext]_(Serial!serialVars)
    OBVIOUS
  <1>1. CASE Bootstrap
    <2>1. CASE StartOnBootstrap /\ MayStart
      BY <1>1, <2>1, StartSerial DEF Bootstrap, Start, MayStart, IInv, NotStoppedDuringInit
    <2>2. CASE ~(StartOnBootstrap /\ MayStart)
      BY <1>1, <2>2, StutterIs DEF Bootstrap, consumerVars, Life, Client, Active
    <2> QED
      BY <2>1, <2>2
  <1>2. CASE ExplicitStart
    BY <1>2, StartSerial DEF ExplicitStart, NoRestart
  <1>3. CASE OnModuleDestroy
    BY <1>3, StopSerial, LifecycleAssumption DEF OnModuleDestroy
  <1>4. CASE OnApplicationShutdown
    <2>1. /\ UNCHANGED <<consumerVars, awaiting, started>> /\ app = "closing" /\ app' = "down"
          /\ stopped
      BY <1>4 DEF OnApplicationShutdown, StopHookDone, IInv, StaysStopped
    <2> QED
      BY <2>1, DestroyIs DEF consumerVars, Life, Client, Active
  <1>5. ASSUME NEW c \in Callers, ExplicitStop(c)
        PROVE  [Serial!SerialNext]_(Serial!serialVars)
    <2>1. CASE app # "down"
      BY <1>5, <2>1, StopSerial DEF ExplicitStop
    <2>2. CASE app = "down"
      \* The consumer is stopped already, so nothing changes its life.
      BY <1>5, <2>2, StutterIs
      DEF ExplicitStop, StopCall, StopWaits, IInv, StaysStopped, Life, Client, Active
    <2> QED
      BY <2>1, <2>2
  <1>6. ASSUME NEW c \in Callers, StopReturns(c)
        PROVE  [Serial!SerialNext]_(Serial!serialVars)
    <2>1. Active = {} /\ Active' = {}
      BY <1>6 DEF StopReturns, Resumable, IInv, StopsWaitForActive, Active
    <2>2. started /\ started' /\ stopped' /\ Client' = Client
      BY <1>6 DEF StopReturns, Resumable, IInv, NotStarted, Client
    <2> QED
      BY <2>1, <2>2, StopIs, StutterIs DEF Life
  <1>7. ASSUME NEW p \in Polls, ReceiveReturns(p)
        PROVE  [Serial!SerialNext]_(Serial!serialVars)
    <2>1. Active' = Active
      BY <1>7 DEF ReceiveReturns, Active, IInv, TypeOK
    <2> QED
      BY <1>7, <2>1, StutterIs DEF ReceiveReturns, Life, Client
  <1>8. ASSUME NEW p \in Polls, PollEnds(p)
        PROVE  [Serial!SerialNext]_(Serial!serialVars)
    <2>1. p \in Active
      BY <1>8 DEF PollEnds, Active
    <2>2. Active' = Active \ {p}
      BY <1>8 DEF PollEnds, Active, IInv, TypeOK
    <2> QED
      BY <1>8, <2>1, <2>2, EndIs DEF PollEnds, Life, Client
  <1>9. ASSUME NEW t \in Timers, TimerFires(t)
        PROVE  [Serial!SerialNext]_(Serial!serialVars)
    <2>1. Active = {} /\ started
      BY <1>9 DEF TimerFires, IInv, NoTimerDuringPoll, NotStarted
    <2>2. PICK p \in Polls : Poll(p, stopped)
      BY <1>9 DEF TimerFires, FirePoll
    <2>3. Active' = IF stopped THEN {} ELSE {p}
      BY <2>1, <2>2 DEF Poll, Active, IInv, TypeOK
    <2>4. UNCHANGED <<stopped, started, app>>
      BY <1>9 DEF TimerFires
    <2>5. app = "down" => stopped
      BY DEF IInv, StaysStopped
    <2> QED
      BY <2>1, <2>3, <2>4, <2>5, BeginIs, StutterIs DEF Life, Client
  <1>10. CASE UNCHANGED vars
    BY <1>10, StutterIs DEF vars, consumerVars, Life, Client, Active
  <1> QED
    BY <1>1, <1>2, <1>3, <1>4, <1>5, <1>6, <1>7, <1>8, <1>9, <1>10 DEF Next

\* A consumer that is not restarted lives once, begins a poll only when no other is in
\* flight, and polls no more after stop(), whoever stops it, however often and whatever is
\* in flight then.
THEOREM PollsSerially ==
  ASSUME NoRestart
  PROVE  Spec => ImplementsSerialPolling
  <1>1. Init => Serial!SerialInit
    BY DEF Init, Serial!SerialInit, Active
  <1>2. IInv /\ [Next]_vars => [Serial!SerialNext]_(Serial!serialVars)
    BY StepSerial
  <1> QED
    BY <1>1, <1>2, Inductive, PTL DEF Spec, ImplementsSerialPolling, Serial!SerialSpec
===============================================================================

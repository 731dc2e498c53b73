------------------------ MODULE SqsClientServiceProofs ------------------------
(***************************************************************************)
(* Proofs about SqsClientService, for any number of queues, decorators and *)
(* handlers, any way of putting the application together and any order of  *)
(* loading its files.                                                      *)
(***************************************************************************)
EXTENDS SqsClientService, TLAPS

-------------------------------------------------------------------------------
(***************************************************************************)
(* The inductive invariant                                                 *)
(***************************************************************************)

\* Providers are made of the options in the list, one site to a queue.
SitesDistinct ==
  /\ \A s, t \in producerOptions : QueueOfSite(s) = QueueOfSite(t) => s = t
  /\ \A p \in providers : p.site \in producerOptions

\* The loop of onModuleInit is through with h.
Through(h) == h \notin todo /\ h \notin asked

\* It is through with none before it begins and with all when it is left.
LoopRuns ==
  /\ app \in {"loading", "creating"} => todo = Handlers /\ InLoop = {}
  /\ app \in {"bootstrapping", "up", "closing", "down"} => todo = {} /\ InLoop = {}

\* It suspends in one turn at a time, for a handler whose queue has no host.
OneAtATime ==
  \A h \in InLoop : /\ h \notin todo
                    /\ messageHandlers[QueueOf(h)] = None
                    /\ \A g \in InLoop : g = h

\* The handlers it is through with are the hosts, with an info of their queue.
HostsRegistered ==
  app # "failed" => \A h \in Handlers : Through(h) =>
    messageHandlers[QueueOf(h)] = h /\ info[h] # 0

\* A host is a handler of that queue the loop has come to.
HostsOwnQueue ==
  \A q \in Queues : messageHandlers[q] # None =>
    QueueOf(messageHandlers[q]) = q /\ messageHandlers[q] \notin todo

\* Every provider has its info and every site a producer, and no options are on their way.
AllBound ==
  /\ \A p \in providers : info[p] # 0
  /\ \A s \in Sites : Resolved(s)
  /\ unready = {}

ProducersFirst == app \notin {"loading", "creating", "failed"} => AllBound

RunningLate == running # {} => app \in {"up", "closing"}

IInv ==
  /\ TypeOK
  /\ SitesDistinct
  /\ BoundToOwnQueue
  /\ LoopRuns
  /\ OneAtATime
  /\ HostsRegistered
  /\ HostsOwnQueue
  /\ ProducersFirst
  /\ RunningLate

-------------------------------------------------------------------------------
\* A caller has a queue, which does not change.
LEMMA QueueOfCaller ==
  ASSUME TypeOK
  PROVE  /\ \A c \in Callers : QueueOf(c) \in Queues
         /\ \A h \in Handlers : h \in Callers /\ QueueOf(h) = setup.queueOf[h]
         /\ \A p \in Provider : QueueOf(p) = QueueOfSite(p.site)
  <1>1. \A c \in Callers : Origin(c) \in Sites \cup Handlers
    BY DEF Callers, Provider, Origin
  <1>2. \A p \in Provider : Origin(p) = p.site
    BY ServiceAssumption DEF Origin
  <1> QED
    BY <1>1, <1>2, ServiceAssumption
    DEF TypeOK, SetupType, QueueOf, QueueOfSite, Callers, Origin

LEMMA SameQueue == setup' = setup => \A c : QueueOf(c)' = QueueOf(c)
  BY DEF QueueOf, Origin

LEMMA InitOK == Init => IInv
  <1> SUFFICES ASSUME Init PROVE IInv
    OBVIOUS
  <1>1. setup.slow \in SUBSET Queues
    BY ServiceAssumption DEF Init, SetupType
  <1>2. TypeOK
    BY <1>1 DEF Init, TypeOK, AppStates
  <1>3. SitesDistinct /\ BoundToOwnQueue /\ LoopRuns /\ OneAtATime
    BY DEF Init, SitesDistinct, BoundToOwnQueue, LoopRuns, OneAtATime, InLoop
  <1>4. HostsRegistered /\ HostsOwnQueue /\ ProducersFirst /\ RunningLate
    BY DEF Init, HostsRegistered, HostsOwnQueue, ProducersFirst, RunningLate, Through
  <1> QED
    BY <1>2, <1>3, <1>4 DEF IInv

\* A lookup answered without a request leaves each caller bound to its own queue,
\* and gives c an info.
LEMMA AtOnce ==
  ASSUME TypeOK, BoundToOwnQueue, NEW c \in Callers, FromCache(c) \/ FromOptions(c),
         UNCHANGED setup
  PROVE  /\ queueInfos' \in Seq(Queues)
         /\ info' \in [Callers -> 0..Len(queueInfos')]
         /\ BoundToOwnQueue'
         /\ info'[c] # 0
         /\ \A d \in Callers \ {c} : info'[d] = info[d]
         /\ asked' = asked
  <1>1. QueueOf(c) \in Queues /\ \A d \in Callers : QueueOf(d)' = QueueOf(d)
    BY QueueOfCaller, SameQueue
  <1>2. CASE FromCache(c)
    <2>1. PICK i \in Cached(QueueOf(c)) : info' = [info EXCEPT ![c] = i]
      BY <1>2 DEF FromCache
    <2>2. i \in 1..Len(queueInfos) /\ queueInfos[i] = QueueOf(c)
      BY DEF Cached, TypeOK
    <2>3. UNCHANGED <<queueInfos, asked>>
      BY <1>2 DEF FromCache
    <2> QED
      BY <1>1, <2>1, <2>2, <2>3 DEF TypeOK, BoundToOwnQueue
  <1>3. CASE FromOptions(c)
    BY <1>1, <1>3 DEF FromOptions, AddInfo, TypeOK, BoundToOwnQueue
  <1> QED
    BY <1>2, <1>3

\* The answer of SQS does the same for the caller that waited for it.
LEMMA Answered ==
  ASSUME TypeOK, BoundToOwnQueue, NEW c \in Callers, SqsAnswers(c), UNCHANGED setup
  PROVE  /\ queueInfos' \in Seq(Queues)
         /\ info' \in [Callers -> 0..Len(queueInfos')]
         /\ BoundToOwnQueue'
         /\ info'[c] # 0
         /\ \A d \in Callers \ {c} : info'[d] = info[d]
         /\ asked' = asked \ {c}
  <1>1. QueueOf(c) \in Queues /\ \A d \in Callers : QueueOf(d)' = QueueOf(d)
    BY QueueOfCaller, SameQueue
  <1> QED
    BY <1>1 DEF SqsAnswers, AddInfo, TypeOK, BoundToOwnQueue

\* Steps that leave the wiring, the lookups and the loop alone.
LEMMA HookStep ==
  ASSUME IInv, UNCHANGED <<setup, wiringVars, infoVars, todo, messageHandlers>>,
         app' \in AppStates, running' \in SUBSET Handlers, RunningLate',
         app' \in {"loading", "creating"} => app \in {"loading", "creating"},
         app' \notin {"loading", "creating", "failed"} => app # "failed" /\ AllBound,
         app' \in {"bootstrapping", "up", "closing", "down"} => todo = {} /\ InLoop = {}
  PROVE  IInv'
  <1> USE DEF IInv, infoVars, wiringVars
  <1>1. \A c : QueueOf(c)' = QueueOf(c)
    BY SameQueue
  <1>2. TypeOK' /\ SitesDistinct' /\ BoundToOwnQueue'
    BY <1>1 DEF TypeOK, SitesDistinct, BoundToOwnQueue, QueueOfSite
  <1>3. LoopRuns' /\ OneAtATime' /\ HostsOwnQueue'
    BY <1>1 DEF LoopRuns, OneAtATime, InLoop, HostsOwnQueue
  <1>4. HostsRegistered'
    BY <1>1 DEF HostsRegistered, Through, LoopRuns
  <1>5. ProducersFirst'
    BY <1>1 DEF ProducersFirst, AllBound, Resolved, QueueOfSite
  <1> QED
    BY <1>2, <1>3, <1>4, <1>5

\* A process that fails keeps none of its consumers running.
LEMMA FailStep == ASSUME IInv, Fail, app \in {"creating", "initialising"} PROVE IInv'
  <1>1. running' = {}
    BY DEF IInv, Fail, RunningLate
  <1> QED
    BY <1>1, HookStep DEF Fail, IInv, TypeOK, AppStates, RunningLate

\* Loading the files touches the wiring only, and so does the factory of some options.
LEMMA LoadStep ==
  ASSUME IInv,
         \/ \E s \in Sites : InjectProducer(s)
         \/ \E q \in Queues : RegisterQueue(q) \/ OptionsReturn(q)
  PROVE  IInv'
  <1> USE DEF IInv
  <1>1. /\ app \in {"loading", "creating"}
        /\ UNCHANGED <<setup, app, queueInfos, asked, info, todo, messageHandlers, running>>
    BY DEF InjectProducer, RegisterQueue, OptionsReturn, infoVars
  <1>2. \A c : QueueOf(c)' = QueueOf(c)
    BY <1>1, SameQueue
  <1>3. /\ producerOptions' \in SUBSET Sites /\ registered' \in SUBSET Queues
        /\ providers' \in SUBSET Provider /\ unready' \in SUBSET unready
        /\ SitesDistinct'
    <2>1. ASSUME NEW s \in Sites, InjectProducer(s)
          PROVE  <1>3!:
      BY <1>1, <2>1 DEF InjectProducer, TypeOK, SitesDistinct, QueueOfSite
    <2>2. ASSUME NEW q \in Queues, RegisterQueue(q)
          PROVE  <1>3!:
      BY <1>1, <2>2 DEF RegisterQueue, TypeOK, SitesDistinct, QueueOfSite, Provider
    <2>3. ASSUME NEW q \in Queues, OptionsReturn(q)
          PROVE  <1>3!:
      BY <1>1, <2>3 DEF OptionsReturn, TypeOK, SitesDistinct, QueueOfSite
    <2> QED
      BY <2>1, <2>2, <2>3
  <1>4. TypeOK' /\ BoundToOwnQueue'
    BY <1>1, <1>2, <1>3 DEF TypeOK, BoundToOwnQueue
  <1>5. LoopRuns' /\ OneAtATime' /\ HostsRegistered' /\ HostsOwnQueue'
    BY <1>1, <1>2 DEF LoopRuns, OneAtATime, HostsRegistered, HostsOwnQueue, InLoop, Through
  <1>6. ProducersFirst' /\ RunningLate'
    BY <1>1 DEF ProducersFirst, RunningLate
  <1> QED
    BY <1>3, <1>4, <1>5, <1>6

\* A step of a producer.
LEMMA ProducerStep ==
  ASSUME IInv, NEW p \in Provider, ProducerFactory(p) \/ ProducerAnswered(p)
  PROVE  IInv'
  <1> USE DEF IInv
  <1>1. /\ app = "creating" /\ app' \in {"creating", "failed"}
        /\ UNCHANGED <<setup, wiringVars, todo, messageHandlers, running>>
        /\ p \in Callers /\ p \notin Handlers
    BY ServiceAssumption DEF ProducerFactory, ProducerAnswered, Callers
  <1>2. \A c : QueueOf(c)' = QueueOf(c)
    BY <1>1, SameQueue
  <1>3. /\ queueInfos' \in Seq(Queues)
        /\ info' \in [Callers -> 0..Len(queueInfos')]
        /\ BoundToOwnQueue'
        /\ \A h \in Handlers : info'[h] = info[h] /\ (h \in asked' <=> h \in asked)
        /\ asked' \in SUBSET Callers
    <2>1. CASE ProducerFactory(p) /\ AskSqs(p)
      BY <1>1, <1>2, <2>1 DEF AskSqs, TypeOK, BoundToOwnQueue
    <2>2. CASE FromCache(p) \/ FromOptions(p)
      BY <1>1, <2>2, AtOnce DEF TypeOK, Callers
    <2>3. CASE ProducerAnswered(p)
      BY <1>1, <2>3, Answered DEF ProducerAnswered, TypeOK, Callers
    <2> QED
      BY <2>1, <2>2, <2>3 DEF ProducerFactory
  <1>4. TypeOK' /\ SitesDistinct'
    BY <1>1, <1>3
    DEF TypeOK, AppStates, SitesDistinct, wiringVars, QueueOfSite
  <1>5. InLoop' = InLoop
    BY <1>3 DEF InLoop
  <1>6. LoopRuns' /\ OneAtATime' /\ HostsOwnQueue' /\ ProducersFirst' /\ RunningLate'
    BY <1>1, <1>2, <1>5
    DEF LoopRuns, OneAtATime, HostsOwnQueue, ProducersFirst, RunningLate
  <1>7. HostsRegistered'
    BY <1>1, <1>2, <1>3 DEF HostsRegistered, Through
  <1> QED
    BY <1>3, <1>4, <1>6, <1>7

\* A turn of the loop of onModuleInit, or its second half.
LEMMA LoopStep ==
  ASSUME IInv, NEW h \in Handlers, NextClass(h) \/ HandlerAnswered(h)
  PROVE  IInv'
  <1> USE DEF IInv
  <1>1. /\ app = "initialising" /\ UNCHANGED <<setup, wiringVars, running>>
        /\ running = {} /\ h \in Callers
        /\ \A g \in Handlers : QueueOf(g) \in Queues
    BY QueueOfCaller DEF NextClass, HandlerAnswered, Register, RunningLate
  <1>2. \A c : QueueOf(c)' = QueueOf(c)
    BY <1>1, SameQueue
  <1>3. /\ SitesDistinct' /\ providers' = providers /\ unready' = unready
        /\ \A s \in Sites : Resolved(s)'
    BY <1>1, <1>2
    DEF SitesDistinct, wiringVars, QueueOfSite, ProducersFirst, AllBound, Resolved
  \* The turn suspends.
  <1>4. CASE NextClass(h) /\ AskSqs(h)
    <2>1. /\ todo' = todo \ {h} /\ h \in todo /\ messageHandlers[QueueOf(h)] = None
          /\ asked' = asked \cup {h} /\ InLoop = {}
          /\ UNCHANGED <<app, messageHandlers, queueInfos, info>>
      BY <1>1, <1>4, AtOnce, ServiceAssumption
      DEF NextClass, AskSqs, Refused, HostExists, NeedsRequest, FromCache, FromOptions
    <2>2. InLoop' = {h}
      BY <2>1 DEF InLoop
    <2>3. TypeOK' /\ BoundToOwnQueue'
      BY <1>1, <1>2, <2>1 DEF TypeOK, BoundToOwnQueue, wiringVars
    <2>4. LoopRuns' /\ OneAtATime' /\ ProducersFirst' /\ RunningLate'
      BY <1>1, <1>2, <1>3, <2>1, <2>2
      DEF LoopRuns, OneAtATime, ProducersFirst, AllBound, RunningLate
    <2>5. HostsRegistered' /\ HostsOwnQueue'
      BY <1>1, <1>2, <2>1 DEF HostsRegistered, HostsOwnQueue, Through
    <2> QED
      BY <1>3, <2>3, <2>4, <2>5
  \* The turn ends.
  <1>5. CASE ~(NextClass(h) /\ AskSqs(h))
    <2>1. /\ queueInfos' \in Seq(Queues)
          /\ info' \in [Callers -> 0..Len(queueInfos')]
          /\ BoundToOwnQueue'
          /\ info'[h] # 0
          /\ \A d \in Callers \ {h} : info'[d] = info[d]
          /\ asked' = asked \ {h}
          /\ todo' = todo \ {h} /\ Register(h)
          /\ messageHandlers[QueueOf(h)] = None
      <3>1. CASE NextClass(h)
        <4>1. /\ FromCache(h) \/ FromOptions(h)
              /\ Register(h) /\ todo' = todo \ {h} /\ h \notin asked
              /\ messageHandlers[QueueOf(h)] = None
          BY <1>1, <1>5, <3>1 DEF NextClass, InLoop, Refused, HostExists
        <4> QED
          BY <1>1, <4>1, AtOnce
      <3>2. CASE HandlerAnswered(h)
        <4>1. h \in InLoop /\ SqsAnswers(h) /\ Register(h) /\ UNCHANGED todo
          BY <3>2 DEF HandlerAnswered, SqsAnswers, InLoop
        <4>2. h \notin todo /\ messageHandlers[QueueOf(h)] = None
          BY <4>1 DEF OneAtATime
        <4> QED
          BY <1>1, <4>1, <4>2, Answered
      <3> QED
        BY <3>1, <3>2
    <2>2. InLoop' = {}
      <3>1. \A g \in InLoop : g = h
        BY <1>5 DEF NextClass, HandlerAnswered, SqsAnswers, OneAtATime, InLoop
      <3> QED
        BY <2>1, <3>1 DEF InLoop
    <2>3. /\ app' \in {"initialising", "failed"}
          /\ app' = "initialising" =>
               messageHandlers' = [messageHandlers EXCEPT ![QueueOf(h)] = h]
          /\ messageHandlers' \in [Queues -> Handlers \cup {None}]
      BY <1>1, <2>1 DEF Register, TypeOK
    <2>4. TypeOK'
      BY <1>1, <2>1, <2>3 DEF TypeOK, AppStates, wiringVars
    <2>5. LoopRuns' /\ OneAtATime' /\ RunningLate'
      BY <1>1, <2>2, <2>3 DEF LoopRuns, OneAtATime, RunningLate
    <2>6. ProducersFirst'
      BY <1>1, <1>3, <2>1, <2>3, ServiceAssumption
      DEF ProducersFirst, AllBound, Callers, TypeOK
    \* The new host is the handler of its queue, and the loop has come to it.
    <2>8. HostsOwnQueue'
      <3>1. \/ messageHandlers' = messageHandlers
            \/ messageHandlers' = [messageHandlers EXCEPT ![QueueOf(h)] = h]
        BY <2>1 DEF Register
      <3>2. h \notin todo' /\ todo' \subseteq todo
        BY <2>1
      <3> QED
        BY <1>1, <1>2, <3>1, <3>2 DEF HostsOwnQueue, TypeOK
    \* A host that was there before was for another queue.
    <2>7. HostsRegistered'
      <3> SUFFICES ASSUME app' = "initialising", NEW g \in Handlers, Through(g)'
                   PROVE  messageHandlers'[QueueOf(g)] = g /\ info'[g] # 0
        BY <1>1, <1>2, <2>3 DEF HostsRegistered
      <3>1. CASE g = h
        BY <1>1, <2>1, <2>3, <3>1 DEF TypeOK
      <3>2. CASE g # h
        <4>1. Through(g)
          BY <2>1, <3>2 DEF Through
        <4>2. messageHandlers[QueueOf(g)] = g /\ info[g] # 0
          BY <1>1, <4>1 DEF HostsRegistered
        <4>3. QueueOf(g) # QueueOf(h)
          BY <2>1, <4>2, ServiceAssumption
        <4> QED
          BY <1>1, <2>1, <2>3, <3>2, <4>2, <4>3 DEF TypeOK, Callers
      <3> QED
        BY <3>1, <3>2
    <2> QED
      BY <1>3, <2>1, <2>4, <2>5, <2>6, <2>7, <2>8
  <1> QED
    BY <1>4, <1>5

\* Every step preserves the invariant.
LEMMA IInvStep == IInv /\ [Next]_vars => IInv'
  <1> SUFFICES ASSUME IInv, [Next]_vars PROVE IInv'
    OBVIOUS
  <1> USE DEF IInv
  <1>1. ASSUME NEW p \in Provider, ProducerFactory(p) \/ ProducerAnswered(p)
        PROVE  IInv'
    BY <1>1, ProducerStep
  <1>2. ASSUME NEW h \in Handlers, NextClass(h) \/ HandlerAnswered(h)
        PROVE  IInv'
    BY <1>2, LoopStep
  <1>3. ASSUME \/ \E p \in Provider : ProducerThrows(p)
               \/ \E h \in Handlers : ClassThrows(h)
               \/ \E c \in Callers : SqsRefuses(c)
               \/ \E q \in Queues : OptionsReject(q)
               \/ \E s \in Sites : SiteUnresolved(s)
        PROVE  IInv'
    BY <1>3, FailStep
    DEF ProducerThrows, ClassThrows, SqsRefuses, OptionsReject, SiteUnresolved
  <1>4. CASE ProvidersCreated
    BY <1>4, HookStep
    DEF ProvidersCreated, ProducersReady, AllBound, TypeOK, AppStates, RunningLate
  <1>5. CASE ModuleInitialised
    BY <1>5, HookStep
    DEF ModuleInitialised, LoopDone, ProducersFirst, TypeOK, AppStates, RunningLate
  <1>6. CASE OnApplicationBootstrap
    <2>1. setup.autoStart \in SUBSET Handlers
      BY ServiceAssumption DEF TypeOK, SetupType
    <2> QED
      BY <1>6, <2>1, HookStep
      DEF OnApplicationBootstrap, ProducersFirst, LoopRuns, AppStates, RunningLate
  <1>7. ASSUME NEW h \in Handlers, Start(h) \/ Stopped(h)
        PROVE  IInv'
    BY <1>7, HookStep
    DEF Start, Stopped, ProducersFirst, LoopRuns, TypeOK, AppStates, RunningLate
  <1>8. CASE Close
    BY <1>8, HookStep DEF Close, ProducersFirst, LoopRuns, TypeOK, AppStates, RunningLate
  <1>9. CASE OnApplicationShutdown
    BY <1>9, HookStep
    DEF OnApplicationShutdown, AllStopped, ProducersFirst, LoopRuns, TypeOK, AppStates, RunningLate
  <1>10. CASE UNCHANGED vars
    BY <1>10, HookStep DEF vars, ProducersFirst, LoopRuns, TypeOK, RunningLate
  <1>11. ASSUME \/ \E s \in Sites : InjectProducer(s)
                \/ \E q \in Queues : RegisterQueue(q) \/ OptionsReturn(q)
         PROVE  IInv'
    BY <1>11, LoadStep
  <1>12. CASE Loaded
    BY <1>12, HookStep DEF Loaded, TypeOK, AppStates, RunningLate
  <1> QED
    BY <1>1, <1>2, <1>3, <1>4, <1>5, <1>6, <1>7, <1>8, <1>9, <1>10, <1>11, <1>12
    DEF Next, LoadingStep, StartupStep

\* The invariant holds of every application, however it is put together.
THEOREM Inductive == Spec => []IInv
  BY InitOK, IInvStep, PTL DEF Spec

-------------------------------------------------------------------------------
(***************************************************************************)
(* What follows from it                                                    *)
(***************************************************************************)

\* Type correctness.
THEOREM TypeCorrect == Spec => []TypeOK
  BY Inductive, PTL DEF IInv

\* Producers and handlers are bound to their own queues, however the lookups of
\* getInfoForQueue overlap.
THEOREM OwnQueue == Spec => []BoundToOwnQueue
  BY Inductive, PTL DEF IInv

\* onModuleInit gives no two handlers of an application the same queue.
THEOREM OneConsumer == Spec => []OneConsumerPerQueue
  <1>1. IInv => OneConsumerPerQueue
    BY DEF IInv, TypeOK, OneConsumerPerQueue, RunningLate, LoopRuns, HostsRegistered,
       Through, InLoop
  <1> QED
    BY <1>1, Inductive, PTL

\* No consumer polls before all producers and handlers are ready.
THEOREM ReadyBeforeRunning == Spec => []NothingRunsEarly
  <1>1. IInv => NothingRunsEarly
    BY DEF IInv, NothingRunsEarly, RunningLate, LoopRuns, HostsRegistered, ProducersFirst,
       AllBound, Resolved, Through, InLoop
  <1> QED
    BY <1>1, Inductive, PTL

\* One site decides the options of all the producers of a queue.
THEOREM OneProducer == Spec => []OneProducerPerQueue
  <1>1. IInv => OneProducerPerQueue
    BY QueueOfCaller DEF IInv, SitesDistinct, OneProducerPerQueue, TypeOK
  <1> QED
    BY <1>1, Inductive, PTL

-------------------------------------------------------------------------------
(***************************************************************************)
(* Why an application fails                                                *)
(***************************************************************************)

\* A handler whose queue has a host shares it with another handler.
LEMMA SharedQueue ==
  ASSUME IInv, NEW h \in Handlers, h \in todo, HostExists(QueueOf(h))
  PROVE  \E g \in Handlers : g # h /\ QueueOf(g) = QueueOf(h)
  <1>1. QueueOf(h) \in Queues
    BY QueueOfCaller DEF IInv
  <1> QED
    BY <1>1 DEF IInv, TypeOK, HostsOwnQueue, HostExists

\* A lookup that throws has found no options.
LEMMA NoOptions ==
  ASSUME IInv, NEW c \in Callers, LookupThrows(c)
  PROVE  ApplicationAtFault \/ UnusableClass \/ QueueOf(c) \in unready
  <1>1. Origin(c) \in Sites \cup Handlers /\ QueueOf(c) \in Queues
    BY QueueOfCaller DEF IInv, Origin, Callers, Provider
  <1> QED
    BY <1>1
    DEF LookupThrows, NeverReturned, Options, QueueOf, ApplicationAtFault, UnusableClass

\* What does not depend on how far the start has come.
LEMMA SameFaults ==
  ASSUME UNCHANGED <<setup, providers>>
  PROVE  /\ ApplicationAtFault => ApplicationAtFault'
         /\ UnusableClass => UnusableClass'
         /\ LateSite => LateSite'
  <1>1. \A c : QueueOf(c)' = QueueOf(c)
    BY SameQueue
  <1> QED
    BY <1>1 DEF ApplicationAtFault, UnusableClass, LateSite, Resolved, QueueOfSite

\* An exception leaves everything as it was.
LEMMA FailKeepsFaults ==
  ASSUME Fail
  PROVE  /\ ApplicationAtFault => ApplicationAtFault'
         /\ LookedUpTooEarly => LookedUpTooEarly'
         /\ UnusableClass => UnusableClass'
         /\ LateSite => LateSite'
         /\ asked # {} => asked' # {}
  <1>1. UNCHANGED <<setup, providers, unready, info, asked>>
    BY DEF Fail, wiringVars, infoVars
  <1>2. \A c : QueueOf(c)' = QueueOf(c)
    BY <1>1, SameQueue
  <1> QED
    BY <1>1, <1>2, SameFaults DEF LookedUpTooEarly

\* No step fails without a cause, and no cause goes away.
LEMMA CauseStep ==
  ASSUME Terminated, IInv, FailsOnlyForCause, [Next]_vars
  PROVE  FailsOnlyForCause'
  <1> DEFINE Fault == ApplicationAtFault \/ LookedUpTooEarly \/ UnusableClass \/ LateSite
  <1> SUFFICES ASSUME app' = "failed" PROVE asked' # {} \/ Fault'
    BY DEF FailsOnlyForCause
  <1>1. CASE app = "failed"
    <2>1. UNCHANGED vars
      BY <1>1 DEF Next, LoadingStep, StartupStep, InjectProducer, RegisterQueue, Loaded,
        OptionsReturn, OptionsReject, SiteUnresolved, ProducerFactory, ProducerAnswered,
        ProducerThrows, NextClass, HandlerAnswered, ClassThrows, SqsRefuses, ProvidersCreated,
        ModuleInitialised, OnApplicationBootstrap, Start, Stopped, Close, OnApplicationShutdown
    <2>2. Fail
      BY <1>1, <2>1 DEF vars, Fail
    <2> QED
      BY <1>1, <2>2, FailKeepsFaults DEF FailsOnlyForCause
  <1>2. CASE app # "failed"
    <2>1. ASSUME NEW p \in Provider, ProducerFactory(p) \/ ProducerAnswered(p)
          PROVE  Fault'
      <3>1. p.site \in setup.misconfigured /\ UNCHANGED <<setup, providers>>
        BY <1>2, <2>1 DEF ProducerFactory, ProducerAnswered, ProducerAccepts, wiringVars
      <3> QED
        BY <3>1, SameFaults DEF ApplicationAtFault
    <2>2. ASSUME NEW h \in Handlers, NextClass(h) \/ HandlerAnswered(h)
          PROVE  Fault'
      <3>1. h \in setup.misconfigured /\ UNCHANGED <<setup, providers>>
        BY <1>2, <2>2 DEF NextClass, HandlerAnswered, Register, ConsumerAccepts, wiringVars
      <3> QED
        BY <3>1, SameFaults DEF ApplicationAtFault
    <2>3. ASSUME NEW p \in Provider, ProducerThrows(p)
          PROVE  Fault'
      <3>1. p \in providers /\ info[p] = 0 /\ LookupThrows(p) /\ Fail /\ p \in Callers
        BY <2>3 DEF ProducerThrows, Idle, Callers
      <3>2. ApplicationAtFault \/ UnusableClass \/ LookedUpTooEarly
        BY <3>1, NoOptions DEF LookedUpTooEarly
      <3> QED
        BY <3>1, <3>2, FailKeepsFaults
    \* By the time the loop of onModuleInit runs, all options are there.
    <2>4. ASSUME NEW h \in Handlers, ClassThrows(h)
          PROVE  Fault'
      <3>1. Fail /\ unready = {} /\ h \in Callers
        BY <2>4 DEF ClassThrows, IInv, ProducersFirst, AllBound, Callers
      <3>2. CASE h \in setup.improper
        BY <3>1, <3>2, FailKeepsFaults DEF ApplicationAtFault
      <3>3. CASE HostExists(QueueOf(h))
        <4>1. \E g \in Handlers : g # h /\ QueueOf(g) = QueueOf(h)
          BY <2>4, <3>3, SharedQueue DEF ClassThrows
        <4> QED
          BY <3>1, <4>1, FailKeepsFaults DEF ApplicationAtFault
      <3>4. CASE LookupThrows(h)
        BY <3>1, <3>4, NoOptions, FailKeepsFaults
      <3> QED
        BY <2>4, <3>2, <3>3, <3>4 DEF ClassThrows, Refused
    <2>5. ASSUME NEW c \in Callers, SqsRefuses(c)
          PROVE  asked' # {}
      BY <2>5 DEF SqsRefuses, Fail, infoVars
    <2>6. ASSUME NEW q \in Queues, OptionsReject(q)
          PROVE  Fault'
      BY <2>6, FailKeepsFaults DEF OptionsReject, NeverReturned, ApplicationAtFault, UnusableClass
    <2>7. ASSUME NEW s \in Sites, SiteUnresolved(s)
          PROVE  Fault'
      <3>1. ApplicationAtFault \/ LateSite
        BY <2>7 DEF SiteUnresolved, ApplicationAtFault, LateSite, QueueOfSite
      <3> QED
        BY <2>7, <3>1, FailKeepsFaults DEF SiteUnresolved
    <2> QED
      BY <1>2, <2>1, <2>2, <2>3, <2>4, <2>5, <2>6, <2>7
      DEF Next, LoadingStep, StartupStep, InjectProducer, RegisterQueue, Loaded, OptionsReturn,
        ProvidersCreated, ModuleInitialised, OnApplicationBootstrap, Start, Stopped, Close,
        OnApplicationShutdown, vars
  <1> QED
    BY <1>1, <1>2

\* With the statements of onModuleInit separated, a start without a question to SQS fails
\* only through a fault of the application or one of three faults of the library:
\* getInfoForQueue looking up options that are on their way, useClass, a site loaded late.
THEOREM OnlyForCause ==
  ASSUME Terminated
  PROVE  Spec => []FailsOnlyForCause
  <1>1. Init => FailsOnlyForCause
    BY DEF Init, FailsOnlyForCause
  <1>2. IInv /\ FailsOnlyForCause /\ [Next]_vars => FailsOnlyForCause'
    BY CauseStep
  <1> QED
    BY <1>1, <1>2, Inductive, PTL DEF Spec

-------------------------------------------------------------------------------
(***************************************************************************)
(* The statements of onModuleInit as JavaScript reads them                 *)
(***************************************************************************)

NobodyHosts == \A q \in Queues : messageHandlers[q] = None

\* With the lines 61 to 72 of sqs-client.service.ts read as the one statement they are, an
\* application that has a message handler does not come up, however it is put together:
\* the loop of onModuleInit does not get through its first turn.
THEOREM NeverUpAsWritten ==
  ASSUME ~Terminated, Handlers # {}
  PROVE  Spec => [](app \notin {"bootstrapping", "up", "closing", "down"})
  <1>1. Init => NobodyHosts
    BY DEF Init, NobodyHosts
  <1>2. NobodyHosts /\ [Next]_vars => NobodyHosts'
    <2>1. ASSUME NEW h \in Handlers, NextClass(h) \/ HandlerAnswered(h)
          PROVE  messageHandlers' = messageHandlers
      BY <2>1 DEF NextClass, HandlerAnswered, Register
    <2>2. [Next]_vars => messageHandlers' = messageHandlers
      BY <2>1
      DEF Next, LoadingStep, StartupStep, InjectProducer, RegisterQueue, Loaded,
        OptionsReturn, OptionsReject, SiteUnresolved, ProducerFactory, ProducerAnswered,
        ProducerThrows, ClassThrows, SqsRefuses, ProvidersCreated, ModuleInitialised,
        OnApplicationBootstrap, Start, Stopped, Close, OnApplicationShutdown, Fail, vars
    <2> QED
      BY <2>2 DEF NobodyHosts
  <1>3. ASSUME IInv, NobodyHosts, app \in {"bootstrapping", "up", "closing", "down"}
        PROVE  FALSE
    <2>1. PICK h \in Handlers : TRUE
      OBVIOUS
    <2>2. Through(h)
      BY <1>3 DEF IInv, LoopRuns, InLoop, Through
    <2>3. messageHandlers[QueueOf(h)] = h /\ QueueOf(h) \in Queues
      BY <1>3, <2>2, QueueOfCaller DEF IInv, HostsRegistered
    <2> QED
      BY <1>3, <2>3, ServiceAssumption DEF NobodyHosts
  <1>4. IInv /\ NobodyHosts => app \notin {"bootstrapping", "up", "closing", "down"}
    BY <1>3
  <1> QED
    BY <1>1, <1>2, <1>4, Inductive, PTL DEF Spec
===============================================================================

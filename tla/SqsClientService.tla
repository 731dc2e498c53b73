--------------------------- MODULE SqsClientService ---------------------------
(***************************************************************************)
(* How one application comes up and goes down.  While its source files are *)
(* loaded, decorators leave their options in producerOptions and each      *)
(* registerQueue makes providers of those that are there by then.  Nest    *)
(* calls the factories of all providers at once, then onModuleInit gives   *)
(* each message handler its consumer, one after the other, and then the    *)
(* handlers start polling.  Producers and handlers learn the URL of their  *)
(* queue from getInfoForQueue, whose cache is looked at before its await   *)
(* and added to after it.                                                  *)
(*                                                                         *)
(* What a consumer does between start() and stop() is the subject of       *)
(* SqsConsumerLifecycle.                                                   *)
(***************************************************************************)
EXTENDS Naturals, Sequences, FiniteSets

CONSTANTS
  Queues,     \* queue names
  Sites,      \* the places with an @InjectProducer decorator
  Handlers,   \* the classes decorated with @SqsMessageHandler
  Setups,     \* the ways the application may be put together
  Terminated, \* do the three statements of lines 61 to 72 end where their lines end?
  None        \* undefined

\* A provider of a producer: the site whose options it has, and the queue whose
\* registration made it.
Provider == [site : Sites, of : Queues]

Callers == Provider \cup Handlers

SetupType == [
  queueOf : [Sites \cup Handlers -> Queues],
  options : [Queues -> {"unregistered", "url", "named", "missing", "rejects", "useClass"}],
                                       \* of registerQueue.  "missing": named, and SQS does not
                                       \* know the name; "rejects": the application's factory does
  slow : SUBSET Queues,                \* the options come from a factory that has to wait
  improper : SUBSET Handlers,          \* does not extend MessageHandler
  misconfigured : SUBSET (Sites \cup Handlers), \* options a constructor refuses
  autoStart : SUBSET Handlers]         \* startOnApplicationBootstrap

ASSUME ServiceAssumption ==
  /\ Setups \subseteq SetupType
  /\ Provider \cap Handlers = {}
  /\ None \notin Handlers
  /\ Terminated \in BOOLEAN

VARIABLES
  setup,           \* how this application is put together
  app,             \* where Nest has got to
  producerOptions, \* the list of the decorators: the sites whose options it holds
  registered,      \* queues registered so far
  providers,       \* providers of producers
  unready,         \* queues whose options are not there yet
  queueInfos,      \* this.queueInfos: the queue of each info
  asked,           \* callers awaiting the answer to GetQueueUrl
  info,            \* the position in queueInfos of the info each caller was given
  todo,            \* handlers the loop of onModuleInit has not come to
  messageHandlers, \* this.messageHandlers
  running          \* handlers whose consumer has been started and not stopped

wiringVars == <<producerOptions, registered, providers, unready>>
infoVars == <<queueInfos, asked, info>>
vars == <<setup, app, wiringVars, infoVars, todo, messageHandlers, running>>

AppStates ==
  {"loading", "creating", "initialising", "bootstrapping", "up", "closing", "down", "failed"}

TypeOK ==
  /\ setup \in Setups
  /\ app \in AppStates
  /\ producerOptions \in SUBSET Sites
  /\ registered \in SUBSET Queues
  /\ providers \in SUBSET Provider
  /\ unready \in SUBSET Queues
  /\ queueInfos \in Seq(Queues)
  /\ asked \in SUBSET Callers
  /\ info \in [Callers -> 0..Len(queueInfos)]
  /\ todo \in SUBSET Handlers
  /\ messageHandlers \in [Queues -> Handlers \cup {None}]
  /\ running \in SUBSET Handlers

Init ==
  /\ setup \in Setups
  /\ app = "loading"
  /\ producerOptions = {}
  /\ registered = {}
  /\ providers = {}
  /\ unready = setup.slow
  /\ queueInfos = <<>>
  /\ asked = {}
  /\ info = [c \in Callers |-> 0]
  /\ todo = Handlers
  /\ messageHandlers = [q \in Queues |-> None]
  /\ running = {}

\* A provider has the options of its site.
Origin(c) == IF c \in Handlers THEN c ELSE c.site
QueueOf(c) == setup.queueOf[Origin(c)]
Options(c) == setup.options[QueueOf(c)]

\* An exception during the start ends the process.
Fail ==
  /\ app' = "failed"
  /\ UNCHANGED <<setup, wiringVars, infoVars, todo, messageHandlers, running>>

-------------------------------------------------------------------------------
(***************************************************************************)
(* Loading the source files: their import order is the order of the steps  *)
(***************************************************************************)

QueueOfSite(s) == setup.queueOf[s]

\* Mutant of InjectProducer: the list is not searched first.
InjectAnother(s) ==
  /\ app = "loading"
  /\ producerOptions' = producerOptions \cup {s}
  /\ UNCHANGED <<setup, app, registered, providers, unready, infoVars, todo,
                 messageHandlers, running>>

\* The options of a second site for a queue are dropped.
InjectProducer(s) ==
  /\ app = "loading"
  /\ \A o \in producerOptions : QueueOfSite(o) # QueueOfSite(s)
  /\ producerOptions' = producerOptions \cup {s}
  /\ UNCHANGED <<setup, app, registered, providers, unready, infoVars, todo,
                 messageHandlers, running>>

\* Each registration makes providers of all the options found so far, whatever
\* their queue.
RegisterQueue(q) ==
  /\ app = "loading"
  /\ setup.options[q] # "unregistered"
  /\ q \notin registered
  /\ registered' = registered \cup {q}
  /\ providers' = providers \cup {[site |-> o, of |-> q] : o \in producerOptions}
  /\ UNCHANGED <<setup, app, producerOptions, unready, infoVars, todo, messageHandlers, running>>

\* All decorators have been evaluated; what Nest is given is the module tree.
Loaded ==
  /\ app = "loading"
  /\ \A s \in Sites : \E o \in producerOptions : QueueOfSite(o) = QueueOfSite(s)
  /\ \A q \in Queues : setup.options[q] # "unregistered" => q \in registered
  /\ app' = "creating"
  /\ UNCHANGED <<setup, wiringVars, infoVars, todo, messageHandlers, running>>

-------------------------------------------------------------------------------
(***************************************************************************)
(* getInfoForQueue                                                         *)
(***************************************************************************)

\* Mutant of Cached: finds the first info, of whatever queue.
CachedAny(q) == DOMAIN queueInfos

\* Mutant of Cached: the position is off by one.
CachedNext(q) == {i + 1 : i \in {i \in DOMAIN queueInfos : queueInfos[i] = q}}

Cached(q) == {i \in DOMAIN queueInfos : queueInfos[i] = q}

\* An info for q is added, whether or not there is one by now, and given to c.
AddInfo(c) ==
  /\ queueInfos' = Append(queueInfos, QueueOf(c))
  /\ info' = [info EXCEPT ![c] = Len(queueInfos) + 1]

\* Found in the cache, or built from the options: no request is needed.
FromCache(c) ==
  /\ \E i \in Cached(QueueOf(c)) :
       /\ \A j \in Cached(QueueOf(c)) : i <= j
       /\ info' = [info EXCEPT ![c] = i]
  /\ UNCHANGED <<queueInfos, asked>>

FromOptions(c) ==
  /\ Cached(QueueOf(c)) = {}
  /\ QueueOf(c) \notin unready
  /\ Options(c) = "url"
  /\ AddInfo(c)
  /\ UNCHANGED asked

NeedsRequest(c) ==
  /\ Cached(QueueOf(c)) = {}
  /\ QueueOf(c) \notin unready
  /\ Options(c) \in {"named", "missing"}

AskSqs(c) ==
  /\ NeedsRequest(c)
  /\ asked' = asked \cup {c}
  /\ UNCHANGED <<queueInfos, info>>

\* Options no factory ever returns: the application's rejects, and for a useClass the
\* library provides the class itself, with useValue, where an instance of it is meant.
NeverReturned == {"rejects", "useClass"}

\* Mutant of LookupThrows: the exception of moduleRef.get is caught and forgotten.
LookupNeverAnswers(c) == Cached(QueueOf(c)) = {} /\ QueueOf(c) \in unready

\* moduleRef.get throws for a queue nobody registered; for one whose options are
\* not there yet it returns null, and reading its url throws.
LookupThrows(c) ==
  /\ Cached(QueueOf(c)) = {}
  /\ \/ Options(c) \in {"unregistered"} \cup NeverReturned
     \/ QueueOf(c) \in unready

UrlKnown(c) == Options(c) = "named"

\* The request of c has been answered with a URL.
SqsAnswers(c) ==
  /\ c \in asked
  /\ UrlKnown(c)
  /\ AddInfo(c)
  /\ asked' = asked \ {c}

\* It may always fail, and does when there is no such queue.
SqsRefuses(c) ==
  /\ app \in {"creating", "initialising"}
  /\ c \in asked
  /\ Fail

-------------------------------------------------------------------------------
(***************************************************************************)
(* Producers: their factories run at the same time                         *)
(***************************************************************************)

Idle(p) == p \in providers /\ info[p] = 0 /\ p \notin asked

\* The constructor throws for a batch size out of range.
ProducerAccepts(p) == p.site \notin setup.misconfigured

ProducerFactory(p) ==
  /\ app = "creating"
  /\ Idle(p)
  /\ \/ /\ AskSqs(p)
        /\ UNCHANGED app
     \/ /\ FromCache(p) \/ FromOptions(p)
        /\ app' = IF ProducerAccepts(p) THEN app ELSE "failed"
  /\ UNCHANGED <<setup, wiringVars, todo, messageHandlers, running>>

ProducerAnswered(p) ==
  /\ app = "creating"
  /\ SqsAnswers(p)
  /\ app' = IF ProducerAccepts(p) THEN app ELSE "failed"
  /\ UNCHANGED <<setup, wiringVars, todo, messageHandlers, running>>

ProducerThrows(p) ==
  /\ app = "creating"
  /\ Idle(p)
  /\ LookupThrows(p)
  /\ Fail

\* The factory of a queue's options returns ...
OptionsReturn(q) ==
  /\ app = "creating"
  /\ q \in unready
  /\ unready' = unready \ {q}
  /\ UNCHANGED <<setup, app, producerOptions, registered, providers, infoVars, todo,
                 messageHandlers, running>>

\* ... or rejects.
OptionsReject(q) ==
  /\ app = "creating"
  /\ setup.options[q] \in NeverReturned
  /\ Fail

\* A site is given the producer of its queue, if a registration made one.
Resolved(s) == \E p \in providers : QueueOf(p) = QueueOfSite(s)

SiteUnresolved(s) ==
  /\ app = "creating"
  /\ ~Resolved(s)
  /\ Fail

\* Nest waits for every provider before it calls a hook.
ProducersReady ==
  /\ \A p \in providers : info[p] # 0
  /\ \A s \in Sites : Resolved(s)
  /\ \A q \in Queues : q \notin unready /\ setup.options[q] \notin NeverReturned

ProvidersCreated ==
  /\ app = "creating"
  /\ ProducersReady
  /\ app' = "initialising"
  /\ UNCHANGED <<setup, wiringVars, infoVars, todo, messageHandlers, running>>

-------------------------------------------------------------------------------
(***************************************************************************)
(* onModuleInit: the loop over the discovered classes                      *)
(***************************************************************************)

\* Mutant of HostExists: the handler that comes last replaces the others.
NoHostExists(q) == FALSE

\* Mutant of HostExists: a queue somebody has looked up is taken for hosted.
InfoExists(q) == Cached(q) # {}

HostExists(q) == messageHandlers[q] # None

\* The loop has begun with h, and is waiting for the URL of its queue.
InLoop == {h \in Handlers : h \in asked}

\* Mutant of Register: the consumer is started as soon as it is there.
RegisterAndStart(h) ==
  /\ messageHandlers' = [messageHandlers EXCEPT ![QueueOf(h)] = h]
  /\ app' = app
  /\ running' = running \cup {h}

\* The constructor throws for a batch size out of range, and for a heartbeat without a
\* visibility timeout or not shorter than it.
ConsumerAccepts(h) == h \notin setup.misconfigured

\* The consumer is constructed and handed to the handler, unless the constructor
\* throws.  No statement of lines 61 to 72 ends in a semicolon, and the next begins
\* with a parenthesis: JavaScript reads them as one, which calls the consumer it
\* has constructed, and a consumer is not a function.
Register(h) ==
  /\ IF ConsumerAccepts(h) /\ Terminated
     THEN /\ messageHandlers' = [messageHandlers EXCEPT ![QueueOf(h)] = h]
          /\ UNCHANGED app
     ELSE app' = "failed" /\ UNCHANGED messageHandlers
  /\ UNCHANGED running

Refused(h) == h \in setup.improper \/ HostExists(QueueOf(h)) \/ LookupThrows(h)

NextClass(h) ==
  /\ app = "initialising"
  /\ InLoop = {}
  /\ h \in todo
  /\ ~Refused(h)
  /\ todo' = todo \ {h}
  /\ \/ AskSqs(h) /\ UNCHANGED <<app, messageHandlers, running>>
     \/ (FromCache(h) \/ FromOptions(h)) /\ Register(h)
  /\ UNCHANGED <<setup, wiringVars>>

HandlerAnswered(h) ==
  /\ app = "initialising"
  /\ SqsAnswers(h)
  /\ Register(h)
  /\ UNCHANGED <<setup, wiringVars, todo>>

ClassThrows(h) ==
  /\ app = "initialising"
  /\ InLoop = {}
  /\ h \in todo
  /\ Refused(h)
  /\ Fail

LoopDone == todo = {} /\ InLoop = {}

ModuleInitialised ==
  /\ app = "initialising"
  /\ LoopDone
  /\ app' = "bootstrapping"
  /\ UNCHANGED <<setup, wiringVars, infoVars, todo, messageHandlers, running>>

-------------------------------------------------------------------------------
(***************************************************************************)
(* Hooks of the handlers, and the shutdown                                 *)
(***************************************************************************)

OnApplicationBootstrap ==
  /\ app = "bootstrapping"
  /\ app' = "up"
  /\ running' = setup.autoStart
  /\ UNCHANGED <<setup, wiringVars, infoVars, todo, messageHandlers>>

\* The application calls start() of a handler.
Start(h) ==
  /\ app = "up"
  /\ running' = running \cup {h}
  /\ UNCHANGED <<setup, app, wiringVars, infoVars, todo, messageHandlers>>

\* app.close() calls onModuleDestroy of every handler ...
Close ==
  /\ app = "up"
  /\ app' = "closing"
  /\ UNCHANGED <<setup, wiringVars, infoVars, todo, messageHandlers, running>>

\* ... each waits for the stop() of its consumer ...
Stopped(h) ==
  /\ app \in {"up", "closing"}
  /\ h \in running
  /\ running' = running \ {h}
  /\ UNCHANGED <<setup, app, wiringVars, infoVars, todo, messageHandlers>>

AllStopped == running = {}

\* ... and when all have, the client they share is destroyed.
OnApplicationShutdown ==
  /\ app = "closing"
  /\ AllStopped
  /\ app' = "down"
  /\ UNCHANGED <<setup, wiringVars, infoVars, todo, messageHandlers, running>>

-------------------------------------------------------------------------------
LoadingStep ==
  \/ \E s \in Sites : InjectProducer(s)
  \/ \E q \in Queues : RegisterQueue(q)
  \/ Loaded

StartupStep ==
  \/ \E q \in Queues : OptionsReturn(q) \/ OptionsReject(q)
  \/ \E s \in Sites : SiteUnresolved(s)
  \/ \E p \in Provider : ProducerFactory(p) \/ ProducerAnswered(p) \/ ProducerThrows(p)
  \/ \E h \in Handlers : NextClass(h) \/ HandlerAnswered(h) \/ ClassThrows(h)
  \/ \E c \in Callers : SqsRefuses(c)
  \/ ProvidersCreated \/ ModuleInitialised \/ OnApplicationBootstrap

ShutdownStep == (\E h \in Handlers : app = "closing" /\ Stopped(h)) \/ OnApplicationShutdown

Next ==
  \/ LoadingStep \/ StartupStep
  \/ \E h \in Handlers : Start(h) \/ Stopped(h)
  \/ Close \/ OnApplicationShutdown

\* Source files load, GetQueueUrl is answered or fails, factories and hooks run on,
\* and a stop() returns (StopCompletes of SqsConsumerLifecycle).
Fairness == WF_vars(LoadingStep) /\ WF_vars(StartupStep) /\ WF_vars(ShutdownStep)

Spec == Init /\ [][Next]_vars
FairSpec == Spec /\ Fairness

-------------------------------------------------------------------------------
(***************************************************************************)
(* Properties                                                              *)
(***************************************************************************)

\* "Ensure the queue only has one consumer and one message handler"
\* (sqs-client.service.ts:52): no two handlers of the application poll one queue.
OneConsumerPerQueue ==
  \A g, h \in running : QueueOf(g) = QueueOf(h) => g = h

\* Nobody is bound to a queue that is not its own, however the lookups overlapped
\* and whichever of several infos for a queue was found.
BoundToOwnQueue ==
  \A c \in Callers : info[c] # 0 => queueInfos[info[c]] = QueueOf(c)

\* "To keep it simple we only allow one producer per queue"
\* (inject-producer.decorator.ts:13): however many providers the registrations made
\* and in whatever order the files were loaded, those for a queue share the options
\* of one site.
OneProducerPerQueue ==
  \A p, r \in providers : QueueOf(p) = QueueOf(r) => p.site = r.site

\* No consumer polls before each site has a producer with an info of its queue and
\* each handler its consumer: a handler may use any of them.
NothingRunsEarly ==
  running # {} =>
    /\ \A s \in Sites : \E p \in providers : QueueOf(p) = QueueOfSite(s) /\ info[p] # 0
    /\ \A h \in Handlers : messageHandlers[QueueOf(h)] = h

\* What an application is to blame for: a queue it uses and does not register, a factory
\* that rejects, wrong classes, options out of range, two handlers for a queue.
ApplicationAtFault ==
  \/ \E o \in Sites \cup Handlers : setup.options[setup.queueOf[o]] = "unregistered"
  \/ \E q \in Queues : setup.options[q] = "rejects"
  \/ setup.improper # {} \/ setup.misconfigured # {}
  \/ \E g, h \in Handlers : g # h /\ QueueOf(g) = QueueOf(h)

\* What the library is to blame for: it looks options up that are still on their way,
LookedUpTooEarly == \E p \in providers : info[p] = 0 /\ QueueOf(p) \in unready

\* it makes nothing of a useClass,
UnusableClass == \E q \in Queues : setup.options[q] = "useClass"

\* and it makes no producer for a site that is loaded after the last registration.
LateSite ==
  \E s \in Sites : setup.options[QueueOfSite(s)] # "unregistered" /\ ~Resolved(s)

\* "Asynchronously sets up the module for use with a specific SQS queue. It will inject
\* producers injected by the `@InjectProducer` decorator" (sqs.module.ts:89): that the
\* options of a queue take their time is no reason for an application to fail.
AsyncOptionsAwaited ==
  app = "failed" => asked # {} \/ ApplicationAtFault \/ UnusableClass \/ LateSite

\* The start fails for no other cause than these: a question to SQS that may be refused,
\* a fault of the application, one of the three faults of the library.
FailsOnlyForCause ==
  app = "failed" =>
    \/ asked # {}
    \/ ApplicationAtFault
    \/ LookedUpTooEarly \/ UnusableClass \/ LateSite

\* The application comes up or fails; it does not hang half way.
StartupEnds == <>(app \in {"up", "failed"})
===============================================================================

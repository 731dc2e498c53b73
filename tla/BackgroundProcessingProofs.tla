----------------------- MODULE BackgroundProcessingProofs -----------------------
(***************************************************************************)
(* Proofs about BackgroundProcessing, for any number of messages, any      *)
(* events and any redrive limit.                                           *)
(***************************************************************************)
EXTENDS BackgroundProcessing, FiniteSetTheorems, TLAPS

-------------------------------------------------------------------------------
(***************************************************************************)
(* The inductive invariant                                                 *)
(***************************************************************************)

FiniteOutstanding == IsFiniteSet(outstanding)

\* What is being processed has been received.
CurrentReceived == current # None => receives[current] > 0

\* A lookup is made only for a body that parses.
LookupParses == step = "lookup" => event[current].parses

\* A handler fulfils only events it understands, after it has asked for their email.
HandledUnderstood ==
  \A m \in handled : /\ event[m].parses
                     /\ ~Throws(event[m])
                     /\ WantsEmail(event[m]) => m \in requested

\* A delete request is on its way only for a handled message ...
AboutToDelete == step \in {"fulfilled", "doomed"} => current \in handled

\* ... so only handled messages are deleted.
DeletedHandled == \A m \in Messages : queue[m] = "deleted" => m \in handled

IInv ==
  /\ TypeOK
  /\ FiniteOutstanding
  /\ CurrentReceived
  /\ LookupParses
  /\ HandledUnderstood
  /\ AboutToDelete
  /\ DeletedHandled

-------------------------------------------------------------------------------
(***************************************************************************)
(* Lemmas about the operators                                              *)
(***************************************************************************)

\* Executing finitely many requests leaves counts.
LEMMA ExecuteType ==
  ASSUME TypeOK, NEW rs, IsFiniteSet(rs), Execute(rs)
  PROVE  delayed' \in [Messages -> Nat] /\ emails' \in [Messages -> Nat]
  <1> DEFINE copies(to, m) == {r \in rs : r.to = to /\ r.msg = m}
  <1>1. ASSUME NEW m \in Messages, NEW to
        PROVE  Cardinality(copies(to, m)) \in Nat
    <2>1. copies(to, m) \subseteq rs
      OBVIOUS
    <2>2. IsFiniteSet(copies(to, m))
      BY <2>1, FS_Subset
    <2> HIDE DEF copies
    <2> QED
      BY <2>2, FS_CardinalityType
  <1>2. /\ delayed' = [m \in Messages |-> delayed[m] + Cardinality(copies("delayQueue", m))]
        /\ emails' = [m \in Messages |-> emails[m] + Cardinality(copies("sendgrid", m))]
    BY DEF Execute
  <1>3. delayed \in [Messages -> Nat] /\ emails \in [Messages -> Nat]
    BY DEF TypeOK
  <1> HIDE DEF copies
  <1> QED
    BY <1>1, <1>2, <1>3

\* The end of the process leaves it polling, with nothing under way.
LEMMA DieEffect ==
  ASSUME TypeOK, FiniteOutstanding, Die(outstanding)
  PROVE  /\ delayed' \in [Messages -> Nat]
         /\ emails' \in [Messages -> Nat]
         /\ outstanding' = {}
         /\ IsFiniteSet(outstanding')
         /\ step' = "polling"
         /\ current' = None
  <1>1. PICK done \in SUBSET outstanding : Execute(done)
    BY DEF Die
  <1>2. IsFiniteSet(done)
    BY FS_Subset DEF FiniteOutstanding
  <1> QED
    BY <1>1, <1>2, ExecuteType, FS_EmptySet DEF Die, Poll

\* A handler asks for at most two things.
LEMMA AskedType ==
  ASSUME TypeOK, NEW m \in Messages, receives[m] > 0
  PROVE  Asked(m) \in SUBSET Requests /\ IsFiniteSet(Asked(m))
  <1> DEFINE d == [to |-> "delayQueue", msg |-> m, attempt |-> receives[m]]
             s == [to |-> "sendgrid", msg |-> m, attempt |-> receives[m]]
  <1>1. Asked(m) \subseteq {d, s}
    BY DEF Asked
  <1>2. receives[m] \in 1..MaxReceiveCount
    BY ProcessingAssumption DEF TypeOK
  <1>3. {d, s} \subseteq Requests
    BY <1>2 DEF Requests
  <1>4. IsFiniteSet({d, s})
    <2> HIDE DEF d, s
    <2>1. {d, s} = {d} \cup {s}
      OBVIOUS
    <2>2. IsFiniteSet({d}) /\ IsFiniteSet({s})
      BY FS_Singleton
    <2> QED
      BY <2>1, <2>2, FS_Union
  <1> QED
    BY <1>1, <1>3, <1>4, FS_Subset

\* Deleting changes nothing but the message's place.
LEMMA DeleteType ==
  ASSUME TypeOK, NEW m \in Messages, Delete(m)
  PROVE  /\ queue' \in [Messages -> {"unsent", "sending", "lost", "visible",
                                     "inFlight", "deleted", "dead"}]
         /\ \A n \in Messages : queue'[n] = "deleted" => n = m \/ queue[n] = "deleted"
  BY DEF Delete, TypeOK

-------------------------------------------------------------------------------
(***************************************************************************)
(* The steps                                                               *)
(***************************************************************************)

LEMMA InitOK == Init => IInv
  BY ProcessingAssumption, FS_EmptySet
  DEF Init, IInv, TypeOK, FiniteOutstanding, CurrentReceived, LookupParses,
      HandledUnderstood, AboutToDelete, DeletedHandled

\* The API and the queue move a message, but never to where it is deleted.
LEMMA QueueStep ==
  ASSUME IInv, NEW m \in Messages,
         \/ ApiAnswers(m) \/ Enqueue(m) \/ EnqueueFails(m) \/ TestSends(m)
         \/ VisibilityExpires(m) \/ Redrive(m)
  PROVE  IInv'
  <1>1. UNCHANGED <<event, receives, step, current, effectVars, handled>>
    BY DEF ApiAnswers, Enqueue, EnqueueFails, TestSends, ProduceRandomMessage,
       SendTestTemplateEmail, VisibilityExpires, Redrive
  <1>2. PICK place \in {"sending", "visible", "lost", "dead"} :
          queue' = [queue EXCEPT ![m] = place]
    BY DEF ApiAnswers, Enqueue, EnqueueFails, TestSends, ProduceRandomMessage,
       SendTestTemplateEmail, VisibilityExpires, Redrive
  <1>3. TypeOK'
    BY <1>1, <1>2 DEF IInv, TypeOK, effectVars, Requests
  <1>4. DeletedHandled'
    BY <1>1, <1>2 DEF IInv, TypeOK, DeletedHandled
  <1> QED
    BY <1>1, <1>3, <1>4
    DEF IInv, effectVars, FiniteOutstanding, CurrentReceived, LookupParses,
        HandledUnderstood, AboutToDelete

LEMMA ReceiveStep ==
  ASSUME IInv, NEW m \in Messages, Receive(m) \/ ReceiveLost(m)
  PROVE  IInv'
  <1>1. /\ queue' = [queue EXCEPT ![m] = "inFlight"]
        /\ receives' = [receives EXCEPT ![m] = @ + 1]
        /\ receives[m] < MaxReceiveCount
        /\ UNCHANGED <<event, effectVars>>
    BY DEF Receive, ReceiveLost, Take
  <1>2. /\ receives' \in [Messages -> 0..MaxReceiveCount]
        /\ receives'[m] > 0
    BY <1>1, ProcessingAssumption DEF IInv, TypeOK
  <1>3. UNCHANGED handled
    BY DEF Receive, ReceiveLost, StepOnError
  <1>4. \/ current' = m /\ step' \in {"lookup", "rejected"}
           /\ (step' = "lookup" => event[m].parses)
        \/ current' = None /\ step' = "polling"
    BY DEF Receive, ReceiveLost, StepOnError, IInv, TypeOK
  <1>5. TypeOK'
    BY <1>1, <1>2, <1>3, <1>4, ProcessingAssumption DEF IInv, TypeOK, effectVars, Requests
  <1>6. CurrentReceived' /\ LookupParses' /\ AboutToDelete'
    BY <1>1, <1>2, <1>4 DEF CurrentReceived, LookupParses, AboutToDelete
  <1>7. DeletedHandled'
    BY <1>1, <1>3 DEF IInv, TypeOK, DeletedHandled
  <1> QED
    BY <1>1, <1>3, <1>5, <1>6, <1>7
    DEF IInv, effectVars, FiniteOutstanding, HandledUnderstood

LEMMA LookupFailsStep == ASSUME IInv, LookupFails PROVE IInv'
  BY DEF LookupFails, StepOnError, queueVars, effectVars, IInv, TypeOK, Requests,
     FiniteOutstanding, CurrentReceived, LookupParses, HandledUnderstood, AboutToDelete,
     DeletedHandled

\* The handler asks for the effects before it counts as fulfilled.
LEMMA LookupReturnsStep == ASSUME IInv, LookupReturns PROVE IInv'
  <1>1. /\ current \in Messages
        /\ receives[current] > 0
        /\ event[current].parses
    BY DEF LookupReturns, IInv, TypeOK, CurrentReceived, LookupParses
  <1>2. /\ outstanding' = outstanding \cup Asked(current)
        /\ UNCHANGED <<event, queue, receives, current, delayed, emails>>
    BY DEF LookupReturns, queueVars
  <1>3. /\ step' \in {"rejected", "doomed", "fulfilled"}
        /\ step' # "rejected" => ~Throws(event[current])
    BY DEF LookupReturns, StepOnError, Throws, Doomed, WantsEmail, Accepted
  <1>4. handled' = IF step' = "rejected" THEN handled ELSE handled \cup {current}
    BY DEF LookupReturns
  <1>5. requested' = IF WantsEmail(event[current]) THEN requested \cup {current} ELSE requested
    BY DEF LookupReturns
  <1>6. outstanding' \in SUBSET Requests /\ IsFiniteSet(outstanding')
    BY <1>1, <1>2, AskedType, FS_Union DEF IInv, TypeOK, FiniteOutstanding
  <1>7. TypeOK'
    BY <1>1, <1>2, <1>3, <1>4, <1>5, <1>6, ProcessingAssumption DEF IInv, TypeOK, Requests
  <1>8. HandledUnderstood'
    <2> SUFFICES ASSUME NEW m \in handled'
                 PROVE  event[m].parses /\ ~Throws(event[m])
                        /\ (WantsEmail(event[m]) => m \in requested')
      BY <1>2 DEF HandledUnderstood
    <2>1. CASE m \in handled
      BY <1>5, <2>1 DEF IInv, HandledUnderstood
    <2>2. CASE m = current /\ step' # "rejected"
      BY <1>1, <1>3, <1>5, <2>2
    <2> QED
      BY <1>4, <2>1, <2>2
  <1>9. CurrentReceived' /\ LookupParses' /\ AboutToDelete' /\ DeletedHandled'
    BY <1>2, <1>3, <1>4
    DEF IInv, CurrentReceived, LookupParses, AboutToDelete, DeletedHandled
  <1> QED
    BY <1>6, <1>7, <1>8, <1>9 DEF IInv, FiniteOutstanding

\* The end of a poll: the message is deleted if its handler has fulfilled, or kept.
LEMMA PollEndsStep ==
  ASSUME IInv, step # "polling",
         \/ UNCHANGED queue
         \/ step \in {"fulfilled", "doomed"} /\ Delete(current),
         step' = "polling", current' = None,
         outstanding' \in SUBSET Requests, IsFiniteSet(outstanding'),
         delayed' \in [Messages -> Nat], emails' \in [Messages -> Nat],
         UNCHANGED <<event, receives, requested, handled>>
  PROVE  IInv'
  <1>1. current \in Messages
    BY DEF IInv, TypeOK
  <1>2. queue' \in [Messages -> {"unsent", "sending", "lost", "visible",
                                 "inFlight", "deleted", "dead"}]
    BY <1>1, DeleteType DEF IInv, TypeOK
  <1>3. TypeOK'
    BY <1>2 DEF IInv, TypeOK, Requests
  <1>4. DeletedHandled'
    BY <1>1, DeleteType DEF IInv, DeletedHandled, AboutToDelete
  <1> QED
    BY <1>3, <1>4
    DEF IInv, FiniteOutstanding, CurrentReceived, LookupParses, HandledUnderstood, AboutToDelete

LEMMA WorkerStep ==
  ASSUME IInv, DoomedProcessEnds \/ DeleteSucceeds \/ DeleteFails \/ FailureReported
  PROVE  IInv'
  <1>1. CASE DoomedProcessEnds
    <2>1. /\ delayed' \in [Messages -> Nat] /\ emails' \in [Messages -> Nat]
          /\ outstanding' = {} /\ IsFiniteSet(outstanding')
          /\ step' = "polling" /\ current' = None
      BY <1>1, DieEffect DEF DoomedProcessEnds, IInv
    <2>2. outstanding' \in SUBSET Requests
      BY <2>1
    <2> QED
      BY <1>1, <2>1, <2>2, PollEndsStep DEF DoomedProcessEnds
  <1>2. CASE DeleteSucceeds \/ DeleteFails \/ FailureReported
    <2>1. /\ step' = "polling" /\ current' = None
          /\ UNCHANGED <<event, receives, outstanding, delayed, emails, requested, handled>>
      BY <1>2 DEF DeleteSucceeds, DeleteFails, FailureReported, Poll, AfterFailure, effectVars
    <2>2. \/ UNCHANGED queue
          \/ step \in {"fulfilled", "doomed"} /\ Delete(current)
      BY <1>2 DEF DeleteSucceeds, DeleteFails, FailureReported, QueueAfterFailure
    <2>3. step # "polling"
      BY <1>2 DEF DeleteSucceeds, DeleteFails, FailureReported
    <2>4. /\ outstanding' \in SUBSET Requests /\ IsFiniteSet(outstanding')
          /\ delayed' \in [Messages -> Nat] /\ emails' \in [Messages -> Nat]
      BY <2>1 DEF IInv, TypeOK, FiniteOutstanding
    <2> QED
      BY <2>1, <2>2, <2>3, <2>4, PollEndsStep
  <1> QED
    BY <1>1, <1>2

\* Answers come while anything is being processed, and change only the effects.
LEMMA AnswerStep ==
  ASSUME IInv, NEW r \in outstanding, RequestSucceeds(r) \/ DelayFails(r)
  PROVE  IInv'
  <1>1. /\ outstanding' = outstanding \ {r}
        /\ UNCHANGED <<event, queue, receives, step, current, requested, handled>>
    BY DEF RequestSucceeds, DelayFails, AfterAnswer, queueVars
  <1>2. IsFiniteSet(outstanding') /\ outstanding' \in SUBSET Requests
    BY <1>1, FS_Subset DEF IInv, TypeOK, FiniteOutstanding
  <1>3. delayed' \in [Messages -> Nat] /\ emails' \in [Messages -> Nat]
    BY ExecuteType, FS_Singleton DEF IInv, TypeOK, RequestSucceeds, DelayFails
  <1>4. TypeOK'
    BY <1>1, <1>2, <1>3 DEF IInv, TypeOK, Requests
  <1> QED
    BY <1>1, <1>2, <1>4
    DEF IInv, FiniteOutstanding, CurrentReceived, LookupParses, HandledUnderstood,
        AboutToDelete, DeletedHandled

\* The process ends in the middle of anything.
LEMMA CrashStep ==
  ASSUME IInv, Crash \/ \E r \in outstanding : EmailFails(r)
  PROVE  IInv'
  <1>1. Die(outstanding) /\ UNCHANGED <<event, queue, receives, requested, handled>>
    BY DEF Crash, EmailFails, queueVars
  <1>2. /\ delayed' \in [Messages -> Nat] /\ emails' \in [Messages -> Nat]
        /\ outstanding' = {} /\ IsFiniteSet(outstanding')
        /\ step' = "polling" /\ current' = None
    BY <1>1, DieEffect DEF IInv
  <1>3. TypeOK'
    BY <1>1, <1>2 DEF IInv, TypeOK, Requests
  <1> QED
    BY <1>1, <1>2, <1>3
    DEF IInv, FiniteOutstanding, CurrentReceived, LookupParses, HandledUnderstood,
        AboutToDelete, DeletedHandled

LEMMA IInvStep == IInv /\ [Next]_vars => IInv'
  <1> SUFFICES ASSUME IInv, [Next]_vars
               PROVE  IInv'
    OBVIOUS
  <1>1. CASE UNCHANGED vars
    BY <1>1 DEF vars, queueVars, effectVars, IInv, TypeOK, Requests, FiniteOutstanding,
       CurrentReceived, LookupParses, HandledUnderstood, AboutToDelete, DeletedHandled
  <1> QED
    BY <1>1, QueueStep, ReceiveStep, LookupFailsStep, LookupReturnsStep, WorkerStep,
       AnswerStep, CrashStep
    DEF Next, Answers

-------------------------------------------------------------------------------
(***************************************************************************)
(* The theorems                                                            *)
(***************************************************************************)

\* The invariant holds in every reachable state.
THEOREM Inductive == Spec => []IInv
  BY InitOK, IInvStep, PTL DEF Spec

\* Every variable keeps its type, and no request is of a message never received.
THEOREM TypeCorrect == Spec => []TypeOK
  <1>1. IInv => TypeOK
    BY DEF IInv
  <1> QED
    BY <1>1, Inductive, PTL

\* A message the worker cannot make sense of is never deleted, whatever else fails.
THEOREM PoisonKept == Spec => []PoisonIsKept
  <1>1. IInv => PoisonIsKept
    BY DEF IInv, DeletedHandled, HandledUnderstood, PoisonIsKept, Throws, Accepted
  <1> QED
    BY <1>1, Inductive, PTL

\* An email event is acknowledged only after its email was asked for.
THEOREM EmailRequested == Spec => []AckedEmailRequested
  <1>1. IInv => AckedEmailRequested
    BY DEF IInv, DeletedHandled, HandledUnderstood, AckedEmailRequested, Throws, Accepted,
       WantsEmail
  <1> QED
    BY <1>1, Inductive, PTL

-------------------------------------------------------------------------------
(***************************************************************************)
(* Effects are bounded by receives                                         *)
(***************************************************************************)

Copies(rs, to, m) == {r \in rs : r.to = to /\ r.msg = m}

Executed(to, m) == IF to = "sendgrid" THEN emails[m] ELSE delayed[m]

\* The handler that is at its lookup may still ask for one effect of each kind.
Allowance(m) == IF step = "lookup" /\ current = m THEN 1 ELSE 0

Kinds == {"delayQueue", "sendgrid"}

WithinReceives ==
  \A m \in Messages : \A to \in Kinds :
    Executed(to, m) + Cardinality(Copies(outstanding, to, m)) + Allowance(m) <= receives[m]

\* The copies in a finite set of requests can be counted.
LEMMA CopiesFinite ==
  ASSUME NEW rs, IsFiniteSet(rs), NEW to, NEW m
  PROVE  IsFiniteSet(Copies(rs, to, m)) /\ Cardinality(Copies(rs, to, m)) \in Nat
  <1>1. Copies(rs, to, m) \subseteq rs
    BY DEF Copies
  <1>2. IsFiniteSet(Copies(rs, to, m))
    BY <1>1, FS_Subset
  <1> QED
    BY <1>2, FS_CardinalityType

\* What the formulas of the bound are numbers of.
LEMMA CountTypes ==
  ASSUME IInv, NEW to \in Kinds, NEW m \in Messages
  PROVE  /\ Executed(to, m) \in Nat
         /\ Cardinality(Copies(outstanding, to, m)) \in Nat
         /\ receives[m] \in Nat
         /\ Allowance(m) \in {0, 1}
  <1>1. Cardinality(Copies(outstanding, to, m)) \in Nat
    BY CopiesFinite DEF IInv, FiniteOutstanding
  <1>2. receives[m] \in Nat
    BY ProcessingAssumption DEF IInv, TypeOK
  <1> QED
    BY <1>1, <1>2 DEF IInv, TypeOK, Executed, Allowance

\* Executing requests adds their number.
LEMMA ExecuteCounts ==
  ASSUME NEW rs, Execute(rs), NEW to \in Kinds, NEW m \in Messages
  PROVE  Executed(to, m)' = Executed(to, m) + Cardinality(Copies(rs, to, m))
  BY DEF Execute, Executed, Copies, Kinds

LEMMA BoundInit == Init => WithinReceives
  <1> SUFFICES ASSUME Init, NEW m \in Messages, NEW to \in Kinds
               PROVE  Executed(to, m) + Cardinality(Copies(outstanding, to, m)) + Allowance(m)
                        <= receives[m]
    BY DEF WithinReceives
  <1>1. Copies(outstanding, to, m) = {}
    BY DEF Init, Copies
  <1>2. Cardinality(Copies(outstanding, to, m)) = 0
    BY <1>1, FS_EmptySet
  <1> QED
    BY <1>2 DEF Init, Executed, Allowance

\* Steps that neither ask for, execute nor forget a request.
LEMMA NoEffectStep ==
  ASSUME WithinReceives, UNCHANGED <<effectVars, receives>>,
         UNCHANGED <<step, current>> \/ (step' # "lookup" /\ IInv)
  PROVE  WithinReceives'
  <1> SUFFICES ASSUME NEW m \in Messages, NEW to \in Kinds
               PROVE  Executed(to, m)' + Cardinality(Copies(outstanding', to, m))
                        + Allowance(m)' <= receives'[m]
    BY DEF WithinReceives, Copies
  <1>1. Executed(to, m) + Cardinality(Copies(outstanding, to, m)) + Allowance(m) <= receives[m]
    BY DEF WithinReceives
  <1>2. /\ Executed(to, m)' = Executed(to, m)
        /\ Copies(outstanding', to, m) = Copies(outstanding, to, m)
        /\ receives'[m] = receives[m]
    BY DEF effectVars, Executed, Copies
  <1>3. CASE UNCHANGED <<step, current>>
    BY <1>1, <1>2, <1>3 DEF Allowance
  <1>4. CASE step' # "lookup" /\ IInv
    BY <1>1, <1>2, <1>4, CountTypes DEF Allowance
  <1> QED
    BY <1>3, <1>4

\* A receive allows for one more of each.
LEMMA BoundReceive ==
  ASSUME IInv, WithinReceives, NEW n \in Messages, Receive(n) \/ ReceiveLost(n)
  PROVE  WithinReceives'
  <1> SUFFICES ASSUME NEW m \in Messages, NEW to \in Kinds
               PROVE  Executed(to, m)' + Cardinality(Copies(outstanding', to, m))
                        + Allowance(m)' <= receives'[m]
    BY DEF WithinReceives, Copies
  <1>1. Executed(to, m) + Cardinality(Copies(outstanding, to, m)) + Allowance(m) <= receives[m]
    BY DEF WithinReceives
  <1>2. /\ Executed(to, m)' = Executed(to, m)
        /\ Copies(outstanding', to, m) = Copies(outstanding, to, m)
    BY DEF Receive, ReceiveLost, effectVars, Executed, Copies
  <1>3. receives'[m] = IF m = n THEN receives[m] + 1 ELSE receives[m]
    BY DEF Receive, ReceiveLost, Take, IInv, TypeOK
  <1>4. Allowance(m) = 0 /\ Allowance(m)' \in {0, 1} /\ (m # n => Allowance(m)' = 0)
    BY DEF Receive, ReceiveLost, Allowance, IInv, TypeOK
  <1> QED
    BY <1>1, <1>2, <1>3, <1>4, CountTypes

\* The allowance is used up, or not used.
LEMMA BoundLookup ==
  ASSUME IInv, WithinReceives, LookupReturns
  PROVE  WithinReceives'
  <1> SUFFICES ASSUME NEW m \in Messages, NEW to \in Kinds
               PROVE  Executed(to, m)' + Cardinality(Copies(outstanding', to, m))
                        + Allowance(m)' <= receives'[m]
    BY DEF WithinReceives, Copies
  <1> DEFINE x == [to |-> to, msg |-> m, attempt |-> receives[m]]
  <1>1. Executed(to, m) + Cardinality(Copies(outstanding, to, m)) + Allowance(m) <= receives[m]
    BY DEF WithinReceives
  <1>2. /\ Executed(to, m)' = Executed(to, m)
        /\ receives'[m] = receives[m]
    BY DEF LookupReturns, queueVars, Executed
  <1>3. Allowance(m)' = 0
    BY DEF LookupReturns, StepOnError, Throws, Doomed, WantsEmail, Accepted, Allowance
  <1>4. IsFiniteSet(Copies(outstanding, to, m))
    BY CopiesFinite DEF IInv, FiniteOutstanding
  <1>5. CASE m # current
    <2>1. Copies(outstanding', to, m) = Copies(outstanding, to, m)
      BY <1>5 DEF LookupReturns, Asked, Copies
    <2> QED
      BY <1>1, <1>2, <1>3, <2>1, CountTypes
  <1>6. CASE m = current
    <2>1. Copies(outstanding', to, m) \subseteq Copies(outstanding, to, m) \cup {x}
      BY <1>6 DEF LookupReturns, Asked, Copies
    <2> HIDE DEF x
    <2>2. /\ IsFiniteSet(Copies(outstanding, to, m) \cup {x})
          /\ Cardinality(Copies(outstanding, to, m) \cup {x})
               <= Cardinality(Copies(outstanding, to, m)) + 1
      <3> DEFINE S == Copies(outstanding, to, m)
      <3>1. IsFiniteSet(S) /\ Cardinality(S) \in Nat
        BY <1>4, FS_CardinalityType
      <3> HIDE DEF S
      <3>2. /\ IsFiniteSet(S \cup {x})
            /\ Cardinality(S \cup {x}) = IF x \in S THEN Cardinality(S) ELSE Cardinality(S) + 1
        BY <3>1, FS_AddElement
      <3>3. Cardinality(S \cup {x}) <= Cardinality(S) + 1
        BY <3>1, <3>2
      <3> QED
        BY <3>2, <3>3 DEF S
    <2>3. /\ Cardinality(Copies(outstanding', to, m)) \in Nat
          /\ Cardinality(Copies(outstanding, to, m) \cup {x}) \in Nat
          /\ Cardinality(Copies(outstanding', to, m))
               <= Cardinality(Copies(outstanding, to, m) \cup {x})
      BY <2>1, <2>2, FS_Subset, FS_CardinalityType
    <2>4. Allowance(m) = 1
      BY <1>6 DEF LookupReturns, Allowance
    <2> QED
      BY <1>1, <1>2, <1>3, <2>2, <2>3, <2>4, CountTypes
  <1> QED
    BY <1>5, <1>6

\* A request that is answered is one less under way, and at most one more executed.
LEMMA BoundAnswer ==
  ASSUME IInv, WithinReceives, NEW r \in outstanding, RequestSucceeds(r) \/ DelayFails(r)
  PROVE  WithinReceives'
  <1> SUFFICES ASSUME NEW m \in Messages, NEW to \in Kinds
               PROVE  Executed(to, m)' + Cardinality(Copies(outstanding', to, m))
                        + Allowance(m)' <= receives'[m]
    BY DEF WithinReceives, Copies
  <1>1. Executed(to, m) + Cardinality(Copies(outstanding, to, m)) + Allowance(m) <= receives[m]
    BY DEF WithinReceives
  <1>2. /\ outstanding' = outstanding \ {r}
        /\ receives'[m] = receives[m]
        /\ Allowance(m)' = Allowance(m)
    BY DEF RequestSucceeds, DelayFails, AfterAnswer, queueVars, Allowance
  <1>3. IsFiniteSet(Copies(outstanding, to, m))
    BY CopiesFinite DEF IInv, FiniteOutstanding
  <1>4. CASE r.to = to /\ r.msg = m
    <2>1. r \in Copies(outstanding, to, m)
          /\ Copies(outstanding', to, m) = Copies(outstanding, to, m) \ {r}
      BY <1>2, <1>4 DEF Copies
    <2>2. Cardinality(Copies(outstanding', to, m)) = Cardinality(Copies(outstanding, to, m)) - 1
      BY <1>3, <2>1, FS_RemoveElement
    <2>3. Executed(to, m)' = Executed(to, m) + 1 \/ Executed(to, m)' = Executed(to, m)
      <3>1. Copies({r}, to, m) = {r}
        BY <1>4 DEF Copies
      <3>2. Cardinality(Copies({r}, to, m)) = 1
        BY <3>1, FS_Singleton
      <3> QED
        BY <3>2, ExecuteCounts DEF RequestSucceeds, DelayFails, Executed
    <2> QED
      BY <1>1, <1>2, <2>2, <2>3, CountTypes
  <1>5. CASE ~(r.to = to /\ r.msg = m)
    <2>1. Copies(outstanding', to, m) = Copies(outstanding, to, m)
      BY <1>2, <1>5 DEF Copies
    <2>2. Executed(to, m)' = Executed(to, m)
      <3>1. Copies({r}, to, m) = {}
        BY <1>5 DEF Copies
      <3>2. Cardinality(Copies({r}, to, m)) = 0
        BY <3>1, FS_EmptySet
      <3> QED
        BY <3>2, ExecuteCounts, CountTypes DEF RequestSucceeds, DelayFails, Executed
    <2> QED
      BY <1>1, <1>2, <2>1, <2>2
  <1> QED
    BY <1>4, <1>5

\* Of the requests a dying process leaves behind each is executed at most once.
LEMMA BoundDie ==
  ASSUME IInv, WithinReceives, Die(outstanding), UNCHANGED receives
  PROVE  WithinReceives'
  <1> SUFFICES ASSUME NEW m \in Messages, NEW to \in Kinds
               PROVE  Executed(to, m)' + Cardinality(Copies(outstanding', to, m))
                        + Allowance(m)' <= receives'[m]
    BY DEF WithinReceives, Copies
  <1>1. Executed(to, m) + Cardinality(Copies(outstanding, to, m)) + Allowance(m) <= receives[m]
    BY DEF WithinReceives
  <1>2. PICK done \in SUBSET outstanding : Execute(done)
    BY DEF Die
  <1>3. Executed(to, m)' = Executed(to, m) + Cardinality(Copies(done, to, m))
    BY <1>2, ExecuteCounts
  <1>4. /\ IsFiniteSet(Copies(outstanding, to, m))
        /\ Copies(done, to, m) \subseteq Copies(outstanding, to, m)
    BY CopiesFinite DEF IInv, FiniteOutstanding, Copies
  <1>5. /\ Cardinality(Copies(done, to, m)) \in Nat
        /\ Cardinality(Copies(done, to, m)) <= Cardinality(Copies(outstanding, to, m))
    BY <1>4, FS_Subset, FS_CardinalityType
  <1>6. Copies(outstanding', to, m) = {} /\ Allowance(m)' = 0
    BY DEF Die, Poll, Copies, Allowance
  <1>7. Cardinality(Copies(outstanding', to, m)) = 0
    BY <1>6, FS_EmptySet
  <1> QED
    BY <1>1, <1>3, <1>5, <1>6, <1>7, CountTypes

LEMMA BoundStep == IInv /\ WithinReceives /\ [Next]_vars => WithinReceives'
  <1> SUFFICES ASSUME IInv, WithinReceives, [Next]_vars
               PROVE  WithinReceives'
    OBVIOUS
  <1> USE DEF queueVars
  <1>1. ASSUME NEW m \in Messages,
               \/ ApiAnswers(m) \/ Answers(m) \/ TestSends(m)
               \/ VisibilityExpires(m) \/ Redrive(m)
        PROVE  WithinReceives'
    BY <1>1, NoEffectStep
    DEF ApiAnswers, Answers, Enqueue, EnqueueFails, TestSends, ProduceRandomMessage,
        SendTestTemplateEmail, VisibilityExpires, Redrive
  <1>2. CASE LookupFails \/ DeleteSucceeds \/ DeleteFails \/ FailureReported
    BY <1>2, NoEffectStep
    DEF LookupFails, StepOnError, DeleteSucceeds, DeleteFails, FailureReported, AfterFailure, Poll
  <1>3. CASE DoomedProcessEnds \/ Crash \/ \E r \in outstanding : EmailFails(r)
    BY <1>3, BoundDie DEF DoomedProcessEnds, Crash, EmailFails
  <1>4. CASE UNCHANGED vars
    BY <1>4, NoEffectStep DEF vars
  <1> QED
    BY <1>1, <1>2, <1>3, <1>4, BoundReceive, BoundLookup, BoundAnswer DEF Next

\* No message has more emails or delayed copies, executed or under way, than it has
\* been received.
THEOREM EffectsBounded == Spec => []EffectsPerReceive
  <1>1. IInv /\ WithinReceives => EffectsPerReceive
    <2> SUFFICES ASSUME IInv, WithinReceives, NEW m \in Messages, NEW to \in Kinds
                 PROVE  Executed(to, m) + Cardinality(Copies(outstanding, to, m)) <= receives[m]
      BY DEF EffectsPerReceive, Kinds, Executed, Copies
    <2> QED
      BY CountTypes DEF WithinReceives
  <1> QED
    BY <1>1, BoundInit, BoundStep, Inductive, PTL DEF Spec

-------------------------------------------------------------------------------
(***************************************************************************)
(* The worker implements at-least-once delivery                            *)
(***************************************************************************)

\* A step that settles no message and counts nothing is a stutter.
LEMMA StutterStep ==
  ASSUME UNCHANGED <<receives, handled>>,
         \A m \in Messages : \/ queue'[m] = queue[m]
                             \/ {queue[m], queue'[m]} \cap {"deleted", "dead"} = {}
  PROVE  UNCHANGED Contract!contractVars
  BY DEF Contract!contractVars, Fate

LEMMA InitRefines == Init => Contract!ContractInit
  BY DEF Init, Contract!ContractInit, Fate

\* Receiving is an attempt.
LEMMA TakeRefines ==
  ASSUME IInv, NEW m \in Messages, Take(m), UNCHANGED handled
  PROVE  Contract!ContractNext
  <1>1. Contract!Attempt({m})
    BY DEF Contract!Attempt, Contract!Queued, Take, Fate, IInv, TypeOK
  <1> QED
    BY <1>1 DEF Contract!ContractNext

\* A handler that gets through handles its message.
LEMMA LookupRefines ==
  ASSUME IInv, LookupReturns
  PROVE  Contract!ContractNext \/ UNCHANGED Contract!contractVars
  <1>1. UNCHANGED <<queue, receives>>
    BY DEF LookupReturns, queueVars
  <1>2. current \in Messages /\ receives[current] > 0
    BY DEF LookupReturns, IInv, TypeOK, CurrentReceived
  <1>3. CASE handled' = handled
    BY <1>1, <1>3, StutterStep
  <1>4. CASE handled' = handled \cup {current}
    <2>1. Contract!Handle(current)
      BY <1>1, <1>2, <1>4 DEF Contract!Handle, Fate
    <2> QED
      BY <1>2, <2>1 DEF Contract!ContractNext
  <1> QED
    BY <1>3, <1>4 DEF LookupReturns

\* Deleting acknowledges, unless the message has been settled meanwhile.
LEMMA DeleteRefines ==
  ASSUME IInv, step \in {"fulfilled", "doomed"}, Delete(current), UNCHANGED <<receives, handled>>
  PROVE  Contract!ContractNext \/ UNCHANGED Contract!contractVars
  <1>1. current \in Messages /\ current \in handled
    BY DEF IInv, TypeOK, AboutToDelete
  <1>2. CASE queue[current] \in {"deleted", "dead"}
    BY <1>1, <1>2, StutterStep DEF Delete, IInv, TypeOK
  <1>3. CASE queue[current] \notin {"deleted", "dead"}
    <2>1. Contract!Acknowledge({current})
      BY <1>1, <1>3 DEF Contract!Acknowledge, Contract!Queued, Delete, Fate, IInv, TypeOK
    <2> QED
      BY <1>1, <2>1 DEF Contract!ContractNext
  <1> QED
    BY <1>2, <1>3

LEMMA RedriveRefines ==
  ASSUME IInv, NEW m \in Messages, Redrive(m)
  PROVE  Contract!ContractNext
  <1>1. Contract!DeadLetter(m)
    BY DEF Contract!DeadLetter, Redrive, Fate, IInv, TypeOK
  <1> QED
    BY <1>1 DEF Contract!ContractNext

LEMMA StepRefines ==
  IInv /\ [Next]_vars => [Contract!ContractNext]_Contract!contractVars
  <1> SUFFICES ASSUME IInv, [Next]_vars
               PROVE  Contract!ContractNext \/ UNCHANGED Contract!contractVars
    OBVIOUS
  <1> USE DEF queueVars, effectVars
  <1>1. ASSUME NEW m \in Messages,
               ApiAnswers(m) \/ Answers(m) \/ TestSends(m) \/ VisibilityExpires(m)
        PROVE  UNCHANGED Contract!contractVars
    BY <1>1, StutterStep
    DEF ApiAnswers, Answers, Enqueue, EnqueueFails, TestSends, ProduceRandomMessage,
        SendTestTemplateEmail, VisibilityExpires, IInv, TypeOK
  <1>2. ASSUME NEW m \in Messages, Receive(m) \/ ReceiveLost(m)
        PROVE  Contract!ContractNext
    BY <1>2, TakeRefines DEF Receive, ReceiveLost, StepOnError
  <1>3. CASE DoomedProcessEnds \/ DeleteSucceeds \/ DeleteFails
    <2>1. /\ step \in {"fulfilled", "doomed"}
          /\ Delete(current) \/ UNCHANGED queue
          /\ UNCHANGED <<receives, handled>>
      BY <1>3 DEF DoomedProcessEnds, DeleteSucceeds, DeleteFails
    <2> QED
      BY <2>1, DeleteRefines, StutterStep
  <1>4. CASE \/ LookupFails \/ FailureReported \/ Crash
             \/ \E r \in outstanding : RequestSucceeds(r) \/ DelayFails(r) \/ EmailFails(r)
    <2>1. UNCHANGED <<queue, receives, handled>>
      BY <1>4 DEF LookupFails, FailureReported, QueueAfterFailure, Crash, RequestSucceeds,
         DelayFails, EmailFails
    <2> QED
      BY <2>1, StutterStep
  <1>5. CASE UNCHANGED vars
    BY <1>5, StutterStep DEF vars
  <1> QED
    BY <1>1, <1>2, <1>3, <1>4, <1>5, LookupRefines, RedriveRefines DEF Next

\* With this worker on top the consumer still keeps the contract: what is deleted has
\* been handled, what is dead has been tried as often as the queue allows.
THEOREM Refinement == Spec => ImplementsContract
  BY Inductive, InitRefines, StepRefines, PTL DEF Spec, ImplementsContract, Contract!ContractSpec
-------------------------------------------------------------------------------
(***************************************************************************)
(* What the contract says of the implementation's queue                    *)
(***************************************************************************)

Promise == INSTANCE DeliveryContractProofs WITH fate <- Fate, attempts <- receives

\* The contract and the module that proves its theorems state one specification.
LEMMA SameContract == ImplementsContract => Promise!ContractSpec
  <1>1. Contract!ContractInit => Promise!ContractInit
    BY DEF Contract!ContractInit, Promise!ContractInit
  <1>2. Contract!ContractNext => Promise!ContractNext
    BY DEF Contract!ContractNext, Contract!Attempt, Contract!Acknowledge, Contract!Handle,
           Contract!DeadLetter, Contract!Queued,
           Promise!ContractNext, Promise!Attempt, Promise!Acknowledge, Promise!Handle,
           Promise!DeadLetter, Promise!Queued
  <1>3. [Contract!ContractNext]_(Contract!contractVars)
          => [Promise!ContractNext]_(Promise!contractVars)
    BY <1>2 DEF Contract!contractVars, Promise!contractVars
  <1> QED
    BY <1>1, <1>3, PTL DEF ImplementsContract, Contract!ContractSpec, Promise!ContractSpec

\* A message in the dead letter queue was received MaxReceiveCount times: crashes, lost
\* responses and failed deletes never cost it an attempt.
DeadAfterLastAttempt == \A m \in Messages : queue[m] = "dead" => receives[m] = MaxReceiveCount

\* An event that has left the queue is never processed again, whatever requests of it
\* are still under way.
GoneForGood ==
  \A m \in Messages : queue[m] \in {"deleted", "dead"} => UNCHANGED <<queue[m], receives[m]>>

\* Inherited: every dead letter has its cause.
THEOREM DeadExhausted == Spec => []DeadAfterLastAttempt
  <1>1. Promise!ContractSpec => []Promise!FateForCause
    BY Promise!CausedFates, ProcessingAssumption
  <1>2. Spec => []Promise!FateForCause
    BY <1>1, Refinement, SameContract, PTL
  <1>3. Promise!FateForCause => DeadAfterLastAttempt
    BY DEF Promise!FateForCause, Fate, DeadAfterLastAttempt
  <1> QED
    BY <1>2, <1>3, PTL

\* Inherited: no step takes a message back that is acknowledged or dead.
THEOREM StaysGone == Spec => [][GoneForGood]_vars
  <1>1. Promise!ContractSpec => [][Promise!FateIsFinal]_(Promise!contractVars)
    BY Promise!FinalFates, ProcessingAssumption
  <1>2. Spec => [][Promise!FateIsFinal]_(Promise!contractVars)
    BY <1>1, Refinement, SameContract, PTL
  <1>3. [Promise!FateIsFinal]_(Promise!contractVars) => GoneForGood
    <2> SUFFICES ASSUME [Promise!FateIsFinal]_(Promise!contractVars), NEW m \in Messages,
                        queue[m] \in {"deleted", "dead"}
                 PROVE  UNCHANGED <<queue[m], receives[m]>>
      BY DEF GoneForGood
    <2>1. Fate[m] # "queued"
      BY DEF Fate
    <2>2. Fate'[m] = Fate[m] /\ receives'[m] = receives[m]
      BY <2>1 DEF Promise!FateIsFinal, Promise!contractVars
    <2>3. queue'[m] = queue[m]
      BY <2>2 DEF Fate
    <2> QED
      BY <2>2, <2>3
  <1> QED
    BY <1>2, <1>3, PTL
===============================================================================

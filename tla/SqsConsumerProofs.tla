--------------------------- MODULE SqsConsumerProofs ---------------------------
(***************************************************************************)
(* Proofs about SqsConsumer: for any number of consumers and messages, any *)
(* batch size and redrive limit, both processing modes, with and without   *)
(* timeouts.                                                               *)
(***************************************************************************)
EXTENDS SqsConsumer, TLAPS

-------------------------------------------------------------------------------
(***************************************************************************)
(* The inductive invariant                                                 *)
(***************************************************************************)

\* Nothing is reported before the batch has been processed ...
NothingReportedYet ==
  \A c \in Consumers : phase[c] \in {"polling", "processing"} =>
    success[c] = {} /\ failed[c] = {} /\ refused[c] = {}

\* ... and from then on each message is on exactly one of the two lists.
BatchPartitioned ==
  \A c \in Consumers : phase[c] \notin {"polling", "processing"} =>
    /\ success[c] \cup failed[c] = DOMAIN batch[c]
    /\ success[c] \cap failed[c] = {}

\* What SQS refused are entries of the delete request.
RefusedAreSuccesses ==
  \A c \in Consumers : phase[c] = "replied" => refused[c] \subseteq success[c]

\* Successes are messages whose handler has fulfilled.
SuccessesFulfilled ==
  \A c \in Consumers : \A i \in success[c] : batch[c][i].outcome = "fulfilled"

FulfilledAreHandled ==
  \A c \in Consumers : \A i \in DOMAIN batch[c] :
    batch[c][i].outcome = "fulfilled" => batch[c][i].msg \in handled

\* Handlers run only for messages that were received.
DeliveriesReceived ==
  \A c \in Consumers :
    /\ \A i \in DOMAIN batch[c] : receives[batch[c][i].msg] > 0
    /\ \A d \in late[c] : receives[d.msg] > 0

IInv ==
  /\ TypeOK
  /\ NothingReportedYet
  /\ BatchPartitioned
  /\ RefusedAreSuccesses
  /\ SuccessesFulfilled
  /\ FulfilledAreHandled
  /\ DeliveriesReceived
  /\ AckedOnlyIfHandled

-------------------------------------------------------------------------------
(***************************************************************************)
(* Lemmas about batches                                                    *)
(***************************************************************************)

\* A batch is a list of at most BatchSize deliveries.
LEMMA BatchType ==
  ASSUME TypeOK, NEW c \in Consumers
  PROVE  \E n \in 0..BatchSize : batch[c] \in [1..n -> Deliveries] /\ DOMAIN batch[c] = 1..n
  <1>1. batch[c] \in Batches
    BY DEF TypeOK
  <1> QED
    BY <1>1 DEF Batches

\* The positions of a batch, and what is found there.
LEMMA BatchPositions ==
  ASSUME TypeOK, NEW c \in Consumers, NEW i \in DOMAIN batch[c]
  PROVE  /\ i \in Positions
         /\ batch[c][i] \in Deliveries
         /\ batch[c][i].msg \in Messages
         /\ batch[c][i].receipt \in Receipts
         /\ batch[c][i].outcome \in Outcomes
  <1>1. PICK n \in 0..BatchSize : batch[c] \in [1..n -> Deliveries] /\ DOMAIN batch[c] = 1..n
    BY BatchType
  <1> QED
    BY <1>1, ConsumerAssumption DEF Positions, Deliveries

LEMMA NoBatchType == NoBatch \in Batches /\ DOMAIN NoBatch = {}
  <1>1. NoBatch \in [1..0 -> Deliveries] /\ DOMAIN NoBatch = {}
    BY DEF NoBatch
  <1> QED
    BY <1>1, ConsumerAssumption DEF Batches

LEMMA IInvInit == Init => IInv
  BY NoBatchType, ConsumerAssumption
  DEF Init, IInv, TypeOK, Phases, NothingReportedYet, BatchPartitioned, RefusedAreSuccesses,
      SuccessesFulfilled, FulfilledAreHandled, DeliveriesReceived, AckedOnlyIfHandled
-------------------------------------------------------------------------------
(***************************************************************************)
(* Every step preserves the invariant: the queue                           *)
(***************************************************************************)

\* A step that leaves the consumers alone and deletes nothing.
LEMMA QueueStep ==
  ASSUME IInv, UNCHANGED <<receives, phase, batch, reportVars, late, handled>>,
         queue' \in [Messages -> {"visible", "inFlight", "deleted", "dead"}],
         \A m \in Messages : queue'[m] = "deleted" => queue[m] = "deleted"
  PROVE  IInv'
  BY DEF IInv, TypeOK, reportVars, NothingReportedYet, BatchPartitioned, RefusedAreSuccesses,
         SuccessesFulfilled, FulfilledAreHandled, DeliveriesReceived, AckedOnlyIfHandled

LEMMA ExpiryStep ==
  ASSUME IInv, NEW m \in Messages, VisibilityExpires(m) \/ Redrive(m)
  PROVE  IInv'
  <1>1. UNCHANGED <<receives, phase, batch, reportVars, late, handled>>
    BY DEF VisibilityExpires, Redrive
  <1>2. queue' \in [Messages -> {"visible", "inFlight", "deleted", "dead"}]
    BY DEF VisibilityExpires, Redrive, IInv, TypeOK
  <1>3. \A n \in Messages : queue'[n] = "deleted" => queue[n] = "deleted"
    BY DEF VisibilityExpires, Redrive, IInv, TypeOK
  <1> QED
    BY <1>1, <1>2, <1>3, QueueStep

\* What taking messages does to the queue, whoever gets them.
LEMMA TakeEffect ==
  ASSUME IInv, NEW ms \in SUBSET Deliverable, Take(ms)
  PROVE  /\ queue' \in [Messages -> {"visible", "inFlight", "deleted", "dead"}]
         /\ receives' \in [Messages -> 0..MaxReceiveCount]
         /\ \A m \in Messages : queue'[m] = "deleted" => queue[m] = "deleted"
         /\ \A m \in Messages : receives'[m] >= receives[m]
         /\ \A m \in ms : receives'[m] = receives[m] + 1
  BY ConsumerAssumption DEF Take, Deliverable, IInv, TypeOK

LEMMA ReceiveLostStep ==
  ASSUME IInv, NEW c \in Consumers, ReceiveLost(c)
  PROVE  IInv'
  <1>1. PICK ms \in SUBSET Deliverable : Take(ms)
    BY DEF ReceiveLost
  <1>2. UNCHANGED <<phase, batch, reportVars, late, handled>>
    BY DEF ReceiveLost
  <1>3. TypeOK'
    BY <1>1, <1>2, TakeEffect DEF IInv, TypeOK, reportVars
  <1>4. DeliveriesReceived'
    <2>1. ASSUME NEW d \in Consumers, NEW i \in DOMAIN batch[d]
          PROVE  receives'[batch[d][i].msg] > 0
      <3>1. batch[d][i].msg \in Messages
        BY BatchPositions DEF IInv
      <3> QED
        BY <1>1, <3>1, TakeEffect DEF IInv, TypeOK, DeliveriesReceived
    <2>2. ASSUME NEW d \in Consumers, NEW l \in late[d]
          PROVE  receives'[l.msg] > 0
      <3>1. l.msg \in Messages
        BY DEF IInv, TypeOK
      <3> QED
        BY <1>1, <3>1, TakeEffect DEF IInv, TypeOK, DeliveriesReceived
    <2> QED
      BY <1>2, <2>1, <2>2 DEF DeliveriesReceived
  <1> QED
    BY <1>1, <1>2, <1>3, <1>4, TakeEffect
    DEF IInv, reportVars, NothingReportedYet, BatchPartitioned, RefusedAreSuccesses,
        SuccessesFulfilled, FulfilledAreHandled, AckedOnlyIfHandled

LEMMA ReceiveStep ==
  ASSUME IInv, NEW c \in Consumers, Receive(c)
  PROVE  IInv'
  <1>0. PICK n \in 1..MaxNumberOfMessages : \E msgs \in [1..n -> Deliverable] :
          /\ Take({msgs[i] : i \in 1..n})
          /\ batch' = [batch EXCEPT ![c] =
               [i \in 1..n |-> [msg |-> msgs[i], receipt |-> receives[msgs[i]] + 1,
                                outcome |-> FirstOutcome(i)]]]
    BY DEF Receive
  <1>1. PICK msgs \in [1..n -> Deliverable] :
          /\ Take({msgs[i] : i \in 1..n})
          /\ batch' = [batch EXCEPT ![c] =
               [i \in 1..n |-> [msg |-> msgs[i], receipt |-> receives[msgs[i]] + 1,
                                outcome |-> FirstOutcome(i)]]]
    BY <1>0
  <1> DEFINE new == [i \in 1..n |-> [msg |-> msgs[i], receipt |-> receives[msgs[i]] + 1,
                                     outcome |-> FirstOutcome(i)]]
             ms == {msgs[i] : i \in 1..n}
  <1>2. /\ phase[c] = "polling"
        /\ phase' = [phase EXCEPT ![c] = "processing"]
        /\ UNCHANGED <<success, failed, refused, late, handled>>
    BY DEF Receive, reportVars
  <1>3. ms \in SUBSET Deliverable /\ Take(ms)
    BY <1>1
  <1>4. new \in [1..n -> Deliveries] /\ DOMAIN new = 1..n
    BY ConsumerAssumption
    DEF Deliveries, Deliverable, Receipts, Outcomes, FirstOutcome, IInv, TypeOK
  <1>5. new \in Batches
    BY <1>4, ConsumerAssumption DEF Batches, MaxNumberOfMessages
  <1>6. batch' = [batch EXCEPT ![c] = new]
    BY <1>1
  <1>7. \A d \in Consumers : d # c => batch'[d] = batch[d] /\ phase'[d] = phase[d]
    BY <1>2, <1>6 DEF IInv, TypeOK
  <1>8. batch'[c] = new /\ phase'[c] = "processing"
    BY <1>2, <1>6 DEF IInv, TypeOK
  <1>9. success[c] = {} /\ failed[c] = {} /\ refused[c] = {}
    BY <1>2 DEF IInv, NothingReportedYet
  <1> HIDE DEF new, ms
  <1>10. TypeOK'
    <2>1. batch' \in [Consumers -> Batches]
      BY <1>5, <1>6 DEF IInv, TypeOK
    <2>2. phase' \in [Consumers -> Phases]
      BY <1>2 DEF IInv, TypeOK, Phases
    <2>3. \A d \in Consumers : success'[d] \cup failed'[d] \cup refused'[d] \subseteq DOMAIN batch'[d]
      BY <1>2, <1>7, <1>9 DEF IInv, TypeOK
    <2> QED
      BY <1>2, <1>3, <2>1, <2>2, <2>3, TakeEffect DEF IInv, TypeOK
  <1>11. NothingReportedYet' /\ BatchPartitioned' /\ RefusedAreSuccesses' /\ SuccessesFulfilled'
    BY <1>2, <1>7, <1>8, <1>9
    DEF IInv, NothingReportedYet, BatchPartitioned, RefusedAreSuccesses, SuccessesFulfilled
  <1>12. FulfilledAreHandled'
    <2>1. \A i \in DOMAIN new : new[i].outcome # "fulfilled"
      BY <1>4 DEF new, FirstOutcome
    <2> QED
      BY <1>2, <1>7, <1>8, <2>1 DEF IInv, FulfilledAreHandled
  <1>13. DeliveriesReceived'
    <2>1. ASSUME NEW d \in Consumers, NEW i \in DOMAIN batch'[d]
          PROVE  receives'[batch'[d][i].msg] > 0
      <3>1. CASE d = c
        <4>1. i \in 1..n /\ batch'[d][i].msg = msgs[i] /\ msgs[i] \in ms /\ msgs[i] \in Messages
          BY <1>4, <1>8, <2>1, <3>1 DEF new, ms, Deliverable
        <4> QED
          BY <1>3, <4>1, TakeEffect DEF IInv, TypeOK
      <3>2. CASE d # c
        <4>1. i \in DOMAIN batch[d] /\ batch'[d][i] = batch[d][i]
          BY <1>7, <2>1, <3>2
        <4>2. batch[d][i].msg \in Messages
          BY <4>1, BatchPositions DEF IInv
        <4> QED
          BY <1>3, <4>1, <4>2, TakeEffect DEF IInv, TypeOK, DeliveriesReceived
      <3> QED
        BY <3>1, <3>2
    <2>2. ASSUME NEW d \in Consumers, NEW l \in late[d]
          PROVE  receives'[l.msg] > 0
      <3>1. l.msg \in Messages
        BY DEF IInv, TypeOK
      <3> QED
        BY <1>3, <3>1, TakeEffect DEF IInv, TypeOK, DeliveriesReceived
    <2> QED
      BY <1>2, <2>1, <2>2 DEF DeliveriesReceived
  <1>14. AckedOnlyIfHandled'
    BY <1>2, <1>3, TakeEffect DEF IInv, AckedOnlyIfHandled
  <1> QED
    BY <1>10, <1>11, <1>12, <1>13, <1>14 DEF IInv
-------------------------------------------------------------------------------
(***************************************************************************)
(* Every step preserves the invariant: the handlers                        *)
(***************************************************************************)

\* The end of one handler changes outcomes only, and only in one batch.
LEMMA SettleEffect ==
  ASSUME IInv, NEW c \in Consumers, NEW i, NEW o \in Outcomes, Settle(c, i, o)
  PROVE  /\ batch' \in [Consumers -> Batches]
         /\ \A d \in Consumers : d # c => batch'[d] = batch[d]
         /\ DOMAIN batch'[c] = DOMAIN batch[c]
         /\ i \in DOMAIN batch[c]
         /\ \A j \in DOMAIN batch[c] : batch'[c][j].msg = batch[c][j].msg
         /\ \A j \in DOMAIN batch[c] : batch'[c][j].outcome = "fulfilled" =>
              \/ batch[c][j].outcome = "fulfilled"
              \/ j = i /\ o = "fulfilled"
  <1>1. PICK n \in 0..BatchSize : batch[c] \in [1..n -> Deliveries] /\ DOMAIN batch[c] = 1..n
    BY BatchType DEF IInv
  <1> DEFINE new == [j \in DOMAIN batch[c] |->
          [batch[c][j] EXCEPT !.outcome =
             IF j = i THEN o
             ELSE IF j = i + 1 /\ NextStarts(i, o) THEN "running" ELSE @]]
  <1>2. batch' = [batch EXCEPT ![c] = new]
    BY DEF Settle
  <1>3. \A j \in DOMAIN batch[c] :
          /\ new[j] \in Deliveries
          /\ new[j].msg = batch[c][j].msg
          /\ new[j].outcome = "fulfilled" =>
               batch[c][j].outcome = "fulfilled" \/ (j = i /\ o = "fulfilled")
    BY <1>1 DEF Deliveries, Outcomes
  <1>4. new \in [1..n -> Deliveries]
    BY <1>1, <1>3
  <1>5. new \in Batches
    BY <1>4, ConsumerAssumption DEF Batches
  <1>6. DOMAIN new = DOMAIN batch[c]
    OBVIOUS
  <1>7. i \in DOMAIN batch[c]
    BY DEF Settle, Running
  <1> HIDE DEF new
  <1>8. batch'[c] = new /\ batch' \in [Consumers -> Batches]
    BY <1>2, <1>5 DEF IInv, TypeOK
  <1> QED
    BY <1>2, <1>3, <1>6, <1>7, <1>8 DEF IInv, TypeOK

\* The part of the invariant that the three outcomes have in common.
LEMMA SettleStep ==
  ASSUME IInv, NEW c \in Consumers, NEW i, NEW o \in Outcomes, Settle(c, i, o),
         UNCHANGED <<queueVars, phase, reportVars>>,
         handled \subseteq handled', handled' \in SUBSET Messages,
         o = "fulfilled" => batch[c][i].msg \in handled',
         late' \in [Consumers -> SUBSET [msg : Messages, receipt : Receipts]],
         \A d \in Consumers : \A l \in late'[d] : receives[l.msg] > 0
  PROVE  IInv'
  <1> USE SettleEffect DEF queueVars, reportVars
  <1>1. TypeOK'
    BY DEF IInv, TypeOK
  <1>2. NothingReportedYet' /\ BatchPartitioned' /\ RefusedAreSuccesses'
    BY DEF IInv, NothingReportedYet, BatchPartitioned, RefusedAreSuccesses
  <1>3. SuccessesFulfilled'
    <2>1. success[c] = {}
      BY DEF Settle, IInv, NothingReportedYet
    <2> QED
      BY <2>1 DEF IInv, SuccessesFulfilled
  <1>4. FulfilledAreHandled'
    BY DEF IInv, FulfilledAreHandled
  <1>5. DeliveriesReceived'
    BY DEF IInv, DeliveriesReceived
  <1>6. AckedOnlyIfHandled'
    BY DEF IInv, AckedOnlyIfHandled
  <1> QED
    BY <1>1, <1>2, <1>3, <1>4, <1>5, <1>6 DEF IInv

LEMMA HandlerStep ==
  ASSUME IInv, NEW c \in Consumers, HandlerSettles(c)
  PROVE  IInv'
  <1>1. PICK i \in Running(c) :
          HandlerFulfils(c, i) \/ HandlerRejects(c, i) \/ HandlerTimesOut(c, i)
    BY DEF HandlerSettles
  <1>2. i \in DOMAIN batch[c]
    BY DEF Running
  <1>3. batch[c][i].msg \in Messages /\ batch[c][i].receipt \in Receipts
    BY <1>2, BatchPositions DEF IInv
  <1>4. CASE HandlerFulfils(c, i)
    BY <1>3, <1>4, SettleStep DEF HandlerFulfils, Outcomes, IInv, TypeOK, DeliveriesReceived
  <1>5. CASE HandlerRejects(c, i)
    BY <1>5, SettleStep DEF HandlerRejects, Outcomes, IInv, TypeOK, DeliveriesReceived
  <1>6. CASE HandlerTimesOut(c, i)
    <2> DEFINE l == [msg |-> batch[c][i].msg, receipt |-> batch[c][i].receipt]
    <2>1. late' = [late EXCEPT ![c] = @ \cup {l}]
      BY <1>6 DEF HandlerTimesOut
    <2>2. l \in [msg : Messages, receipt : Receipts] /\ receives[l.msg] > 0
      BY <1>2, <1>3 DEF IInv, DeliveriesReceived
    <2> HIDE DEF l
    <2>3. /\ late' \in [Consumers -> SUBSET [msg : Messages, receipt : Receipts]]
          /\ \A d \in Consumers : \A k \in late'[d] : receives[k.msg] > 0
      BY <2>1, <2>2 DEF IInv, TypeOK, DeliveriesReceived
    <2> QED
      BY <1>6, <2>3, SettleStep DEF HandlerTimesOut, Outcomes, IInv, TypeOK
  <1> QED
    BY <1>1, <1>4, <1>5, <1>6

LEMMA LateStep ==
  ASSUME IInv, NEW c \in Consumers, LateHandlerEnds(c)
  PROVE  IInv'
  <1>1. PICK d \in late[c] : LateHandlerFulfils(c, d) \/ LateHandlerRejects(c, d)
    BY DEF LateHandlerEnds
  <1>2. /\ late' = [late EXCEPT ![c] = @ \ {d}]
        /\ handled \subseteq handled' /\ handled' \in SUBSET Messages
        /\ UNCHANGED <<queueVars, phase, batch, reportVars>>
    BY <1>1 DEF LateHandlerFulfils, LateHandlerRejects, IInv, TypeOK
  <1> QED
    BY <1>2 DEF IInv, TypeOK, queueVars, reportVars, NothingReportedYet, BatchPartitioned,
       RefusedAreSuccesses, SuccessesFulfilled, FulfilledAreHandled, DeliveriesReceived,
       AckedOnlyIfHandled
-------------------------------------------------------------------------------
(***************************************************************************)
(* Every step preserves the invariant: acknowledging and reporting         *)
(***************************************************************************)

LEMMA ProcessingDoneStep ==
  ASSUME IInv, NEW c \in Consumers, ProcessingDone(c)
  PROVE  IInv'
  <1>1. /\ Succeeded(c) \cup Failed(c) = DOMAIN batch[c]
        /\ Succeeded(c) \cap Failed(c) = {}
    <2>1. \A i \in DOMAIN batch[c] : batch[c][i].outcome \in Outcomes
      BY BatchPositions DEF IInv
    <2> QED
      BY <2>1 DEF ProcessingDone, Settled, Succeeded, Failed, Outcomes
  <1>2. DOMAIN batch[c] \subseteq Positions
    BY BatchPositions DEF IInv
  <1>3. /\ phase[c] = "processing"
        /\ success' = [success EXCEPT ![c] = Succeeded(c)]
        /\ failed' = [failed EXCEPT ![c] = Failed(c)]
        /\ phase' = [phase EXCEPT ![c] = IF Succeeded(c) = {} THEN AfterReport ELSE "deleting"]
        /\ UNCHANGED <<queue, receives, batch, refused, late, handled>>
    BY DEF ProcessingDone, queueVars
  <1>4. refused[c] = {}
    BY <1>3 DEF IInv, NothingReportedYet
  <1>5. phase'[c] \in {"deleting", "terminating", "reported"} /\ phase' \in [Consumers -> Phases]
    BY <1>3 DEF AfterReport, IInv, TypeOK, Phases
  <1>6. TypeOK'
    BY <1>1, <1>2, <1>3, <1>4, <1>5 DEF IInv, TypeOK
  <1>7. NothingReportedYet' /\ BatchPartitioned' /\ RefusedAreSuccesses'
    BY <1>1, <1>3, <1>5 DEF IInv, TypeOK, NothingReportedYet, BatchPartitioned, RefusedAreSuccesses
  <1>8. SuccessesFulfilled'
    BY <1>3 DEF IInv, TypeOK, SuccessesFulfilled, Succeeded
  <1> QED
    BY <1>3, <1>6, <1>7, <1>8 DEF IInv, FulfilledAreHandled, DeliveriesReceived, AckedOnlyIfHandled

\* The request deletes messages of successes, which have been handled.
LEMMA DeletedAreHandled ==
  ASSUME IInv, NEW c \in Consumers, SqsDeletes(c)
  PROVE  \E ms \in SUBSET (handled \cap {m \in Messages : queue[m] \in {"visible", "inFlight"}}) :
           Delete(ms)
  <1>1. PICK no \in SUBSET success[c] :
          \E stale \in SUBSET ((success[c] \ no) \ Fresh(c)) :
            Delete(InQueue(c, ((success[c] \ no) \cap Fresh(c)) \cup stale))
    BY DEF SqsDeletes
  <1>2. PICK stale \in SUBSET ((success[c] \ no) \ Fresh(c)) :
          Delete(InQueue(c, ((success[c] \ no) \cap Fresh(c)) \cup stale))
    BY <1>1
  <1> DEFINE ps == ((success[c] \ no) \cap Fresh(c)) \cup stale
  <1>3. ps \subseteq success[c]
    BY <1>1, <1>2
  <1> HIDE DEF ps
  <1>4. InQueue(c, ps) \subseteq handled
    BY <1>3 DEF InQueue, IInv, TypeOK, SuccessesFulfilled, FulfilledAreHandled
  <1> QED
    BY <1>2, <1>4 DEF ps, InQueue

LEMMA SqsDeletesStep ==
  ASSUME IInv, NEW c \in Consumers, SqsDeletes(c)
  PROVE  IInv'
  <1>1. PICK ms \in SUBSET (handled \cap {m \in Messages : queue[m] \in {"visible", "inFlight"}}) :
          Delete(ms)
    BY DeletedAreHandled
  <1>2. PICK no \in SUBSET success[c] : refused' = [refused EXCEPT ![c] = no]
    BY DEF SqsDeletes
  <1>3. PICK p \in {"replied", "replyLost"} : phase' = [phase EXCEPT ![c] = p]
    BY DEF SqsDeletes
  <1>4. phase[c] = "deleting" /\ UNCHANGED <<receives, batch, success, failed, late, handled>>
    BY DEF SqsDeletes
  <1>5. queue' \in [Messages -> {"visible", "inFlight", "deleted", "dead"}]
    BY <1>1 DEF Delete, IInv, TypeOK
  <1>6. TypeOK'
    BY <1>2, <1>3, <1>4, <1>5 DEF IInv, TypeOK, Phases
  <1>7. AckedOnlyIfHandled'
    BY <1>1, <1>4 DEF Delete, IInv, AckedOnlyIfHandled
  <1>8. NothingReportedYet' /\ BatchPartitioned' /\ RefusedAreSuccesses'
    BY <1>2, <1>3, <1>4 DEF IInv, TypeOK, NothingReportedYet, BatchPartitioned, RefusedAreSuccesses
  <1> QED
    BY <1>4, <1>6, <1>7, <1>8 DEF IInv, SuccessesFulfilled, FulfilledAreHandled, DeliveriesReceived

LEMMA DeleteFailsStep ==
  ASSUME IInv, NEW c \in Consumers, DeleteFails(c)
  PROVE  IInv'
  BY DEF DeleteFails, IInv, TypeOK, Phases, queueVars, reportVars, NothingReportedYet,
     BatchPartitioned, RefusedAreSuccesses, SuccessesFulfilled, FulfilledAreHandled,
     DeliveriesReceived, AckedOnlyIfHandled

\* Both ways of reporting move successes to failed.
LEMMA ReportStepStep ==
  ASSUME IInv, NEW c \in Consumers, ReportStep(c)
  PROVE  IInv'
  <1>1. PICK moved \in SUBSET success[c] :
          /\ success' = [success EXCEPT ![c] = success[c] \ moved]
          /\ failed' = [failed EXCEPT ![c] = failed[c] \cup moved]
    <2>1. CASE Report(c)
      <3>1. MovedToFailed(c) \in SUBSET success[c]
        BY <2>1 DEF Report, MovedToFailed, IInv, RefusedAreSuccesses
      <3> QED
        BY <2>1, <3>1 DEF Report
    <2>2. CASE ReportAllFailed(c)
      <3>1. success[c] \ success[c] = KeptOnError(c)
        BY DEF KeptOnError
      <3> QED
        BY <2>2, <3>1 DEF ReportAllFailed
    <2> QED
      BY <2>1, <2>2 DEF ReportStep
  <1>2. /\ phase[c] \in {"replied", "replyLost"}
        /\ phase' = [phase EXCEPT ![c] = AfterReport]
        /\ UNCHANGED <<queue, receives, batch, refused, late, handled>>
    BY DEF ReportStep, Report, ReportAllFailed, queueVars
  <1>3. phase'[c] \in {"terminating", "reported"} /\ phase' \in [Consumers -> Phases]
    BY <1>2 DEF AfterReport, IInv, TypeOK, Phases
  <1>4. TypeOK'
    BY <1>1, <1>2, <1>3 DEF IInv, TypeOK
  <1>5. NothingReportedYet' /\ BatchPartitioned' /\ RefusedAreSuccesses'
    BY <1>1, <1>2, <1>3
    DEF IInv, TypeOK, NothingReportedYet, BatchPartitioned, RefusedAreSuccesses
  <1>6. SuccessesFulfilled'
    BY <1>1, <1>2 DEF IInv, TypeOK, SuccessesFulfilled
  <1> QED
    BY <1>2, <1>4, <1>5, <1>6 DEF IInv, FulfilledAreHandled, DeliveriesReceived, AckedOnlyIfHandled

LEMMA TerminateStep ==
  ASSUME IInv, NEW c \in Consumers, TerminateVisibilityTimeout(c)
  PROVE  IInv'
  <1>1. PICK ms \in SUBSET {m \in InQueue(c, failed[c]) : queue[m] = "inFlight"} :
          queue' = [m \in Messages |-> IF m \in ms THEN "visible" ELSE queue[m]]
    BY DEF TerminateVisibilityTimeout
  <1>2. /\ phase[c] = "terminating"
        /\ phase' = [phase EXCEPT ![c] = "reported"]
        /\ UNCHANGED <<receives, batch, success, failed, refused, late, handled>>
    BY DEF TerminateVisibilityTimeout, reportVars
  <1>3. TypeOK'
    BY <1>1, <1>2 DEF IInv, TypeOK, Phases
  <1>4. NothingReportedYet' /\ BatchPartitioned' /\ RefusedAreSuccesses'
    BY <1>2 DEF IInv, TypeOK, NothingReportedYet, BatchPartitioned, RefusedAreSuccesses
  <1>5. AckedOnlyIfHandled'
    BY <1>1, <1>2 DEF IInv, AckedOnlyIfHandled
  <1> QED
    BY <1>2, <1>3, <1>4, <1>5 DEF IInv, SuccessesFulfilled, FulfilledAreHandled, DeliveriesReceived

\* NextPoll and Crash.
LEMMA ForgetStep ==
  ASSUME IInv, NEW c \in Consumers, Forget(c), UNCHANGED <<queue, receives, handled>>,
         UNCHANGED late \/ late' = [late EXCEPT ![c] = {}]
  PROVE  IInv'
  <1> USE DEF Forget
  <1>1. TypeOK'
    BY NoBatchType DEF IInv, TypeOK, Phases
  <1>2. NothingReportedYet' /\ BatchPartitioned' /\ RefusedAreSuccesses'
    BY DEF IInv, TypeOK, NothingReportedYet, BatchPartitioned, RefusedAreSuccesses
  <1>3. SuccessesFulfilled' /\ FulfilledAreHandled' /\ DeliveriesReceived'
    BY NoBatchType DEF IInv, TypeOK, SuccessesFulfilled, FulfilledAreHandled, DeliveriesReceived
  <1>4. AckedOnlyIfHandled'
    BY DEF IInv, AckedOnlyIfHandled
  <1> QED
    BY <1>1, <1>2, <1>3, <1>4 DEF IInv

LEMMA IInvStep == IInv /\ [Next]_vars => IInv'
  <1> SUFFICES ASSUME IInv, [Next]_vars
               PROVE  IInv'
    OBVIOUS
  <1>1. ASSUME NEW c \in Consumers, NextPoll(c) \/ Crash(c)
        PROVE  IInv'
    BY <1>1, ForgetStep DEF NextPoll, Crash, queueVars
  <1>2. CASE UNCHANGED vars
    BY <1>2 DEF vars, queueVars, reportVars, IInv, TypeOK, NothingReportedYet, BatchPartitioned,
       RefusedAreSuccesses, SuccessesFulfilled, FulfilledAreHandled, DeliveriesReceived,
       AckedOnlyIfHandled
  <1> QED
    BY <1>1, <1>2, ExpiryStep, ReceiveStep, ReceiveLostStep, HandlerStep, LateStep,
       ProcessingDoneStep, SqsDeletesStep, DeleteFailsStep, ReportStepStep, TerminateStep
    DEF Next

-------------------------------------------------------------------------------
(***************************************************************************)
(* The theorems                                                            *)
(***************************************************************************)

THEOREM Inductive == Spec => []IInv
  BY IInvInit, IInvStep, PTL DEF Spec

\* Every variable keeps its type; positions on the lists are positions of the batch.
THEOREM TypeCorrect == Spec => []TypeOK
  <1>1. IInv => TypeOK
    BY DEF IInv
  <1> QED
    BY <1>1, Inductive, PTL

\* No message is deleted from the queue before a handler has fulfilled it, however
\* many consumers there are and whatever times out, is lost or crashes.
THEOREM NoLoss == Spec => []AckedOnlyIfHandled
  <1>1. IInv => AckedOnlyIfHandled
    BY DEF IInv
  <1> QED
    BY <1>1, Inductive, PTL

\* The END event accounts for each message of the batch exactly once.
THEOREM ReportComplete == Spec => []ReportCoversBatch
  <1>1. IInv => ReportCoversBatch
    BY DEF IInv, BatchPartitioned, ReportCoversBatch, Reported
  <1> QED
    BY <1>1, Inductive, PTL

-------------------------------------------------------------------------------
(***************************************************************************)
(* The consumer implements at-least-once delivery                          *)
(***************************************************************************)

\* A step that changes neither what is settled nor the counts is a stutter.
LEMMA StutterStep ==
  ASSUME UNCHANGED <<receives, handled>>,
         \A m \in Messages : queue'[m] = queue[m]
                             \/ (queue[m] \in {"visible", "inFlight"}
                                 /\ queue'[m] \in {"visible", "inFlight"})
  PROVE  UNCHANGED Contract!contractVars
  BY DEF Contract!contractVars, Fate

LEMMA InitRefines == Init => Contract!ContractInit
  BY DEF Init, Contract!ContractInit, Fate

\* Receiving, with or without a response, is an attempt.
LEMMA TakeRefines ==
  ASSUME IInv, NEW ms \in SUBSET Deliverable, Take(ms), UNCHANGED handled
  PROVE  Contract!ContractNext
  <1>1. ms \in SUBSET Messages
    BY DEF Deliverable
  <1>2. Contract!Attempt(ms)
    BY DEF Contract!Attempt, Contract!Queued, Take, Deliverable, Fate, IInv, TypeOK
  <1> QED
    BY <1>1, <1>2 DEF Contract!ContractNext

\* A handler that fulfils, in time or late, handles a message that was received.
LEMMA HandleRefines ==
  ASSUME NEW m \in Messages, receives[m] > 0, handled' = handled \cup {m},
         UNCHANGED <<queue, receives>>
  PROVE  Contract!ContractNext
  <1>1. Contract!Handle(m)
    BY DEF Contract!Handle, Fate
  <1> QED
    BY <1>1 DEF Contract!ContractNext

\* Deleting is acknowledging.
LEMMA DeleteRefines ==
  ASSUME IInv, NEW c \in Consumers, SqsDeletes(c)
  PROVE  Contract!ContractNext
  <1>1. PICK ms \in SUBSET (handled \cap {m \in Messages : queue[m] \in {"visible", "inFlight"}}) :
          Delete(ms)
    BY DeletedAreHandled
  <1>2. ms \in SUBSET Messages
    BY DEF IInv, TypeOK
  <1>3. Contract!Acknowledge(ms)
    BY <1>1, <1>2 DEF Contract!Acknowledge, Contract!Queued, Delete, Fate, SqsDeletes, IInv, TypeOK
  <1> QED
    BY <1>2, <1>3 DEF Contract!ContractNext

LEMMA RedriveRefines ==
  ASSUME IInv, NEW m \in Messages, Redrive(m)
  PROVE  Contract!ContractNext
  <1>1. Contract!DeadLetter(m)
    BY DEF Contract!DeadLetter, Redrive, Fate, IInv, TypeOK
  <1> QED
    BY <1>1 DEF Contract!ContractNext

LEMMA StepRefines ==
  IInv /\ [Next]_vars => [Contract!ContractNext]_Contract!contractVars
  <1> SUFFICES ASSUME IInv, [Next]_vars
               PROVE  Contract!ContractNext \/ UNCHANGED Contract!contractVars
    OBVIOUS
  <1> USE DEF queueVars, reportVars
  <1>1. ASSUME NEW c \in Consumers, Receive(c)
        PROVE  Contract!ContractNext
    <2>1. PICK n \in 1..MaxNumberOfMessages : \E msgs \in [1..n -> Deliverable] :
            Take({msgs[i] : i \in 1..n})
      BY <1>1 DEF Receive
    <2>2. PICK msgs \in [1..n -> Deliverable] : Take({msgs[i] : i \in 1..n})
      BY <2>1
    <2> QED
      BY <1>1, <2>2, TakeRefines DEF Receive
  <1>2. ASSUME NEW c \in Consumers, ReceiveLost(c)
        PROVE  Contract!ContractNext
    BY <1>2, TakeRefines DEF ReceiveLost
  <1>3. ASSUME NEW c \in Consumers, HandlerSettles(c)
        PROVE  Contract!ContractNext \/ UNCHANGED Contract!contractVars
    <2>1. PICK i \in Running(c) :
            HandlerFulfils(c, i) \/ HandlerRejects(c, i) \/ HandlerTimesOut(c, i)
      BY <1>3 DEF HandlerSettles
    <2>2. batch[c][i].msg \in Messages /\ receives[batch[c][i].msg] > 0
      BY BatchPositions DEF Running, IInv, DeliveriesReceived
    <2>3. CASE HandlerFulfils(c, i)
      BY <2>2, <2>3, HandleRefines DEF HandlerFulfils
    <2>4. CASE HandlerRejects(c, i) \/ HandlerTimesOut(c, i)
      BY <2>4, StutterStep DEF HandlerRejects, HandlerTimesOut
    <2> QED
      BY <2>1, <2>3, <2>4
  <1>4. ASSUME NEW c \in Consumers, LateHandlerEnds(c)
        PROVE  Contract!ContractNext \/ UNCHANGED Contract!contractVars
    <2>1. PICK d \in late[c] : LateHandlerFulfils(c, d) \/ LateHandlerRejects(c, d)
      BY <1>4 DEF LateHandlerEnds
    <2>2. d.msg \in Messages /\ receives[d.msg] > 0
      BY DEF IInv, TypeOK, DeliveriesReceived
    <2>3. CASE LateHandlerFulfils(c, d)
      BY <2>2, <2>3, HandleRefines DEF LateHandlerFulfils
    <2>4. CASE LateHandlerRejects(c, d)
      BY <2>4, StutterStep DEF LateHandlerRejects
    <2> QED
      BY <2>1, <2>3, <2>4
  <1>5. ASSUME NEW c \in Consumers,
               \/ ProcessingDone(c) \/ DeleteFails(c) \/ ReportStep(c) \/ NextPoll(c) \/ Crash(c)
        PROVE  UNCHANGED Contract!contractVars
    <2>1. UNCHANGED <<queue, receives, handled>>
      BY <1>5 DEF ProcessingDone, DeleteFails, ReportStep, Report, ReportAllFailed, NextPoll, Crash
    <2> QED
      BY <2>1, StutterStep
  <1>6. ASSUME NEW c \in Consumers, TerminateVisibilityTimeout(c)
        PROVE  UNCHANGED Contract!contractVars
    <2>1. PICK ms \in SUBSET {m \in InQueue(c, failed[c]) : queue[m] = "inFlight"} :
            queue' = [m \in Messages |-> IF m \in ms THEN "visible" ELSE queue[m]]
      BY <1>6 DEF TerminateVisibilityTimeout
    <2> QED
      BY <1>6, <2>1, StutterStep DEF TerminateVisibilityTimeout
  <1>7. ASSUME NEW m \in Messages, VisibilityExpires(m)
        PROVE  UNCHANGED Contract!contractVars
    BY <1>7, StutterStep DEF VisibilityExpires, IInv, TypeOK
  <1>8. CASE UNCHANGED vars
    BY <1>8, StutterStep DEF vars
  <1> QED
    BY <1>1, <1>2, <1>3, <1>4, <1>5, <1>6, <1>7, <1>8, DeleteRefines, RedriveRefines DEF Next

\* The consumer implements the contract: what leaves the queue has been handled, or
\* received as often as the queue allows.
THEOREM Refinement == Spec => ImplementsContract
  BY Inductive, InitRefines, StepRefines, PTL DEF Spec, ImplementsContract, Contract!ContractSpec

-------------------------------------------------------------------------------
(***************************************************************************)
(* Sequential mode runs the handlers in order                              *)
(***************************************************************************)

\* The order within one batch.
InOrder(b) ==
  \A i, j \in DOMAIN b :
    (i < j /\ b[j].outcome # "waiting") => b[i].outcome \notin {"waiting", "running"}

\* Settling the running handler and starting the next one keeps the order.
LEMMA SettleKeepsOrder ==
  ASSUME ~Concurrent, IInv, NEW c \in Consumers, NEW i, NEW o \in {"fulfilled", "rejected", "timedOut"},
         Settle(c, i, o), InOrder(batch[c])
  PROVE  InOrder(batch'[c])
  <1>1. PICK n \in 0..BatchSize : batch[c] \in [1..n -> Deliveries] /\ DOMAIN batch[c] = 1..n
    BY BatchType DEF IInv
  <1>2. i \in 1..n /\ batch[c][i].outcome = "running"
    BY <1>1 DEF Settle, Running
  <1>3. /\ DOMAIN batch'[c] = 1..n
        /\ \A j \in 1..n : batch'[c][j].outcome =
             IF j = i THEN o ELSE IF j = i + 1 THEN "running" ELSE batch[c][j].outcome
    BY <1>1 DEF Settle, NextStarts, Deliveries, IInv, TypeOK
  <1>4. \A j \in 1..n : j < i => batch[c][j].outcome \notin {"waiting", "running"}
    BY <1>1, <1>2 DEF InOrder
  <1>5. \A j \in 1..n : i < j => batch[c][j].outcome = "waiting"
    BY <1>1, <1>2 DEF InOrder
  <1>6. ASSUME NEW k \in 1..n, NEW j \in 1..n, k < j, batch'[c][j].outcome # "waiting"
        PROVE  batch'[c][k].outcome \notin {"waiting", "running"}
    <2>1. j <= i + 1
      BY <1>2, <1>3, <1>5, <1>6
    <2>2. k <= i
      BY <1>2, <1>6, <2>1
    <2> QED
      BY <1>2, <1>3, <1>4, <2>2
  <1> QED
    BY <1>3, <1>6 DEF InOrder

LEMMA OrderStep == IInv /\ SequentialOrder /\ [Next]_vars => SequentialOrder'
  <1> SUFFICES ASSUME IInv, SequentialOrder, [Next]_vars, ~Concurrent,
                      NEW c \in Consumers
               PROVE  InOrder(batch'[c])
    BY DEF SequentialOrder, InOrder
  <1>1. InOrder(batch[c])
    BY DEF SequentialOrder, InOrder
  <1>2. CASE batch'[c] = batch[c]
    BY <1>1, <1>2 DEF InOrder
  <1>3. CASE Receive(c)
    <2>1. PICK n \in 1..MaxNumberOfMessages : \E msgs \in [1..n -> Deliverable] :
            batch' = [batch EXCEPT ![c] =
              [i \in 1..n |-> [msg |-> msgs[i], receipt |-> receives[msgs[i]] + 1,
                               outcome |-> FirstOutcome(i)]]]
      BY <1>3 DEF Receive
    <2>2. /\ DOMAIN batch'[c] = 1..n
          /\ \A i \in 1..n : batch'[c][i].outcome = FirstOutcome(i)
      BY <2>1 DEF IInv, TypeOK
    <2> QED
      BY <2>2 DEF InOrder, FirstOutcome
  <1>4. CASE HandlerSettles(c)
    <2>1. PICK i \in Running(c) :
            HandlerFulfils(c, i) \/ HandlerRejects(c, i) \/ HandlerTimesOut(c, i)
      BY <1>4 DEF HandlerSettles
    <2>2. PICK o \in {"fulfilled", "rejected", "timedOut"} : Settle(c, i, o)
      BY <2>1 DEF HandlerFulfils, HandlerRejects, HandlerTimesOut
    <2> QED
      BY <1>1, <2>2, SettleKeepsOrder
  <1>5. CASE Forget(c)
    BY <1>5, NoBatchType DEF Forget, InOrder, IInv, TypeOK
  <1>6. \/ batch'[c] = batch[c]
        \/ Receive(c) \/ HandlerSettles(c) \/ Forget(c)
    <2>1. ASSUME NEW d \in Consumers, d # c, Receive(d) \/ HandlerSettles(d) \/ Forget(d)
          PROVE  batch'[c] = batch[c]
      BY <2>1 DEF Receive, HandlerSettles, HandlerFulfils, HandlerRejects, HandlerTimesOut,
         Settle, Forget, IInv, TypeOK
    <2>2. ASSUME NEW d \in Consumers, NextPoll(d) \/ Crash(d)
          PROVE  Forget(d)
      BY <2>2 DEF NextPoll, Crash
    <2>3. ASSUME NEW d \in Consumers,
                 \/ ReceiveLost(d) \/ LateHandlerEnds(d) \/ ProcessingDone(d) \/ SqsDeletes(d)
                 \/ DeleteFails(d) \/ ReportStep(d) \/ TerminateVisibilityTimeout(d)
          PROVE  batch' = batch
      BY <2>3 DEF ReceiveLost, LateHandlerEnds, LateHandlerFulfils, LateHandlerRejects,
         ProcessingDone, SqsDeletes, DeleteFails, ReportStep, Report, ReportAllFailed,
         TerminateVisibilityTimeout
    <2>4. ASSUME NEW m \in Messages, VisibilityExpires(m) \/ Redrive(m)
          PROVE  batch' = batch
      BY <2>4 DEF VisibilityExpires, Redrive
    <2> QED
      BY <2>1, <2>2, <2>3, <2>4 DEF Next, vars
  <1> QED
    BY <1>2, <1>3, <1>4, <1>5, <1>6

\* In sequential mode each handler is started when the one before it has settled,
\* whatever the outcome was (sequential-message.processor.ts:19-29).
THEOREM Order == Spec => []SequentialOrder
  <1>1. Init => SequentialOrder
    BY NoBatchType DEF Init, SequentialOrder
  <1> QED
    BY <1>1, Inductive, OrderStep, PTL DEF Spec

-------------------------------------------------------------------------------
(***************************************************************************)
(* What is reported as processed has left the queue                        *)
(***************************************************************************)

Gone(m) == queue[m] \in {"deleted", "dead"}

\* SQS counts up: the receipt handles of a batch are not newer than the latest.
Issued(c) == \A i \in DOMAIN batch[c] : batch[c][i].receipt <= receives[batch[c][i].msg]

\* The delete request of c was carried out ...
AnsweredIsGone(c) ==
  phase[c] = "replied" =>
    \A i \in success[c] \cap Fresh(c) : i \in refused[c] \/ Gone(batch[c][i].msg)

\* ... and what it left in the queue was moved to failed, but for position 0.
ReportedIsGone(c) ==
  Reported(c) =>
    \A i \in success[c] \cap Fresh(c) : AtIndexZero(c, i) \/ Gone(batch[c][i].msg)

GoneFor(c) == Issued(c) /\ AnsweredIsGone(c) /\ ReportedIsGone(c)

GInv == IInv /\ \A c \in Consumers : GoneFor(c)

\* What every step does to the queue: messages do not come back, counts do not fall.
QueueMoves ==
  /\ \A m \in Messages : Gone(m) => Gone(m)'
  /\ \A m \in Messages : receives'[m] \in Nat /\ receives'[m] >= receives[m]

\* A receipt handle that is the latest after a step was the latest before it.
LEMMA FreshBefore ==
  ASSUME IInv, QueueMoves, NEW c \in Consumers, Issued(c), batch'[c] = batch[c]
  PROVE  Fresh(c)' \subseteq Fresh(c)
  <1> SUFFICES ASSUME NEW i \in DOMAIN batch[c],
                      batch[c][i].receipt = receives'[batch[c][i].msg]
               PROVE  batch[c][i].receipt = receives[batch[c][i].msg]
    BY DEF Fresh
  <1>1. batch[c][i].msg \in Messages /\ batch[c][i].receipt \in Receipts
    BY BatchPositions DEF IInv
  <1>2. receives[batch[c][i].msg] \in Nat
    BY <1>1, ConsumerAssumption DEF IInv, TypeOK
  <1> QED
    BY <1>1, <1>2, ConsumerAssumption DEF Issued, QueueMoves, Receipts

\* A step that leaves the lists of c alone and sends it nowhere new.
LEMMA KeepsGone ==
  ASSUME GInv, QueueMoves, NEW c \in Consumers,
         batch'[c] = batch[c], success'[c] = success[c], refused'[c] = refused[c],
         phase'[c] = "replied" => phase[c] = "replied",
         Reported(c)' => Reported(c)
  PROVE  GoneFor(c)'
  <1>1. GoneFor(c) /\ IInv
    BY DEF GInv
  <1>2. Fresh(c)' \subseteq Fresh(c)
    BY <1>1, FreshBefore DEF GoneFor
  <1>3. \A i \in DOMAIN batch[c] :
          batch[c][i].msg \in Messages /\ batch[c][i].receipt \in Receipts
    BY <1>1, BatchPositions DEF IInv
  <1>4. \A m \in Messages : receives[m] \in Nat
    BY <1>1, ConsumerAssumption DEF IInv, TypeOK
  <1>5. Issued(c)'
    BY <1>1, <1>3, <1>4, ConsumerAssumption DEF GoneFor, Issued, QueueMoves, Receipts
  <1>6. success[c] \subseteq DOMAIN batch[c]
    BY <1>1 DEF IInv, TypeOK
  <1>7. AnsweredIsGone(c)'
    BY <1>1, <1>2, <1>3, <1>6 DEF GoneFor, AnsweredIsGone, QueueMoves
  <1>8. ReportedIsGone(c)'
    BY <1>1, <1>2, <1>3, <1>6 DEF GoneFor, ReportedIsGone, QueueMoves, AtIndexZero
  <1> QED
    BY <1>5, <1>7, <1>8 DEF GoneFor

\* Before the delete request has been answered there is nothing to show.
LEMMA NotYetGone ==
  ASSUME NEW c \in Consumers, Issued(c)', phase'[c] # "replied", ~Reported(c)'
  PROVE  GoneFor(c)'
  BY DEF GoneFor, AnsweredIsGone, ReportedIsGone

\* Nor for a batch without successes.
LEMMA NothingToShow ==
  ASSUME NEW c \in Consumers, Issued(c)', success'[c] = {}
  PROVE  GoneFor(c)'
  BY DEF GoneFor, AnsweredIsGone, ReportedIsGone

\* The handles stay what they are when only outcomes change.
LEMMA StillIssued ==
  ASSUME GInv, QueueMoves, NEW c \in Consumers, DOMAIN batch'[c] = DOMAIN batch[c],
         \A i \in DOMAIN batch[c] : /\ batch'[c][i].msg = batch[c][i].msg
                                    /\ batch'[c][i].receipt = batch[c][i].receipt
  PROVE  Issued(c)'
  <1>1. Issued(c) /\ IInv
    BY DEF GInv, GoneFor
  <1>2. \A i \in DOMAIN batch[c] :
          batch[c][i].msg \in Messages /\ batch[c][i].receipt \in Receipts
    BY <1>1, BatchPositions DEF IInv
  <1>3. \A m \in Messages : receives[m] \in Nat
    BY <1>1, ConsumerAssumption DEF IInv, TypeOK
  <1> QED
    BY <1>1, <1>2, <1>3, ConsumerAssumption DEF Issued, QueueMoves, Receipts

-------------------------------------------------------------------------------
LEMMA TakeMoves ==
  ASSUME IInv, NEW ms \in SUBSET Deliverable, Take(ms)
  PROVE  QueueMoves
  BY TakeEffect, ConsumerAssumption DEF QueueMoves, Gone, Take, Deliverable, IInv, TypeOK

\* Every step moves the queue forward.
LEMMA MovesOn == IInv /\ [Next]_vars => QueueMoves
  <1> SUFFICES ASSUME IInv, [Next]_vars
               PROVE  QueueMoves
    OBVIOUS
  <1>0. \A m \in Messages : receives[m] \in Nat
    BY ConsumerAssumption DEF IInv, TypeOK
  <1>1. ASSUME NEW c \in Consumers, Receive(c) \/ ReceiveLost(c)
        PROVE  QueueMoves
    <2>1. CASE ReceiveLost(c)
      BY <2>1, TakeMoves DEF ReceiveLost
    <2>2. CASE Receive(c)
      <3>1. PICK n \in 1..MaxNumberOfMessages : \E msgs \in [1..n -> Deliverable] :
              Take({msgs[i] : i \in 1..n})
        BY <2>2 DEF Receive
      <3>2. PICK msgs \in [1..n -> Deliverable] : Take({msgs[i] : i \in 1..n})
        BY <3>1
      <3> QED
        BY <3>2, TakeMoves
    <2> QED
      BY <1>1, <2>1, <2>2
  <1>2. ASSUME UNCHANGED queueVars
        PROVE  QueueMoves
    BY <1>0, <1>2 DEF QueueMoves, Gone, queueVars
  <1>3. ASSUME NEW c \in Consumers, SqsDeletes(c)
        PROVE  QueueMoves
    <2>1. PICK ms : Delete(ms)
      BY <1>3 DEF SqsDeletes
    <2> QED
      BY <1>0, <1>3, <2>1 DEF QueueMoves, Gone, Delete, SqsDeletes
  <1>4. ASSUME NEW c \in Consumers, TerminateVisibilityTimeout(c)
        PROVE  QueueMoves
    BY <1>0, <1>4 DEF QueueMoves, Gone, TerminateVisibilityTimeout
  <1>5. ASSUME NEW m \in Messages, VisibilityExpires(m) \/ Redrive(m)
        PROVE  QueueMoves
    BY <1>0, <1>5 DEF QueueMoves, Gone, VisibilityExpires, Redrive, IInv, TypeOK
  <1>6. ASSUME NEW c \in Consumers,
               \/ HandlerSettles(c) \/ LateHandlerEnds(c) \/ ProcessingDone(c)
               \/ DeleteFails(c) \/ ReportStep(c) \/ NextPoll(c) \/ Crash(c)
        PROVE  UNCHANGED queueVars
    BY <1>6 DEF HandlerSettles, HandlerFulfils, HandlerRejects, HandlerTimesOut,
       LateHandlerEnds, LateHandlerFulfils, LateHandlerRejects, ProcessingDone, DeleteFails,
       ReportStep, Report, ReportAllFailed, NextPoll, Crash
  <1>7. CASE UNCHANGED vars
    BY <1>2, <1>7 DEF vars
  <1> QED
    BY <1>1, <1>2, <1>3, <1>4, <1>5, <1>6, <1>7 DEF Next

-------------------------------------------------------------------------------
\* The successes that were fresh and not refused are deleted, if they were not before.
LEMMA DeletesGone ==
  ASSUME GInv, NEW c \in Consumers, SqsDeletes(c), QueueMoves
  PROVE  GoneFor(c)'
  <1>1. IInv /\ phase[c] = "deleting" /\ UNCHANGED <<receives, batch, success>>
    BY DEF SqsDeletes, GInv
  <1>2. PICK no \in SUBSET success[c] :
          /\ refused' = [refused EXCEPT ![c] = no]
          /\ \E stale \in SUBSET ((success[c] \ no) \ Fresh(c)) :
               Delete(InQueue(c, ((success[c] \ no) \cap Fresh(c)) \cup stale))
    BY DEF SqsDeletes
  <1>3. PICK stale \in SUBSET ((success[c] \ no) \ Fresh(c)) :
          Delete(InQueue(c, ((success[c] \ no) \cap Fresh(c)) \cup stale))
    BY <1>2
  <1>4. phase'[c] \in {"replied", "replyLost"}
    BY DEF SqsDeletes, GInv, IInv, TypeOK
  <1>5. refused'[c] = no
    BY <1>1, <1>2 DEF IInv, TypeOK
  <1>6. Issued(c)'
    BY <1>1, StillIssued
  <1>7. ASSUME NEW i \in success[c] \cap Fresh(c), i \notin no
        PROVE  Gone(batch[c][i].msg)'
    <2>1. i \in DOMAIN batch[c]
      BY DEF Fresh
    <2>2. batch[c][i].msg \in Messages
      BY <1>1, <2>1, BatchPositions DEF IInv
    <2>3. CASE queue[batch[c][i].msg] \in {"visible", "inFlight"}
      <3>1. batch[c][i].msg \in InQueue(c, ((success[c] \ no) \cap Fresh(c)) \cup stale)
        BY <1>7, <2>2, <2>3 DEF InQueue
      <3> QED
        BY <1>1, <1>3, <2>2, <3>1 DEF Delete, Gone
    <2>4. CASE Gone(batch[c][i].msg)
      BY <1>1, <2>2, <2>4 DEF QueueMoves, Gone
    <2> QED
      BY <1>1, <2>2, <2>3, <2>4 DEF Gone, IInv, TypeOK
  <1>8. Fresh(c)' = Fresh(c)
    BY <1>1 DEF Fresh
  <1>9. AnsweredIsGone(c)'
    BY <1>1, <1>5, <1>7, <1>8 DEF AnsweredIsGone
  <1> QED
    BY <1>4, <1>6, <1>9 DEF GoneFor, ReportedIsGone, Reported

\* What is on the list of successes after the report is gone or at position 0.
LEMMA ReportGone ==
  ASSUME GInv, NEW c \in Consumers, Report(c), QueueMoves
  PROVE  GoneFor(c)'
  <1>1. IInv /\ GoneFor(c) /\ phase[c] = "replied" /\ UNCHANGED <<queue, receives, batch, refused>>
    BY DEF Report, GInv, queueVars
  <1>2. success'[c] = success[c] \ MovedToFailed(c) /\ phase'[c] # "replied"
    BY <1>1 DEF Report, AfterReport, IInv, TypeOK
  <1>3. Issued(c)'
    BY <1>1, StillIssued
  <1>4. Fresh(c)' = Fresh(c)
    BY <1>1 DEF Fresh
  <1>5. ASSUME NEW i \in success'[c] \cap Fresh(c)'
        PROVE  AtIndexZero(c, i)' \/ Gone(batch[c][i].msg)'
    <2>1. i \in success[c] \cap Fresh(c) /\ i \notin MovedToFailed(c)
      BY <1>2, <1>4
    <2>2. CASE i \in refused[c]
      <3>1. AtIndexZero(c, i)
        BY <2>1, <2>2 DEF MovedToFailed
      <3> QED
        BY <1>2, <3>1 DEF AtIndexZero
    <2>3. CASE i \notin refused[c]
      BY <1>1, <2>1, <2>3 DEF GoneFor, AnsweredIsGone, Gone
    <2> QED
      BY <2>2, <2>3
  <1>6. ReportedIsGone(c)'
    BY <1>1, <1>5 DEF ReportedIsGone
  <1> QED
    BY <1>2, <1>3, <1>6 DEF GoneFor, AnsweredIsGone

\* A batch that was just received has the latest receipt handles.
LEMMA ReceiveIssued ==
  ASSUME GInv, NEW c \in Consumers, Receive(c)
  PROVE  Issued(c)'
  <1>0. PICK n \in 1..MaxNumberOfMessages : \E msgs \in [1..n -> Deliverable] :
          /\ Take({msgs[i] : i \in 1..n})
          /\ batch' = [batch EXCEPT ![c] =
               [i \in 1..n |-> [msg |-> msgs[i], receipt |-> receives[msgs[i]] + 1,
                                outcome |-> FirstOutcome(i)]]]
    BY DEF Receive
  <1>1. PICK msgs \in [1..n -> Deliverable] :
          /\ Take({msgs[i] : i \in 1..n})
          /\ batch' = [batch EXCEPT ![c] =
               [i \in 1..n |-> [msg |-> msgs[i], receipt |-> receives[msgs[i]] + 1,
                                outcome |-> FirstOutcome(i)]]]
    BY <1>0
  <1>2. batch'[c] = [i \in 1..n |-> [msg |-> msgs[i], receipt |-> receives[msgs[i]] + 1,
                                     outcome |-> FirstOutcome(i)]]
    BY <1>1 DEF GInv, IInv, TypeOK
  <1>3. \A i \in 1..n : receives'[msgs[i]] = receives[msgs[i]] + 1 /\ receives[msgs[i]] \in Nat
    BY <1>1, ConsumerAssumption DEF Take, Deliverable, GInv, IInv, TypeOK
  <1> QED
    BY <1>2, <1>3 DEF Issued

\* The end of a handler changes no handle.
LEMMA SettleIssued ==
  ASSUME GInv, QueueMoves, NEW c \in Consumers, HandlerSettles(c)
  PROVE  Issued(c)'
  <1>1. PICK i \in Running(c), o \in {"fulfilled", "rejected", "timedOut"} : Settle(c, i, o)
    BY DEF HandlerSettles, HandlerFulfils, HandlerRejects, HandlerTimesOut
  <1>2. batch'[c] = [j \in DOMAIN batch[c] |->
          [batch[c][j] EXCEPT !.outcome =
             IF j = i THEN o
             ELSE IF j = i + 1 /\ NextStarts(i, o) THEN "running" ELSE @]]
    BY <1>1 DEF Settle, GInv, IInv, TypeOK
  <1>3. \A j \in DOMAIN batch[c] : batch[c][j] \in Deliveries
    BY BatchPositions DEF GInv, IInv
  <1>4. \A j \in DOMAIN batch[c] : /\ batch'[c][j].msg = batch[c][j].msg
                                   /\ batch'[c][j].receipt = batch[c][j].receipt
    BY <1>2, <1>3 DEF Deliveries
  <1> QED
    BY <1>2, <1>4, StillIssued

LEMMA GInvStep == GInv /\ [Next]_vars => GInv'
  <1> SUFFICES ASSUME GInv, [Next]_vars
               PROVE  GInv'
    OBVIOUS
  <1>1. IInv /\ IInv' /\ QueueMoves
    BY IInvStep, MovesOn DEF GInv
  <1>2. \A d \in Consumers : /\ batch[d] \in Batches /\ success[d] \subseteq Positions
                             /\ phase[d] \in Phases
    BY <1>1 DEF IInv, TypeOK
  <1> USE DEF queueVars, reportVars, Reported
  \* Whose lists are left alone, and who is not sent to a new place to show something.
  <1>3. ASSUME NEW c \in Consumers,
               batch'[c] = batch[c], success'[c] = success[c], refused'[c] = refused[c],
               phase'[c] = phase[c] \/ phase'[c] \notin {"replied", "terminating", "reported"}
                 \/ (phase[c] = "terminating" /\ phase'[c] = "reported")
        PROVE  GoneFor(c)'
    BY <1>1, <1>3, KeepsGone
  <1>4. ASSUME NEW c \in Consumers, UNCHANGED <<phase, batch, reportVars>>
        PROVE  GoneFor(c)'
    BY <1>3, <1>4
  <1>5. ASSUME NEW d \in Consumers, NEW c \in Consumers,
               \/ Receive(d) \/ ReceiveLost(d) \/ HandlerSettles(d) \/ LateHandlerEnds(d)
               \/ ProcessingDone(d) \/ SqsDeletes(d) \/ DeleteFails(d)
               \/ ReportStep(d) \/ TerminateVisibilityTimeout(d) \/ NextPoll(d) \/ Crash(d)
        PROVE  GoneFor(c)'
    <2>1. CASE c # d
      <3>1. CASE Receive(d) \/ ReceiveLost(d)
        BY <1>1, <1>3, <2>1, <3>1 DEF Receive, ReceiveLost, IInv, TypeOK
      <3>2. CASE HandlerSettles(d)
        BY <1>1, <1>3, <2>1, <3>2 DEF HandlerSettles, HandlerFulfils, HandlerRejects,
           HandlerTimesOut, Settle, IInv, TypeOK
      <3>3. CASE LateHandlerEnds(d)
        BY <1>4, <3>3 DEF LateHandlerEnds, LateHandlerFulfils, LateHandlerRejects
      <3>4. CASE ProcessingDone(d) \/ SqsDeletes(d) \/ DeleteFails(d)
        BY <1>1, <1>3, <2>1, <3>4 DEF ProcessingDone, SqsDeletes, DeleteFails, IInv, TypeOK
      <3>5. CASE ReportStep(d) \/ TerminateVisibilityTimeout(d)
        BY <1>1, <1>3, <2>1, <3>5 DEF ReportStep, Report, ReportAllFailed,
           TerminateVisibilityTimeout, IInv, TypeOK
      <3>6. CASE NextPoll(d) \/ Crash(d)
        BY <1>1, <1>3, <2>1, <3>6 DEF NextPoll, Crash, Forget, IInv, TypeOK
      <3> QED
        BY <1>5, <3>1, <3>2, <3>3, <3>4, <3>5, <3>6
    <2>2. CASE c = d
      <3>1. CASE Receive(d)
        <4>1. phase'[c] = "processing"
          BY <1>1, <2>2, <3>1 DEF Receive, IInv, TypeOK
        <4> QED
          BY <2>2, <3>1, <4>1, ReceiveIssued, NotYetGone
      <3>2. CASE ReceiveLost(d)
        BY <1>4, <3>2 DEF ReceiveLost
      <3>3. CASE HandlerSettles(d)
        <4>1. phase'[c] = "processing"
          BY <1>1, <2>2, <3>3 DEF HandlerSettles, HandlerFulfils, HandlerRejects,
             HandlerTimesOut, Settle
        <4> QED
          BY <1>1, <2>2, <3>3, <4>1, SettleIssued, NotYetGone
      <3>4. CASE LateHandlerEnds(d)
        BY <1>4, <3>4 DEF LateHandlerEnds, LateHandlerFulfils, LateHandlerRejects
      <3>5. CASE ProcessingDone(d)
        <4>1. UNCHANGED batch /\ Issued(c)'
          BY <1>1, <3>5, StillIssued DEF ProcessingDone
        <4>2. success'[c] = {} \/ phase'[c] = "deleting"
          BY <1>1, <2>2, <3>5 DEF ProcessingDone, IInv, TypeOK
        <4> QED
          BY <4>1, <4>2, NothingToShow, NotYetGone
      <3>6. CASE SqsDeletes(d)
        BY <1>1, <2>2, <3>6, DeletesGone
      <3>7. CASE DeleteFails(d)
        BY <1>1, <1>3, <2>2, <3>7 DEF DeleteFails, IInv, TypeOK
      <3>8. CASE Report(d)
        BY <1>1, <2>2, <3>8, ReportGone
      <3>9. CASE ReportAllFailed(d)
        <4>1. UNCHANGED batch /\ Issued(c)'
          BY <1>1, <3>9, StillIssued DEF ReportAllFailed
        <4>2. success'[c] = {}
          BY <1>1, <2>2, <3>9 DEF ReportAllFailed, KeptOnError, IInv, TypeOK
        <4> QED
          BY <4>1, <4>2, NothingToShow
      <3>10. CASE TerminateVisibilityTimeout(d)
        BY <1>1, <1>3, <2>2, <3>10 DEF TerminateVisibilityTimeout, IInv, TypeOK
      <3>11. CASE NextPoll(d) \/ Crash(d)
        <4>1. batch'[c] = NoBatch /\ success'[c] = {}
          BY <1>1, <2>2, <3>11 DEF NextPoll, Crash, Forget, IInv, TypeOK
        <4>2. Issued(c)'
          BY <4>1, NoBatchType DEF Issued
        <4> QED
          BY <4>1, <4>2, NothingToShow
      <3> QED
        BY <1>5, <3>1, <3>2, <3>3, <3>4, <3>5, <3>6, <3>7, <3>8, <3>9, <3>10, <3>11 DEF ReportStep
    <2> QED
      BY <2>1, <2>2
  <1>6. ASSUME NEW m \in Messages, NEW c \in Consumers, VisibilityExpires(m) \/ Redrive(m)
        PROVE  GoneFor(c)'
    BY <1>4, <1>6 DEF VisibilityExpires, Redrive
  <1>7. ASSUME NEW c \in Consumers, UNCHANGED vars
        PROVE  GoneFor(c)'
    BY <1>4, <1>7 DEF vars
  <1>8. ASSUME NEW c \in Consumers
        PROVE  GoneFor(c)'
    BY <1>5, <1>6, <1>7 DEF Next
  <1> QED
    BY <1>1, <1>8 DEF GInv

\* A message reported as processed has left the queue, however many consumers compete
\* for it, unless it was the first of the successes or was received again.
THEOREM ProcessedGone == Spec => []ProcessedIsGone
  <1>1. Init => GInv
    BY IInvInit, NoBatchType
    DEF Init, GInv, GoneFor, Issued, AnsweredIsGone, ReportedIsGone, Reported
  <1>2. GInv => ProcessedIsGone
    BY DEF GInv, GoneFor, ReportedIsGone, ProcessedIsGone, Gone
  <1> QED
    BY <1>1, <1>2, GInvStep, PTL DEF Spec

\* A delete request takes out of the queue only what its own batch has fulfilled.
THEOREM OwnDelivery == Spec => AckFromOwnDelivery
  <1>1. ASSUME IInv, NEW c \in Consumers, SqsDeletes(c),
               NEW m \in Messages, queue'[m] # queue[m]
        PROVE  \E i \in DOMAIN batch[c] :
                 batch[c][i].msg = m /\ batch[c][i].outcome = "fulfilled"
    <2>1. PICK ps \in SUBSET success[c] : Delete(InQueue(c, ps))
      <3>1. PICK no \in SUBSET success[c] :
              \E stale \in SUBSET ((success[c] \ no) \ Fresh(c)) :
                Delete(InQueue(c, ((success[c] \ no) \cap Fresh(c)) \cup stale))
        BY <1>1 DEF SqsDeletes
      <3> QED
        BY <3>1
    <2>2. m \in InQueue(c, ps)
      BY <1>1, <2>1 DEF Delete
    <2>3. PICK i \in ps : batch[c][i].msg = m
      BY <2>2 DEF InQueue
    <2> QED
      BY <1>1, <2>1, <2>3 DEF IInv, TypeOK, SuccessesFulfilled
  <1>2. IInv /\ [Next]_vars =>
          [\A c \in Consumers : SqsDeletes(c) =>
             \A m \in Messages : queue'[m] # queue[m] =>
               \E i \in DOMAIN batch[c] :
                 batch[c][i].msg = m /\ batch[c][i].outcome = "fulfilled"]_vars
    BY <1>1
  <1> QED
    BY <1>2, Inductive, PTL DEF Spec, AckFromOwnDelivery
-------------------------------------------------------------------------------
(***************************************************************************)
(* Which of the refused messages are reported as processed all the same    *)
(***************************************************************************)

\* One at most: the first of the successes.
Misreported(c) == {i \in refused[c] : i \notin failed[c]}

OnlyFirstMisreported ==
  \A c \in Consumers : Reported(c) => \A i \in Misreported(c) : i \in success[c] /\ AtIndexZero(c, i)

\* Where the refused entries are, from the answer to the report.
RefusedWhere(c) ==
  /\ phase[c] \in {"polling", "processing", "deleting"} => refused[c] = {}
  /\ phase[c] \in {"replied", "replyLost"} => refused[c] \subseteq success[c]
  /\ phase[c] \in {"terminating", "reported"} =>
       \A i \in Misreported(c) : i \in success[c] /\ AtIndexZero(c, i)

RInv == \A c \in Consumers : RefusedWhere(c)

LEMMA NoneRefused ==
  ASSUME NEW c \in Consumers, refused'[c] = {}
  PROVE  RefusedWhere(c)'
  BY DEF RefusedWhere, Misreported

LEMMA SameLists ==
  ASSUME NEW c \in Consumers, RefusedWhere(c),
         success'[c] = success[c], failed'[c] = failed[c], refused'[c] = refused[c],
         phase'[c] = phase[c] \/ (phase[c] = "terminating" /\ phase'[c] = "reported")
  PROVE  RefusedWhere(c)'
  BY DEF RefusedWhere, Misreported, AtIndexZero

\* The steps that move entries of c from one list to another.
LEMMA ListStep ==
  ASSUME IInv, NEW c \in Consumers, RefusedWhere(c), SqsDeletes(c) \/ ReportStep(c)
  PROVE  RefusedWhere(c)'
  <1> USE DEF IInv, TypeOK
  <1>1. CASE SqsDeletes(c)
    <2>1. refused'[c] \subseteq success[c] /\ success' = success
      BY <1>1 DEF SqsDeletes
    <2>2. phase'[c] \in {"replied", "replyLost"}
      BY <1>1 DEF SqsDeletes
    <2> QED
      BY <2>1, <2>2 DEF RefusedWhere
  <1>2. CASE Report(c)
    <2>1. /\ refused[c] \subseteq success[c] /\ refused'[c] = refused[c]
          /\ success'[c] = success[c] \ MovedToFailed(c)
          /\ failed'[c] = failed[c] \cup MovedToFailed(c)
          /\ phase'[c] \in {"terminating", "reported"}
      BY <1>2 DEF Report, RefusedWhere, AfterReport
    <2>2. ASSUME NEW i \in refused[c], i \notin failed'[c]
          PROVE  i \in success'[c] /\ \A j \in success'[c] : i <= j
      BY <2>1, <2>2 DEF MovedToFailed, AtIndexZero
    <2> QED
      BY <2>1, <2>2 DEF RefusedWhere, Misreported, AtIndexZero
  <1>3. CASE ReportAllFailed(c)
    <2>1. /\ refused[c] \subseteq success[c] /\ refused'[c] = refused[c]
          /\ failed'[c] = failed[c] \cup success[c]
          /\ phase'[c] \in {"terminating", "reported"}
      BY <1>3 DEF ReportAllFailed, RefusedWhere, AfterReport
    <2> QED
      BY <2>1 DEF RefusedWhere, Misreported
  <1> QED
    BY <1>1, <1>2, <1>3 DEF ReportStep

\* The steps before the answer, and those that forget the batch.
LEMMA UnrefusedStep ==
  ASSUME IInv, NEW c \in Consumers, RefusedWhere(c),
         \/ Receive(c) \/ HandlerSettles(c) \/ ProcessingDone(c) \/ DeleteFails(c)
         \/ NextPoll(c) \/ Crash(c)
  PROVE  RefusedWhere(c)'
  <1> USE DEF reportVars
  <1>1. CASE Receive(c) \/ HandlerSettles(c) \/ ProcessingDone(c) \/ DeleteFails(c)
    <2>1. phase[c] \in {"polling", "processing", "deleting"} /\ refused' = refused
      BY <1>1 DEF Receive, HandlerSettles, HandlerFulfils, HandlerRejects, HandlerTimesOut, Settle,
         ProcessingDone, DeleteFails
    <2> QED
      BY <2>1, NoneRefused DEF RefusedWhere
  <1>2. CASE NextPoll(c) \/ Crash(c)
    <2>1. refused'[c] = {}
      BY <1>2 DEF NextPoll, Crash, Forget, IInv, TypeOK
    <2> QED
      BY <2>1, NoneRefused
  <1> QED
    BY <1>1, <1>2

\* A step of consumer d leaves the lists of the others alone.
LEMMA OthersLists ==
  ASSUME IInv, NEW d \in Consumers, NEW c \in Consumers, c # d,
         \/ Receive(d) \/ ReceiveLost(d) \/ HandlerSettles(d) \/ LateHandlerEnds(d)
         \/ ProcessingDone(d) \/ SqsDeletes(d) \/ DeleteFails(d)
         \/ ReportStep(d) \/ TerminateVisibilityTimeout(d) \/ NextPoll(d) \/ Crash(d)
  PROVE  /\ success'[c] = success[c] /\ failed'[c] = failed[c] /\ refused'[c] = refused[c]
         /\ phase'[c] = phase[c]
  <1> USE DEF reportVars, IInv, TypeOK
  <1>1. CASE Receive(d) \/ ReceiveLost(d)
    BY <1>1 DEF Receive, ReceiveLost
  <1>2. CASE HandlerSettles(d) \/ LateHandlerEnds(d)
    BY <1>2 DEF HandlerSettles, HandlerFulfils, HandlerRejects, HandlerTimesOut, Settle,
       LateHandlerEnds, LateHandlerFulfils, LateHandlerRejects
  <1>3. CASE ProcessingDone(d) \/ SqsDeletes(d) \/ DeleteFails(d)
    BY <1>3 DEF ProcessingDone, SqsDeletes, DeleteFails
  <1>4. CASE ReportStep(d) \/ TerminateVisibilityTimeout(d)
    BY <1>4 DEF ReportStep, Report, ReportAllFailed, TerminateVisibilityTimeout
  <1>5. CASE NextPoll(d) \/ Crash(d)
    BY <1>5 DEF NextPoll, Crash, Forget
  <1> QED
    BY <1>1, <1>2, <1>3, <1>4, <1>5

LEMMA RInvStep == IInv /\ RInv /\ [Next]_vars => RInv'
  <1> SUFFICES ASSUME IInv, RInv, [Next]_vars, NEW c \in Consumers
               PROVE  RefusedWhere(c)'
    BY DEF RInv
  <1>1. RefusedWhere(c)
    BY DEF RInv
  <1>2. ASSUME NEW d \in Consumers,
               \/ Receive(d) \/ ReceiveLost(d) \/ HandlerSettles(d) \/ LateHandlerEnds(d)
               \/ ProcessingDone(d) \/ SqsDeletes(d) \/ DeleteFails(d)
               \/ ReportStep(d) \/ TerminateVisibilityTimeout(d) \/ NextPoll(d) \/ Crash(d)
        PROVE  RefusedWhere(c)'
    <2>1. CASE c # d
      BY <1>1, <1>2, <2>1, OthersLists, SameLists
    <2>2. CASE c = d /\ (ReceiveLost(c) \/ LateHandlerEnds(c) \/ TerminateVisibilityTimeout(c))
      <3>1. /\ UNCHANGED reportVars
            /\ phase'[c] = phase[c] \/ (phase[c] = "terminating" /\ phase'[c] = "reported")
        BY <2>2 DEF ReceiveLost, LateHandlerEnds, LateHandlerFulfils, LateHandlerRejects,
           TerminateVisibilityTimeout, reportVars, IInv, TypeOK
      <3> QED
        BY <1>1, <3>1, SameLists DEF reportVars
    <2> QED
      BY <1>1, <1>2, <2>1, <2>2, ListStep, UnrefusedStep
  <1>3. ASSUME NEW m \in Messages, VisibilityExpires(m) \/ Redrive(m)
        PROVE  RefusedWhere(c)'
    BY <1>1, <1>3, SameLists DEF VisibilityExpires, Redrive, reportVars
  <1>4. CASE UNCHANGED vars
    BY <1>1, <1>4, SameLists DEF vars, reportVars
  <1> QED
    BY <1>2, <1>3, <1>4 DEF Next

\* Of the messages SQS refuses to delete, only the one at index 0 of the successes can be
\* reported as processed (sqs-consumer.ts:280-287): the rest of a batch is reported right.
THEOREM FirstMisreported == Spec => []OnlyFirstMisreported
  <1>1. Init => RInv
    BY DEF Init, RInv, RefusedWhere, Misreported
  <1>2. RInv => OnlyFirstMisreported
    BY DEF RInv, RefusedWhere, Reported, OnlyFirstMisreported
  <1> QED
    BY <1>1, <1>2, RInvStep, Inductive, PTL DEF Spec

-------------------------------------------------------------------------------
(***************************************************************************)
(* What the contract says of the implementation's queue                    *)
(***************************************************************************)

Promise == INSTANCE DeliveryContractProofs WITH fate <- Fate, attempts <- receives

\* The contract and the module that proves its theorems state one specification.
LEMMA SameContract == ImplementsContract => Promise!ContractSpec
  <1>1. Contract!ContractInit => Promise!ContractInit
    BY DEF Contract!ContractInit, Promise!ContractInit
  <1>2. Contract!ContractNext => Promise!ContractNext
    BY DEF Contract!ContractNext, Contract!Attempt, Contract!Acknowledge, Contract!Handle,
           Contract!DeadLetter, Contract!Queued,
           Promise!ContractNext, Promise!Attempt, Promise!Acknowledge, Promise!Handle,
           Promise!DeadLetter, Promise!Queued
  <1>3. [Contract!ContractNext]_(Contract!contractVars)
          => [Promise!ContractNext]_(Promise!contractVars)
    BY <1>2 DEF Contract!contractVars, Promise!contractVars
  <1> QED
    BY <1>1, <1>3, PTL DEF ImplementsContract, Contract!ContractSpec, Promise!ContractSpec

\* A message in the dead letter queue was received MaxReceiveCount times: crashes, lost
\* responses and failed deletes never cost it an attempt.
DeadAfterLastAttempt == \A m \in Messages : queue[m] = "dead" => receives[m] = MaxReceiveCount

\* A message that has left the queue is never visible or received again, by any consumer.
GoneForGood ==
  \A m \in Messages : queue[m] \in {"deleted", "dead"} => UNCHANGED <<queue[m], receives[m]>>

\* Inherited: every dead letter has its cause.
THEOREM DeadExhausted == Spec => []DeadAfterLastAttempt
  <1>1. Promise!ContractSpec => []Promise!FateForCause
    BY Promise!CausedFates, ConsumerAssumption
  <1>2. Spec => []Promise!FateForCause
    BY <1>1, Refinement, SameContract, PTL
  <1>3. Promise!FateForCause => DeadAfterLastAttempt
    BY DEF Promise!FateForCause, Fate, DeadAfterLastAttempt
  <1> QED
    BY <1>2, <1>3, PTL

\* Inherited: no step takes a message back that is acknowledged or dead.
THEOREM StaysGone == Spec => [][GoneForGood]_vars
  <1>1. Promise!ContractSpec => [][Promise!FateIsFinal]_(Promise!contractVars)
    BY Promise!FinalFates, ConsumerAssumption
  <1>2. Spec => [][Promise!FateIsFinal]_(Promise!contractVars)
    BY <1>1, Refinement, SameContract, PTL
  <1>3. [Promise!FateIsFinal]_(Promise!contractVars) => GoneForGood
    <2> SUFFICES ASSUME [Promise!FateIsFinal]_(Promise!contractVars), NEW m \in Messages,
                        queue[m] \in {"deleted", "dead"}
                 PROVE  UNCHANGED <<queue[m], receives[m]>>
      BY DEF GoneForGood
    <2>1. Fate[m] # "queued"
      BY DEF Fate
    <2>2. Fate'[m] = Fate[m] /\ receives'[m] = receives[m]
      BY <2>1 DEF Promise!FateIsFinal, Promise!contractVars
    <2>3. queue'[m] = queue[m]
      BY <2>2 DEF Fate
    <2> QED
      BY <2>2, <2>3
  <1> QED
    BY <1>2, <1>3, PTL
===============================================================================

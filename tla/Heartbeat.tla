------------------------------- MODULE Heartbeat -------------------------------
(***************************************************************************)
(* One batch of a consumer with a heartbeat, in discrete time.  While the  *)
(* handlers run, an interval timer asks SQS to hide the messages of the    *)
(* batch for another visibility timeout.  Nobody waits for the answer: the *)
(* requests overlap, arrive in any order, are refused for some messages or *)
(* fail, and no answer makes a difference to what the consumer does.       *)
(*                                                                         *)
(* The other modules let a visibility timeout expire at any moment; this   *)
(* one shows when it cannot, and what becomes of a request that is still   *)
(* under way when the heartbeat is cleared.                                *)
(***************************************************************************)
EXTENDS Naturals, FiniteSets

CONSTANTS
  Messages,                   \* the batch
  VisibilityTimeout,          \* the consumer's option
  HeartbeatInterval,          \* likewise
  TerminateVisibilityTimeout, \* likewise
  MaxLateness, \* how long a timer that is due may be kept waiting
  MaxLatency,  \* how long a request, or the response to the receive, may be under way
  MaxMisses    \* how many heartbeats in a row may fail for a message

ASSUME HeartbeatAssumption ==
  /\ VisibilityTimeout \in Nat
  /\ HeartbeatInterval \in Nat \ {0}
  /\ TerminateVisibilityTimeout \in BOOLEAN
  /\ MaxLateness \in Nat
  /\ MaxLatency \in Nat
  /\ MaxMisses \in Nat

\* The longest time between two heartbeats, and between two that work for a message.
Period == HeartbeatInterval + MaxLateness
MaxGap == (MaxMisses + 1) * Period

\* Once for the delivery of the batch, once for the next heartbeat to arrive.  With
\* no latency, lateness or failure this is what assertOptions demands.
ASSUME MarginAssumption == MaxGap + 2 * MaxLatency < VisibilityTimeout

VARIABLES
  phase,     \* where processMessages is suspended
  failed,    \* the list of that name
  sinceBeat, \* time since the interval timer was set or last fired
  beats,     \* heartbeat requests under way: their age, the entries SQS will refuse
  misses,    \* how many heartbeats in a row have been fired in vain for each message
  hidden,    \* time until each message is visible
  deleted,   \* messages deleted
  sinceEnd   \* time since the handlers were done, up to Horizon

vars == <<phase, failed, sinceBeat, beats, misses, hidden, deleted, sinceEnd>>

\* By then everything the batch has set in motion must be over.
Horizon == VisibilityTimeout + MaxLatency

TypeOK ==
  /\ phase \in {"processing", "deleting", "terminating", "ended"}
  /\ failed \in SUBSET Messages
  /\ sinceBeat \in 0..Period
  /\ beats \in SUBSET [age : 0..MaxLatency, refused : SUBSET Messages]
  /\ misses \in [Messages -> 0..MaxMisses]
  /\ hidden \in [Messages -> 0..VisibilityTimeout]
  /\ deleted \in SUBSET Messages
  /\ sinceEnd \in 0..Horizon

\* The batch has been received, the timer is set and the handlers begin.
Init ==
  /\ phase = "processing"
  /\ failed = {}
  /\ sinceBeat = 0
  /\ beats = {}
  /\ misses = [m \in Messages |-> 0]
  /\ \E delay \in 0..MaxLatency :
       hidden = [m \in Messages |-> VisibilityTimeout - delay]
  /\ deleted = {}
  /\ sinceEnd = 0

-------------------------------------------------------------------------------
(***************************************************************************)
(* The heartbeat                                                           *)
(***************************************************************************)

\* Mutant of TimerRuns: nobody clears the interval.
NeverCleared == TRUE

TimerRuns == phase = "processing"

\* The interval timer fires and sends the request, without waiting for the last.
Fire ==
  /\ TimerRuns
  /\ sinceBeat >= HeartbeatInterval
  /\ \E refused \in SUBSET Messages :
       /\ \A m \in refused : misses[m] < MaxMisses
       /\ beats' = beats \cup {[age |-> 0, refused |-> refused]}
       /\ misses' = [m \in Messages |-> IF m \in refused THEN misses[m] + 1 ELSE 0]
  /\ sinceBeat' = 0
  /\ UNCHANGED <<phase, failed, hidden, deleted, sinceEnd>>

\* Mutant of NewTimeout: the timeout of the request is the interval.
IntervalOnly == HeartbeatInterval

\* Mutant of NewTimeout: it is given in milliseconds, as the timer's is.
Milliseconds == VisibilityTimeout * 1000

NewTimeout == VisibilityTimeout

\* SQS carries out a request.  An entry whose message is in flight is refused only if
\* said so; one whose message is visible by now may be refused or hide it again.
Arrives(b) ==
  /\ \E visibleAgain \in SUBSET {m \in Messages : hidden[m] = 0} :
       hidden' = [m \in Messages |->
         IF m \in b.refused \cup deleted \/ (hidden[m] = 0 /\ m \notin visibleAgain)
         THEN hidden[m] ELSE NewTimeout]
  /\ beats' = beats \ {b}
  /\ UNCHANGED <<phase, failed, sinceBeat, misses, deleted, sinceEnd>>

-------------------------------------------------------------------------------
(***************************************************************************)
(* The rest of processMessages                                             *)
(***************************************************************************)

AfterReport == IF TerminateVisibilityTimeout THEN "terminating" ELSE "ended"

\* The last handler has settled: the interval is cleared and, unless all have
\* failed, the delete request is sent.
ProcessingDone ==
  /\ phase = "processing"
  /\ failed' \in SUBSET Messages
  /\ phase' = IF failed' = Messages THEN AfterReport ELSE "deleting"
  /\ UNCHANGED <<sinceBeat, beats, misses, hidden, deleted, sinceEnd>>

\* SQS deletes some; those it refuses join the failed ones, except one that is at
\* position 0 (see AtIndexZero of SqsConsumer).
DeleteReturns ==
  /\ phase = "deleting"
  /\ deleted' \in SUBSET (Messages \ failed)
  /\ \E overlooked \in SUBSET (Messages \ (failed \cup deleted')) :
       /\ Cardinality(overlooked) <= 1
       /\ failed' = Messages \ (deleted' \cup overlooked)
  /\ phase' = AfterReport
  /\ UNCHANGED <<sinceBeat, beats, misses, hidden, sinceEnd>>

\* It fails, carried out or not.
DeleteFails ==
  /\ phase = "deleting"
  /\ deleted' \in SUBSET (Messages \ failed)
  /\ failed' = Messages
  /\ phase' = AfterReport
  /\ UNCHANGED <<sinceBeat, beats, misses, hidden, sinceEnd>>

\* The timeout of the failed messages is set to 0, as far as SQS does as asked.
Terminate ==
  /\ phase = "terminating"
  /\ \E done \in SUBSET failed :
       hidden' = [m \in Messages |-> IF m \in done THEN 0 ELSE hidden[m]]
  /\ phase' = "ended"
  /\ UNCHANGED <<failed, sinceBeat, beats, misses, deleted, sinceEnd>>

\* The process ends, and the timer with it; what it has sent may still arrive.
Crash ==
  /\ phase # "ended"
  /\ phase' = "ended"
  /\ \E lost \in SUBSET beats : beats' = beats \ lost
  /\ UNCHANGED <<failed, sinceBeat, misses, hidden, deleted, sinceEnd>>

-------------------------------------------------------------------------------
(***************************************************************************)
(* Time                                                                    *)
(***************************************************************************)

\* It does not pass over a timer or a request that has run out of it.
Tick ==
  /\ TimerRuns => sinceBeat < Period
  /\ \A b \in beats : b.age < MaxLatency
  /\ sinceBeat' = IF TimerRuns THEN sinceBeat + 1 ELSE sinceBeat
  /\ beats' = {[b EXCEPT !.age = @ + 1] : b \in beats}
  /\ hidden' = [m \in Messages |-> IF hidden[m] = 0 THEN 0 ELSE hidden[m] - 1]
  /\ sinceEnd' = IF phase = "processing" \/ sinceEnd = Horizon THEN sinceEnd ELSE sinceEnd + 1
  /\ UNCHANGED <<phase, failed, misses, deleted>>

Next ==
  \/ Fire \/ \E b \in beats : Arrives(b)
  \/ ProcessingDone \/ DeleteReturns \/ DeleteFails \/ Terminate \/ Crash
  \/ Tick

Spec == Init /\ [][Next]_vars

-------------------------------------------------------------------------------
(***************************************************************************)
(* Properties                                                              *)
(***************************************************************************)

\* However long the handlers take, no message "will reappear in the queue while it is
\* still being processed" (sqs-consumer-options.interface.ts:51), although heartbeats
\* are late, overtake each other and fail.
HeldWhileProcessing == phase = "processing" => \A m \in Messages : hidden[m] > 0

\* A message that was not deleted is visible again a visibility timeout after the
\* handlers were done, or as much later as a heartbeat was under way: clearing the
\* interval is enough, whatever arrives after it.
BackInTime ==
  \A m \in Messages \ deleted :
    phase # "processing" /\ hidden[m] > 0 => hidden[m] + sinceEnd <= Horizon
===============================================================================

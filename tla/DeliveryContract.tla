--------------------------- MODULE DeliveryContract ---------------------------
(***************************************************************************)
(* What the consumer promises for the messages of a queue, without         *)
(* consumers, batches or requests: at-least-once delivery.  A message is   *)
(* attempted, perhaps several times and perhaps by several handlers at     *)
(* once; it leaves the queue because a handler has fulfilled it, or        *)
(* because the queue gives up after MaxReceiveCount attempts.              *)
(***************************************************************************)
EXTENDS Naturals

CONSTANTS Messages, MaxReceiveCount

VARIABLES
  fate,     \* is the message still queued, acknowledged or dead-lettered?
  attempts, \* how often has it been handed out?
  handled   \* messages for which a handler has fulfilled at least once

contractVars == <<fate, attempts, handled>>

ContractInit ==
  /\ fate = [m \in Messages |-> "queued"]
  /\ attempts = [m \in Messages |-> 0]
  /\ handled = {}

Queued == {m \in Messages : fate[m] = "queued"}

Attempt(ms) ==
  /\ ms \subseteq {m \in Queued : attempts[m] < MaxReceiveCount}
  /\ attempts' = [m \in Messages |-> IF m \in ms THEN attempts[m] + 1 ELSE attempts[m]]
  /\ UNCHANGED <<fate, handled>>

\* A handler may fulfil long after the message has left the queue.
Handle(m) ==
  /\ attempts[m] > 0
  /\ handled' = handled \cup {m}
  /\ UNCHANGED <<fate, attempts>>

\* Only handled messages are acknowledged.
Acknowledge(ms) ==
  /\ ms \subseteq Queued \cap handled
  /\ fate' = [m \in Messages |-> IF m \in ms THEN "acked" ELSE fate[m]]
  /\ UNCHANGED <<attempts, handled>>

\* Nothing is given up before its last attempt.
DeadLetter(m) ==
  /\ fate[m] = "queued"
  /\ attempts[m] = MaxReceiveCount
  /\ fate' = [fate EXCEPT ![m] = "dead"]
  /\ UNCHANGED <<attempts, handled>>

ContractNext ==
  \/ \E ms \in SUBSET Messages : Attempt(ms) \/ Acknowledge(ms)
  \/ \E m \in Messages : Handle(m) \/ DeadLetter(m)

ContractSpec == ContractInit /\ [][ContractNext]_contractVars
===============================================================================

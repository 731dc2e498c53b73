----------------------------- MODULE SerialPolling -----------------------------
(***************************************************************************)
(* What one SqsConsumer promises to whoever starts and stops it, without   *)
(* timers, fields and callers: from the first start to the end it polls,   *)
(* and a poll begins only when no other is in flight; when it has been     *)
(* stopped it never polls again; and the client it polls with is only      *)
(* destroyed before or after all that.                                     *)
(***************************************************************************)

CONSTANT Polls \* identities of polls

VARIABLES
  life,    \* has it been started, has it been stopped since?
  polling, \* the polls in flight
  client   \* the SQS client the polls use

serialVars == <<life, polling, client>>

SerialInit ==
  /\ life = "new"
  /\ polling = {}
  /\ client = "open"

Begin(p) ==
  /\ life # "ended"
  /\ polling = {}
  /\ client = "open"
  /\ life' = "running"
  /\ polling' = {p}
  /\ UNCHANGED client

End(p) ==
  /\ p \in polling
  /\ polling' = polling \ {p}
  /\ UNCHANGED <<life, client>>

\* Stopping takes effect between two polls.
Stop ==
  /\ life = "running"
  /\ polling = {}
  /\ life' = "ended"
  /\ UNCHANGED <<polling, client>>

Destroy ==
  /\ life # "running"
  /\ client = "open"
  /\ client' = "destroyed"
  /\ UNCHANGED <<life, polling>>

SerialNext ==
  \/ \E p \in Polls : Begin(p) \/ End(p)
  \/ Stop \/ Destroy

SerialSpec == SerialInit /\ [][SerialNext]_serialVars
===============================================================================

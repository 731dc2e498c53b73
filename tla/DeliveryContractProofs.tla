------------------------- MODULE DeliveryContractProofs -------------------------
(***************************************************************************)
(* What at-least-once delivery means for a message, whoever implements it: *)
(* theorems about DeliveryContract.  SqsConsumerProofs and                 *)
(* BackgroundProcessingProofs inherit them through their refinements.      *)
(***************************************************************************)
EXTENDS DeliveryContract, TLAPS

ContractType ==
  /\ fate \in [Messages -> {"queued", "acked", "dead"}]
  /\ attempts \in [Messages -> 0..MaxReceiveCount]
  /\ handled \subseteq Messages

\* An acknowledged message has been handled, a dead one has used up its attempts, and
\* nothing is handled that was not attempted.
FateForCause ==
  \A m \in Messages :
    /\ fate[m] = "acked" => m \in handled
    /\ fate[m] = "dead" => attempts[m] = MaxReceiveCount
    /\ m \in handled => attempts[m] > 0

\* A message that has left the queue never comes back and is not attempted again; what
\* was handled stays handled.
FateIsFinal ==
  /\ handled \subseteq handled'
  /\ \A m \in Messages :
       fate[m] # "queued" => fate'[m] = fate[m] /\ attempts'[m] = attempts[m]

CInv == ContractType /\ FateForCause

LEMMA CInvInit ==
  ASSUME MaxReceiveCount \in Nat
  PROVE  ContractInit => CInv
  BY DEF ContractInit, CInv, ContractType, FateForCause

LEMMA CInvStep ==
  ASSUME MaxReceiveCount \in Nat
  PROVE  CInv /\ [ContractNext]_contractVars => CInv'
  <1> SUFFICES ASSUME CInv, [ContractNext]_contractVars PROVE CInv'
    OBVIOUS
  <1> USE DEF CInv, ContractType, FateForCause
  <1>1. ASSUME NEW ms \in SUBSET Messages, Attempt(ms) PROVE CInv'
    BY <1>1 DEF Attempt, Queued
  <1>2. ASSUME NEW ms \in SUBSET Messages, Acknowledge(ms) PROVE CInv'
    BY <1>2 DEF Acknowledge, Queued
  <1>3. ASSUME NEW m \in Messages, Handle(m) PROVE CInv'
    BY <1>3 DEF Handle
  <1>4. ASSUME NEW m \in Messages, DeadLetter(m) PROVE CInv'
    BY <1>4 DEF DeadLetter
  <1>5. CASE UNCHANGED contractVars
    BY <1>5 DEF contractVars
  <1> QED
    BY <1>1, <1>2, <1>3, <1>4, <1>5 DEF ContractNext

\* Every fate has its cause, however attempts and handlers overlap.
THEOREM CausedFates ==
  ASSUME MaxReceiveCount \in Nat
  PROVE  ContractSpec => []FateForCause
  <1>1. CInv => FateForCause
    BY DEF CInv
  <1> QED
    BY <1>1, CInvInit, CInvStep, PTL DEF ContractSpec

\* No step takes back a fate.
THEOREM FinalFates ==
  ASSUME MaxReceiveCount \in Nat
  PROVE  ContractSpec => [][FateIsFinal]_contractVars
  <1>1. CInv /\ [ContractNext]_contractVars => [FateIsFinal]_contractVars
    <2> SUFFICES ASSUME CInv, ContractNext PROVE FateIsFinal
      BY DEF contractVars
    <2> USE DEF CInv, ContractType, FateIsFinal
    <2>1. ASSUME NEW ms \in SUBSET Messages, Attempt(ms) PROVE FateIsFinal
      BY <2>1 DEF Attempt, Queued
    <2>2. ASSUME NEW ms \in SUBSET Messages, Acknowledge(ms) PROVE FateIsFinal
      BY <2>2 DEF Acknowledge, Queued
    <2>3. ASSUME NEW m \in Messages, Handle(m) PROVE FateIsFinal
      BY <2>3 DEF Handle
    <2>4. ASSUME NEW m \in Messages, DeadLetter(m) PROVE FateIsFinal
      BY <2>4 DEF DeadLetter
    <2> QED
      BY <2>1, <2>2, <2>3, <2>4 DEF ContractNext
  <1> QED
    BY <1>1, CInvInit, CInvStep, PTL DEF ContractSpec
===============================================================================

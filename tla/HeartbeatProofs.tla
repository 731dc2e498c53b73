---------------------------- MODULE HeartbeatProofs ----------------------------
(***************************************************************************)
(* Proofs about Heartbeat, for any batch, interval, timeout, lateness,     *)
(* latency and number of failures that leave the margin.                   *)
(***************************************************************************)
EXTENDS Heartbeat, TLAPS

-------------------------------------------------------------------------------
(***************************************************************************)
(* The inductive invariant                                                 *)
(***************************************************************************)

\* Time has taken from m no more than since the last heartbeat that worked.
Renewed(m) == VisibilityTimeout <= hidden[m] + MaxLatency + misses[m] * Period + sinceBeat

\* A heartbeat for m is under way that was sent in time.
OnItsWay(m) ==
  \E b \in beats : /\ m \notin b.refused
                   /\ VisibilityTimeout <= hidden[m] + b.age + MaxLatency + MaxGap

Held == phase = "processing" => \A m \in Messages : Renewed(m) \/ OnItsWay(m)

\* Deletion begins when the handlers are done; a heartbeat that arrives later was
\* sent before.
SentBefore ==
  /\ phase = "processing" => sinceEnd = 0
  /\ phase \in {"processing", "deleting"} => deleted = {}
  /\ phase # "processing" => \A b \in beats : sinceEnd <= b.age

IInv == TypeOK /\ Held /\ SentBefore /\ BackInTime

-------------------------------------------------------------------------------
(***************************************************************************)
(* Arithmetic                                                              *)
(***************************************************************************)

LEMMA Constants ==
  /\ VisibilityTimeout \in Nat /\ MaxLatency \in Nat /\ MaxMisses \in Nat
  /\ HeartbeatInterval \in Nat /\ Period \in Nat /\ MaxGap \in Nat /\ Horizon \in Nat
  /\ MaxGap + 2 * MaxLatency < VisibilityTimeout
  BY HeartbeatAssumption, MarginAssumption DEF Period, MaxGap, Horizon

LEMMA Monotone ==
  ASSUME NEW i \in Nat, NEW j \in Nat, NEW p \in Nat, i <= j
  PROVE  i * p <= j * p
  <1>1. PICK k \in Nat : j = i + k
    <2>1. j - i \in Nat /\ j = i + (j - i)
      OBVIOUS
    <2> QED
      BY <2>1
  <1>2. j * p = i * p + k * p /\ k * p \in Nat /\ i * p \in Nat
    BY <1>1
  <1> QED
    BY <1>2

\* However many heartbeats a message has missed, the time since one that worked is
\* at most MaxGap.
LEMMA Gap ==
  ASSUME TypeOK, NEW m \in Messages
  PROVE  /\ misses[m] * Period \in Nat
         /\ misses[m] * Period + sinceBeat <= MaxGap
  <1>1. /\ misses[m] \in Nat /\ misses[m] <= MaxMisses
        /\ sinceBeat \in Nat /\ sinceBeat <= Period
    BY Constants DEF TypeOK
  <1>2. misses[m] * Period <= MaxMisses * Period
    BY <1>1, Constants, Monotone
  <1>3. MaxGap = MaxMisses * Period + Period /\ MaxMisses * Period \in Nat
    BY Constants DEF MaxGap
  <1>4. misses[m] * Period \in Nat
    BY <1>1, Constants
  <1> QED
    BY <1>1, <1>2, <1>3, <1>4, Constants

\* The margin is what is left when the timeout is renewed as late as it can be.
LEMMA StillHidden == TypeOK /\ Held => HeldWhileProcessing
  <1> SUFFICES ASSUME TypeOK, Held, phase = "processing", NEW m \in Messages
               PROVE  hidden[m] > 0
    BY DEF HeldWhileProcessing
  <1>1. hidden[m] \in Nat
    BY Constants DEF TypeOK
  <1>2. CASE Renewed(m)
    BY <1>1, <1>2, Constants, Gap DEF Renewed, TypeOK
  <1>3. CASE OnItsWay(m)
    <2>1. PICK b \in beats : VisibilityTimeout <= hidden[m] + b.age + MaxLatency + MaxGap
      BY <1>3 DEF OnItsWay
    <2>2. b.age \in Nat /\ b.age <= MaxLatency
      BY Constants DEF TypeOK
    <2> QED
      BY <1>1, <2>1, <2>2, Constants
  <1> QED
    BY <1>2, <1>3 DEF Held

-------------------------------------------------------------------------------
(***************************************************************************)
(* The steps                                                               *)
(***************************************************************************)

LEMMA InitOK == Init => IInv
  <1> SUFFICES ASSUME Init PROVE IInv
    OBVIOUS
  <1>1. PICK delay \in 0..MaxLatency :
          hidden = [m \in Messages |-> VisibilityTimeout - delay]
    BY DEF Init
  <1>2. delay \in Nat /\ delay <= MaxLatency /\ MaxLatency <= VisibilityTimeout
    BY Constants
  <1>3. \A m \in Messages : hidden[m] = VisibilityTimeout - delay
    BY <1>1
  <1>4. TypeOK
    BY <1>1, <1>2, Constants DEF Init, TypeOK
  <1>5. Held
    <2> SUFFICES ASSUME NEW m \in Messages PROVE Renewed(m)
      BY DEF Held
    <2>1. misses[m] = 0 /\ sinceBeat = 0 /\ 0 * Period = 0
      BY Constants DEF Init
    <2> QED
      BY <1>2, <1>3, <2>1, Constants DEF Renewed
  <1>6. SentBefore /\ BackInTime
    BY DEF Init, SentBefore, BackInTime
  <1> QED
    BY <1>4, <1>5, <1>6 DEF IInv

\* A heartbeat is sent: for the messages it works for, it is under way from now on;
\* the others have missed one more.
LEMMA FireStep == ASSUME IInv, Fire PROVE IInv'
  <1> USE DEF IInv
  <1>1. PICK refused \in SUBSET Messages :
          /\ \A m \in refused : misses[m] < MaxMisses
          /\ beats' = beats \cup {[age |-> 0, refused |-> refused]}
          /\ misses' = [m \in Messages |-> IF m \in refused THEN misses[m] + 1 ELSE 0]
    BY DEF Fire
  <1>2. /\ phase = "processing" /\ sinceBeat' = 0
        /\ UNCHANGED <<phase, failed, hidden, deleted, sinceEnd>>
    BY DEF Fire, TimerRuns
  <1>3. TypeOK'
    <2>1. \A m \in Messages : misses[m] \in Nat /\ misses[m] <= MaxMisses
      BY Constants DEF TypeOK
    <2>2. misses' \in [Messages -> 0..MaxMisses]
      BY <1>1, <2>1, Constants
    <2>3. [age |-> 0, refused |-> refused] \in [age : 0..MaxLatency, refused : SUBSET Messages]
      BY <1>1, Constants
    <2> QED
      BY <1>1, <1>2, <2>2, <2>3, Constants DEF TypeOK
  <1>4. Held'
    <2> SUFFICES ASSUME NEW m \in Messages PROVE Renewed(m)' \/ OnItsWay(m)'
      BY DEF Held
    <2>1. hidden[m] \in Nat /\ hidden'[m] = hidden[m] /\ sinceBeat \in Nat /\ sinceBeat <= Period
      BY <1>2, Constants DEF TypeOK
    <2>2. CASE OnItsWay(m)
      BY <1>1, <1>2, <2>2 DEF OnItsWay
    <2>3. CASE Renewed(m) /\ m \in refused
      <3>1. misses'[m] = misses[m] + 1 /\ misses[m] \in Nat
        BY <1>1, <2>3, Constants DEF TypeOK
      <3>2. (misses[m] + 1) * Period = misses[m] * Period + Period
        BY <3>1, Constants
      <3>3. misses[m] * Period \in Nat
        BY Gap
      <3> QED
        BY <1>2, <2>1, <2>3, <3>1, <3>2, <3>3, Constants DEF Renewed
    <2>4. CASE Renewed(m) /\ m \notin refused
      <3> DEFINE b == [age |-> 0, refused |-> refused]
      <3>1. b \in beats' /\ b.age = 0 /\ m \notin b.refused
        BY <1>1, <2>4
      <3>2. VisibilityTimeout <= hidden'[m] + b.age + MaxLatency + MaxGap
        BY <2>1, <2>4, <3>1, Gap, Constants DEF Renewed
      <3> QED
        BY <3>1, <3>2 DEF OnItsWay
    <2> QED
      BY <1>2, <2>2, <2>3, <2>4 DEF Held
  <1>5. SentBefore' /\ BackInTime'
    BY <1>2 DEF SentBefore, BackInTime
  <1> QED
    BY <1>3, <1>4, <1>5

\* A heartbeat arrives: the messages it works for are renewed; the others keep what
\* they had, this one was not on its way for them.
LEMMA ArrivalStep == ASSUME IInv, NEW b \in beats, Arrives(b) PROVE IInv'
  <1> USE DEF IInv
  <1>1. PICK visibleAgain \in SUBSET {m \in Messages : hidden[m] = 0} :
          hidden' = [m \in Messages |->
            IF m \in b.refused \cup deleted \/ (hidden[m] = 0 /\ m \notin visibleAgain)
            THEN hidden[m] ELSE NewTimeout]
    BY DEF Arrives
  <1>2. \A m \in Messages : hidden'[m] \in {hidden[m], VisibilityTimeout}
    BY <1>1 DEF NewTimeout
  <1>3. beats' = beats \ {b} /\ UNCHANGED <<phase, failed, sinceBeat, misses, deleted, sinceEnd>>
    BY DEF Arrives
  <1>4. TypeOK'
    <2>1. hidden' \in [Messages -> 0..VisibilityTimeout]
      BY <1>1, Constants DEF NewTimeout, TypeOK
    <2> QED
      BY <1>3, <2>1 DEF TypeOK
  <1>5. Held'
    <2> SUFFICES ASSUME phase = "processing", NEW m \in Messages
                 PROVE  Renewed(m)' \/ OnItsWay(m)'
      BY <1>3 DEF Held
    <2>1. CASE hidden'[m] = VisibilityTimeout
      <3>1. sinceBeat \in Nat /\ misses[m] * Period \in Nat
        BY Gap, Constants DEF TypeOK
      <3> QED
        BY <1>3, <2>1, <3>1, Constants DEF Renewed
    <2>2. CASE hidden'[m] # VisibilityTimeout
      <3>1. hidden'[m] = hidden[m] /\ hidden[m] > 0
        BY <1>2, <2>2, StillHidden DEF HeldWhileProcessing
      <3>2. m \in b.refused
        BY <1>1, <2>2, <3>1 DEF NewTimeout, SentBefore
      <3> QED
        BY <1>3, <3>1, <3>2 DEF Held, Renewed, OnItsWay
    <2> QED
      BY <2>1, <2>2
  <1>6. SentBefore'
    BY <1>3 DEF SentBefore
  <1>7. BackInTime'
    <2> SUFFICES ASSUME phase # "processing", NEW m \in Messages \ deleted, hidden'[m] > 0
                 PROVE  hidden'[m] + sinceEnd <= Horizon
      BY <1>3 DEF BackInTime
    <2>1. b.age \in Nat /\ b.age <= MaxLatency /\ sinceEnd <= b.age /\ sinceEnd \in Nat
      BY Constants DEF SentBefore, TypeOK
    <2> QED
      BY <1>2, <2>1, Constants DEF BackInTime, Horizon
  <1> QED
    BY <1>4, <1>5, <1>6, <1>7

\* Any step out of the handlers' phase: the clock of BackInTime starts at 0, and
\* nothing is hidden for longer than the timeout.
LEMMA EndStep ==
  ASSUME IInv, ProcessingDone \/ DeleteReturns \/ DeleteFails \/ Terminate \/ Crash
  PROVE  IInv'
  <1> USE DEF IInv
  <1>1. /\ phase' \in {"deleting", "terminating", "ended"}
        /\ phase' = "deleting" => phase = "processing" /\ UNCHANGED deleted
        /\ failed' \in SUBSET Messages /\ deleted' \in SUBSET Messages
        /\ beats' \subseteq beats /\ deleted \subseteq deleted'
        /\ UNCHANGED <<sinceBeat, misses, sinceEnd>>
    BY DEF ProcessingDone, DeleteReturns, DeleteFails, Terminate, Crash, AfterReport, TypeOK,
      SentBefore
  <1>2. /\ hidden' \in [Messages -> 0..VisibilityTimeout]
        /\ \A m \in Messages : hidden'[m] \in {0, hidden[m]}
    BY Constants DEF ProcessingDone, DeleteReturns, DeleteFails, Terminate, Crash, TypeOK
  <1>3. TypeOK'
    BY <1>1, <1>2 DEF TypeOK
  <1>4. Held'
    BY <1>1 DEF Held
  <1>5. SentBefore'
    <2>1. \A b \in beats : b.age \in Nat
      BY Constants DEF TypeOK
    <2> QED
      BY <1>1, <2>1 DEF SentBefore
  <1>6. BackInTime'
    <2> SUFFICES ASSUME NEW m \in Messages \ deleted', hidden'[m] > 0
                 PROVE  hidden'[m] + sinceEnd <= Horizon
      BY <1>1 DEF BackInTime
    <2>1. hidden'[m] = hidden[m] /\ m \notin deleted
      BY <1>1, <1>2
    <2>2. CASE phase = "processing"
      <3>1. sinceEnd = 0 /\ hidden[m] \in Nat /\ hidden[m] <= VisibilityTimeout
        BY <2>2, Constants DEF SentBefore, TypeOK
      <3> QED
        BY <2>1, <3>1, Constants DEF Horizon
    <2>3. CASE phase # "processing"
      BY <2>1, <2>3 DEF BackInTime
    <2> QED
      BY <2>2, <2>3
  <1> QED
    BY <1>3, <1>4, <1>5, <1>6

\* Time takes from what is hidden as much as it adds to the clocks.
LEMMA TickStep == ASSUME IInv, Tick PROVE IInv'
  <1> USE DEF IInv
  <1>1. /\ UNCHANGED <<phase, failed, misses, deleted>>
        /\ \A b \in beats : b.age < MaxLatency
        /\ beats' = {[b EXCEPT !.age = @ + 1] : b \in beats}
    BY DEF Tick
  <1>2. \A m \in Messages : /\ hidden[m] \in Nat /\ hidden[m] <= VisibilityTimeout
                             /\ hidden'[m] = IF hidden[m] = 0 THEN 0 ELSE hidden[m] - 1
    BY Constants DEF Tick, TypeOK
  <1>3. \A b \in beats : /\ b \in [age : 0..MaxLatency, refused : SUBSET Messages]
                         /\ b.age \in Nat /\ b.age < MaxLatency
    BY <1>1, Constants DEF TypeOK
  <1>4. sinceBeat \in Nat /\ sinceBeat <= Period /\ sinceEnd \in Nat /\ sinceEnd <= Horizon
    BY Constants DEF TypeOK
  <1>5. TypeOK'
    <2>1. beats' \in SUBSET [age : 0..MaxLatency, refused : SUBSET Messages]
      BY <1>1, <1>3, Constants
    <2>2. hidden' \in [Messages -> 0..VisibilityTimeout]
      <3>1. \A m \in Messages : hidden'[m] \in 0..VisibilityTimeout
        BY <1>2, Constants
      <3>2. hidden' = [m \in Messages |-> IF hidden[m] = 0 THEN 0 ELSE hidden[m] - 1]
        BY DEF Tick
      <3> QED
        BY <3>1, <3>2
    <2>3. sinceBeat' \in 0..Period
      BY <1>4, Constants DEF Tick, TimerRuns
    <2>4. sinceEnd' \in 0..Horizon
      BY <1>4, Constants DEF Tick
    <2> QED
      BY <1>1, <2>1, <2>2, <2>3, <2>4 DEF TypeOK
  <1>6. Held'
    <2> SUFFICES ASSUME phase = "processing", NEW m \in Messages
                 PROVE  Renewed(m)' \/ OnItsWay(m)'
      BY <1>1 DEF Held
    <2>1. hidden'[m] = hidden[m] - 1 /\ hidden[m] \in Nat /\ hidden[m] > 0
      BY <1>2, StillHidden DEF HeldWhileProcessing
    <2>2. CASE Renewed(m)
      <3>1. sinceBeat' = sinceBeat + 1 /\ misses'[m] = misses[m]
        BY <1>1 DEF Tick, TimerRuns
      <3> QED
        BY <1>4, <2>1, <2>2, <3>1, Gap, Constants DEF Renewed
    <2>3. CASE OnItsWay(m)
      <3>1. PICK b \in beats :
              /\ m \notin b.refused
              /\ VisibilityTimeout <= hidden[m] + b.age + MaxLatency + MaxGap
        BY <2>3 DEF OnItsWay
      <3> DEFINE c == [b EXCEPT !.age = @ + 1]
      <3>2. c \in beats' /\ c.age = b.age + 1 /\ c.refused = b.refused
        BY <1>1, <1>3
      <3>3. VisibilityTimeout <= hidden'[m] + c.age + MaxLatency + MaxGap
        BY <1>3, <2>1, <3>1, <3>2, Constants
      <3> QED
        BY <3>1, <3>2, <3>3 DEF OnItsWay
    <2> QED
      BY <2>2, <2>3 DEF Held
  <1>7. SentBefore'
    <2>1. sinceEnd' \in {sinceEnd, sinceEnd + 1} /\ (phase = "processing" => sinceEnd' = sinceEnd)
      BY DEF Tick
    <2>2. \A c \in beats' : \E b \in beats : c.age = b.age + 1
      BY <1>1, <1>3
    <2>3. \A b \in beats : phase # "processing" => sinceEnd <= b.age
      BY DEF SentBefore
    <2>4. phase # "processing" => \A c \in beats' : sinceEnd' <= c.age
      BY <1>3, <1>4, <2>1, <2>2, <2>3
    <2> QED
      BY <1>1, <2>1, <2>4 DEF SentBefore
  <1>8. BackInTime'
    <2> SUFFICES ASSUME phase # "processing", NEW m \in Messages \ deleted, hidden'[m] > 0
                 PROVE  hidden'[m] + sinceEnd' <= Horizon
      BY <1>1 DEF BackInTime
    <2>1. hidden'[m] = hidden[m] - 1 /\ hidden[m] > 0 /\ hidden[m] \in Nat
      BY <1>2
    <2>2. hidden[m] + sinceEnd <= Horizon
      BY <2>1 DEF BackInTime
    <2>3. sinceEnd' \in {sinceEnd, sinceEnd + 1}
      BY DEF Tick
    <2> QED
      BY <1>4, <2>1, <2>2, <2>3, Constants
  <1> QED
    BY <1>5, <1>6, <1>7, <1>8

LEMMA IInvStep == IInv /\ [Next]_vars => IInv'
  <1> SUFFICES ASSUME IInv, [Next]_vars PROVE IInv'
    OBVIOUS
  <1>1. CASE UNCHANGED vars
    BY <1>1
    DEF vars, IInv, TypeOK, Held, Renewed, OnItsWay, SentBefore, BackInTime
  <1> QED
    BY <1>1, FireStep, ArrivalStep, EndStep, TickStep DEF Next

\* The invariant holds whatever the constants.
THEOREM Inductive == Spec => []IInv
  BY InitOK, IInvStep, PTL DEF Spec

-------------------------------------------------------------------------------
(***************************************************************************)
(* What follows from it                                                    *)
(***************************************************************************)

\* Type correctness.
THEOREM TypeCorrect == Spec => []TypeOK
  BY Inductive, PTL DEF IInv

\* With the margin of MarginAssumption a batch is held for as long as its handlers
\* take, although heartbeats are late, overtake each other and fail.
THEOREM BatchHeld == Spec => []HeldWhileProcessing
  <1>1. IInv => HeldWhileProcessing
    BY StillHidden DEF IInv
  <1> QED
    BY <1>1, Inductive, PTL

\* After the end nothing stays hidden for longer than the timeout and the time a
\* heartbeat may be under way.
THEOREM BackAgain == Spec => []BackInTime
  BY Inductive, PTL DEF IInv
===============================================================================

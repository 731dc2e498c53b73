--------------------------- MODULE SqsProducerProofs ---------------------------
(***************************************************************************)
(* Proofs about SqsProducer: for entries of any sizes, lists of any length *)
(* and any limits of a batch.  A first invariant says where each entry is, *)
(* a second one how large the batches are and in which order they stand,   *)
(* a third one when the first batch is empty.                              *)
(***************************************************************************)
EXTENDS SqsProducer, SequenceTheorems, TLAPS

-------------------------------------------------------------------------------
(***************************************************************************)
(* The inductive invariant                                                 *)
(***************************************************************************)

InBatches(i) == \E k \in 1..Len(batches) : i \in ToSet(batches[k])

\* An entry whose batch has not been sent.
InRest(i) == \E k \in (sent + 1)..Len(batches) : i \in ToSet(batches[k])

\* Nothing is done before the call has been validated ...
Untouched ==
  pc \in {"idle", "validating"} =>
    next = 1 /\ current = <<>> /\ batches = <<>> /\ failed = {}

\* ... and nothing sent before the list has been packed.
NothingSent ==
  pc \in {"idle", "validating", "packing"} => sent = 0 /\ success = {} /\ enqueued = {}

\* What is sent has been validated.
Validated == pc \in {"packing", "sending", "returned"} \/ enqueued # {} => AllValid

OneMessage == single => pc = "idle" \/ Len(entries) = 1

\* An entry is in no two batches.
Disjoint ==
  \A k, l \in 1..Len(batches) : k # l => ToSet(batches[k]) \cap ToSet(batches[l]) = {}

\* The packing loop has put each entry it has passed in one place.
PackedOnce ==
  pc = "packing" =>
    /\ \A i : i \in failed \/ i \in ToSet(current) \/ InBatches(i) <=> i \in 1..(next - 1)
    /\ failed \cap ToSet(current) = {}
    /\ \A k \in 1..Len(batches) : ToSet(batches[k]) \cap (failed \cup ToSet(current)) = {}

\* The sending loop has answered for the entries it has passed, and for each of the
\* others there is a batch to come.
AnsweredOnce ==
  pc \in {"sending", "returned"} =>
    /\ success = enqueued
    /\ \A i \in DOMAIN entries : i \in success \/ i \in failed \/ InRest(i)
    /\ success \cap failed = {}
    /\ \A k \in (sent + 1)..Len(batches) : ToSet(batches[k]) \cap (success \cup failed) = {}

RestNotEnqueued ==
  \A k \in (sent + 1)..Len(batches) : ToSet(batches[k]) \cap enqueued = {}

Ended == /\ lost => pc = "threw"
         /\ pc = "returned" => sent = Len(batches)

\* "batches of `maxBatchSize` entries or less" (sqs-message.batcher.ts:18)
LengthLimit ==
  MaxBatchLength # 0 =>
    /\ Len(current) <= MaxBatchLength
    /\ \A k \in DOMAIN batches : Len(batches[k]) <= MaxBatchLength

IInv ==
  /\ TypeOK
  /\ Untouched /\ NothingSent /\ Validated /\ OneMessage
  /\ Disjoint /\ PackedOnce /\ AnsweredOnce /\ RestNotEnqueued
  /\ Ended
  /\ LengthLimit

-------------------------------------------------------------------------------
(***************************************************************************)
(* Lemmas about sequences                                                  *)
(***************************************************************************)

LEMMA ToSetType ==
  ASSUME NEW S, NEW s \in Seq(S)
  PROVE  ToSet(s) \subseteq S
  BY DEF ToSet

LEMMA ToSetEmpty == ToSet(<<>>) = {}
  BY DEF ToSet

LEMMA ToSetOne ==
  ASSUME NEW x
  PROVE  ToSet(<<x>>) = {x}
  BY DEF ToSet

LEMMA ToSetAppend ==
  ASSUME NEW S, NEW s \in Seq(S), NEW x \in S
  PROVE  ToSet(Append(s, x)) = ToSet(s) \cup {x}
  <1>1. /\ DOMAIN Append(s, x) = 1..(Len(s) + 1)
        /\ \A i \in 1..Len(s) : Append(s, x)[i] = s[i]
        /\ Append(s, x)[Len(s) + 1] = x
        /\ Len(s) \in Nat /\ DOMAIN s = 1..Len(s)
    OBVIOUS
  <1>2. ASSUME NEW y \in ToSet(Append(s, x))
        PROVE  y \in ToSet(s) \cup {x}
    <2>1. PICK i \in 1..(Len(s) + 1) : y = Append(s, x)[i]
      BY <1>1, <1>2 DEF ToSet
    <2>2. CASE i = Len(s) + 1
      BY <1>1, <2>1, <2>2
    <2>3. CASE i \in 1..Len(s)
      BY <1>1, <2>1, <2>3 DEF ToSet
    <2> QED
      BY <1>1, <2>1, <2>2, <2>3
  <1>3. ToSet(s) \cup {x} \subseteq ToSet(Append(s, x))
    BY <1>1 DEF ToSet
  <1> QED
    BY <1>2, <1>3

\* Adding a batch keeps the others where they are.
LEMMA AppendBatch ==
  ASSUME TypeOK, NEW b \in Seq(DOMAIN entries), batches' = Append(batches, b)
  PROVE  /\ batches' \in Seq(Seq(DOMAIN entries))
         /\ Len(batches) \in Nat /\ Len(batches') = Len(batches) + 1
         /\ \A k \in 1..Len(batches) : batches'[k] = batches[k]
         /\ batches'[Len(batches) + 1] = b
  BY DEF TypeOK

\* The constants of the model and the lengths of its sequences are numbers.
LEMMA Numbers ==
  ASSUME TypeOK
  PROVE  /\ Len(entries) \in Nat /\ DOMAIN entries = 1..Len(entries)
         /\ Len(batches) \in Nat /\ DOMAIN batches = 1..Len(batches)
         /\ Len(current) \in Nat
         /\ next \in Nat /\ sent \in Nat /\ sent <= Len(batches)
         /\ MaxBatchLength \in Nat
  <1>1. entries \in Seq(Entry) /\ batches \in Seq(Seq(DOMAIN entries))
        /\ current \in Seq(DOMAIN entries)
    BY DEF TypeOK
  <1>2. /\ Len(entries) \in Nat /\ DOMAIN entries = 1..Len(entries)
        /\ Len(batches) \in Nat /\ DOMAIN batches = 1..Len(batches)
        /\ Len(current) \in Nat
    BY <1>1
  <1>3. next \in 1..(Len(entries) + 1) /\ sent \in 0..Len(batches)
    BY DEF TypeOK
  <1> QED
    BY <1>2, <1>3, ProducerAssumption

LEMMA EntrySize ==
  ASSUME TypeOK, NEW i \in DOMAIN entries
  PROVE  entries[i].size \in Nat
  <1>1. entries \in Seq(Entry)
    BY DEF TypeOK
  <1>2. entries[i] \in Entry
    BY <1>1
  <1> QED
    BY <1>2, ProducerAssumption DEF Entry

\* What is in a batch is an entry of the caller's.
LEMMA BatchEntries ==
  ASSUME TypeOK
  PROVE  /\ \A k \in 1..Len(batches) : ToSet(batches[k]) \subseteq DOMAIN entries
         /\ ToSet(current) \subseteq DOMAIN entries
  <1>1. \A k \in 1..Len(batches) : batches[k] \in Seq(DOMAIN entries)
    BY DEF TypeOK
  <1>2. current \in Seq(DOMAIN entries)
    BY DEF TypeOK
  <1> QED
    BY <1>1, <1>2, ToSetType

-------------------------------------------------------------------------------
(***************************************************************************)
(* The steps                                                               *)
(***************************************************************************)

LEMMA IInvInit == Init => IInv
  <1> SUFFICES ASSUME Init PROVE IInv
    OBVIOUS
  <1>1. TypeOK
    <2>1. entries \in Seq(Entry) /\ current \in Seq(DOMAIN entries)
          /\ batches \in Seq(Seq(DOMAIN entries))
      BY DEF Init
    <2>2. Len(entries) = 0 /\ Len(batches) = 0
      BY DEF Init
    <2>3. /\ next \in 1..(Len(entries) + 1) /\ sent \in 0..Len(batches)
          /\ Len(entries) <= MaxEntries /\ currentSize \in Nat
      BY <2>2, ProducerAssumption DEF Init
    <2>4. /\ pc = "idle" /\ single \in BOOLEAN /\ lost \in BOOLEAN
          /\ success = {} /\ failed = {} /\ enqueued = {}
      BY DEF Init
    <2> QED
      BY <2>1, <2>3, <2>4 DEF TypeOK
  <1>2. Len(batches) = 0 /\ Len(current) = 0 /\ DOMAIN batches = {} /\ sent = 0
    BY DEF Init
  <1>3. LengthLimit
    BY <1>1, <1>2, Numbers DEF LengthLimit
  <1>4. Disjoint /\ RestNotEnqueued
    BY <1>2 DEF Disjoint, RestNotEnqueued
  <1> QED
    BY <1>1, <1>3, <1>4
    DEF Init, IInv, Untouched, NothingSent, Validated, OneMessage, PackedOnce, AnsweredOnce, Ended

LEMMA CallStep == IInv /\ Call => IInv'
  <1> SUFFICES ASSUME IInv, Call PROVE IInv'
    OBVIOUS
  <1> USE DEF packVars, resultVars
  <1>1. PICK n \in 0..MaxEntries : entries' \in [1..n -> Entry]
    BY DEF Call
  <1>2. entries' \in Seq(Entry) /\ Len(entries') = n /\ DOMAIN entries' = 1..n
    BY <1>1, ProducerAssumption
  <1>3. /\ next = 1 /\ current = <<>> /\ batches = <<>> /\ failed = {}
        /\ sent = 0 /\ success = {} /\ enqueued = {} /\ ~lost
    BY DEF Call, IInv, Untouched, NothingSent, Ended
  <1>4. TypeOK'
    BY <1>2, <1>3, ProducerAssumption DEF Call, IInv, TypeOK
  <1> QED
    BY <1>3, <1>4 DEF Call, IInv, Untouched, NothingSent, Validated, OneMessage, Disjoint,
       PackedOnce, AnsweredOnce, RestNotEnqueued, Ended, LengthLimit

LEMMA RejectStep == IInv /\ Reject => IInv'
  BY DEF Reject, IInv, TypeOK, packVars, resultVars, Untouched, NothingSent, Validated,
     OneMessage, Disjoint, PackedOnce, AnsweredOnce, RestNotEnqueued, Ended, LengthLimit, AllValid

LEMMA AcceptSingleStep == IInv /\ AcceptSingle => IInv'
  <1> SUFFICES ASSUME IInv, AcceptSingle PROVE IInv'
    OBVIOUS
  <1> USE DEF packVars, resultVars
  <1>1. /\ current = <<>> /\ failed = {} /\ success = {} /\ enqueued = {} /\ sent = 0
        /\ Len(entries) = 1 /\ AllValid /\ ~lost
    BY DEF AcceptSingle, IInv, Untouched, NothingSent, OneMessage, Ended
  <1>2. DOMAIN entries = {1}
    BY <1>1, Numbers DEF IInv
  <1>3. /\ batches' = <<<<1>>>> /\ batches' \in Seq(Seq({1}))
        /\ Len(batches') = 1 /\ DOMAIN batches' = {1} /\ batches'[1] = <<1>> /\ Len(<<1>>) = 1
    BY <1>2 DEF AcceptSingle
  <1>4. ToSet(batches'[1]) = {1}
    BY <1>3, ToSetOne
  <1>5. TypeOK'
    BY <1>1, <1>2, <1>3 DEF AcceptSingle, IInv, TypeOK
  <1>6. AnsweredOnce'
    BY <1>1, <1>2, <1>3, <1>4 DEF AcceptSingle, AnsweredOnce, InRest
  <1>7. LengthLimit'
    <2>1. current' = <<>> /\ Len(current') = 0
      BY <1>1 DEF AcceptSingle
    <2>2. MaxBatchLength # 0 => 0 <= MaxBatchLength /\ 1 <= MaxBatchLength
      BY Numbers DEF IInv
    <2> QED
      BY <1>3, <2>1, <2>2 DEF LengthLimit
  <1>8. Disjoint'
    BY <1>3 DEF Disjoint
  <1> QED
    BY <1>1, <1>5, <1>6, <1>7, <1>8
    DEF AcceptSingle, IInv, Untouched, NothingSent, Validated, OneMessage, PackedOnce,
        RestNotEnqueued, Ended, AllValid

LEMMA AcceptBatchStep == IInv /\ AcceptBatch => IInv'
  <1> SUFFICES ASSUME IInv, AcceptBatch PROVE IInv'
    OBVIOUS
  <1> USE DEF packVars, resultVars
  <1>1. next = 1 /\ current = <<>> /\ batches = <<>> /\ failed = {} /\ Len(batches) = 0
    BY DEF AcceptBatch, IInv, Untouched
  <1>2. PackedOnce'
    BY <1>1, ToSetEmpty DEF AcceptBatch, PackedOnce, InBatches
  <1> QED
    BY <1>1, <1>2
    DEF AcceptBatch, IInv, TypeOK, Untouched, NothingSent, Validated, OneMessage, Disjoint,
        AnsweredOnce, RestNotEnqueued, Ended, LengthLimit, AllValid

\* While packing, nothing has been sent, and the entry at hand is in no place yet.
LEMMA Packing ==
  ASSUME IInv, pc = "packing"
  PROVE  /\ sent = 0 /\ success = {} /\ enqueued = {} /\ ~lost /\ AllValid
         /\ next \notin failed /\ next \notin ToSet(current) /\ ~InBatches(next)
         /\ next \in Nat
  BY Numbers DEF IInv, NothingSent, Validated, PackedOnce, Ended

LEMMA SkipStep == IInv /\ SkipOversized => IInv'
  <1> SUFFICES ASSUME IInv, SkipOversized PROVE IInv'
    OBVIOUS
  <1>1. /\ pc = "packing" /\ next \in DOMAIN entries /\ failed' = failed \cup {next}
        /\ next' = next + 1
        /\ UNCHANGED <<pc, single, entries, current, currentSize, batches, sent, success,
                       enqueued, lost>>
    BY DEF SkipOversized, NextEntry
  <1>2. DOMAIN entries = 1..Len(entries) /\ Len(entries) \in Nat /\ next \in 1..Len(entries)
    BY <1>1, Numbers DEF IInv
  <1>3. TypeOK'
    BY <1>1, <1>2 DEF IInv, TypeOK
  <1>4. PackedOnce'
    <2>1. \A i : i \in failed \/ i \in ToSet(current) \/ InBatches(i) <=> i \in 1..(next - 1)
      BY <1>1 DEF IInv, PackedOnce
    <2>2. \A i : i \in 1..(next' - 1) <=> i \in 1..(next - 1) \/ i = next
      BY <1>1, <1>2
    <2>3. \A k \in 1..Len(batches) : next \notin ToSet(batches[k])
      BY <1>1, Packing DEF InBatches
    <2>4. \A i : InBatches(i)' <=> InBatches(i)
      BY <1>1 DEF InBatches
    <2> QED
      BY <1>1, <2>1, <2>2, <2>3, <2>4, Packing DEF IInv, PackedOnce
  <1> QED
    BY <1>1, <1>3, <1>4, Packing
    DEF IInv, Untouched, NothingSent, Validated, OneMessage, Disjoint,
        AnsweredOnce, RestNotEnqueued, Ended, LengthLimit, AllValid

LEMMA AppendStep == IInv /\ AppendToCurrent => IInv'
  <1> SUFFICES ASSUME IInv, AppendToCurrent PROVE IInv'
    OBVIOUS
  <1>1. /\ pc = "packing" /\ next \in DOMAIN entries /\ current' = Append(current, next)
        /\ currentSize' = currentSize + entries[next].size
        /\ next' = next + 1 /\ Len(current) # MaxBatchLength
        /\ UNCHANGED <<pc, single, entries, batches, sent, success, failed, enqueued, lost>>
    BY DEF AppendToCurrent, NextEntry, BatchIsFull, resultVars
  <1>2. DOMAIN entries = 1..Len(entries) /\ Len(entries) \in Nat /\ next \in 1..Len(entries)
    BY <1>1, Numbers DEF IInv
  <1>3. current \in Seq(DOMAIN entries)
    BY DEF IInv, TypeOK
  <1>4. /\ current' \in Seq(DOMAIN entries) /\ Len(current') = Len(current) + 1
        /\ ToSet(current') = ToSet(current) \cup {next}
    BY <1>1, <1>3, ToSetAppend
  <1>5. entries[next].size \in Nat
    BY <1>1, EntrySize DEF IInv
  <1>6. TypeOK'
    BY <1>1, <1>2, <1>4, <1>5 DEF IInv, TypeOK
  <1>7. PackedOnce'
    <2>1. \A i : i \in failed \/ i \in ToSet(current) \/ InBatches(i) <=> i \in 1..(next - 1)
      BY <1>1 DEF IInv, PackedOnce
    <2>2. \A i : i \in 1..(next' - 1) <=> i \in 1..(next - 1) \/ i = next
      BY <1>1, <1>2
    <2>3. \A k \in 1..Len(batches) : next \notin ToSet(batches[k])
      BY <1>1, Packing DEF InBatches
    <2>4. \A i : InBatches(i)' <=> InBatches(i)
      BY <1>1 DEF InBatches
    <2> QED
      BY <1>1, <1>4, <2>1, <2>2, <2>3, <2>4, Packing DEF IInv, PackedOnce
  <1>8. LengthLimit'
    BY <1>1, <1>4, Numbers DEF IInv, LengthLimit
  <1> QED
    BY <1>1, <1>6, <1>7, <1>8, Packing
    DEF IInv, Untouched, NothingSent, Validated, OneMessage, Disjoint,
        AnsweredOnce, RestNotEnqueued, Ended, AllValid

\* Where the entries are when the current batch b is closed.
LEMMA ClosedBatch ==
  ASSUME IInv, pc = "packing", batches' = Append(batches, current)
  PROVE  /\ \A i : InBatches(i)' <=> InBatches(i) \/ i \in ToSet(current)
         /\ Disjoint'
         /\ MaxBatchLength # 0 => \A k \in DOMAIN batches' : Len(batches'[k]) <= MaxBatchLength
         /\ Len(batches') = Len(batches) + 1 /\ Len(batches) \in Nat
         /\ batches' \in Seq(Seq(DOMAIN entries))
         /\ \A k \in 1..Len(batches') :
              (k \in 1..Len(batches) /\ batches'[k] = batches[k]) \/ batches'[k] = current
  <1>1. current \in Seq(DOMAIN entries)
    BY DEF IInv, TypeOK
  <1>2. /\ Len(batches) \in Nat /\ Len(batches') = Len(batches) + 1
        /\ batches' \in Seq(Seq(DOMAIN entries))
        /\ \A k \in 1..Len(batches) : batches'[k] = batches[k]
        /\ batches'[Len(batches) + 1] = current
    BY <1>1, AppendBatch DEF IInv
  <1>3. \A k \in 1..Len(batches') : k \in 1..Len(batches) \/ k = Len(batches) + 1
    BY <1>2
  <1>4. \A i : InBatches(i)' <=> InBatches(i) \/ i \in ToSet(current)
    <2>1. ASSUME NEW i, InBatches(i) PROVE InBatches(i)'
      <3>1. PICK k \in 1..Len(batches) : i \in ToSet(batches[k])
        BY <2>1 DEF InBatches
      <3>2. k \in 1..Len(batches') /\ batches'[k] = batches[k]
        BY <1>2, <3>1
      <3> QED
        BY <3>1, <3>2 DEF InBatches
    <2>2. \A i \in ToSet(current) : InBatches(i)'
      <3>1. Len(batches) + 1 \in 1..Len(batches')
        BY <1>2
      <3> QED
        BY <1>2, <3>1 DEF InBatches
    <2>3. \A i : InBatches(i)' => InBatches(i) \/ i \in ToSet(current)
      BY <1>2, <1>3 DEF InBatches
    <2> QED
      BY <2>1, <2>2, <2>3
  <1>5. Disjoint'
    <2>1. \A k \in 1..Len(batches) : ToSet(batches[k]) \cap ToSet(current) = {}
      BY DEF IInv, PackedOnce
    <2> QED
      BY <1>2, <1>3, <2>1 DEF IInv, Disjoint
  <1>6. DOMAIN batches = 1..Len(batches) /\ DOMAIN batches' = 1..Len(batches')
    BY <1>2, Numbers DEF IInv
  <1>7. MaxBatchLength # 0 => \A k \in DOMAIN batches' : Len(batches'[k]) <= MaxBatchLength
    BY <1>2, <1>3, <1>6 DEF IInv, LengthLimit
  <1> QED
    BY <1>2, <1>3, <1>4, <1>5, <1>7

LEMMA CloseStep == IInv /\ CloseBatch => IInv'
  <1> SUFFICES ASSUME IInv, CloseBatch PROVE IInv'
    OBVIOUS
  <1>1. /\ pc = "packing" /\ next \in DOMAIN entries
        /\ batches' = Append(batches, current) /\ current' = <<next>>
        /\ currentSize' = entries[next].size /\ next' = next + 1
        /\ UNCHANGED <<pc, single, entries, sent, success, failed, enqueued, lost>>
    BY DEF CloseBatch, NextEntry, StartedWith, resultVars
  <1>2. DOMAIN entries = 1..Len(entries) /\ Len(entries) \in Nat /\ next \in 1..Len(entries)
    BY <1>1, Numbers DEF IInv
  <1>3. current' \in Seq(DOMAIN entries) /\ Len(current') = 1 /\ ToSet(current') = {next}
    BY <1>1, ToSetOne
  <1>4. entries[next].size \in Nat
    BY <1>1, EntrySize DEF IInv
  <1>5. sent = 0 /\ Len(batches) \in Nat /\ Len(batches') = Len(batches) + 1
        /\ batches' \in Seq(Seq(DOMAIN entries))
    BY <1>1, Packing, ClosedBatch
  <1>6. TypeOK'
    BY <1>1, <1>2, <1>3, <1>4, <1>5 DEF IInv, TypeOK
  <1>7. PackedOnce'
    <2>1. \A i : i \in failed \/ i \in ToSet(current) \/ InBatches(i) <=> i \in 1..(next - 1)
      BY <1>1 DEF IInv, PackedOnce
    <2>2. \A i : i \in 1..(next' - 1) <=> i \in 1..(next - 1) \/ i = next
      BY <1>1, <1>2
    <2>3. \A i : InBatches(i)' <=> InBatches(i) \/ i \in ToSet(current)
      BY <1>1, ClosedBatch
    <2>4. \A i : i \in failed' \/ i \in ToSet(current)' \/ InBatches(i)' <=> i \in 1..(next' - 1)
      BY <1>1, <1>3, <2>1, <2>2, <2>3
    <2>5. \A k \in 1..Len(batches') : next \notin ToSet(batches'[k])
      BY <1>1, <2>3, Packing DEF InBatches
    <2>6. \A k \in 1..Len(batches') : ToSet(batches'[k]) \cap failed = {}
      BY <1>1, ClosedBatch DEF IInv, PackedOnce
    <2> QED
      BY <1>1, <1>3, <2>4, <2>5, <2>6, Packing DEF PackedOnce
  <1>8. LengthLimit'
    BY <1>1, <1>3, ClosedBatch, Numbers DEF IInv, LengthLimit
  <1>9. Disjoint'
    BY <1>1, ClosedBatch
  <1> QED
    BY <1>1, <1>6, <1>7, <1>8, <1>9, Packing
    DEF IInv, Untouched, NothingSent, Validated, OneMessage, AnsweredOnce,
        RestNotEnqueued, Ended, AllValid

LEMMA FinishStep == IInv /\ FinishPacking => IInv'
  <1> SUFFICES ASSUME IInv, FinishPacking PROVE IInv'
    OBVIOUS
  <1>1. /\ pc = "packing" /\ next > Len(entries) /\ pc' = "sending"
        /\ batches' = batches \o LastBatch
        /\ UNCHANGED <<single, entries, next, current, currentSize, sent, success, failed,
                       enqueued, lost>>
    BY DEF FinishPacking, resultVars
  <1>2. sent = 0 /\ success = {} /\ enqueued = {} /\ ~lost /\ AllValid
    BY <1>1, Packing
  <1>3. batches \in Seq(Seq(DOMAIN entries)) /\ current \in Seq(DOMAIN entries)
    BY DEF IInv, TypeOK
  <1>4. /\ \A i : InBatches(i)' <=> InBatches(i) \/ i \in ToSet(current)
        /\ Disjoint'
        /\ MaxBatchLength # 0 => \A k \in DOMAIN batches' : Len(batches'[k]) <= MaxBatchLength
        /\ batches' \in Seq(Seq(DOMAIN entries)) /\ Len(batches') \in Nat
        /\ \A k \in 1..Len(batches') : ToSet(batches'[k]) \cap failed = {}
    <2>1. CASE current = <<>>
      <3>1. batches' = batches
        BY <1>1, <1>3, <2>1 DEF LastBatch
      <3> QED
        BY <1>1, <1>3, <2>1, <3>1, ToSetEmpty, Numbers
        DEF IInv, InBatches, Disjoint, LengthLimit, PackedOnce
    <2>2. CASE current # <<>>
      <3>1. batches' = Append(batches, current)
        BY <1>1, <1>3, <2>2 DEF LastBatch
      <3> QED
        BY <1>1, <3>1, ClosedBatch DEF IInv, PackedOnce
    <2> QED
      BY <2>1, <2>2
  <1>5. TypeOK'
    BY <1>1, <1>2, <1>4 DEF IInv, TypeOK
  <1>6. next = Len(entries) + 1 /\ Len(entries) \in Nat /\ DOMAIN entries = 1..Len(entries)
    BY <1>1, Numbers DEF IInv, TypeOK
  <1>7. AnsweredOnce'
    <2>1. \A i : i \in failed \/ i \in ToSet(current) \/ InBatches(i) <=> i \in 1..(next - 1)
      BY <1>1 DEF IInv, PackedOnce
    <2>2. \A i \in DOMAIN entries : i \in failed \/ InBatches(i)'
      BY <1>4, <1>6, <2>1
    <2>3. \A i : InBatches(i)' => InRest(i)'
      BY <1>1, <1>2 DEF InBatches, InRest
    <2> QED
      BY <1>1, <1>2, <1>4, <2>2, <2>3 DEF AnsweredOnce
  <1>8. LengthLimit'
    BY <1>1, <1>4 DEF IInv, LengthLimit
  <1> QED
    BY <1>1, <1>2, <1>4, <1>5, <1>7, <1>8
    DEF IInv, Untouched, NothingSent, Validated, OneMessage, PackedOnce, RestNotEnqueued,
        Ended, AllValid

\* The batch that is sent next is one of those the sending loop has not passed, and
\* has no entry in common with the others.
LEMMA NextBatch ==
  ASSUME IInv, pc = "sending", sent < Len(batches)
  PROVE  /\ sent + 1 \in (sent + 1)..Len(batches)
         /\ (sent + 2)..Len(batches) \subseteq (sent + 1)..Len(batches)
         /\ \A k \in (sent + 1)..Len(batches) : k = sent + 1 \/ k \in (sent + 2)..Len(batches)
         /\ \A k \in (sent + 2)..Len(batches) : ToSet(batches[k]) \cap InBatch = {}
         /\ InBatch \subseteq DOMAIN entries
         /\ sent + 1 \in 0..Len(batches)
  <1>1. sent \in Nat /\ Len(batches) \in Nat
    BY Numbers DEF IInv
  <1>2. sent + 1 \in 1..Len(batches)
    BY <1>1
  <1>3. \A k \in (sent + 2)..Len(batches) : k \in 1..Len(batches) /\ k # sent + 1
    BY <1>1
  <1>4. InBatch \subseteq DOMAIN entries
    BY <1>2, BatchEntries DEF IInv, InBatch
  <1>5. \A k \in (sent + 2)..Len(batches) : ToSet(batches[k]) \cap InBatch = {}
    BY <1>2, <1>3 DEF IInv, Disjoint, InBatch
  <1> QED
    BY <1>1, <1>2, <1>4, <1>5

LEMMA SendSucceedsStep == IInv /\ SendSucceeds => IInv'
  <1> SUFFICES ASSUME IInv, SendSucceeds PROVE IInv'
    OBVIOUS
  <1>1. /\ pc = "sending" /\ sent < Len(batches) /\ sent' = sent + 1
        /\ UNCHANGED <<pc, single, entries, next, current, currentSize, batches, lost>>
    BY DEF SendSucceeds, packVars
  <1>2. PICK ok \in SUBSET InBatch :
          /\ enqueued' = enqueued \cup ok
          /\ success' = success \cup ok
          /\ failed' = failed \cup (InBatch \ ok)
    BY DEF SendSucceeds
  <1>3. TypeOK'
    BY <1>1, <1>2, NextBatch DEF IInv, TypeOK
  <1>4. sent' + 1 = sent + 2
    BY <1>1, Numbers DEF IInv
  <1>5. InBatch = ToSet(batches[sent + 1])
    BY DEF InBatch
  <1>6. AnsweredOnce'
    <2>1. success' = enqueued' /\ success' \cap failed' = {}
      <3>1. InBatch \cap (success \cup failed) = {}
        BY <1>1, <1>5, NextBatch DEF IInv, AnsweredOnce
      <3> QED
        BY <1>1, <1>2, <3>1 DEF IInv, AnsweredOnce
    <2>2. ASSUME NEW i \in DOMAIN entries
          PROVE  i \in success' \/ i \in failed' \/ InRest(i)'
      <3>1. i \in success \/ i \in failed \/ InRest(i)
        BY <1>1 DEF IInv, AnsweredOnce
      <3>2. CASE InRest(i)
        <4>1. PICK k \in (sent + 1)..Len(batches) : i \in ToSet(batches[k])
          BY <3>2 DEF InRest
        <4>2. CASE k = sent + 1
          BY <1>2, <1>5, <4>1, <4>2
        <4>3. CASE k \in (sent + 2)..Len(batches)
          BY <1>1, <1>4, <4>1, <4>3 DEF InRest
        <4> QED
          BY <1>1, <4>2, <4>3, NextBatch
      <3> QED
        BY <1>2, <3>1, <3>2
    <2>3. \A k \in (sent + 2)..Len(batches) : ToSet(batches[k]) \cap (success' \cup failed') = {}
      BY <1>1, <1>2, NextBatch DEF IInv, AnsweredOnce
    <2> QED
      BY <1>1, <1>4, <2>1, <2>2, <2>3 DEF AnsweredOnce
  <1>7. RestNotEnqueued'
    BY <1>1, <1>2, <1>4, NextBatch DEF IInv, RestNotEnqueued
  <1> QED
    BY <1>1, <1>3, <1>6, <1>7
    DEF IInv, Untouched, NothingSent, Validated, OneMessage, Disjoint, PackedOnce, Ended,
        LengthLimit, AllValid

LEMMA SendFailsStep == IInv /\ SendFails => IInv'
  <1> SUFFICES ASSUME IInv, SendFails PROVE IInv'
    OBVIOUS
  <1>1. /\ pc = "sending" /\ sent < Len(batches) /\ sent' = sent + 1 /\ pc' = "threw" /\ lost'
        /\ UNCHANGED <<single, entries, next, current, currentSize, batches, success, failed>>
    BY DEF SendFails, AfterRequestFails, packVars, resultVars
  <1>2. PICK ok \in SUBSET InBatch : enqueued' = enqueued \cup ok
    BY DEF SendFails
  <1>3. lost' \in BOOLEAN
    BY DEF SendFails
  <1>4. TypeOK'
    BY <1>1, <1>2, <1>3, NextBatch DEF IInv, TypeOK
  <1>5. sent' + 1 = sent + 2
    BY <1>1, Numbers DEF IInv
  <1>6. RestNotEnqueued'
    BY <1>1, <1>2, <1>5, NextBatch DEF IInv, RestNotEnqueued
  <1> QED
    BY <1>1, <1>4, <1>6
    DEF IInv, Untouched, NothingSent, Validated, OneMessage, Disjoint, PackedOnce,
        AnsweredOnce, Ended, LengthLimit, AllValid

\* What the parts say of the data is left alone when the data are.
LEMMA SameData ==
  ASSUME IInv,
         UNCHANGED <<single, entries, next, current, currentSize, batches, sent, success,
                     failed, enqueued, lost>>,
         pc' \in {pc, "returned", "threw"},
         pc' = "returned" => (pc = "sending" /\ sent = Len(batches)) \/ pc = "returned",
         pc' # pc => pc = "sending"
  PROVE  IInv'
  <1>1. TypeOK'
    <2>1. pc' \in {"idle", "validating", "packing", "sending", "returned", "threw"}
      BY DEF IInv, TypeOK
    <2> QED
      BY <2>1 DEF IInv, TypeOK
  <1>2. Untouched' /\ NothingSent' /\ OneMessage'
    BY DEF IInv, Untouched, NothingSent, OneMessage
  <1>3. Validated'
    <2>1. AllValid' <=> AllValid
      BY DEF AllValid
    <2> QED
      BY <2>1 DEF IInv, Validated
  <1>4. Disjoint' /\ RestNotEnqueued' /\ LengthLimit'
    BY DEF IInv, Disjoint, RestNotEnqueued, LengthLimit
  <1>5. PackedOnce'
    <2>1. \A i : InBatches(i)' <=> InBatches(i)
      BY DEF InBatches
    <2> QED
      BY <2>1 DEF IInv, PackedOnce
  <1>6. AnsweredOnce'
    <2>1. \A i : InRest(i)' <=> InRest(i)
      BY DEF InRest
    <2>2. CASE pc' \in {"sending", "returned"}
      <3>1. pc \in {"sending", "returned"}
        BY <2>2
      <3> QED
        BY <2>1, <3>1 DEF IInv, AnsweredOnce
    <2> QED
      BY <2>2 DEF AnsweredOnce
  <1>7. Ended'
    BY DEF IInv, Ended
  <1> QED
    BY <1>1, <1>2, <1>3, <1>4, <1>5, <1>6, <1>7 DEF IInv

\* The call ends.
LEMMA EndStep == IInv /\ (SendEmpty \/ Return) => IInv'
  <1> SUFFICES ASSUME IInv, SendEmpty \/ Return PROVE IInv'
    OBVIOUS
  <1>1. UNCHANGED <<single, entries, next, current, currentSize, batches, sent, success,
                    failed, enqueued, lost>>
    BY DEF SendEmpty, Return, packVars, resultVars
  <1>2. CASE SendEmpty
    <2>1. pc = "sending" /\ pc' = "threw"
      BY <1>2 DEF SendEmpty
    <2> QED
      BY <1>1, <2>1, SameData
  <1>3. CASE Return
    <2>1. pc = "sending" /\ pc' = "returned" /\ sent = Len(batches)
      BY <1>3 DEF Return, AllSent
    <2> QED
      BY <1>1, <2>1, SameData
  <1> QED
    BY <1>2, <1>3

LEMMA StutterStep == IInv /\ UNCHANGED vars => IInv'
  <1> SUFFICES ASSUME IInv, UNCHANGED vars PROVE IInv'
    OBVIOUS
  <1>1. /\ UNCHANGED <<single, entries, next, current, currentSize, batches, sent, success,
                       failed, enqueued, lost>>
        /\ pc' = pc
    BY DEF vars, packVars, resultVars
  <1>2. pc' = "returned" => pc = "returned"
    BY <1>1
  <1> QED
    BY <1>1, <1>2, SameData

LEMMA IInvStep == IInv /\ [Next]_vars => IInv'
  BY CallStep, RejectStep, AcceptSingleStep, AcceptBatchStep, SkipStep, AppendStep, CloseStep,
     FinishStep, SendSucceedsStep, SendFailsStep, EndStep, StutterStep DEF Next

THEOREM Inductive == Spec => []IInv
  BY IInvInit, IInvStep, PTL DEF Spec

-------------------------------------------------------------------------------
(***************************************************************************)
(* The theorems                                                            *)
(***************************************************************************)

\* Type correctness of a call, whatever the caller's list and the limits are.
THEOREM TypeCorrect == Spec => []TypeOK
  <1>1. IInv => TypeOK
    BY DEF IInv
  <1> QED
    BY <1>1, Inductive, PTL

\* One invalid entry anywhere in the list keeps the whole of it out of the queue.
THEOREM AllOrNothing == Spec => []AllOrNothingValid
  <1>1. IInv => AllOrNothingValid
    BY DEF IInv, Validated, AllValid, AllOrNothingValid
  <1> QED
    BY <1>1, Inductive, PTL

\* The result accounts for each entry once, and for what is in the queue exactly.
THEOREM ResultExact == Spec => []ResultIsExact
  <1>1. ASSUME IInv, pc = "returned"
        PROVE  /\ success = enqueued /\ success \cup failed = DOMAIN entries
               /\ success \cap failed = {}
    <2>1. sent = Len(batches) /\ Len(batches) \in Nat
      BY <1>1, Numbers DEF IInv, Ended
    <2>2. \A i : ~InRest(i)
      BY <2>1 DEF InRest
    <2> QED
      BY <1>1, <2>2 DEF IInv, AnsweredOnce, TypeOK
  <1>2. IInv => ResultIsExact
    BY <1>1 DEF ResultIsExact
  <1> QED
    BY <1>2, Inductive, PTL

\* What was to be sent behind a request that failed does not reach the queue.
THEOREM NothingBehind == Spec => []NothingBehindAFailure
  <1>1. IInv => NothingBehindAFailure
    BY DEF IInv, Ended, RestNotEnqueued, NothingBehindAFailure
  <1> QED
    BY <1>1, Inductive, PTL

-------------------------------------------------------------------------------
(***************************************************************************)
(* Sizes and order: a second invariant, about what is inside the batches   *)
(***************************************************************************)

\* currentSize is what the sizes in the current batch come to, and the batch may be
\* closed as it is.
CurrentFits ==
  pc = "packing" =>
    /\ AddUpTo(current, currentSize)
    /\ currentSize < MaxBatchSize \/ (currentSize = MaxBatchSize /\ Len(current) = 1)

BatchesFit == \A k \in DOMAIN batches : SizeInLimit(batches[k])

Ordered ==
  /\ pc = "packing" => Increasing(Append(batches, current))
  /\ pc # "packing" => Increasing(batches)

\* When the first request is made, each entry is where the packing loop has put it.
JustPacked ==
  pc = "sending" /\ sent = 0 /\ ~single =>
    \A i : i \in failed \/ InBatches(i) <=> i \in 1..(next - 1)

PInv ==
  /\ pc \in {"idle", "validating"} => currentSize = 0
  /\ CurrentFits
  /\ BatchesFit
  /\ Ordered
  /\ JustPacked

LEMMA PackedIs ==
  ASSUME TypeOK
  PROVE  Packed = IF pc = "packing" THEN Append(batches, current) ELSE batches
  <1>1. batches \in Seq(Seq(DOMAIN entries)) /\ current \in Seq(DOMAIN entries)
    BY DEF TypeOK
  <1>2. batches \o <<current>> = Append(batches, current) /\ batches \o <<>> = batches
    BY <1>1
  <1> QED
    BY <1>2 DEF Packed

\* Sizes are added up one at a time.
LEMMA AddNone == AddUpTo(<<>>, 0)
  <1> DEFINE total == [k \in 0..0 |-> 0]
  <1>1. Len(<<>>) = 0 /\ 1..0 = {}
    OBVIOUS
  <1>2. total \in [0..0 -> 0..0] /\ total[0] = 0
    OBVIOUS
  <1> HIDE DEF total
  <1>3. /\ total \in [0..Len(<<>>) -> 0..0] /\ total[0] = 0 /\ total[Len(<<>>)] = 0
        /\ \A k \in 1..Len(<<>>) : total[k] = total[k - 1] + entries[<<>>[k]].size
    BY <1>1, <1>2
  <1> QED
    BY <1>3 DEF AddUpTo

LEMMA AddLast ==
  ASSUME TypeOK, NEW b \in Seq(DOMAIN entries), NEW n \in Nat, AddUpTo(b, n),
         NEW i \in DOMAIN entries
  PROVE  AddUpTo(Append(b, i), n + entries[i].size)
  <1>1. entries[i].size \in Nat
    BY EntrySize
  <1>2. PICK total \in [0..Len(b) -> 0..n] :
          /\ total[0] = 0
          /\ \A k \in 1..Len(b) : total[k] = total[k - 1] + entries[b[k]].size
          /\ total[Len(b)] = n
    BY DEF AddUpTo
  <1> DEFINE m == n + entries[i].size
  <1> DEFINE all == [k \in 0..(Len(b) + 1) |-> IF k = Len(b) + 1 THEN m ELSE total[k]]
  <1>3. /\ Len(b) \in Nat /\ Len(Append(b, i)) = Len(b) + 1
        /\ \A k \in 1..Len(b) : Append(b, i)[k] = b[k]
        /\ Append(b, i)[Len(b) + 1] = i
    OBVIOUS
  <1>4. \A k \in 0..Len(b) : total[k] \in 0..m
    BY <1>1, <1>2, <1>3
  <1>5. all \in [0..Len(Append(b, i)) -> 0..m]
    BY <1>1, <1>3, <1>4
  <1>6. all[0] = 0 /\ all[Len(Append(b, i))] = m
    BY <1>2, <1>3
  <1>7. ASSUME NEW k \in 1..Len(Append(b, i))
        PROVE  all[k] = all[k - 1] + entries[Append(b, i)[k]].size
    <2>1. CASE k = Len(b) + 1
      <3>1. all[k] = m /\ all[k - 1] = n
        BY <1>2, <1>3, <2>1
      <3> QED
        BY <1>1, <1>3, <2>1, <3>1
    <2>2. CASE k # Len(b) + 1
      <3>1. k \in 1..Len(b) /\ k - 1 \in 0..Len(b) /\ k - 1 # Len(b) + 1
        BY <1>3, <2>2
      <3>2. all[k] = total[k] /\ all[k - 1] = total[k - 1]
        BY <1>3, <3>1
      <3> QED
        BY <1>2, <1>3, <3>1, <3>2
    <2> QED
      BY <2>1, <2>2
  <1> QED
    BY <1>5, <1>6, <1>7 DEF AddUpTo

LEMMA AddOne ==
  ASSUME TypeOK, NEW i \in DOMAIN entries
  PROVE  AddUpTo(<<i>>, entries[i].size)
  <1> DEFINE none == <<>>
  <1>1. none \in Seq(DOMAIN entries) /\ AddUpTo(none, 0) /\ Append(none, i) = <<i>>
    BY AddNone
  <1> HIDE DEF none
  <1>2. AddUpTo(Append(none, i), 0 + entries[i].size)
    BY <1>1, AddLast
  <1>3. 0 + entries[i].size = entries[i].size
    BY EntrySize
  <1> QED
    BY <1>1, <1>2, <1>3

\* Whether a batch fits depends on the caller's list alone.
LEMMA SameSizes ==
  ASSUME entries' = entries
  PROVE  /\ \A b, n : AddUpTo(b, n)' <=> AddUpTo(b, n)
         /\ \A b : SizeInLimit(b)' <=> SizeInLimit(b)
  BY DEF AddUpTo, SizeInLimit

\* A batch whose sizes stay below the limit, or one entry that comes up to it.
LEMMA InLimit ==
  ASSUME TypeOK, NEW b, NEW n \in Nat, AddUpTo(b, n),
         n < MaxBatchSize \/ (n = MaxBatchSize /\ Len(b) = 1)
  PROVE  SizeInLimit(b)
  <1>1. MaxBatchSize \in Nat
    BY ProducerAssumption
  <1>2. CASE n < MaxBatchSize
    <2>1. n \in 0..(MaxBatchSize - 1)
      BY <1>1, <1>2
    <2> QED
      BY <2>1 DEF SizeInLimit
  <1>3. CASE n = MaxBatchSize /\ Len(b) = 1
    BY <1>3 DEF SizeInLimit
  <1> QED
    BY <1>2, <1>3

LEMMA OneInLimit ==
  ASSUME TypeOK, NEW i \in DOMAIN entries, ~Oversized(i)
  PROVE  SizeInLimit(<<i>>)
  <1>1. entries[i].size \in Nat /\ MaxBatchSize \in Nat /\ entries[i].size <= MaxBatchSize
    BY EntrySize, ProducerAssumption DEF Oversized
  <1>2. Len(<<i>>) = 1
    OBVIOUS
  <1> QED
    BY <1>1, <1>2, AddOne, InLimit

\* Order is kept when an entry behind all the others is added to the last batch ...
LEMMA IncreasingEntry ==
  ASSUME NEW bs \in Seq(Seq(Nat)), NEW b \in Seq(Nat), NEW x \in Nat,
         Increasing(Append(bs, b)),
         \A k \in DOMAIN bs : \A y \in ToSet(bs[k]) : y < x,
         \A y \in ToSet(b) : y < x
  PROVE  Increasing(Append(bs, Append(b, x)))
  <1> DEFINE N == Len(bs)
             old == Append(bs, b)
             new == Append(bs, Append(b, x))
  <1>1. /\ N \in Nat /\ DOMAIN bs = 1..N /\ DOMAIN old = 1..(N + 1) /\ DOMAIN new = 1..(N + 1)
        /\ \A k \in 1..N : old[k] = bs[k] /\ new[k] = bs[k] /\ bs[k] \in Seq(Nat)
        /\ old[N + 1] = b /\ new[N + 1] = Append(b, x)
    OBVIOUS
  <1>2. /\ Len(b) \in Nat /\ DOMAIN b = 1..Len(b) /\ DOMAIN Append(b, x) = 1..(Len(b) + 1)
        /\ \A m \in 1..Len(b) : Append(b, x)[m] = b[m]
        /\ Append(b, x)[Len(b) + 1] = x
    OBVIOUS
  <1>3. ASSUME NEW k \in 1..(N + 1), NEW l \in 1..(N + 1),
               NEW m \in DOMAIN new[k], NEW n \in DOMAIN new[l],
               k < l \/ (k = l /\ m < n)
        PROVE  new[k][m] < new[l][n]
    <2>1. CASE l = N + 1 /\ n = Len(b) + 1
      <3>1. new[l][n] = x
        BY <1>1, <1>2, <2>1
      <3>2. CASE k = N + 1
        <4>1. m \in 1..Len(b) /\ new[k][m] = b[m]
          BY <1>1, <1>2, <1>3, <2>1, <3>2
        <4> QED
          BY <1>2, <3>1, <4>1 DEF ToSet
      <3>3. CASE k \in 1..N
        <4>1. bs[k][m] \in ToSet(bs[k]) /\ k \in DOMAIN bs /\ new[k][m] = bs[k][m]
          BY <1>1, <3>3 DEF ToSet
        <4> HIDE DEF new
        <4> QED
          BY <3>1, <4>1
      <3>4. N \in Nat /\ k \in 1..(N + 1)
        BY <1>1
      <3> HIDE DEF N
      <3>5. k = N + 1 \/ k \in 1..N
        BY <3>4
      <3> QED
        BY <3>2, <3>3, <3>5
    <2>2. CASE ~(l = N + 1 /\ n = Len(b) + 1)
      <3>1. n \in DOMAIN old[l] /\ new[l][n] = old[l][n]
        BY <1>1, <1>2, <2>2
      <3>2. m \in DOMAIN old[k] /\ new[k][m] = old[k][m]
        <4>1. CASE k \in 1..N
          BY <1>1, <4>1
        <4>2. CASE k = N + 1
          <5>1. l = N + 1 /\ m < n /\ n \in 1..Len(b)
            BY <1>1, <1>2, <1>3, <2>2, <4>2
          <5>2. m \in 1..Len(b)
            BY <1>1, <1>2, <4>2, <5>1
          <5> QED
            BY <1>1, <1>2, <4>2, <5>2
        <4> QED
          BY <1>1, <4>1, <4>2
      <3> QED
        BY <1>1, <1>3, <3>1, <3>2 DEF Increasing
    <2> QED
      BY <2>1, <2>2
  <1> QED
    BY <1>1, <1>3 DEF Increasing

\* ... or begins the next one ...
LEMMA IncreasingBatch ==
  ASSUME NEW bs \in Seq(Seq(Nat)), NEW x \in Nat, Increasing(bs),
         \A k \in DOMAIN bs : \A y \in ToSet(bs[k]) : y < x
  PROVE  Increasing(Append(bs, <<x>>))
  <1> DEFINE N == Len(bs)
             new == Append(bs, <<x>>)
  <1>1. /\ N \in Nat /\ DOMAIN bs = 1..N /\ DOMAIN new = 1..(N + 1)
        /\ \A k \in 1..N : new[k] = bs[k]
        /\ new[N + 1] = <<x>> /\ DOMAIN <<x>> = {1} /\ <<x>>[1] = x
    OBVIOUS
  <1>2. ASSUME NEW k \in 1..(N + 1), NEW l \in 1..(N + 1),
               NEW m \in DOMAIN new[k], NEW n \in DOMAIN new[l],
               k < l \/ (k = l /\ m < n)
        PROVE  new[k][m] < new[l][n]
    <2>1. CASE l = N + 1
      <3>1. k \in 1..N
        <4>1. CASE k = N + 1
          <5>1. m = 1 /\ n = 1
            BY <1>1, <2>1, <4>1
          <5> QED
            BY <1>1, <1>2, <2>1, <4>1, <5>1
        <4> QED
          BY <1>1, <4>1
      <3> QED
        BY <1>1, <2>1, <3>1 DEF ToSet
    <2>2. CASE l \in 1..N
      <3>1. k \in 1..N
        BY <1>1, <1>2, <2>2
      <3> QED
        BY <1>1, <1>2, <2>2, <3>1 DEF Increasing
    <2> QED
      BY <1>1, <2>1, <2>2
  <1> QED
    BY <1>1, <1>2 DEF Increasing

\* ... and when the last batch is left out.
LEMMA IncreasingPrefix ==
  ASSUME NEW S, NEW bs \in Seq(S), NEW b \in S, Increasing(Append(bs, b))
  PROVE  Increasing(bs)
  <1>1. /\ DOMAIN bs \subseteq DOMAIN Append(bs, b)
        /\ \A k \in DOMAIN bs : Append(bs, b)[k] = bs[k]
    OBVIOUS
  <1> QED
    BY <1>1 DEF Increasing

\* All the entries that are in a batch stand before the one at hand.
LEMMA BehindTheOthers ==
  ASSUME IInv, pc = "packing"
  PROVE  /\ batches \in Seq(Seq(Nat)) /\ current \in Seq(Nat) /\ next \in Nat
         /\ \A k \in DOMAIN batches : \A y \in ToSet(batches[k]) : y < next
         /\ \A y \in ToSet(current) : y < next
  <1>1. /\ DOMAIN entries \subseteq Nat /\ next \in Nat /\ DOMAIN batches = 1..Len(batches)
    BY Numbers DEF IInv
  <1>2. batches \in Seq(Seq(DOMAIN entries)) /\ current \in Seq(DOMAIN entries)
    BY DEF IInv, TypeOK
  <1>3. \A i : i \in ToSet(current) \/ InBatches(i) => i \in 1..(next - 1)
    BY DEF IInv, PackedOnce
  <1>4. \A k \in DOMAIN batches : \A y \in ToSet(batches[k]) : y \in 1..(next - 1)
    BY <1>1, <1>3 DEF InBatches
  <1>5. \A y \in 1..(next - 1) : y < next
    BY <1>1
  <1>6. current \in Seq(Nat)
    BY <1>1, <1>2
  <1>7. batches \in Seq(Seq(Nat))
    <2>1. Seq(DOMAIN entries) \subseteq Seq(Nat)
      BY <1>1
    <2> QED
      BY <1>2, <2>1
  <1> QED
    BY <1>1, <1>3, <1>4, <1>5, <1>6, <1>7

LEMMA PInvInit == Init => PInv
  <1> SUFFICES ASSUME Init PROVE PInv
    OBVIOUS
  <1>1. pc = "idle" /\ currentSize = 0 /\ batches = <<>> /\ DOMAIN batches = {}
    BY DEF Init
  <1> QED
    BY <1>1 DEF PInv, CurrentFits, BatchesFit, Ordered, Increasing, JustPacked

\* The steps that leave the batches alone.
LEMMA SameBatches ==
  ASSUME PInv, UNCHANGED <<single, entries, current, currentSize, batches>>,
         pc' = pc \/ (pc # "packing" /\ pc' \in {"returned", "threw"}),
         UNCHANGED <<next, failed, sent>> \/ pc = "packing" \/ sent' # 0
  PROVE  PInv'
  <1>1. CurrentFits' /\ BatchesFit'
    BY SameSizes DEF PInv, CurrentFits, BatchesFit
  <1>2. Ordered'
    BY DEF PInv, Ordered, Increasing
  <1>3. JustPacked'
    <2>1. \A i : InBatches(i)' <=> InBatches(i)
      BY DEF InBatches
    <2>2. CASE pc' = "sending" /\ sent' = 0
      <3>1. pc = "sending" /\ failed' = failed /\ next' = next /\ sent = 0
        BY <2>2
      <3> QED
        BY <2>1, <3>1 DEF PInv, JustPacked
    <2> QED
      BY <2>2 DEF JustPacked
  <1> QED
    BY <1>1, <1>2, <1>3 DEF PInv

LEMMA SameBatchesStep ==
  IInv /\ PInv /\ (\/ Reject \/ SkipOversized \/ SendSucceeds \/ SendEmpty \/ SendFails \/ Return
                   \/ UNCHANGED vars) => PInv'
  <1> USE DEF packVars, resultVars
  <1>1. ASSUME IInv, PInv, Reject PROVE PInv'
    BY <1>1, SameBatches DEF Reject
  <1>2. ASSUME IInv, PInv, SkipOversized PROVE PInv'
    BY <1>2, SameBatches DEF SkipOversized
  <1>3. ASSUME IInv, PInv, SendSucceeds \/ SendFails PROVE PInv'
    <2>1. sent' # 0
      BY <1>3, Numbers DEF IInv, SendSucceeds, SendFails
    <2> QED
      BY <1>3, <2>1, SameBatches DEF SendSucceeds, SendFails, AfterRequestFails
  <1>4. ASSUME IInv, PInv, SendEmpty \/ Return PROVE PInv'
    BY <1>4, SameBatches DEF SendEmpty, Return
  <1>5. ASSUME IInv, PInv, UNCHANGED vars PROVE PInv'
    BY <1>5, SameBatches DEF vars
  <1> QED
    BY <1>1, <1>2, <1>3, <1>4, <1>5

LEMMA CallPacks == IInv /\ PInv /\ Call => PInv'
  <1> SUFFICES ASSUME IInv, PInv, Call PROVE PInv'
    OBVIOUS
  <1>1. /\ pc = "idle" /\ pc' = "validating" /\ currentSize' = 0 /\ batches' = <<>>
        /\ DOMAIN batches' = {}
    BY DEF Call, packVars, IInv, Untouched, PInv
  <1> QED
    BY <1>1 DEF PInv, CurrentFits, BatchesFit, Ordered, Increasing, JustPacked

LEMMA AcceptSinglePacks == IInv /\ PInv /\ AcceptSingle => PInv'
  <1> SUFFICES ASSUME IInv, PInv, AcceptSingle PROVE PInv'
    OBVIOUS
  <1>1. /\ pc' = "sending" /\ single' /\ batches' = <<<<1>>>> /\ entries' = entries
        /\ ~Oversized(1) /\ Len(entries) = 1
    BY DEF AcceptSingle, IInv, OneMessage
  <1>2. 1 \in DOMAIN entries
    BY <1>1, Numbers DEF IInv
  <1>3. DOMAIN batches' = {1} /\ batches'[1] = <<1>> /\ DOMAIN <<1>> = {1}
    BY <1>1
  <1>4. SizeInLimit(<<1>>)'
    BY <1>1, <1>2, OneInLimit, SameSizes DEF IInv
  <1>5. BatchesFit'
    BY <1>3, <1>4 DEF BatchesFit
  <1>6. Increasing(batches')
    BY <1>3 DEF Increasing
  <1> QED
    BY <1>1, <1>5, <1>6 DEF PInv, CurrentFits, Ordered, JustPacked

LEMMA AcceptBatchPacks == IInv /\ PInv /\ AcceptBatch => PInv'
  <1> SUFFICES ASSUME IInv, PInv, AcceptBatch PROVE PInv'
    OBVIOUS
  <1>1. /\ pc' = "packing" /\ current' = <<>> /\ batches' = <<>> /\ currentSize' = 0
        /\ entries' = entries /\ DOMAIN batches' = {}
    BY DEF AcceptBatch, packVars, IInv, Untouched, PInv
  <1>2. AddUpTo(<<>>, 0)' /\ 0 < MaxBatchSize
    BY <1>1, AddNone, SameSizes, ProducerAssumption
  <1>3. Increasing(Append(batches', current'))
    <2>1. /\ Append(batches', current') = <<<<>>>> /\ DOMAIN <<<<>>>> = {1} /\ <<<<>>>>[1] = <<>>
          /\ DOMAIN <<>> = {}
      BY <1>1
    <2> QED
      BY <2>1 DEF Increasing
  <1> QED
    BY <1>1, <1>2, <1>3 DEF PInv, CurrentFits, BatchesFit, Ordered, JustPacked

\* The size of the entry that is added is added to currentSize.
LEMMA AppendPacks == IInv /\ PInv /\ AppendToCurrent => PInv'
  <1> SUFFICES ASSUME IInv, PInv, AppendToCurrent PROVE PInv'
    OBVIOUS
  <1>1. /\ pc = "packing" /\ next \in DOMAIN entries /\ current' = Append(current, next)
        /\ currentSize' = currentSize + entries[next].size
        /\ ~(currentSize + entries[next].size >= MaxBatchSize)
        /\ UNCHANGED <<pc, entries, batches>>
    BY DEF AppendToCurrent, BatchIsFull
  <1>2. current \in Seq(DOMAIN entries) /\ currentSize \in Nat /\ entries[next].size \in Nat
    BY <1>1, EntrySize DEF IInv, TypeOK
  <1>3. AddUpTo(current', currentSize')
    <2>1. AddUpTo(current, currentSize)
      BY <1>1 DEF PInv, CurrentFits
    <2> QED
      BY <1>1, <1>2, <2>1, AddLast DEF IInv
  <1>4. CurrentFits'
    <2>1. AddUpTo(current, currentSize)'
      BY <1>1, <1>3 DEF AddUpTo
    <2>2. currentSize' < MaxBatchSize
      BY <1>1, <1>2, ProducerAssumption
    <2> QED
      BY <2>1, <2>2 DEF CurrentFits
  <1>5. BatchesFit'
    BY <1>1, SameSizes DEF PInv, BatchesFit
  <1>6. Increasing(Append(batches', current'))
    <2>1. Increasing(Append(batches, current))
      BY <1>1 DEF PInv, Ordered
    <2> QED
      BY <1>1, <2>1, BehindTheOthers, IncreasingEntry
  <1> QED
    BY <1>1, <1>4, <1>5, <1>6 DEF PInv, Ordered, JustPacked

\* The batch that is closed fits, and the next one holds the entry at hand alone.
LEMMA ClosePacks == IInv /\ IInv' /\ PInv /\ CloseBatch => PInv'
  <1> SUFFICES ASSUME IInv, IInv', PInv, CloseBatch PROVE PInv'
    OBVIOUS
  <1>1. /\ pc = "packing" /\ next \in DOMAIN entries /\ ~Oversized(next)
        /\ batches' = Append(batches, current) /\ current' = <<next>>
        /\ currentSize' = entries[next].size
        /\ UNCHANGED <<pc, entries>>
    BY DEF CloseBatch, StartedWith
  <1>2. CurrentFits'
    <2>1. AddUpTo(<<next>>, entries[next].size)
      BY <1>1, AddOne DEF IInv
    <2>2. AddUpTo(current, currentSize)'
      BY <1>1, <2>1 DEF AddUpTo
    <2>3. /\ entries[next].size \in Nat /\ MaxBatchSize \in Nat
          /\ entries[next].size <= MaxBatchSize /\ Len(current') = 1
      BY <1>1, EntrySize, ProducerAssumption DEF IInv, Oversized
    <2> QED
      BY <1>1, <2>2, <2>3 DEF CurrentFits
  <1>3. BatchesFit'
    <2>1. SizeInLimit(current)
      BY <1>1, InLimit DEF IInv, TypeOK, PInv, CurrentFits
    <2>2. \A k \in 1..Len(batches) : SizeInLimit(batches[k])
      BY Numbers DEF IInv, PInv, BatchesFit
    <2>3. \A k \in 1..Len(batches') : SizeInLimit(batches'[k])
      BY <1>1, <2>1, <2>2, ClosedBatch
    <2>4. DOMAIN batches' = 1..Len(batches')
      BY <1>1, ClosedBatch
    <2>5. \A b : SizeInLimit(b)' <=> SizeInLimit(b)
      BY <1>1, SameSizes
    <2> QED
      BY <2>3, <2>4, <2>5 DEF BatchesFit
  <1>4. Increasing(Append(batches', current'))
    <2>1. Increasing(batches')
      BY <1>1 DEF PInv, Ordered
    <2>2. batches' \in Seq(Seq(Nat)) /\ next \in Nat
      BY <1>1, BehindTheOthers
    <2>3. \A k \in DOMAIN batches' : \A y \in ToSet(batches'[k]) : y < next
      <3>1. DOMAIN batches' = 1..Len(batches') /\ DOMAIN batches = 1..Len(batches)
        BY <1>1, ClosedBatch, Numbers DEF IInv
      <3> QED
        BY <1>1, <3>1, ClosedBatch, BehindTheOthers
    <2> QED
      BY <1>1, <2>1, <2>2, <2>3, IncreasingBatch
  <1> QED
    BY <1>1, <1>2, <1>3, <1>4 DEF PInv, Ordered, JustPacked

\* The last batch is closed unless it is empty.
LEMMA FinishPacks == IInv /\ PInv /\ FinishPacking => PInv'
  <1> SUFFICES ASSUME IInv, PInv, FinishPacking PROVE PInv'
    OBVIOUS
  <1>1. /\ pc = "packing" /\ pc' = "sending" /\ batches' = batches \o LastBatch
        /\ UNCHANGED <<entries, next, failed>>
    BY DEF FinishPacking, resultVars
  <1>2. batches \in Seq(Seq(DOMAIN entries)) /\ current \in Seq(DOMAIN entries)
    BY DEF IInv, TypeOK
  <1>3. \A i : i \in failed \/ i \in ToSet(current) \/ InBatches(i) <=> i \in 1..(next - 1)
    BY <1>1 DEF IInv, PackedOnce
  <1>4. SizeInLimit(current) /\ \A k \in 1..Len(batches) : SizeInLimit(batches[k])
    BY <1>1, InLimit, Numbers DEF IInv, TypeOK, PInv, CurrentFits, BatchesFit
  <1>5. Increasing(Append(batches, current))
    BY <1>1 DEF PInv, Ordered
  <1>6. /\ \A k \in DOMAIN batches' : SizeInLimit(batches'[k])
        /\ Increasing(batches')
        /\ \A i : InBatches(i)' <=> InBatches(i) \/ i \in ToSet(current)
    <2>1. CASE current = <<>>
      <3>1. batches' = batches
        BY <1>1, <1>2, <2>1 DEF LastBatch
      <3>2. Increasing(batches)
        BY <1>2, <1>5, IncreasingPrefix
      <3>3. \A i : i \notin ToSet(current)
        BY <2>1, ToSetEmpty
      <3> QED
        BY <1>4, <3>1, <3>2, <3>3, Numbers DEF IInv, InBatches
    <2>2. CASE current # <<>>
      <3>1. batches' = Append(batches, current)
        BY <1>1, <1>2, <2>2 DEF LastBatch
      <3>2. DOMAIN batches' = 1..Len(batches')
        BY <1>1, <3>1, ClosedBatch
      <3> QED
        BY <1>1, <1>4, <1>5, <3>1, <3>2, ClosedBatch
    <2> QED
      BY <2>1, <2>2
  <1>7. BatchesFit'
    BY <1>1, <1>6, SameSizes DEF BatchesFit
  <1>8. JustPacked'
    BY <1>1, <1>3, <1>6 DEF JustPacked
  <1> QED
    BY <1>1, <1>6, <1>7, <1>8 DEF PInv, CurrentFits, Ordered

LEMMA PInvStep == IInv /\ IInv' /\ PInv /\ [Next]_vars => PInv'
  BY SameBatchesStep, CallPacks, AcceptSinglePacks, AcceptBatchPacks, AppendPacks, ClosePacks,
     FinishPacks DEF Next

THEOREM PackingInductive == Spec => []PInv
  BY PInvInit, PInvStep, Inductive, PTL DEF Spec

\* No batch, closed or at hand, is over the limits, whatever the sizes are: at most
\* MaxBatchLength entries, unless that is 0, whose sizes stay below MaxBatchSize unless it
\* is a single one.
THEOREM WithinLimits == Spec => []BatchesWithinLimits
  <1>1. ASSUME IInv, PInv PROVE BatchesWithinLimits
    <2>1. \A k \in DOMAIN batches :
            (MaxBatchLength # 0 => Len(batches[k]) <= MaxBatchLength) /\ SizeInLimit(batches[k])
      BY <1>1 DEF IInv, LengthLimit, PInv, BatchesFit
    <2>2. CASE pc = "packing"
      <3>1. Packed = Append(batches, current)
        BY <1>1, <2>2, PackedIs DEF IInv
      <3>2. (MaxBatchLength # 0 => Len(current) <= MaxBatchLength) /\ SizeInLimit(current)
        BY <1>1, <2>2, InLimit DEF IInv, TypeOK, LengthLimit, PInv, CurrentFits
      <3>3. \A k \in DOMAIN Append(batches, current) :
              (k \in DOMAIN batches /\ Append(batches, current)[k] = batches[k])
              \/ Append(batches, current)[k] = current
        BY <1>1 DEF IInv, TypeOK
      <3> QED
        BY <2>1, <3>1, <3>2, <3>3 DEF BatchesWithinLimits
    <2>3. CASE pc # "packing"
      BY <1>1, <2>1, <2>3, PackedIs DEF IInv, BatchesWithinLimits
    <2> QED
      BY <2>2, <2>3
  <1> QED
    BY <1>1, Inductive, PackingInductive, PTL

\* Packing keeps the caller's order, loses no entry and doubles none.
THEOREM OrderPreserved == Spec => []OrderKept
  <1>1. ASSUME IInv, PInv PROVE Increasing(Packed)
    BY <1>1, PackedIs DEF IInv, PInv, Ordered
  <1>2. ASSUME IInv, PInv, pc = "packing" PROVE Placed = (1..(next - 1)) \ failed
    <2>1. Packed = Append(batches, current)
      BY <1>2, PackedIs DEF IInv
    <2>2. \A i : i \in Placed <=> InBatches(i) \/ i \in ToSet(current)
      <3>1. /\ batches \in Seq(Seq(DOMAIN entries)) /\ current \in Seq(DOMAIN entries)
            /\ Len(batches) \in Nat
        BY <1>2, Numbers DEF IInv, TypeOK
      <3>2. /\ DOMAIN Packed = 1..(Len(batches) + 1) /\ Packed[Len(batches) + 1] = current
            /\ \A k \in 1..Len(batches) : Packed[k] = batches[k]
        BY <2>1, <3>1
      <3>3. \A k \in 1..(Len(batches) + 1) : k \in 1..Len(batches) \/ k = Len(batches) + 1
        BY <3>1
      <3>4. Len(batches) + 1 \in DOMAIN Packed /\ \A k \in 1..Len(batches) : k \in DOMAIN Packed
        BY <3>1, <3>2
      <3>5. \A i : i \in Placed <=> \E k \in DOMAIN Packed : i \in ToSet(Packed[k])
        BY DEF Placed
      <3> QED
        BY <3>2, <3>3, <3>4, <3>5 DEF InBatches
    <2>3. \A i : i \in failed \/ i \in ToSet(current) \/ InBatches(i) <=> i \in 1..(next - 1)
      BY <1>2 DEF IInv, PackedOnce
    <2>4. \A i \in failed : i \notin ToSet(current) /\ ~InBatches(i)
      BY <1>2 DEF IInv, PackedOnce, InBatches
    <2> QED
      BY <2>2, <2>3, <2>4
  <1>3. ASSUME IInv, PInv, pc = "sending", sent = 0, ~single
        PROVE  Placed = (1..(next - 1)) \ failed
    <2>1. Packed = batches
      BY <1>3, PackedIs DEF IInv
    <2>2. \A i : i \in Placed <=> InBatches(i)
      BY <1>3, <2>1, Numbers DEF Placed, IInv, InBatches
    <2>3. \A i : i \in failed \/ InBatches(i) <=> i \in 1..(next - 1)
      BY <1>3 DEF PInv, JustPacked
    <2>4. \A i \in failed : ~InBatches(i)
      <3>1. \A k \in 1..Len(batches) : ToSet(batches[k]) \cap failed = {}
        BY <1>3 DEF IInv, AnsweredOnce
      <3> QED
        BY <3>1 DEF InBatches
    <2> QED
      BY <2>2, <2>3, <2>4
  <1>4. IInv /\ PInv => OrderKept
    BY <1>1, <1>2, <1>3 DEF OrderKept
  <1> QED
    BY <1>4, Inductive, PackingInductive, PTL

\* What is in the queue comes from the batches that were sent.
SentEntries == \A i \in enqueued : \E k \in 1..sent : i \in ToSet(batches[k])

\* A request adds entries of the batch at hand.
LEMMA RequestAdds ==
  ASSUME IInv, SendSucceeds \/ SendFails
  PROVE  /\ pc = "sending" /\ batches' = batches /\ sent' = sent + 1
         /\ sent \in Nat /\ sent + 1 \in DOMAIN batches
         /\ \A j \in enqueued' : j \in enqueued \/ j \in ToSet(batches[sent + 1])
  <1>1. /\ pc = "sending" /\ batches' = batches /\ sent' = sent + 1 /\ sent < Len(batches)
    BY DEF SendSucceeds, SendFails, packVars
  <1>2. sent \in Nat /\ Len(batches) \in Nat /\ DOMAIN batches = 1..Len(batches)
    BY Numbers DEF IInv
  <1>3. PICK ok \in SUBSET InBatch : enqueued' = enqueued \cup ok
    BY DEF SendSucceeds, SendFails
  <1> QED
    BY <1>1, <1>2, <1>3 DEF InBatch

LEMMA SentStep == IInv /\ SentEntries /\ [Next]_vars => SentEntries'
  <1> SUFFICES ASSUME IInv, SentEntries, [Next]_vars PROVE SentEntries'
    OBVIOUS
  <1>1. CASE SendSucceeds \/ SendFails
    <2>1. \A k \in 1..sent : k \in 1..(sent + 1)
      BY <1>1, RequestAdds
    <2>2. sent + 1 \in 1..(sent + 1)
      BY <1>1, RequestAdds
    <2> QED
      BY <1>1, <2>1, <2>2, RequestAdds DEF SentEntries
  <1>2. CASE SendEmpty \/ Return \/ UNCHANGED vars
    BY <1>2 DEF SendEmpty, Return, vars, packVars, SentEntries
  <1>3. CASE Call \/ Reject \/ AcceptSingle \/ AcceptBatch
    BY <1>3
    DEF Call, Reject, AcceptSingle, AcceptBatch, IInv, NothingSent, SentEntries
  <1>4. CASE SkipOversized \/ AppendToCurrent \/ CloseBatch \/ FinishPacking
    BY <1>4
    DEF SkipOversized, AppendToCurrent, CloseBatch, FinishPacking, IInv, NothingSent, SentEntries
  <1> QED
    BY <1>1, <1>2, <1>3, <1>4 DEF Next

\* No step changes the queue but a request.
LEMMA OrderStep ==
  ASSUME IInv, PInv, SentEntries, [Next]_vars,
         NEW i \in enqueued, NEW j \in enqueued' \ enqueued
  PROVE  i < j
  <1>1. CASE SendSucceeds \/ SendFails
    <2>1. j \in ToSet(batches[sent + 1]) /\ sent + 1 \in DOMAIN batches /\ sent \in Nat
      BY <1>1, RequestAdds
    <2>2. PICK k \in 1..sent : i \in ToSet(batches[k])
      BY DEF SentEntries
    <2>3. k \in DOMAIN batches /\ k < sent + 1
      BY <2>1, <2>2, Numbers DEF IInv
    <2>4. Increasing(batches)
      BY <1>1, RequestAdds DEF PInv, Ordered
    <2>5. PICK m \in DOMAIN batches[k] : batches[k][m] = i
      BY <2>2 DEF ToSet
    <2>6. PICK n \in DOMAIN batches[sent + 1] : batches[sent + 1][n] = j
      BY <2>1 DEF ToSet
    <2> QED
      BY <2>1, <2>3, <2>4, <2>5, <2>6 DEF Increasing
  <1>2. CASE UNCHANGED enqueued
    BY <1>2
  <1> QED
    BY <1>1, <1>2 DEF Next, vars, Call, Reject, AcceptSingle, AcceptBatch, SkipOversized,
       AppendToCurrent, CloseBatch, FinishPacking, SendEmpty, Return

\* The queue gets the entries in the caller's order, whatever requests fail.
THEOREM QueuedInOrder == Spec => SentInOrder
  <1>1. Init => SentEntries
    BY DEF Init, SentEntries
  <1>2. IInv /\ PInv /\ SentEntries /\ [Next]_vars
          => [\A i \in enqueued, j \in enqueued' \ enqueued : i < j]_vars
    BY OrderStep
  <1> QED
    BY <1>1, <1>2, SentStep, Inductive, PackingInductive, PTL DEF Spec, SentInOrder

-------------------------------------------------------------------------------
(***************************************************************************)
(* When a call throws                                                      *)
(***************************************************************************)

\* The batch that is sent first is empty.
BeginsEmpty == batches # <<>> /\ batches[1] = <<>>

\* A batch is empty only when it is the first, and the first is exactly when StartsEmpty
\* says so.
EmptyInFront ==
  /\ \A k \in DOMAIN batches : batches[k] = <<>> => k = 1
  /\ pc = "packing" /\ current = <<>> =>
       batches = <<>> /\ currentSize = 0 /\ \A j \in 1..(next - 1) : Oversized(j)
  /\ pc = "packing" /\ current # <<>> => (BeginsEmpty <=> StartsEmpty)

\* Only sendBatch() packs.
ListIsPacked == pc = "packing" => ~single

\* An empty first batch is still to be sent: the loop does not get past it.
NotPassed ==
  pc = "sending" =>
    /\ single => ~BeginsEmpty /\ ~Oversized(1)
    /\ ~single => (BeginsEmpty <=> StartsEmpty)
    /\ BeginsEmpty => sent = 0

TInv == EmptyInFront /\ ListIsPacked /\ NotPassed /\ ThrowsExactlyForCause

LEMMA TInvInit == Init => TInv
  <1> SUFFICES ASSUME Init PROVE TInv
    OBVIOUS
  <1>1. pc = "idle" /\ DOMAIN batches = {}
    BY DEF Init
  <1> QED
    BY <1>1 DEF TInv, EmptyInFront, ListIsPacked, NotPassed, ThrowsExactlyForCause

\* A batch is empty when it has no entries to send.
LEMMA EmptyBatch ==
  ASSUME IInv, pc = "sending", sent < Len(batches)
  PROVE  /\ sent + 1 \in DOMAIN batches
         /\ InBatch = {} <=> batches[sent + 1] = <<>>
  <1>1. sent + 1 \in 1..Len(batches) /\ DOMAIN batches = 1..Len(batches)
    BY Numbers DEF IInv
  <1>2. batches \in Seq(Seq(DOMAIN entries))
    BY DEF IInv, TypeOK
  <1>3. batches[sent + 1] \in Seq(DOMAIN entries)
    BY <1>1, <1>2
  <1>4. ASSUME batches[sent + 1] # <<>> PROVE InBatch # {}
    <2>1. 1 \in DOMAIN batches[sent + 1]
      BY <1>3, <1>4
    <2> QED
      BY <2>1 DEF InBatch, ToSet
  <1> QED
    BY <1>1, <1>4, ToSetEmpty DEF InBatch

\* The batch at hand is empty as long as all entries are oversized; the first that is not
\* decides.
LEMMA FirstFit ==
  ASSUME IInv, next \in DOMAIN entries, ~Oversized(next),
         \A j \in 1..(next - 1) : Oversized(j)
  PROVE  StartsEmpty <=> MaxBatchLength = 0 \/ entries[next].size = MaxBatchSize
  <1>1. DOMAIN entries = 1..Len(entries) /\ Len(entries) \in Nat
    BY Numbers DEF IInv
  <1>2. ASSUME NEW i \in DOMAIN entries, ~Oversized(i), \A j \in 1..(i - 1) : Oversized(j)
        PROVE  i = next
    <2>1. i \in Nat /\ next \in Nat /\ i >= 1 /\ next >= 1
      BY <1>1, <1>2
    <2>2. ~(i < next)
      BY <1>2, <2>1
    <2>3. ~(next < i)
      BY <1>2, <2>1
    <2> QED
      BY <2>1, <2>2, <2>3
  <1> QED
    BY <1>2 DEF StartsEmpty

\* The steps of a call that has not been packed.
LEMMA EarlyThrows ==
  IInv /\ PInv /\ TInv /\ (Call \/ Reject \/ AcceptSingle \/ AcceptBatch) => TInv'
  <1> USE DEF packVars, resultVars
  <1>1. ASSUME IInv, PInv, TInv, Call \/ AcceptBatch PROVE TInv'
    <2>1. /\ batches' = <<>> /\ currentSize' = 0 /\ DOMAIN batches' = {}
          /\ current' = <<>> /\ next' = 1 /\ pc' \in {"validating", "packing"}
          /\ pc' = "packing" => ~single'
      BY <1>1 DEF Call, AcceptBatch, IInv, Untouched, PInv
    <2> QED
      BY <2>1 DEF TInv, EmptyInFront, ListIsPacked, NotPassed, ThrowsExactlyForCause
  <1>2. ASSUME TInv, Reject PROVE TInv'
    <2>1. pc' = "threw" /\ batches' = batches /\ Cause'
      BY <1>2 DEF Reject, Cause, AllValid, Oversized
    <2> QED
      BY <1>2, <2>1 DEF TInv, EmptyInFront, ListIsPacked, NotPassed, ThrowsExactlyForCause
  <1>3. ASSUME IInv, AcceptSingle PROVE TInv'
    <2>1. /\ batches' = <<<<1>>>> /\ pc' = "sending" /\ DOMAIN batches' = {1}
          /\ batches'[1] = <<1>> /\ <<1>> # <<>> /\ single' /\ ~Oversized(1)'
      BY <1>3 DEF AcceptSingle, Oversized
    <2> QED
      BY <2>1 DEF TInv, EmptyInFront, ListIsPacked, NotPassed, BeginsEmpty, ThrowsExactlyForCause
  <1> QED
    BY <1>1, <1>2, <1>3

\* What the caller has asked for does not change while it is packed and sent.
LEMMA SameCause ==
  ASSUME UNCHANGED <<single, entries>>
  PROVE  /\ StartsEmpty' <=> StartsEmpty
         /\ Cause' <=> Cause
         /\ \A i : Oversized(i)' <=> Oversized(i)
  BY DEF StartsEmpty, Cause, AllValid, Oversized

LEMMA SkipThrows == IInv /\ TInv /\ SkipOversized => TInv'
  <1> SUFFICES ASSUME IInv, TInv, SkipOversized PROVE TInv'
    OBVIOUS
  <1>1. /\ pc = "packing" /\ Oversized(next) /\ next' = next + 1 /\ next \in DOMAIN entries
        /\ UNCHANGED <<pc, single, entries, current, currentSize, batches, sent, lost>>
    BY DEF SkipOversized, NextEntry
  <1>2. \A j \in 1..(next' - 1) : j \in 1..(next - 1) \/ j = next
    BY <1>1, Numbers DEF IInv
  <1> QED
    BY <1>1, <1>2, SameCause
    DEF TInv, EmptyInFront, BeginsEmpty, ListIsPacked, NotPassed, ThrowsExactlyForCause

LEMMA AppendThrows == IInv /\ TInv /\ AppendToCurrent => TInv'
  <1> SUFFICES ASSUME IInv, TInv, AppendToCurrent PROVE TInv'
    OBVIOUS
  <1>1. /\ pc = "packing" /\ next \in DOMAIN entries /\ ~Oversized(next)
        /\ ~BatchIsFull(entries[next].size) /\ current' = Append(current, next)
        /\ UNCHANGED <<pc, single, entries, batches, sent, lost>>
    BY DEF AppendToCurrent
  <1>2. current' # <<>>
    BY <1>1 DEF IInv, TypeOK
  <1>3. ASSUME current = <<>> PROVE ~StartsEmpty /\ ~BeginsEmpty
    <2>1. Len(current) = 0 /\ currentSize = 0 /\ batches = <<>>
      BY <1>1, <1>3 DEF TInv, EmptyInFront
    <2>2. entries[next].size \in Nat /\ MaxBatchSize \in Nat
      BY <1>1, EntrySize, ProducerAssumption DEF IInv
    <2>3. MaxBatchLength # 0 /\ entries[next].size # MaxBatchSize
      BY <1>1, <2>1, <2>2 DEF BatchIsFull
    <2> QED
      BY <1>1, <1>3, <2>1, <2>3, FirstFit DEF TInv, EmptyInFront, BeginsEmpty
  <1>4. BeginsEmpty <=> StartsEmpty
    BY <1>1, <1>3 DEF TInv, EmptyInFront
  <1> QED
    BY <1>1, <1>2, <1>4, SameCause
    DEF TInv, EmptyInFront, BeginsEmpty, ListIsPacked, NotPassed, ThrowsExactlyForCause

\* The batch that is closed is empty only when it is the first one.
LEMMA ClosedEmpty ==
  ASSUME IInv, TInv, pc = "packing", batches' = Append(batches, current)
  PROVE  /\ \A k \in DOMAIN batches' : batches'[k] = <<>> => k = 1
         /\ BeginsEmpty' <=> IF current = <<>> THEN TRUE ELSE BeginsEmpty
  <1>1. /\ batches \in Seq(Seq(DOMAIN entries)) /\ current \in Seq(DOMAIN entries)
    BY DEF IInv, TypeOK
  <1>2. /\ Len(batches) \in Nat /\ DOMAIN batches = 1..Len(batches)
        /\ DOMAIN batches' = 1..(Len(batches) + 1) /\ batches' # <<>>
        /\ \A k \in 1..Len(batches) : batches'[k] = batches[k]
        /\ batches'[Len(batches) + 1] = current
    BY <1>1
  <1>3. \A k \in 1..(Len(batches) + 1) : k \in 1..Len(batches) \/ k = Len(batches) + 1
    BY <1>2
  <1>4. CASE current = <<>>
    <2>1. batches = <<>> /\ Len(batches) = 0
      BY <1>4 DEF TInv, EmptyInFront
    <2> QED
      BY <1>2, <1>4, <2>1 DEF BeginsEmpty
  <1>5. CASE current # <<>>
    <2>1. \A k \in DOMAIN batches' : batches'[k] = <<>> => k = 1
      BY <1>2, <1>3, <1>5 DEF TInv, EmptyInFront
    <2>2. CASE batches = <<>>
      <3>1. batches'[1] = current
        BY <1>2, <2>2
      <3> QED
        BY <1>5, <2>1, <2>2, <3>1 DEF BeginsEmpty
    <2>3. CASE batches # <<>>
      <3>1. 1 \in 1..Len(batches)
        BY <1>1, <1>2, <2>3
      <3> QED
        BY <1>2, <1>5, <2>1, <2>3, <3>1 DEF BeginsEmpty
    <2> QED
      BY <2>2, <2>3
  <1> QED
    BY <1>4, <1>5

LEMMA CloseThrows == IInv /\ TInv /\ CloseBatch => TInv'
  <1> SUFFICES ASSUME IInv, TInv, CloseBatch PROVE TInv'
    OBVIOUS
  <1>1. /\ pc = "packing" /\ next \in DOMAIN entries /\ ~Oversized(next)
        /\ BatchIsFull(entries[next].size)
        /\ batches' = Append(batches, current) /\ current' = <<next>>
        /\ UNCHANGED <<pc, single, entries, sent, lost>>
    BY DEF CloseBatch, StartedWith
  <1>2. ASSUME current = <<>> PROVE StartsEmpty
    <2>1. Len(current) = 0 /\ currentSize = 0
      BY <1>1, <1>2 DEF TInv, EmptyInFront
    <2>2. entries[next].size \in Nat /\ MaxBatchSize \in Nat
      BY <1>1, EntrySize, ProducerAssumption DEF IInv
    <2>3. entries[next].size <= MaxBatchSize
      BY <1>1, <2>2 DEF Oversized
    <2>4. MaxBatchLength = 0 \/ entries[next].size = MaxBatchSize
      BY <1>1, <2>1, <2>2, <2>3 DEF BatchIsFull
    <2> QED
      BY <1>1, <1>2, <2>4, FirstFit DEF TInv, EmptyInFront
  <1>3. BeginsEmpty' <=> StartsEmpty
    BY <1>1, <1>2, ClosedEmpty DEF TInv, EmptyInFront
  <1>4. current' # <<>>
    BY <1>1
  <1>5. EmptyInFront'
    BY <1>1, <1>3, <1>4, ClosedEmpty, SameCause DEF EmptyInFront
  <1> QED
    BY <1>1, <1>5 DEF TInv, ListIsPacked, NotPassed, ThrowsExactlyForCause

LEMMA FinishThrows == IInv /\ TInv /\ FinishPacking => TInv'
  <1> SUFFICES ASSUME IInv, TInv, FinishPacking PROVE TInv'
    OBVIOUS
  <1>1. /\ pc = "packing" /\ pc' = "sending" /\ next > Len(entries)
        /\ batches' = batches \o LastBatch /\ UNCHANGED <<single, entries, sent, lost>>
    BY DEF FinishPacking, resultVars
  <1>2. batches \in Seq(Seq(DOMAIN entries)) /\ current \in Seq(DOMAIN entries)
    BY DEF IInv, TypeOK
  <1>3. sent = 0
    BY <1>1, Packing
  <1>4. /\ \A k \in DOMAIN batches' : batches'[k] = <<>> => k = 1
        /\ BeginsEmpty' <=> StartsEmpty
    <2>1. CASE current = <<>>
      <3>1. batches' = batches
        BY <1>1, <1>2, <2>1 DEF LastBatch
      <3>2. batches = <<>> /\ \A j \in 1..(next - 1) : Oversized(j)
        BY <1>1, <2>1 DEF TInv, EmptyInFront
      <3>3. \A j \in DOMAIN entries : j \in 1..(next - 1)
        BY <1>1, Numbers DEF IInv
      <3> QED
        BY <3>1, <3>2, <3>3 DEF BeginsEmpty, StartsEmpty, TInv, EmptyInFront
    <2>2. CASE current # <<>>
      <3>1. batches' = Append(batches, current)
        BY <1>1, <1>2, <2>2 DEF LastBatch
      <3> QED
        BY <1>1, <2>2, <3>1, ClosedEmpty DEF TInv, EmptyInFront
    <2> QED
      BY <2>1, <2>2
  <1>5. ~single
    BY <1>1 DEF TInv, ListIsPacked
  <1> QED
    BY <1>1, <1>3, <1>4, <1>5, SameCause
    DEF TInv, EmptyInFront, ListIsPacked, NotPassed, ThrowsExactlyForCause

LEMMA SendingThrows ==
  IInv /\ TInv /\ (SendSucceeds \/ SendEmpty \/ SendFails \/ Return \/ UNCHANGED vars) => TInv'
  <1> USE DEF packVars, resultVars
  <1>1. ASSUME IInv, TInv, SendSucceeds \/ SendFails PROVE TInv'
    <2>1. /\ pc = "sending" /\ sent < Len(batches) /\ InBatch # {}
          /\ UNCHANGED <<single, entries, batches>> /\ pc' \in {"sending", "threw"}
          /\ pc' = "threw" => lost'
      BY <1>1 DEF SendSucceeds, SendFails, AfterRequestFails
    <2>2. ASSUME BeginsEmpty PROVE FALSE
      <3>1. sent = 0
        BY <1>1, <2>1, <2>2 DEF TInv, NotPassed
      <3> QED
        BY <1>1, <2>1, <2>2, <3>1, EmptyBatch DEF BeginsEmpty
    <2> QED
      BY <1>1, <2>1, <2>2, SameCause
      DEF TInv, EmptyInFront, BeginsEmpty, ListIsPacked, NotPassed, ThrowsExactlyForCause
  <1>2. ASSUME IInv, TInv, SendEmpty PROVE TInv'
    <2>1. /\ pc = "sending" /\ sent < Len(batches) /\ InBatch = {} /\ pc' = "threw"
          /\ UNCHANGED <<single, entries, batches>>
      BY <1>2 DEF SendEmpty
    <2>2. batches[sent + 1] = <<>> /\ sent + 1 = 1
      BY <1>2, <2>1, EmptyBatch DEF TInv, EmptyInFront
    <2>3. BeginsEmpty
      BY <2>1, <2>2, Numbers, <1>2 DEF BeginsEmpty, IInv
    <2>4. Cause
      BY <1>2, <2>1, <2>3 DEF TInv, NotPassed, Cause
    <2> QED
      BY <1>2, <2>1, <2>4, SameCause
      DEF TInv, EmptyInFront, ListIsPacked, NotPassed, ThrowsExactlyForCause
  <1>3. ASSUME IInv, TInv, Return PROVE TInv'
    <2>1. /\ pc = "sending" /\ sent = Len(batches) /\ pc' = "returned"
          /\ UNCHANGED <<single, entries, batches>>
      BY <1>3 DEF Return, AllSent
    <2>2. ~BeginsEmpty
      <3>1. batches \in Seq(Seq(DOMAIN entries))
        BY <1>3 DEF IInv, TypeOK
      <3>2. batches # <<>> => Len(batches) # 0
        BY <3>1
      <3> QED
        BY <1>3, <2>1, <3>2 DEF TInv, NotPassed, BeginsEmpty
    <2>3. ~Cause
      BY <1>3, <2>1, <2>2 DEF TInv, NotPassed, Cause, IInv, Validated
    <2> QED
      BY <1>3, <2>1, <2>3, SameCause
      DEF TInv, EmptyInFront, ListIsPacked, NotPassed, ThrowsExactlyForCause
  <1>4. ASSUME TInv, UNCHANGED vars PROVE TInv'
    <2>1. UNCHANGED <<pc, single, entries, next, current, currentSize, batches, sent, lost>>
      BY <1>4 DEF vars
    <2> QED
      BY <1>4, <2>1, SameCause
      DEF TInv, EmptyInFront, BeginsEmpty, ListIsPacked, NotPassed, ThrowsExactlyForCause
  <1> QED
    BY <1>1, <1>2, <1>3, <1>4

\* A call throws, unless a request fails, exactly when an entry is invalid, the message of
\* send() is too large, or the first entry to be packed leaves an empty batch in front,
\* which it does when batchSize is 0 or the entry is exactly as large as the limit
\* (sqs-message.batcher.ts:40-46): the exact extent of what is said at sqs-producer.ts:77.
THEOREM ThrowsForCause == Spec => []ThrowsExactlyForCause
  <1>1. IInv /\ PInv /\ TInv /\ [Next]_vars => TInv'
    BY EarlyThrows, SkipThrows, AppendThrows, CloseThrows, FinishThrows, SendingThrows DEF Next
  <1>2. TInv => ThrowsExactlyForCause
    BY DEF TInv
  <1> QED
    BY <1>1, <1>2, TInvInit, Inductive, PackingInductive, PTL DEF Spec

===============================================================================

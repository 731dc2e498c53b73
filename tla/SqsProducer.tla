------------------------------ MODULE SqsProducer ------------------------------
(***************************************************************************)
(* One call of SqsProducer.send() or sendBatch(): validation, packing into *)
(* batches by SqsMessageBatcher, one request per batch, the result.  The   *)
(* producer keeps nothing from one call to the next.                       *)
(*                                                                         *)
(* An entry is its size in bytes and whether the validator accepts it (a   *)
(* body, a group id on a FIFO queue, a delay of at most 900 seconds).      *)
(* Entries are referred to by their position in the caller's list.         *)
(***************************************************************************)
EXTENDS Naturals, Sequences, SequencesExt

CONSTANTS
  MaxBatchLength, \* the option batchSize
  MaxBatchSize,   \* messageSizeLimit
  Sizes,          \* sizes of the entries callers send
  MaxEntries      \* bounds the length of the caller's list

\* The constructor lets a batchSize of 0 through (sqs-producer.ts:44).
ASSUME ProducerAssumption ==
  /\ MaxBatchLength \in 0..10
  /\ MaxBatchSize \in Nat \ {0}
  /\ Sizes \subseteq Nat
  /\ MaxEntries \in Nat

VARIABLES
  pc,         \* "idle", "validating", "packing", "sending", "returned", "threw"
  single,     \* is the call send(), not sendBatch()?
  entries,    \* the caller's messages
  next,       \* position the packing loop has come to
  current,    \* currentBatch
  currentSize,\* currentBatchSize
  batches,    \* batches packed, in sendBatch the ones yet to be sent as well
  sent,       \* how many of them have been sent
  success,    \* successfulMessages
  failed,     \* failedMessages
  enqueued,   \* SQS: the entries in the queue
  lost        \* history: has a request failed?

packVars == <<next, current, currentSize, batches>>
resultVars == <<success, failed>>
vars == <<pc, single, entries, packVars, sent, resultVars, enqueued, lost>>

Entry == [size : Sizes, valid : BOOLEAN]

TypeOK ==
  /\ pc \in {"idle", "validating", "packing", "sending", "returned", "threw"}
  /\ single \in BOOLEAN
  /\ entries \in Seq(Entry)
  /\ Len(entries) <= MaxEntries
  /\ next \in 1..(Len(entries) + 1)
  /\ current \in Seq(DOMAIN entries)
  /\ currentSize \in Nat
  /\ batches \in Seq(Seq(DOMAIN entries))
  /\ sent \in 0..Len(batches)
  /\ success \in SUBSET DOMAIN entries
  /\ failed \in SUBSET DOMAIN entries
  /\ enqueued \in SUBSET DOMAIN entries
  /\ lost \in BOOLEAN

Init ==
  /\ pc = "idle"
  /\ single \in BOOLEAN
  /\ entries = <<>>
  /\ next = 1
  /\ current = <<>>
  /\ currentSize = 0
  /\ batches = <<>>
  /\ sent = 0
  /\ success = {}
  /\ failed = {}
  /\ enqueued = {}
  /\ lost = FALSE

-------------------------------------------------------------------------------
Call ==
  /\ pc = "idle"
  /\ \E n \in 0..MaxEntries : entries' \in [1..n -> Entry]
  /\ single => Len(entries') = 1
  /\ pc' = "validating"
  /\ UNCHANGED <<single, packVars, sent, resultVars, enqueued, lost>>

\* Mutant of AllValid: only the first entry is validated.
FirstValid == entries # <<>> => entries[1].valid

AllValid == \A i \in DOMAIN entries : entries[i].valid

Oversized(i) == entries[i].size > MaxBatchSize

\* The validator throws for the first invalid entry; send() also throws when the
\* message is too large.
Reject ==
  /\ pc = "validating"
  /\ ~AllValid \/ (single /\ Oversized(1))
  /\ pc' = "threw"
  /\ UNCHANGED <<single, entries, packVars, sent, resultVars, enqueued, lost>>

\* send() makes a request of its own, which is a batch of one to this model.
AcceptSingle ==
  /\ pc = "validating"
  /\ single
  /\ AllValid
  /\ ~Oversized(1)
  /\ batches' = <<<<1>>>>
  /\ pc' = "sending"
  /\ UNCHANGED <<single, entries, next, current, currentSize, sent, resultVars,
                 enqueued, lost>>

AcceptBatch ==
  /\ pc = "validating"
  /\ ~single
  /\ AllValid
  /\ pc' = "packing"
  /\ UNCHANGED <<single, entries, packVars, sent, resultVars, enqueued, lost>>

-------------------------------------------------------------------------------
(***************************************************************************)
(* packMessagesIntoBatches: one step per turn of its loop                  *)
(***************************************************************************)

\* Mutant of BatchIsFull: an entry that fills a batch by itself still fits.
FullAbove(size) ==
  \/ Len(current) = MaxBatchLength
  \/ currentSize + size > MaxBatchSize

\* Mutant of BatchIsFull: the length comparison is with > where it should be at equality.
BatchOverflows(size) ==
  \/ Len(current) > MaxBatchLength
  \/ currentSize + size >= MaxBatchSize

BatchIsFull(size) ==
  \/ Len(current) = MaxBatchLength
  \/ currentSize + size >= MaxBatchSize

\* Mutant of NextEntry: an entry is skipped.
EntryAfterNext == next + 2

NextEntry == next + 1

\* An entry no batch can hold goes to failedEntries.
SkipOversized ==
  /\ pc = "packing"
  /\ next \in DOMAIN entries
  /\ Oversized(next)
  /\ failed' = failed \cup {next}
  /\ next' = NextEntry
  /\ UNCHANGED <<pc, single, entries, current, currentSize, batches, sent, success,
                 enqueued, lost>>

AppendToCurrent ==
  /\ pc = "packing"
  /\ next \in DOMAIN entries
  /\ ~Oversized(next)
  /\ ~BatchIsFull(entries[next].size)
  /\ current' = Append(current, next)
  /\ currentSize' = currentSize + entries[next].size
  /\ next' = NextEntry
  /\ UNCHANGED <<pc, single, entries, batches, sent, resultVars, enqueued, lost>>

\* Mutant of StartedWith: the entry that did not fit any more is dropped.
StartedEmpty(i) == <<>>

StartedWith(i) == <<i>>

\* The batch is closed, even when it is empty, and the next one is begun.
CloseBatch ==
  /\ pc = "packing"
  /\ next \in DOMAIN entries
  /\ ~Oversized(next)
  /\ BatchIsFull(entries[next].size)
  /\ batches' = Append(batches, current)
  /\ current' = StartedWith(next)
  /\ currentSize' = entries[next].size
  /\ next' = NextEntry
  /\ UNCHANGED <<pc, single, entries, sent, resultVars, enqueued, lost>>

\* Mutant of LastBatch: the last batch is not finished.
NoLastBatch == <<>>

LastBatch == IF current = <<>> THEN <<>> ELSE <<current>>

FinishPacking ==
  /\ pc = "packing"
  /\ next > Len(entries)
  /\ batches' = batches \o LastBatch
  /\ pc' = "sending"
  /\ UNCHANGED <<single, entries, next, current, currentSize, sent, resultVars,
                 enqueued, lost>>

-------------------------------------------------------------------------------
(***************************************************************************)
(* One request per batch, one after the other                              *)
(***************************************************************************)

\* Mutant of InBatch: the batches are taken off the end, not the front.
FromTheEnd == ToSet(batches[Len(batches) - sent])

InBatch == ToSet(batches[sent + 1])

\* SQS accepts any of the entries and reports on each.
SendSucceeds ==
  /\ pc = "sending"
  /\ sent < Len(batches)
  /\ InBatch # {}
  /\ \E ok \in SUBSET InBatch :
       /\ single => ok = InBatch
       /\ enqueued' = enqueued \cup ok
       /\ success' = success \cup ok
       /\ failed' = failed \cup (InBatch \ ok)
  /\ sent' = sent + 1
  /\ UNCHANGED <<pc, single, entries, packVars, lost>>

\* SQS refuses a request without entries.
SendEmpty ==
  /\ pc = "sending"
  /\ sent < Len(batches)
  /\ InBatch = {}
  /\ pc' = "threw"
  /\ UNCHANGED <<single, entries, packVars, sent, resultVars, enqueued, lost>>

\* The rejection reaches the caller and the remaining batches are not sent.
AfterRequestFails == "threw"

\* The request fails, perhaps after SQS has executed it.
SendFails ==
  /\ pc = "sending"
  /\ sent < Len(batches)
  /\ InBatch # {}
  /\ \E ok \in SUBSET InBatch : enqueued' = enqueued \cup ok
  /\ lost' = TRUE
  /\ sent' = sent + 1
  /\ pc' = AfterRequestFails
  /\ UNCHANGED <<single, entries, packVars, resultVars>>

\* Mutant of AllSent: the loop over the batches is off by one.
AllButLastSent == sent + 1 = Len(batches)

AllSent == sent = Len(batches)

Return ==
  /\ pc = "sending"
  /\ AllSent
  /\ pc' = "returned"
  /\ UNCHANGED <<single, entries, packVars, sent, resultVars, enqueued, lost>>

-------------------------------------------------------------------------------
Next ==
  \/ Call \/ Reject \/ AcceptSingle \/ AcceptBatch
  \/ SkipOversized \/ AppendToCurrent \/ CloseBatch \/ FinishPacking
  \/ SendSucceeds \/ SendEmpty \/ SendFails \/ Return

\* A call that was made runs to its end: the loops are synchronous and the SDK
\* bounds the retries of a request.
Fairness ==
  WF_vars(\/ Reject \/ AcceptSingle \/ AcceptBatch
          \/ SkipOversized \/ AppendToCurrent \/ CloseBatch \/ FinishPacking
          \/ SendSucceeds \/ SendEmpty \/ SendFails \/ Return)

Spec == Init /\ [][Next]_vars
FairSpec == Spec /\ Fairness

-------------------------------------------------------------------------------
(***************************************************************************)
(* Properties                                                              *)
(***************************************************************************)

Packed == batches \o (IF pc = "packing" THEN <<current>> ELSE <<>>)

\* The sizes of the entries of b, added up one by one, come to n.
AddUpTo(b, n) ==
  \E total \in [0..Len(b) -> 0..n] :
    /\ total[0] = 0
    /\ \A k \in 1..Len(b) : total[k] = total[k - 1] + entries[b[k]].size
    /\ total[Len(b)] = n

\* One entry that is exactly as large as the limit is a batch of its own.
SizeInLimit(b) ==
  \/ \E n \in 0..(MaxBatchSize - 1) : AddUpTo(b, n)
  \/ Len(b) = 1 /\ AddUpTo(b, MaxBatchSize)

\* A batch is within the limits of the queue: at most MaxBatchLength entries,
\* whose sizes stay below MaxBatchSize (sqs-message.batcher.ts:18). A batchSize of 0
\* limits no length: the comparison is for equality.
BatchesWithinLimits ==
  \A k \in DOMAIN Packed :
    /\ MaxBatchLength # 0 => Len(Packed[k]) <= MaxBatchLength
    /\ SizeInLimit(Packed[k])

\* An entry stands behind those of earlier batches and those before it in its own.
Increasing(bs) ==
  \A k, l \in DOMAIN bs : \A m \in DOMAIN bs[k], n \in DOMAIN bs[l] :
    k < l \/ (k = l /\ m < n) => bs[k][m] < bs[l][n]

\* The entries that are in a batch.
Placed == UNION {ToSet(Packed[k]) : k \in DOMAIN Packed}

\* Packing keeps the caller's order, within a batch and from one to the next, and
\* puts each entry the loop has passed in exactly one batch or in failedEntries
\* ("more concerned about preserving the order", sqs-message.batcher.ts:31).
OrderKept ==
  /\ Increasing(Packed)
  /\ pc = "packing" \/ (pc = "sending" /\ sent = 0 /\ ~single) =>
       Placed = (1..(next - 1)) \ failed

\* What a request adds to the queue stands behind all that earlier requests have put
\* there: a FIFO queue gets the entries in the caller's order (sqs-producer.ts:96-101).
SentInOrder == [][\A i \in enqueued, j \in enqueued' \ enqueued : i < j]_vars

\* The result accounts for each entry once, as successful exactly when it is in
\* the queue.
ResultIsExact ==
  pc = "returned" =>
    /\ success = enqueued
    /\ success \cup failed = DOMAIN entries
    /\ success \cap failed = {}

\* An invalid entry keeps the whole call from sending anything (validateBatch
\* runs before the first request).
AllOrNothingValid == (\E i \in DOMAIN entries : ~entries[i].valid) => enqueued = {}

\* Nothing is sent behind a request that failed: what reaches the queue comes
\* from the batches requested so far (sqs-producer.ts:96-102).
NothingBehindAFailure ==
  lost => /\ pc = "threw"
          /\ \A k \in (sent + 1)..Len(batches) : ToSet(batches[k]) \cap enqueued = {}

\* Every call returns or throws.
CallEnds == pc = "validating" ~> pc \in {"returned", "threw"}

\* The first entry that goes into a batch finds the empty one full already.
StartsEmpty ==
  \E i \in DOMAIN entries :
    /\ ~Oversized(i)
    /\ \A j \in 1..(i - 1) : Oversized(j)
    /\ MaxBatchLength = 0 \/ entries[i].size = MaxBatchSize

\* What makes a call throw by itself.
Cause == ~AllValid \/ IF single THEN Oversized(1) ELSE StartsEmpty

\* A call throws, unless a request fails, exactly when an entry is invalid, the one
\* message of send() is too large (sqs-producer.ts:54, 77), or the packing leaves an
\* empty batch in front, which SQS refuses; with such a cause it never returns.
ThrowsExactlyForCause ==
  /\ pc = "threw" /\ ~lost => Cause
  /\ pc = "returned" => ~Cause

\* "will throw an error when one of the messages in the batch is invalid."
\* (sqs-producer.ts:77) If they are valid, only a failed request excuses a throw.
ThrowsOnlyWhenInvalid ==
  (pc = "threw" /\ ~single /\ ~lost) => \E i \in DOMAIN entries : ~entries[i].valid
===============================================================================

----------------------------- MODULE MCSqsConsumer -----------------------------
(***************************************************************************)
(* Instance of SqsConsumer for TLC.  No definition tells one consumer or   *)
(* one message from another, so permuting them is sound for the safety     *)
(* runs; the liveness run does not use it.                                 *)
(***************************************************************************)
EXTENDS SqsConsumer, TLC

Symmetry == Permutations(Consumers) \cup Permutations(Messages)
===============================================================================

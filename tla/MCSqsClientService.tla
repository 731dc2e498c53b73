-------------------------- MODULE MCSqsClientService --------------------------
(***************************************************************************)
(* Instance of SqsClientService for TLC: applications with at most one     *)
(* thing wrong about them.                                                 *)
(***************************************************************************)
EXTENDS SqsClientService

Faults(s) ==
  Cardinality({q \in Queues : s.options[q] \notin {"url", "named"}})
    + Cardinality(s.slow) + Cardinality(s.improper) + Cardinality(s.misconfigured)

AllSetups == {s \in SetupType : Faults(s) <= 1}
===============================================================================

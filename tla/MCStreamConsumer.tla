-------------------------- MODULE MCStreamConsumer --------------------------
(***************************************************************************)
(* Small instances of StreamConsumer: two replicas of a writer whose       *)
(* entries are of every kind.                                              *)
(***************************************************************************)
EXTENDS StreamConsumer

EveryKind == {"valid", "incomplete", "unstorable"}
=============================================================================

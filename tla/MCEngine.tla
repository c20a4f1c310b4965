------------------------------ MODULE MCEngine ------------------------------
(***************************************************************************)
(* Instances of Engine for TLC.                                            *)
(***************************************************************************)
EXTENDS Engine, TLC

Interchangeable == Permutations(Replicas) \cup Permutations(Notifications)
=============================================================================

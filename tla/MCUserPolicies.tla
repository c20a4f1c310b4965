-------------------------- MODULE MCUserPolicies --------------------------
(***************************************************************************)
(* Instance of UserPolicies for TLC.                                       *)
(***************************************************************************)
EXTENDS UserPolicies, TLC

Interchangeable == Permutations(Readers) \cup Permutations(Writers)
=============================================================================

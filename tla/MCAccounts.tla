----------------------------- MODULE MCAccounts -----------------------------
(* The instance of Accounts that TLC checks. *)
EXTENDS Accounts, TLC

Interchangeable == Permutations(Clients)
=============================================================================

---------------------------- MODULE MCIngestion ----------------------------
(***************************************************************************)
(* Instances of Ingestion for TLC.                                         *)
(***************************************************************************)
EXTENDS Ingestion, TLC

\* a and b are a call and its retry (same key); c is the same event reported
\* by a producer that sends no key.
CallAndRetry == [r \in Requests |-> IF r \in {"a", "b"} THEN "k" ELSE None]
OneEntity == [r \in Requests |-> "e"]

\* Two unrelated events of one user.
NoKeys == [r \in Requests |-> None]
OwnEntity == [r \in Requests |-> r]

Once(kinds) == [f \in Faults |-> IF f \in kinds THEN 1 ELSE 0]
Anything == Once(Faults)
ParkFailure == Once({"throw", "parkFail"})
=============================================================================

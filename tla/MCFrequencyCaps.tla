-------------------------- MODULE MCFrequencyCaps --------------------------
(***************************************************************************)
(* Instances of FrequencyCaps for TLC: a price alert that answers to all   *)
(* four caps, on one channel.                                              *)
(***************************************************************************)
EXTENDS FrequencyCaps, TLC

OneCategory == [t \in Types |-> "X"]
OneChannel == [t \in Types |-> <<"push">>]
=============================================================================

----------------------------- MODULE MCDelivery -----------------------------
(***************************************************************************)
(* Instances of Delivery for TLC.  A notification is named by its channel, *)
(* so the set of notifications picks the channels exercised.               *)
(***************************************************************************)
EXTENDS Delivery, TLC

ByName == [n \in Notifications |-> n]
Promotional == [n \in Notifications |-> "PROMOTIONAL"]
Transactional == [n \in Notifications |-> "TRANSACTIONAL"]
TwoRetries == [n \in Notifications |-> 2]

\* One operator request, two receipts and one lost reply; the system itself
\* does not fail.
Calm == [k \in BudgetKinds |->
           CASE k \in {"operator", "lostReply"} -> 1 [] k = "receipt" -> 2 [] OTHER -> 0]

\* The process dies, calls throw, an operator retries or discards, content is
\* scrubbed and old entries are deleted; or connections to the broker break
\* while receipts arrive.  The two stories are not mixed.
Crashes == [k \in BudgetKinds |->
              CASE k \in {"crash", "throw", "operator", "upkeep", "disconnect", "receipt"} -> 1
                [] OTHER -> 0]
OneStory ==
    \/ used["disconnect"] = 0 /\ used["receipt"] = 0
    \/ \A k \in {"crash", "throw", "operator", "upkeep"} : used[k] = 0

Interchangeable == Permutations(Workers)
=============================================================================

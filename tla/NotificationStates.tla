------------------------- MODULE NotificationStates -------------------------
(***************************************************************************)
(* The life-cycle states of a notification and the transition table that   *)
(* StateService.transition consults (shared/constants/notification-        *)
(* states.ts).  Every other module of the project speaks in these states.  *)
(***************************************************************************)

NotificationStatus ==
    { "CREATED", "ENRICHED", "ROUTED", "QUEUED", "SENT", "DELIVERED", "READ",
      "CAPPED", "QUIET", "DND", "FAILED", "RETRYING", "DLQ", "DEDUPLICATED",
      "BOUNCED", "NO_CONSENT", "DIGEST_PENDING", "DIGESTED" }

\* The targets allowed from a state.  States without an entry in the table
\* (READ, DND, DLQ, DEDUPLICATED, BOUNCED, NO_CONSENT, DIGESTED) allow none.
ValidTransitions(from) ==
    CASE from = "CREATED"        -> {"ENRICHED", "DEDUPLICATED"}
      [] from = "ENRICHED"       -> {"ROUTED", "CAPPED", "QUIET", "DND", "DIGEST_PENDING"}
      [] from = "ROUTED"         -> {"QUEUED", "FAILED"}
      [] from = "QUIET"          -> {"ROUTED", "DIGEST_PENDING"}
      [] from = "CAPPED"         -> {"DIGEST_PENDING"}
      [] from = "DIGEST_PENDING" -> {"DIGESTED"}
      [] from = "QUEUED"         -> {"SENT", "FAILED", "DND", "NO_CONSENT"}
      [] from = "SENT"           -> {"DELIVERED", "FAILED", "BOUNCED"}
      [] from = "DELIVERED"      -> {"READ"}
      [] from = "FAILED"         -> {"RETRYING", "DLQ"}
      [] from = "RETRYING"       -> {"QUEUED", "DLQ"}
      [] OTHER                   -> {}

isValidTransition(from, to) == to \in ValidTransitions(from)

\* States from which DeliveryService.process drops a message unprocessed.
AlreadyHandled ==
    { "NO_CONSENT", "DIGESTED", "SENT", "DELIVERED", "READ", "DND", "DLQ", "BOUNCED" }

\* The states the compliance audit counts as "a provider was actually called".
SentStates == { "SENT", "DELIVERED", "READ", "BOUNCED" }
=============================================================================

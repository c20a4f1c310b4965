--------------------------- MODULE EventCatalogue ---------------------------
(***************************************************************************)
(* The tables the qualification of an event consults: the event types and  *)
(* their regulatory standing (event-types.ts), the channels with their     *)
(* cost and delivery rate (channels.ts), the channels of the preference    *)
(* hierarchy's first and last layer (PreferenceResolverService), the       *)
(* payload each type must bring (event-payload.validator.ts) and the       *)
(* templates (TemplateEngineService, ng-localisations.ts).                 *)
(*                                                                         *)
(* A template is, by channel, the set of payload fields its text prints;   *)
(* a field inside an #if and the fields every context has (user_name,      *)
(* app_name, timestamp) are left out.                                      *)
(***************************************************************************)
EXTENDS Naturals

EventTypesByCategory ==
    [TXNX |-> {"TXNX-001", "TXNX-002", "TXNX-003", "TXNX-004", "TXNX-005"},
     RISK |-> {"RISK-001", "RISK-002", "RISK-003", "RISK-004", "RISK-005"},
     SIPX |-> {"SIPX-001", "SIPX-002", "SIPX-003", "SIPX-004", "SIPX-005"},
     MKTX |-> {"MKTX-001", "MKTX-002", "MKTX-003", "MKTX-004", "MKTX-005"},
     REGX |-> {"REGX-001", "REGX-002", "REGX-003", "REGX-004", "REGX-005"}]

EVENT_TYPES == UNION {EventTypesByCategory[c] : c \in DOMAIN EventTypesByCategory}

REGULATORY_MANDATORY_EVENTS ==
    {"TXNX-001", "TXNX-002", "TXNX-003", "TXNX-005", "RISK-001", "RISK-002",
     "RISK-003", "SIPX-002", "SIPX-003", "MKTX-002", "REGX-001", "REGX-003"}

CRITICAL_EVENTS == {"RISK-001", "RISK-002", "RISK-003", "MKTX-002"}

TRANSACTIONAL_EVENTS ==
    {"TXNX-001", "TXNX-002", "TXNX-003", "TXNX-004", "TXNX-005", "RISK-001", "RISK-002",
     "RISK-003", "SIPX-002", "SIPX-003", "MKTX-002", "REGX-001", "REGX-003"}

\* DndClassifierService.classify
classify(t) == IF t \in TRANSACTIONAL_EVENTS THEN "TRANSACTIONAL" ELSE "PROMOTIONAL"

ALL_CHANNELS == {"sms", "email", "push", "whatsapp", "in_app"}

\* In paisa.
CHANNEL_COST_PAISA ==
    [sms |-> 20, email |-> 3, push |-> 0, whatsapp |-> 55, in_app |-> 0]

\* In percent.
CHANNEL_DELIVERY_RATE ==
    [sms |-> 97, email |-> 90, push |-> 70, whatsapp |-> 93, in_app |-> 99]

-----------------------------------------------------------------------------
(***************************************************************************)
(* The preference hierarchy                                                *)
(***************************************************************************)

\* eventType.split('-')[0]
Category(t) == CHOOSE c \in DOMAIN EventTypesByCategory : t \in EventTypesByCategory[c]

\* Layer 1
SYSTEM_DEFAULTS ==
    [RISK |-> {"sms", "push", "in_app"}, TXNX |-> {"sms", "push", "email"},
     SIPX |-> {"push", "email"}, MKTX |-> {"push", "in_app"}, REGX |-> {"email", "sms"}]

\* Layer 4: what the regulator mandates, whatever the user says.
REGULATORY_CHANNELS(t) ==
    CASE t \in {"RISK-001", "MKTX-002", "TXNX-003", "TXNX-005"} -> {"sms", "push"}
      [] t \in {"RISK-002", "RISK-003", "TXNX-001", "TXNX-002",
                "SIPX-003", "REGX-001"} -> {"sms", "push", "email"}
      [] t = "SIPX-002" -> {"sms", "email"}
      [] t = "REGX-003" -> {"email"}
      [] OTHER -> {}

-----------------------------------------------------------------------------
(***************************************************************************)
(* The payload schemas: fields without which an event is refused.          *)
(***************************************************************************)

\* Plausible slip: the deadline is optional.
marginPayload_NoDeadline ==
    {"shortfall_amount", "current_margin", "required_margin", "auto_square_off_time"}

\* RISK-001 and RISK-002
marginPayload ==
    {"shortfall_amount", "current_margin", "required_margin", "deadline", "auto_square_off_time"}

squaredOffPayload == {"positions_closed"}

orderExecutedPayload == {"stock_name", "symbol", "qty", "price", "total", "order_id"}

orderRejectedPayload == {"order_id", "reason"}

dividendPayload == {"company", "amount"}

fundsDepositedPayload == {"amount", "source"}

priceAlertPayload == {"symbol", "target_price", "current_price", "direction"}

\* A type without a schema gets envelope validation only.
EVENT_VALIDATORS(t) ==
    CASE t \in {"RISK-001", "RISK-002"} -> marginPayload
      [] t = "RISK-003" -> squaredOffPayload
      [] t \in {"TXNX-001", "TXNX-002"} -> orderExecutedPayload
      [] t = "TXNX-003" -> orderRejectedPayload
      [] t = "TXNX-004" -> dividendPayload
      [] t = "TXNX-005" -> fundsDepositedPayload
      [] t \in {"MKTX-001", "MKTX-002"} -> priceAlertPayload
      [] OTHER -> {}

-----------------------------------------------------------------------------
(***************************************************************************)
(* TemplateEngineService.getInlineTemplates                                *)
(***************************************************************************)

\* RISK-001
MarginCallWarning ==
    [sms |-> {"shortfall_amount", "deadline", "auto_square_off_time"},
     whatsapp |-> {"shortfall_amount", "deadline", "auto_square_off_time"},
     push |-> {"shortfall_amount", "deadline"},
     email |-> {"deadline", "shortfall_amount", "required_margin", "current_margin", "auto_square_off_time"},
     in_app |-> {"shortfall_amount", "deadline"}]

\* TXNX-001
BuyOrderExecuted ==
    [sms |-> {"stock_name", "qty", "price", "total"},
     whatsapp |-> {"stock_name", "qty", "price", "total"},
     push |-> {"qty", "stock_name", "price", "order_id"},
     email |-> {"qty", "stock_name", "price", "total"},
     in_app |-> {"qty", "stock_name", "price", "total"}]

\* TXNX-002
SellOrderExecuted ==
    [sms |-> {"stock_name", "qty", "price", "pnl"},
     whatsapp |-> {"stock_name", "qty", "price", "pnl"},
     push |-> {"qty", "stock_name", "price", "pnl"},
     email |-> {"qty", "stock_name", "price", "pnl"},
     in_app |-> {"qty", "stock_name", "price", "pnl"}]

\* TXNX-003
OrderRejected ==
    [sms |-> {"stock_name", "reason"}, whatsapp |-> {"stock_name", "reason"},
     email |-> {"stock_name", "reason"}, push |-> {"stock_name", "reason"},
     in_app |-> {"stock_name", "reason"}]

\* RISK-002
MarginShortfall ==
    [sms |-> {"shortfall_amount", "auto_square_off_time"},
     whatsapp |-> {"shortfall_amount", "auto_square_off_time"},
     push |-> {"auto_square_off_time", "shortfall_amount"},
     email |-> {"shortfall_amount", "auto_square_off_time"}, in_app |-> {"auto_square_off_time"}]

\* MKTX-001
PriceAlert ==
    [sms |-> {"stock_name", "direction", "current_price", "target_price"},
     whatsapp |-> {"stock_name", "direction", "current_price", "target_price"},
     email |-> {"stock_name", "direction", "target_price", "current_price"},
     push |-> {"stock_name", "current_price", "target_price", "symbol"},
     in_app |-> {"stock_name", "current_price", "direction", "target_price"}]

\* MKTX-002
CircuitBreakerHit ==
    [sms |-> {"stock_name", "circuit_level", "resume_time"},
     whatsapp |-> {"stock_name", "circuit_level", "resume_time"},
     email |-> {"stock_name", "circuit_level", "resume_time"},
     push |-> {"stock_name", "circuit_level", "resume_time", "symbol"},
     in_app |-> {"stock_name", "circuit_level", "resume_time"}]

\* SIPX-001
SipReminder ==
    [sms |-> {"fund_name", "amount", "due_date"}, email |-> {"fund_name", "amount", "due_date"},
     push |-> {"fund_name", "amount", "sip_date"},
     whatsapp |-> {"fund_name", "amount", "sip_date"},
     in_app |-> {"fund_name", "amount", "sip_date"}]

\* SIPX-002
SipExecuted ==
    [sms |-> {"fund_name", "amount", "units_allotted", "nav"},
     whatsapp |-> {"fund_name", "amount", "units_allotted", "nav"},
     email |-> {"fund_name", "amount", "units_allotted", "nav"},
     push |-> {"fund_name", "units_allotted", "nav"},
     in_app |-> {"fund_name", "units_allotted", "nav"}]

\* REGX-001
KycExpiryWarning ==
    [sms |-> {"expiry_date"}, whatsapp |-> {"expiry_date", "documents_needed"},
     email |-> {"expiry_date", "documents_needed"}, push |-> {"expiry_date"},
     in_app |-> {"expiry_date"}]

\* REGX-005
RegulatoryPolicyChange ==
    [sms |-> {"change_summary", "effective_date"}, push |-> {"change_summary", "effective_date"},
     email |-> {"change_summary", "impact", "effective_date"},
     whatsapp |-> {"change_summary", "effective_date"},
     in_app |-> {"change_summary", "effective_date"}]

\* TXNX-004
DividendCredited ==
    [sms |-> {"company", "amount"}, email |-> {"company", "amount", "record_date", "bank_account"},
     push |-> {"company", "amount"}, in_app |-> {"company", "amount", "record_date"},
     whatsapp |-> {"company", "amount", "record_date"}]

\* TXNX-005
FundsDeposited ==
    [sms |-> {"amount", "source"}, email |-> {"amount", "source"}, push |-> {"amount"},
     in_app |-> {"amount", "source"}, whatsapp |-> {"amount", "source", "available_balance"}]

\* RISK-003
PositionSquaredOff ==
    [sms |-> {"pnl_impact", "remaining_positions"}, push |-> {"pnl_impact", "remaining_positions"},
     email |-> {"pnl_impact", "remaining_positions"},
     in_app |-> {"pnl_impact", "remaining_positions"},
     whatsapp |-> {"pnl_impact", "remaining_positions"}]

\* RISK-004
PortfolioRiskAlert ==
    [push |-> {"risk_metric"}, email |-> {"risk_metric", "affected_holdings", "suggestion"},
     in_app |-> {"risk_metric", "suggestion"}, whatsapp |-> {"risk_metric", "affected_holdings"}]

\* RISK-005
ConcentrationAlert ==
    [email |-> {"sector_or_stock", "pct_allocation"},
     in_app |-> {"sector_or_stock", "pct_allocation"},
     whatsapp |-> {"sector_or_stock", "pct_allocation"}]

\* SIPX-003
SipFailed ==
    [sms |-> {"fund_name", "amount", "reason", "retry_date"},
     push |-> {"fund_name", "reason", "retry_date"},
     email |-> {"fund_name", "amount", "reason", "retry_date"},
     in_app |-> {"fund_name", "reason", "retry_date"},
     whatsapp |-> {"fund_name", "reason", "retry_date"}]

\* SIPX-004
SipStepUpReminder ==
    [email |-> {"fund_name", "current_amount", "suggested_increase", "goal_impact"},
     in_app |-> {"fund_name", "current_amount"},
     whatsapp |-> {"fund_name", "current_amount", "suggested_increase"}]

\* SIPX-005
GoalMilestoneReached ==
    [push |-> {"goal_name", "pct_complete", "projected_completion"},
     in_app |-> {"goal_name", "pct_complete"},
     whatsapp |-> {"goal_name", "pct_complete", "projected_completion"}]

\* MKTX-003
MarketOpenClose ==
    [push |-> {"market_event", "index_level", "overnight_change"},
     in_app |-> {"market_event", "index_level", "overnight_change"},
     whatsapp |-> {"market_event", "index_level", "overnight_change"}]

\* MKTX-004
FiftyTwoWeekHighLow ==
    [push |-> {"milestone_type", "stock_name", "price", "holding_status", "symbol"},
     email |-> {"milestone_type", "stock_name", "price", "holding_status"},
     in_app |-> {"milestone_type", "stock_name", "price"},
     whatsapp |-> {"stock_name", "milestone_type", "price"}]

\* MKTX-005
EarningsAnnouncement ==
    [email |-> {"company", "announcement_date", "expected_eps", "historical_context"},
     in_app |-> {"company", "announcement_date", "expected_eps"},
     whatsapp |-> {"company", "announcement_date", "expected_eps"}]

\* REGX-002
NomineeUpdateReminder ==
    [email |-> {"nominee_status", "deadline"}, push |-> {"deadline"},
     in_app |-> {"nominee_status", "deadline"}, whatsapp |-> {"nominee_status", "deadline"}]

\* REGX-003
ContractNoteGenerated ==
    [email |-> {"trade_date", "summary", "download_link"}, in_app |-> {"trade_date"},
     whatsapp |-> {"trade_date", "download_link"}]

\* REGX-004
TaxStatementAvailable ==
    [email |-> {"period", "key_figures", "download_link"}, in_app |-> {"period"},
     whatsapp |-> {"period", "download_link"}]

templates ==
    [t \in EVENT_TYPES |->
       CASE t = "MKTX-001" -> PriceAlert
         [] t = "MKTX-002" -> CircuitBreakerHit
         [] t = "MKTX-003" -> MarketOpenClose
         [] t = "MKTX-004" -> FiftyTwoWeekHighLow
         [] t = "MKTX-005" -> EarningsAnnouncement
         [] t = "REGX-001" -> KycExpiryWarning
         [] t = "REGX-002" -> NomineeUpdateReminder
         [] t = "REGX-003" -> ContractNoteGenerated
         [] t = "REGX-004" -> TaxStatementAvailable
         [] t = "REGX-005" -> RegulatoryPolicyChange
         [] t = "RISK-001" -> MarginCallWarning
         [] t = "RISK-002" -> MarginShortfall
         [] t = "RISK-003" -> PositionSquaredOff
         [] t = "RISK-004" -> PortfolioRiskAlert
         [] t = "RISK-005" -> ConcentrationAlert
         [] t = "SIPX-001" -> SipReminder
         [] t = "SIPX-002" -> SipExecuted
         [] t = "SIPX-003" -> SipFailed
         [] t = "SIPX-004" -> SipStepUpReminder
         [] t = "SIPX-005" -> GoalMilestoneReached
         [] t = "TXNX-001" -> BuyOrderExecuted
         [] t = "TXNX-002" -> SellOrderExecuted
         [] t = "TXNX-003" -> OrderRejected
         [] t = "TXNX-004" -> DividendCredited
         [] t = "TXNX-005" -> FundsDeposited]

supportsChannel(t, c) == c \in DOMAIN templates[t]

-----------------------------------------------------------------------------
(***************************************************************************)
(* Localisations.  Tamil stands for Telugu too, Yoruba for the four        *)
(* Nigerian languages, Hindi for Marathi.                                  *)
(***************************************************************************)

Locales == {"en", "hi", "ta", "yo"}

\* Those of the definitions themselves.
localisations(t, l) ==
    CASE t = "RISK-001" /\ l = "hi" ->
            [sms  |-> {"shortfall_amount", "deadline", "auto_square_off_time"},
             push |-> {"shortfall_amount", "deadline"}]
      [] t = "RISK-001" /\ l = "ta" -> [sms |-> {"shortfall_amount", "deadline"}]
      [] t = "RISK-002" /\ l = "hi" -> [sms |-> {"shortfall_amount", "auto_square_off_time"}]
      [] t = "TXNX-001" /\ l = "hi" -> [sms |-> {"stock_name", "qty", "price", "total"}]
      [] OTHER -> <<>>

NG_LOCALISATIONS(t, l) ==
    CASE t = "RISK-001" /\ l = "yo" ->
            [sms  |-> {"shortfall_amount", "deadline", "auto_square_off_time"},
             push |-> {"shortfall_amount", "deadline"}]
      [] t = "RISK-002" /\ l = "yo" -> [sms |-> {"shortfall_amount", "auto_square_off_time"}]
      [] t = "TXNX-001" /\ l = "yo" ->
            [sms  |-> {"stock_name", "qty", "price", "total"},
             push |-> {"qty", "stock_name", "price", "order_id"}]
      [] t = "TXNX-005" /\ l = "yo" -> [sms |-> {"amount", "source"}, push |-> {"amount"}]
      [] OTHER -> <<>>

\* getTemplate and mergeChannels: requested locale, then the English text.
\* A localised push replaces title and body and keeps the data (order_id).
mergeChannels(t, l, c) ==
    IF c \in DOMAIN localisations(t, l) THEN localisations(t, l)[c]
    ELSE IF c \in DOMAIN NG_LOCALISATIONS(t, l) THEN NG_LOCALISATIONS(t, l)[c]
    ELSE templates[t][c]
=============================================================================

SPECIFICATION FairSpec
CONSTANTS
    Notifications = {"sms", "in_app"}
    Workers = {w1, w2}
    Pollers = {p1}
    Operators = {o1}
    Webhooks = {h1}
    Channel <- ByName
    Classification <- Promotional
    MaxRetries <- TwoRetries
    ConsentMode = "enforce"
    Budget <- Calm
    None = None
INVARIANTS TypeOK NoDoubleSend EvidenceMatchesSend RetryBudget DeadLetterHasEntry
PROPERTY Drains
CHECK_DEADLOCK FALSE

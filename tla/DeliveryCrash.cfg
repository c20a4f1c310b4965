SPECIFICATION Spec
CONSTANTS
    Notifications = {"sms"}
    Workers = {w1, w2}
    Pollers = {p1}
    Operators = {o1}
    Webhooks = {h1}
    Channel <- ByName
    Classification <- Transactional
    MaxRetries <- TwoRetries
    ConsentMode = "enforce"
    Budget <- Crashes
    None = None
INVARIANTS InFlightAccounted SmsSentChecked
PROPERTY ResolutionFinal
CONSTRAINT OneStory
SYMMETRY Interchangeable
CHECK_DEADLOCK FALSE

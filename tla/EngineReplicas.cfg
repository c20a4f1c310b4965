SPECIFICATION Spec
CONSTANTS
    Notifications = {n1, n2}
    Replicas = {r1, r2}
    Decisions = {"hourly", "quiet", "capped", "sto", "now"}
    ChannelCount = 2
    DigestThreshold = 1
    CappedMinItems = 2
    MaxDigests = 3
    Kinds = {"releaseThrow", "sendThrow", "flushThrow", "engineThrow", "queueFail", "crash"}
    MaxFaults = 1
    None = None
INVARIANTS TypeOK SentOnce HeldIsKept DigestedIsInDigest
SYMMETRY Interchangeable
CHECK_DEADLOCK FALSE

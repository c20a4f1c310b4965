SPECIFICATION FairSpec
CONSTANTS
    Notifications = {n1, n2, n3}
    Replicas = {r1}
    Decisions = {"daily", "quiet", "capped"}
    ChannelCount = 1
    DigestThreshold = 1
    CappedMinItems = 3
    MaxDigests = 4
    Kinds = {"sendThrow", "queueFail"}
    MaxFaults = 1
    None = None
 
PROPERTY HeldIsReleased
CHECK_DEADLOCK FALSE

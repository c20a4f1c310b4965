SPECIFICATION FairSpec
CONSTANTS
    Callers = {c1, c2}
    FailureThreshold = 2
    SuccessThreshold = 2
    OpenDuration = 2
    FailureWindow = 2
    SuccessWindow = 1
    MaxCrashes = 1
INVARIANTS FullWindowTrips
PROPERTY Recovers

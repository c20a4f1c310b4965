SPECIFICATION Spec
CONSTANTS
    Callers = {c1}
    FailureThreshold = 5
    SuccessThreshold = 2
    OpenDuration = 2
    FailureWindow = 2
    SuccessWindow = 1
    MaxCrashes = 0
INVARIANTS TypeOK HealthAgrees
PROPERTY Documented

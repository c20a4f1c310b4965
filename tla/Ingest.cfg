SPECIFICATION FairSpec
CONSTANTS
    Requests = {"a", "b", "c"}
    Consumers = {x, y}
    KeyOf <- CallAndRetry
    EntityOf <- OneEntity
    MaxBucket = 1
    Budget <- Anything
    MaxFaults = 1
    None = None
INVARIANTS TypeOK OneNotification AnswersHold SkippedOnlyUnparked
PROPERTY Consumed
CHECK_DEADLOCK FALSE

SPECIFICATION Spec
CONSTANTS
    Requests = {"a", "b"}
    Consumers = {x}
    KeyOf <- NoKeys
    EntityOf <- OwnEntity
    MaxBucket = 0
    Budget <- ParkFailure
    MaxFaults = 1
    None = None
INVARIANTS AtLeastOnce
CHECK_DEADLOCK FALSE

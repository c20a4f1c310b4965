SPECIFICATION Spec
CONSTANTS
    Clients = {c1, c2}
    Identifiers = {phone}
    Phones = {phone}
    OTP_MAX_ATTEMPTS = 2
    RATE_LIMIT = 2
    MaxRequests = 2
    MaxTokens = 3
    MaxFaults = 1
    None = None
INVARIANTS TypeOK OneAccountPerIdentifier SessionIsOwners Rotation WindowIsTimed
SYMMETRY Interchangeable
CHECK_DEADLOCK FALSE

SPECIFICATION Spec
CONSTANTS
    Readers = {r1, r2}
    Writers = {w1, w2}
    Starts = {2}
    Ends = {4}
    MinWindow = 6
    MaxUpdates = 3
    MaxReads = 2
    MaxFaults = 1
    None = None
INVARIANT ReadsLastUpdate
SYMMETRY Interchangeable
CHECK_DEADLOCK FALSE

SPECIFICATION Spec
CONSTANTS
    MaxRequests = 2
    MaxFrames = 1
INVARIANTS NoCrash
CHECK_DEADLOCK FALSE

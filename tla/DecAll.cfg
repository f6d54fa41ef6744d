SPECIFICATION FairSpec
CONSTANTS
    Options <- AllOptions
    NumFrames = 2
    frame_num = 2
    stream_size = 2
    NumOpens = 2
    MaxLate = 1
INVARIANTS QueueInv
PROPERTIES NextShown Exits Parks Loops
CHECK_DEADLOCK FALSE

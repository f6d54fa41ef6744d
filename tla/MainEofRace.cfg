SPECIFICATION Spec
CONSTANTS
    Options <- FileOptions
    NumFrames = 3
    SourceFails = FALSE
    Sounds = {0, 2}
    frame_num = 2
    read_timeout = 2
CHECK_DEADLOCK FALSE
INVARIANTS Complete

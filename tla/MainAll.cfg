SPECIFICATION FairSpec
CONSTANTS
    Options <- AllOptions
    NumFrames = 5
    SourceFails = TRUE
    Sounds = {0, 2, 5}
    frame_num = 2
    read_timeout = 2
CHECK_DEADLOCK FALSE
INVARIANTS FramesKept EofIsReal Conversion
PROPERTIES InStep Ends FailureReported

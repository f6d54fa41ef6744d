SPECIFICATION FairSpec
CONSTANTS
    MaxRequests = 3
    MaxFrames = 2
INVARIANTS PipeInv PatientRestart
PROPERTIES Starts StopCloses
CHECK_DEADLOCK FALSE

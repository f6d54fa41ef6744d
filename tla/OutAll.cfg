SPECIFICATION FairSpec
CONSTANTS
    NumFrames = 2
    PipeSize = 1
    MaxStarts = 1
INVARIANTS TransitInv EndsClean 
PROPERTIES Terminates SignalEnds
CHECK_DEADLOCK FALSE

SPECIFICATION FairSpec
CONSTANTS
    Options <- MCOptions
    Sources <- MCSources
    MaxPackets = 4
    Chunk = 8
    AUDIO_DELTA = 1
    audio_per_frame_num = 7
    audio_per_frame_den = 2
    frame_num = 1
    max_polls = 1
INVARIANTS TypeOK TagMatches AudioBounds FrameComplete AudioIntact EndIsReal
PROPERTIES Ends
CHECK_DEADLOCK FALSE

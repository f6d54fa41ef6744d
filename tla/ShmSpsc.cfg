SPECIFICATION FairSpec
CONSTANTS
    Writers = {w1}
    Readers = {r1}
    ele_count = 7
    RESERVE_BLOCK_COUNT = 3
    Lens = {1, 2}
    BufNodes = 2
    ConflictExpires = FALSE
    MaxPuts = 7
    Torn = Torn
CHECK_DEADLOCK FALSE
INVARIANT TypeOK
INVARIANT EmptyMeansDelivered
INVARIANT NoWriteAfterRead
PROPERTY Fifo
PROPERTY EventuallyDelivered

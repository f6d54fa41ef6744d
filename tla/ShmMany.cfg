SPECIFICATION Spec
CONSTANTS
    Writers = {w1, w2}
    Readers = {r1, r2}
    ele_count = 5
    RESERVE_BLOCK_COUNT = 1
    Lens = {1}
    BufNodes = 1
    ConflictExpires = FALSE
    MaxPuts = 3
    Torn = Torn
CHECK_DEADLOCK FALSE
PROPERTY Fifo

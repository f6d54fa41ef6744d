SPECIFICATION Spec
CONSTANTS
    Writers = {w1}
    Readers = {r1}
    ele_count = 4
    RESERVE_BLOCK_COUNT = 1
    Lens = {1, 2, 3}
    BufNodes = 2
    ConflictExpires = TRUE
    MaxPuts = 7
    Torn = Torn
CHECK_DEADLOCK FALSE
PROPERTY WindowSafe
INVARIANT FreshWhenQuiet

SPECIFICATION Spec
CONSTANTS
    ByteBits = 2
    InitBits = 3
    MaxBits = 4
    Group = 2
    CheckGap = 2
    Slack = 2
    Cap = 2
    Chunks = {0, 1, 2}
    Rooms = {0, 1, 2}
    Truncated = {"rle", "packbits", "rle90", "lzw", "crunch", "squash"}
    MaxWire = 3
INVARIANT ClearSurvivesCut
CHECK_DEADLOCK FALSE

SPECIFICATION Spec
CONSTANTS
    ByteBits = 2
    InitBits = 3
    MaxBits = 4
    Group = 2
    CheckGap = 2
    Slack = 2
    Cap = 1
    Chunks = {0, 1, 2, 3, 4, 5, 6}
    Rooms = {0, 1, 2, 3}
    Truncated = {"rle", "packbits", "rle90", "lzw", "crunch", "squash"}
    MaxWire = 3
INVARIANT ShortInputOnly
CHECK_DEADLOCK FALSE

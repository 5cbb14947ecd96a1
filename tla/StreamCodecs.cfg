SPECIFICATION Spec
CONSTANTS
    PlainBytes = {1, 3}
    MaxPlain = 6
    Chunks = {0, 1, 2}
    Rooms = {0, 1, 2, 3}
    Truncated = {"rle", "packbits", "rle90", "lzw", "crunch", "squash", "lzma", "huffman", "range", "squeeze"}
    MaxCount = 3
    Half = 4
    MinRun = 3
    Flag = 3
    MinRun90 = 3
    MaxRun90 = 4
    WireBytes = {0, 1, 3, 4, 6}
    MaxWire = 4
    ByteBits = 2
    InitBits = 3
    MaxBits = 4
    Group = 2
    CheckGap = 2
    Slack = 2
    Cap = 1
    LevelUnit = 5
    RetryPart = 2
    MaxSelectors = 6
    BcChunks = {1}
    BcRooms = {2, 60}
    BcAsked = 1
    LzChunks = {1}
    LzRooms = {1, 40}
    LzwMaxWire = 3
    LzwChunks = {0, 1, 2}
    LzwRooms = {0, 1, 3, 8}
INVARIANTS DecodesToPlain FollowsFormat
PROPERTIES StopsForRoom
CHECK_DEADLOCK FALSE

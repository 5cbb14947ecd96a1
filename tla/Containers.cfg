SPECIFICATION Spec
CONSTANTS
    ByteBits = 2
    MaxCode = 4
    Cap = 5
    WinCap = 3
    LenBits = 2
    BlockSize = 3
    WindowMax = 8
    Strategies = {"lz77", "stored"}
    Chunks = {1}
    Rooms = {2}
    Truncated = {"xz", "lzma2"}
    Dict = 4
    ChunkMax = 6
    CompCap = 4
    Slice = 4
    InRequired = 2
    XzRooms = {1, 2}
    XzAsked = 2
    EmBlock = 6
    Ample = 20
    EmRooms = {1, 3}
    MaxAsked = 1
INVARIANTS DecodesToPlain FollowsFormat FullFlushRestarts
PROPERTIES StopsForRoom FlushDelivers
CHECK_DEADLOCK FALSE

SPECIFICATION Spec
CONSTANTS
    BlockSize = 24
    SmallFrame = 8
    LargeFrame = 24
    Levels = {"fast", "hc", "optimal"}
    WindowSize = 8
    StoreSize = 9
    LzoBlockSize = 25
    InputChunk = 6
    Slack = 3
    Chunks = {2}
    Rooms = {1, 4, 40}
    ByteBits = 4
    Truncated = {"lz4", "lz4_frame", "lz5", "lzo", "snappy", "lzf", "lzs", "xpress", "adc", "lznt1", "lzss"}
    MaxAsked = 2
INVARIANTS DecodesToPlain FollowsFormat FullFlushRestarts
PROPERTIES StopsForRoom FlushDelivers
CHECK_DEADLOCK FALSE

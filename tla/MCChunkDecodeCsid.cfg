CONSTANTS
    Csids = {65560}
    MediaTypes = {9}
    StreamIds = {1}
    Timestamps = {0}
    MaxLen = 3
    MaxMsgs = 1
    DefaultChunk = 2
    ChunkSizes = {2}
    None = None
SPECIFICATION Spec
INVARIANT FramingKept
CHECK_DEADLOCK FALSE

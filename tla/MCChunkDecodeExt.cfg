CONSTANTS
    Csids = {4}
    MediaTypes = {9}
    StreamIds = {1}
    Timestamps = {16777215, 16777216}
    MaxLen = 3
    MaxMsgs = 2
    DefaultChunk = 2
    ChunkSizes = {2}
    None = None
SPECIFICATION Spec
INVARIANT FramingKept
CHECK_DEADLOCK FALSE

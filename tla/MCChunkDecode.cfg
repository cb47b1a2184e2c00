CONSTANTS
    Csids = {4, 6}
    MediaTypes = {9}
    StreamIds = {1}
    Timestamps = {0, 40}
    MaxLen = 3
    MaxMsgs = 3
    DefaultChunk = 2
    ChunkSizes = {1, 3}
    None = None
SPECIFICATION Spec
INVARIANT TypeOK
INVARIANT FramingKept
INVARIANT MessagesIntact
PROPERTY MessagesEventuallyReturned
CHECK_DEADLOCK FALSE

CONSTANTS
    p1 = p1
    p2 = p2
    Players <- MCPlayers
    Tags <- MCTags
    QueueCap = 1
    MaxPackets = 3
    NoPacket = NoPacket
SPECIFICATION Spec
SYMMETRY PlayerSymmetry
INVARIANT TypeOK
INVARIANT LiveFramesContiguous
INVARIANT HeadersBeforeFrames
PROPERTY FanoutRefinesLiveStream
CHECK_DEADLOCK FALSE

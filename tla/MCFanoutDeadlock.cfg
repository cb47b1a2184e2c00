CONSTANTS
    p1 = p1
    p2 = p2
    Players = {p1}
    Tags <- MCFrameTags
    QueueCap = 1
    MaxPackets = 2
    NoPacket = NoPacket
SPECIFICATION Spec
CHECK_DEADLOCK FALSE
PROPERTY LeavingPlayerReleased

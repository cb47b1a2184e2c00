CONSTANTS
    Kinds = {"play", "createStream"}
    MaxMsgs = 2
    MaxPackets = 1
    MaxInbox = 1
    MaxPlayMsgs = 1
SPECIFICATION Spec
INVARIANT WireFramed
CHECK_DEADLOCK FALSE

CONSTANTS
    ClientKinds = {"simple", "complex772", "complex8", "nodigest", "badversion"}
    Kinds = {"connect", "connectNoApp", "connectBadTxn", "createStream",
             "publish", "publishNoStream", "play", "playNoStream",
             "av", "avBad", "data", "dataBad", "commandBad", "control", "eof"}
    MaxMsgs = 3
    MaxPackets = 1
    MaxInbox = 1
    MaxPlayMsgs = 1
SPECIFICATION Spec
INVARIANT ConformingClientAccepts
PROPERTY HandshakeGoroutineEnds
VIEW ServeView
CONSTRAINT WireFramed
CHECK_DEADLOCK FALSE

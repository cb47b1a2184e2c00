CONSTANTS
    LocalChunkSize = 2
    MaxLen = 5
    MaxMsgs = 3
    Timestamps <- MCU32
    AvTimestamps <- MCTimestamps
    TsModulus <- MCTsModulus
    Csids = {4, 6}
    Types = {8, 9}
SPECIFICATION PlayerSpec
INVARIANT PlayerTypeOK
INVARIANT PayloadOnceInOrder
INVARIANT AvTimestampsMonotonic
CHECK_DEADLOCK FALSE

CONSTANTS
    LocalChunkSize = 2
    MaxLen = 5
    MaxMsgs = 2
    Timestamps = {0}
    AvTimestamps = {0}
    TsModulus <- MCTsModulus
    Csids = {4, 6}
    Types = {8, 9}
SPECIFICATION PlayerSpec
INVARIANT MatchesReference
CHECK_DEADLOCK FALSE

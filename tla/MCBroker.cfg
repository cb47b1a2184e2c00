CONSTANTS
    c1 = c1
    c2 = c2
    c3 = c3
    q1 = q1
    q2 = q2
    Pubs = {c1, c2}
    Players = {q1}
    MaxSessions = 2
    NoConn = NoConn
SPECIFICATION Spec
PROPERTY GraceRemoval
CHECK_DEADLOCK FALSE

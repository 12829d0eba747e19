SPECIFICATION LiveSpec
CONSTANTS
    Requests = {q1, q2}
    MaxConns = 3
    MaxRows = 2
INVARIANT TypeOK
INVARIANT PoolClosedLast
PROPERTY ProcessEnds
PROPERTY BootstrapEnds

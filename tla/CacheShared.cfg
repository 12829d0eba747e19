SPECIFICATION WSpec
CONSTANTS
    Threads = {t1, t2}
    Keys = {k1, k2, k3}
    Values = {v1, v2}
    NoUID = NoUID
    None = None
    Miss = Miss
    Ok = Ok
    ErrInvalidOrder = ErrInvalidOrder
    capacity = 2
    TTL = 1
    MaxTime = 2
    Main = t1
    Dates = {1, 2}
    MaxN = 3
SYMMETRY Symmetry
INVARIANT TypeOK
INVARIANT IndexMatchesList
INVARIANT RecentlyUsedKept
INVARIANT WarmedWithLatest
PROPERTY NoHitAfterTTL
PROPERTY InsertDropsIdle
PROPERTY ImplementsLossyMap

SPECIFICATION PSpec
CONSTANTS
    Threads = {t1}
    UIDs = {1, 2, 3}
    Customers = {c1, c2}
    Trans = {1, 2, 3}
    Revs = {1, 2}
    None = None
    NoCustomer = NoCustomer
    Missing = Missing
    NotInt = NotInt
    Queries <- MCQueries
    defaultLimit = 1
    maxLimit = 2
    repoLimit = 2
    DateOf <- MCDateOf
    TranOf <- MCTranOf
    MaxSaves = 2
SYMMETRY Symmetry
INVARIANT PTypeOK
INVARIANT PageInOrder
INVARIANT PageIsCommitted
INVARIANT NothingMissed
INVARIANT NothingTwice

SPECIFICATION SSpec
CONSTANTS
    Saver = s
    Readers = {g1}
    Threads = {s, g1}
    UIDs = {u1}
    Customers = {c1}
    Trans = {x1, x2}
    Revs = {r1, r2}
    None = None
    NoCustomer = NoCustomer
SYMMETRY Symmetry
INVARIANT STypeOK
INVARIANT CachedWasCommitted
INVARIANT CacheCurrent

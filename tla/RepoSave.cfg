SPECIFICATION LiveSpec
CONSTANTS
    Threads = {t1, t2}
    UIDs = {u1, u2}
    Customers = {c1}
    Trans = {x1}
    Revs = {r1, r2}
    None = None
    NoCustomer = NoCustomer
INVARIANT TypeOK
INVARIANT OrdersWhole
INVARIANT TransUnique
INVARIANT SaveIdempotent
INVARIANT ReadIsCommitted
INVARIANT NoCircle
PROPERTY ImplementsStore
PROPERTY CallsReturn

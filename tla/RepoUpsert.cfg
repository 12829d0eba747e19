SPECIFICATION Spec
CONSTANTS
    Threads = {t1}
    UIDs = {u1}
    Customers = {c1}
    Trans = {x1, x2}
    Revs = {r1}
    None = None
    NoCustomer = NoCustomer
PROPERTY AllPartsUpserted

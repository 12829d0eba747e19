SPECIFICATION Spec
CONSTANTS
    UIDs = {u1, u2}
    Trans = {x1, x2}
    None = None
    maxInt4 = 1
    maxInt8 = 2
    MaxLines = 2
SYMMETRY Symmetry
INVARIANT ITypeOK
INVARIANT ExitOkMeansAllSent
INVARIANT SameRules
INVARIANT RefusedInGap
INVARIANT StoredIsOrder

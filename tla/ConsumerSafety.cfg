SPECIFICATION Spec
CONSTANTS
    Kinds = {"good", "invalid", "malformed"}
    StartOffset = "last"
    RetryInitial = 1
    RetryMax = 3
    MaxInt = 8
    MaxLog = 3
    MaxFaults = 2
    MaxRebalances = 1
INVARIANT TypeOK
INVARIANT NoSilentSkip
PROPERTY CommitsMonotone
PROPERTY ImplementsDelivery

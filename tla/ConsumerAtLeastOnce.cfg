SPECIFICATION Spec
CONSTANTS
    Kinds = {"good"}
    StartOffset = "first"
    RetryInitial = 1
    RetryMax = 3
    MaxInt = 8
    MaxLog = 2
    MaxFaults = 0
    MaxRebalances = 0
INVARIANT AtLeastOnce

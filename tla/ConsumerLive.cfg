SPECIFICATION RunSpec
CONSTANTS
    Kinds = {"good", "invalid"}
    StartOffset = "first"
    RetryInitial = 1
    RetryMax = 3
    MaxInt = 8
    MaxLog = 2
    MaxFaults = 2
    MaxRebalances = 1
PROPERTY RunReturns
PROPERTY EveryMessageHandled

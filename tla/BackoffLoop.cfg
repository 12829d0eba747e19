SPECIFICATION Spec
CONSTANTS
    MaxInt = 15
    PauseMax = 3
    MaxFails = 4
PROPERTY DelaysFollowFailures

SPECIFICATION LifeFairSpec
CONSTANTS
    MaxTotal = 1
    MaxReceived = 5
    MaxFailures = 2
PROPERTIES
    EvictionEnds
CHECK_DEADLOCK FALSE

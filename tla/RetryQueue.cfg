SPECIFICATION FairSpec
CONSTANTS
    Capacity = 2
    MaxAge = 1
    MaxMessages = 4
    MaxNow = 4
PROPERTIES
    ImplementsOutbox
    Drains
CHECK_DEADLOCK FALSE

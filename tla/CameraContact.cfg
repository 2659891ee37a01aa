SPECIFICATION FairContactSpec
CONSTANTS
    Threshold = 7
    RetryStart = 2
    RetryMax = 9
    Jitter = 1
    MaxPass = 1
    MaxBlocked = 1
PROPERTIES
    AnsweringIsNotOffline
    DeafIsNoticed

SPECIFICATION FairPollSpec
CONSTANTS
    Users = {"ann", "bob"}
    Window = 1
    ClockRange = 4
    MaxUpdates = 3
    MaxBatch = 2
    MaxFailures = 1
INVARIANTS
    NoUpdateSkipped
    RepeatsNeedFailure
PROPERTIES
    RestoreWasAskedFor
    EventuallyHandled
CHECK_DEADLOCK FALSE

SPECIFICATION FairSpec
CONSTANTS
    Names = {"yard"}
    MaxCameras = 2
    MaxTasks = 2
INVARIANTS
    OneTaskIfOrderly
    MonitoredAsSaved
PROPERTIES
    DisabledGoesQuiet
CHECK_DEADLOCK FALSE

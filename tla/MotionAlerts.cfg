SPECIFICATION FairSpec
CONSTANTS
    Self = "porch"
    Others = {"yard"}
    Cooldown = 2
    Window = 2
    MaxAge = 3
    MaxCount = 2
INVARIANTS
    DigestFollowsAlert
    WindowHoldsCameras
PROPERTIES
    CooldownSpacing
    DigestCycleEnds

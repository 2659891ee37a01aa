SPECIFICATION AlertSpec
CONSTANTS
    MaxDelay = 3
INVARIANTS
    CommandStands
    PrefLagsOneCommand

SPECIFICATION Spec
CONSTANTS
    Pins = {4, 26}
    NvsFails = TRUE
INVARIANTS
    ActivePinsDisjoint
    PagesStoreWhatStarts

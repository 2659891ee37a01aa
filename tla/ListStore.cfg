SPECIFICATION Spec
CONSTANTS
    Kinds = {"camera", "user"}
    Names = {1, 2}
    ChunkPieces = 4
    MaxRecords = 2
    MaxChanges = 2
    MaxFaults = 1
INVARIANTS
    SavesAreWhole
    KeysAreUnique
    RestoreUndoesImport
    RecordsUpgrade
    FormsKeepSettings
CHECK_DEADLOCK FALSE

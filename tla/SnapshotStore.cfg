SPECIFICATION Spec
CONSTANTS
    Cameras = {c1, c2}
    Gone = gone
    Card = 7
    Reserve = 4
    Smallest = 1
    Largest = 2
    Cap = 3
    PruneMax = 2
    RingSize = 2
    GlobalDays = 1
    Before = 3
    MaxOnCard = 2
    MaxPhotos = 3
    MaxTime = 2
    MaxFaults = 1
INVARIANTS
    CardBounded
    
    RingKeepsNewest
PROPERTIES
    DeletionsAreOld
    BootSeesCut
CHECK_DEADLOCK FALSE
SYMMETRY CameraSymmetry

SPECIFICATION Spec
CONSTANTS
    Pages = {p1, p2, p3}
    Inserters = {"writer"}
    Trimmers = {}
    Poppers = {"faulter"}
    BatchPoppers = {"refresher"}
    Rescuers = {"user"}
    MaxBatch = 2
    None = None
SYMMETRY Symmetry
INVARIANTS
    TypeOK
    LinksMatch
    RemovesBetweenNeighbours
    PopsOldest
    WalksOntoFrames
    WalkKeepsToSection
    NoCircularWait

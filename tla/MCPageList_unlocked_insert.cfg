SPECIFICATION Spec
CONSTANTS
    Pages = {p1, p2, p3}
    Inserters = {}
    Trimmers = {"trimmer"}
    Poppers = {}
    BatchPoppers = {"refresher"}
    Rescuers = {}
    MaxBatch = 2
    None = None
SYMMETRY Symmetry
INVARIANT WalksOntoFrames

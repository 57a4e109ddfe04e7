SPECIFICATION Spec
CONSTANTS
    NumVAs = 2
    Pages = {p1, p2}
    Slots = {s1, s2, s3}
    Users = {u1}
    TrimAccessed = {TRUE, FALSE}
    Zero = Zero
    None = None
SYMMETRY Symmetry
INVARIANTS
    TypeOK
    NoDataLoss
    MappingsCurrent
    FramesExclusive
    PageLocksOwned
    StablePTEsOwnActiveFrames
    ListsConsistent
    FramesAccounted
    TransitionsRescuable
    SlotsAccounted
    SlotsSuffice
    FrameAssertions
PROPERTY ChangeRightRespected

SPECIFICATION Spec
CONSTANTS
    Frames = {f1, f2, f3}
    Users = {"user"}
    RingSize = 2
    BatchSize = 2
    StandbyHigh = 0
    ZeroLow = 1
    FreeLow = 1
    NoFrame = NoFrame
INVARIANTS
    TypeOK
    FramesOnce
    ZeroListsZeroed
    CountersCover
    SlotsCounted
    NoSlotForgotten
SYMMETRY Symmetry

SPECIFICATION Spec
CONSTANTS
    Frames = {f1, f2}
    Users = {"user"}
    AccessedBelow = 1
    TrimBelow = 1
    WriterHigh = 1
PROPERTY WaitersServed
CHECK_DEADLOCK FALSE

SPECIFICATION FairSpec
CONSTANTS
    NumVAs = 1
    Pages = {p1}
    Slots = {s1, s2}
    Users = {u1, u2}
    TrimAccessed = {TRUE}
    Zero = Zero
    None = None
PROPERTIES
    LocksReleased
    MarkedPagesPlaced
    ChangeRightsReturned

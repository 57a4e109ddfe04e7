SPECIFICATION Spec
CONSTANTS
    NumVAs = 1
    Pages = {p1}
    Slots = {s1, s2}
    Users = {u1}
    TrimAccessed = {TRUE}
    Zero = Zero
    None = None
SYMMETRY Symmetry
INVARIANT NothingLost

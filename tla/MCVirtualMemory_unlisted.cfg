SPECIFICATION Spec
CONSTANTS
    NumVAs = 1
    Pages = {p1, p2}
    Slots = {s1, s2}
    Users = {u1, u2}
    TrimAccessed = {TRUE}
    Zero = Zero
    None = None
SYMMETRY Symmetry
PROPERTY UnlinksListed

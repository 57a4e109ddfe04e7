SPECIFICATION Spec
CONSTANTS
    NumVAs = 2
    Pages = {p1, p2}
    Slots = {s1, s2, s3}
    Users = {u1}
    TrimAccessed = {TRUE}
    Zero = Zero
    None = None
SYMMETRY Symmetry
INVARIANT ReadsOwnContent

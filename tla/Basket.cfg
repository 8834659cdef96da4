SPECIFICATION BasketSpec
CONSTANTS
    Pages = {p1, p2}
    PageContents = {c1, c2}
    Sessions = {s1, s2}
    None = None
    MaxItems = 3
    MaxChanges = 1
SYMMETRY Symmetry
INVARIANT PackageIsCurrent
CHECK_DEADLOCK FALSE

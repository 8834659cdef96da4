SPECIFICATION LinksSpec
CONSTANTS
    Pages = {p1, p2}
    PageContents = {c}
    Anchors = {a}
    Sessions = {s1, s2}
    None = None
    MaxLinks = 2
    MaxChanges = 1
SYMMETRY Symmetry
INVARIANTS
    LinksHaveTargets
CHECK_DEADLOCK FALSE

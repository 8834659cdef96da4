SPECIFICATION Spec
CONSTANTS
    Objects = {o1, o2, o3}
    Sessions = {s1, s2}
    Contents = {c1, c2}
    None = None
    MaxRevisions = 4
SYMMETRY Symmetry
INVARIANTS
    RevisionIsContent
    ConfirmedWasRead
    CirclesNeedARace
    SuccessorsExist
CHECK_DEADLOCK FALSE

CONSTANTS
    Sessions = {s1, s2}
    Questions = {q1, q2}
    None = None
    MaxEntries = 3
    MaxDeletions = 2
SYMMETRY Symmetry
SPECIFICATION MemorySpec
INVARIANT CopiesTakeARace
PROPERTY DestroyedWasDeleted
CHECK_DEADLOCK FALSE

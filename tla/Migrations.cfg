SPECIFICATION MigrationSpec
CONSTANTS
    Processes = {app, batch}
    PageIds = {p}
    Items = {i}
    Objects = {o}
    Entries = {e1, e2}
    None = None
    MaxErrors = 1
SYMMETRY Symmetry
INVARIANTS
    NothingLost
    FailsOnlyIfDisturbed
PROPERTIES
    KeepsLibrary
    BackedUp
CHECK_DEADLOCK FALSE

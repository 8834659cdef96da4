SPECIFICATION Spec
CONSTANTS
  Items = {original, markdown}
  Originals = {original}
  Versions = {v1, v2}
  First = v1
  None = None
  Backups = {1, 2, 3}
  MaxEdits = 2
  MaxCrashes = 1
  MaxFaults = 2
INVARIANTS BackupsAreWhole LibraryKept RestoredIsBackup
CHECK_DEADLOCK FALSE

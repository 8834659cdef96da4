SPECIFICATION MCSpec
CONSTANTS
  Sessions = {s1, s2}
  Pages = {p1}
  Targets = {t1}
  Contents = {c1, c2}
  NoText = NoText
  Unsure = Unsure
  MaxWrites = 4
  WritesBesideClasses = 1
  MaxCrashes = 1
  MaxFaults = 1
SYMMETRY Symmetry
INVARIANTS SavedIsStored RecognisedWithoutError
PROPERTY BatchAsPreviewed
CHECK_DEADLOCK FALSE

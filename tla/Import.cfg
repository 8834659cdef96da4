SPECIFICATION FairSpec
CONSTANTS
  Sessions = {s1, s2}
  PageCount = 2
  MaxCrashes = 1
  MaxFaults = 1
INVARIANTS ImportedIsWhole AnswerIsTrue
PROPERTIES KeepsPromise
CHECK_DEADLOCK FALSE

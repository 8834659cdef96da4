SPECIFICATION MCSpec
CONSTANTS
  Sessions = {s1, s2}
  PageCount = 2
  Texts = {a, b}
  NoText = NoText
  Models = {m1, m2}
  None = None
  MaxAsks = 1
  MaxEdits = 1
  MaxCrashes = 1
  MaxFaults = 1
INVARIANTS ReadMeansReady ProgressIsSaved AnswersFromRead
PROPERTY ReadUpToTheGap
CHECK_DEADLOCK FALSE

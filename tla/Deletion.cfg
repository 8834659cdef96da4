SPECIFICATION FairSpec
CONSTANTS
  d1 = d1
  d2 = d2
  raw = raw
  md = md
  v0 = v0
  v1 = v1
  Docs = {d1, d2}
  Paths = {raw, md}
  FilesOf <- MCFilesOf
  Editable = {md}
  Contents = {v0, v1}
  RawContent = v0
  Missing = Missing
  NoManifest = NoManifest
  Ops = {o1, o2}
  Sessions = {s1, s2}
  Overlap = {"import"}
  MaxCrashes = 2
  MaxFaults = 2
INVARIANTS LivingFilesKept NoOrphans
PROPERTIES NothingOverwritten Settled
CHECK_DEADLOCK FALSE

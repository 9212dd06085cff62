SPECIFICATION PassesSpec
CONSTANTS
  Clients = {c1}
  Writers = {w1}
  Blocks = {b1, b2}
  InitialTrees <- OneFile
  HistoryLimit = 0
  HistoryTtl = 0
  MinBlockAge = 2
  MaxUploadTime = 1
  MaxSkew = 0
  ReuseGarbage = FALSE
  MaxTime = 2
  MaxCommits = 3
  MaxPasses = 1
  MaxAbandoned = 0
SYMMETRY Perms
CHECK_DEADLOCK FALSE
INVARIANTS TypeOK HistoryKept RetainedTreesKept
PROPERTIES LateRootsKept PassCollects

SPECIFICATION Spec
CONSTANTS
  Clients = {}
  Writers = {w1}
  Blocks = {b1, b2}
  InitialTrees <- OneFile
  HistoryLimit = 0
  HistoryTtl = 1
  MinBlockAge = 2
  MaxUploadTime = 1
  MaxSkew = 1
  ReuseGarbage = FALSE
  MaxTime = 3
  MaxCommits = 3
  MaxPasses = 1
  MaxAbandoned = 0
SYMMETRY Perms
CHECK_DEADLOCK FALSE
INVARIANTS HeadRetained

SPECIFICATION Spec
CONSTANTS
  Clients = {}
  Writers = {w1}
  Blocks = {b1, b2, b3}
  InitialTrees <- NoFile
  HistoryLimit = 2
  HistoryTtl = 0
  MinBlockAge = 2
  MaxUploadTime = 2
  MaxSkew = 0
  ReuseGarbage = FALSE
  MaxTime = 2
  MaxCommits = 4
  MaxPasses = 1
  MaxAbandoned = 0
SYMMETRY Perms
CHECK_DEADLOCK FALSE
INVARIANTS HeadRetained

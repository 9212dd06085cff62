SPECIFICATION Spec
CONSTANTS
  Clients = {}
  Writers = {w1, w2}
  Names = {a, b}
  Dirs = {root}
  Root = root
  DirOf <- FlatDirs
  Versions = {v1, v2}
  Absent = Absent
  CommitIds = {k1, k2, k3, k4, k5, k6}
  NoCommit = NoCommit
  Nobody = Nobody
  MAX_BRANCH_RETRY = 1
  MaxRequests <- OneEach
  MaxLost = 0
SYMMETRY Perms
PROPERTIES RestNoLostUpdate
CHECK_DEADLOCK FALSE

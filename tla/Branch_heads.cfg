SPECIFICATION HeadsSpec
CONSTANTS
  Clients = {c1}
  Writers = {w1, w2}
  Names = {a, b}
  Dirs = {root, sub}
  Root = root
  DirOf <- SplitDirs
  Versions = {v1}
  Absent = Absent
  CommitIds = {k1, k2, k3, k4, k5, k6, k7, k8, k9}
  NoCommit = NoCommit
  Nobody = Nobody
  MAX_BRANCH_RETRY = 1
  MaxRequests <- OneEach
  MaxLost = 1
  SyncClients = {c1, c2}
  SyncNames = {a}
  SyncVersions = {v1, v2}
INVARIANTS HeadIsStored AckedInHistory
PROPERTIES HeadAdvances SyncNoLostUpdate SyncUploadLands RequestsAreAnswered

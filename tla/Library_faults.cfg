SPECIFICATION FaultsSpec
CONSTANTS
  Requests = {r1}
  Writers = {w1, w2}
  Operations <- DeleteRestore
  Sweeping = FALSE
  OtherRestored = FALSE
  RetryFirst = TRUE
  MaxCommits = 3
  MaxDeletes = 2
  MaxFailures = 3
INVARIANT ContentReachable
INVARIANT HeadReadable
PROPERTY RestoreSettles
PROPERTY SpaceReclaimed
CHECK_DEADLOCK FALSE

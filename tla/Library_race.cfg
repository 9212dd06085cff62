SPECIFICATION Spec
CONSTANTS
  Requests = {r1, r2}
  Writers = {}
  Operations <- OnlyDelete
  Sweeping = FALSE
  OtherRestored = FALSE
  RetryFirst = TRUE
  MaxCommits = 1
  MaxDeletes = 2
  MaxFailures = 0
INVARIANT ContentReachable
CHECK_DEADLOCK FALSE

SPECIFICATION FairSpec
CONSTANTS
  Runs = {r1, r2, r3, r4}
  NoRun = NoRun
  Repos = {p}
  Jobs = {"reindex", "gc"}
  MaxActive = 2
  MaxRetained = 1
  Budgets <- MCBudgets
INVARIANTS TypeOK ActiveIsDriven DedupHolds NotReplayed
PROPERTIES RecoverySparesTheLiving DurableWorkKept WorkSettles
CHECK_DEADLOCK FALSE

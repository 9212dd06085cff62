SPECIFICATION Spec
CONSTANTS
  Tasks = {t1, t2}
  Mode = "off"
  Legacy <- PlainOnly
  Operations <- AskAndRemove
  MaxTasks = 2
  MaxCrashes = 0
INVARIANTS NoStaleExists
CHECK_DEADLOCK FALSE

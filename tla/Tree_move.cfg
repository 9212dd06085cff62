SPECIFICATION Spec
CONSTANTS
  InitialTree <- TwoFolders
  Names = {"x", "y"}
  Careful = FALSE
  MaxOps = 1
PROPERTY MovesKeepContent
CHECK_DEADLOCK FALSE

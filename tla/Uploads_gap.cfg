SPECIFICATION Spec
CONSTANTS
  Files = {f1}
  NChunks = 2
  MaxUploads = 2
  Quota = 9
  InitialSize = 1
  MaxTroubles = 1
  Disturbed = TRUE
INVARIANT UploadsWhole
CHECK_DEADLOCK FALSE

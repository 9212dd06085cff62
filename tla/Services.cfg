SPECIFICATION ServicesSpec
CONSTANTS
  Transfers = {f1, f2, f3}
  FewTransfers = {f1, f2}
  Messages = {m1}
  Requests = {a}
  MaxAttempts = 2
  SlowSends = FALSE
  MaxFaults = 1
  MaxRestarts = 1
  MaxOrders = 2
  Tasks = {t1, t2}
  Names = {"a"}
  SubNames = {"x", "y"}
  Versions = {1, 2, 3}
INVARIANTS
  TypeOK UploadsWhole UploadsSized MailOnce
  MergeLosesNothing MergeRevivesNothing
  MergeCommutes MergeFlagsHonest
  BlocksStored BlockHasOneCreator
  TreeNamesUnique  WebDavDone
PROPERTIES
  UploadsReleased MailSentIsFinal MailDrains BlocksNeverWorse NothingVanishes
CHECK_DEADLOCK FALSE

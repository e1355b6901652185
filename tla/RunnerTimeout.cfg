\* A program that never reads its input.
SPECIFICATION FairSpec
CONSTANTS
  Tools <- NeverReads
  Inputs = {"exceeds"}
  PipeSize = 2
  ByteLimit = 2
  MaxCancels = 0
PROPERTY TimeoutCoversInvocation
CHECK_DEADLOCK FALSE

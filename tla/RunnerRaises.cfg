\* A program that closes its input unread.
SPECIFICATION FairSpec
CONSTANTS
  Tools <- ClosesStdin
  Inputs = {"exceeds"}
  PipeSize = 2
  ByteLimit = 2
  MaxCancels = 0
INVARIANT RaisesOnlyIfCancelled
CHECK_DEADLOCK FALSE

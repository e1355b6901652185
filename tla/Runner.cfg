\* Every kind of program, quiet or loud, cancelled up to twice.
SPECIFICATION FairSpec
CONSTANTS
  Tools <- Any
  Inputs = {"none", "fits", "exceeds"}
  PipeSize = 2
  ByteLimit = 2
  MaxCancels = 2
INVARIANTS RunnerTypeOK NoProcessLeftRunning CompletedIsGenuine
PROPERTIES RunEnds CancellationEnds
CHECK_DEADLOCK FALSE

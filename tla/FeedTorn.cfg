\* A forced refresh is cut short, then the cache is updated again.
SPECIFICATION Spec
CONSTANTS
  Order <- OneSource
  Contents <- Served
  Disabled = {}
  Conditional = {}
  MAX_RETRIES = 1
  MaxCommands = 3
INVARIANT AtomicWrites
CHECK_DEADLOCK FALSE

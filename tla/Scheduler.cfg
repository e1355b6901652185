\* Every graph over three names and two over four, interrupted at any moment.
SPECIFICATION FairSpec
CONSTANTS
  a = a
  b = b
  c = c
  d = d
  Stages = {a, b, c, d}
  Dags <- GraphsAndForks
  MaxParallel = 2
  MaxRetries <- RetryA
  Outcomes <- ThreeOutcomes
  Interruptible = TRUE
INVARIANTS TypeOK DependencyOrder SlotDiscipline RetryDiscipline ResultsAgree
PROPERTIES AcyclicRunsEnd CancelIsFinal PromiseKept
CHECK_DEADLOCK FALSE

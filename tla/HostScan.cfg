\* Every stage, on a host that answers and on one where nothing runs.
SPECIFICATION Spec
CONSTANTS
  Stages <- AllStages
  Grounds = {"ok", "missing", "timeout", "broken"}
  NewsBound = 2
INVARIANTS HostTypeOK NoAlarmFromSilence FallbackServes LossIsTold
CHECK_DEADLOCK FALSE

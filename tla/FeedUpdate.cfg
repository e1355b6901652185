\* Two enabled sources, one of them with a configured ETag, two commands.
SPECIFICATION FairSpec
CONSTANTS
  Order <- ThreeSources
  Contents <- Served
  Disabled = {"epss"}
  Conditional = {"cisa_kev"}
  MAX_RETRIES = 2
  MaxCommands = 2
INVARIANTS FeedTypeOK EachSourceAsReported ReturnedIsVerified RowsMatchEntries
PROPERTIES UpdateEnds
CHECK_DEADLOCK FALSE

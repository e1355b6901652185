\* A scan with two plugins whose handlers may do anything to the registry and
\* the lists.
SPECIFICATION FairSpec
CONSTANTS
  Plugin = {"a", "b"}
  HookPoint = {"after_vulnerability_lookup","after_correlation","after_finding"}
  HooksOf <- TwoPlugins
  MaxOps = 3
  Key = {"port", "cve", "junk"}
  Produced <- NothingOrOne
  Matches <- MaybeCve
  Malformed = {"junk"}
  MaxChanges = 3
INVARIANTS OSTypeOK EveryHandlerServed EveryPassSeesAll
PROPERTIES NoStrayHandlers ScanEnds
CHECK_DEADLOCK FALSE

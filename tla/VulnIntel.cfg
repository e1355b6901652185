\* Two threads look up and reload while the files change, once to no JSON.
SPECIFICATION Spec
CONSTANTS
  Thread = {t1, t2}
  Batches <- AllBatches
  LookedUp <- AllHosts
  Contents <- ThreeVersions
  MaxFiles = 3
  Malformed = {2}
  MaxResults = 0
INVARIANTS IntelTypeOK ReloadIsSeen RangesAreIntervals
PROPERTIES  ScoresMoveForAReason

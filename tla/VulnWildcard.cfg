\* One lookup in the files as shipped.
SPECIFICATION Spec
CONSTANTS
  Thread = {t1}
  Batches <- AllBatches
  LookedUp <- AllHosts
  Contents <- OneVersion
  MaxFiles = 1
  Malformed = {}
  MaxResults = 0
INVARIANTS WildcardKeepsPrefix

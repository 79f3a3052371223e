SPECIFICATION LiveHistorySpec
CONSTANTS
  a = a
  b = b
  i1 = i1
  r1 = r1
  r2 = r2
  None = None
  Requests = {r1, r2}
  Isas = {a, b}
  Iors = {i1}
  Lists <- TwoLists
  DefaultList <- Single
  RobinModulus = 2
  MissLimit = 2
INVARIANTS TypeOK NoOrphanLookup FailoverBounded WaitersAreServed LookupsCoalesce
PROPERTIES GivesUpAfterAll WaitsEnd CallsEndOnceFound

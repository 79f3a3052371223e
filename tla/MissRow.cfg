SPECIFICATION LiveRowSpec
CONSTANTS
  a = a
  i1 = i1
  r1 = r1
  None = None
  Requests = {r1}
  Isas = {a}
  Iors = {i1}
  Lists <- OneList
  DefaultList <- Single
  RobinModulus = 1
  MissLimit = 5
PROPERTIES RefusedAfterRow

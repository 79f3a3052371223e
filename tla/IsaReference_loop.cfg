SPECIFICATION LiveSpec
CONSTANTS
  a = a
  b = b
  i1 = i1
  r1 = r1
  r2 = r2
  None = None
  Requests = {r1}
  Isas = {a, b}
  Iors = {i1}
  Lists <- OneList
  DefaultList <- Single
  RobinModulus = 2
  MissLimit = 5
PROPERTIES CallsEnd

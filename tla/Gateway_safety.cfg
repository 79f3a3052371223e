SPECIFICATION GatewaySpec
CONSTANTS
  a = a
  b = b
  c1 = c1
  c2 = c2
  w1 = w1
  w2 = w2
  w3 = w3
  None = None
  Requests = {c1, w1}
  Clients = {c1}
  ClientOps = {"connect", "query"}
  Isas = {a, b}
  Iors <- PairIors
  Lists <- PairList
  DefaultList <- Pair
  StartList <- Pair
  RobinModulus = 2
  MissLimit = 1
  MaxIncarnation = 2
  MaxGlitches = 0
INVARIANTS GatewayTypeOK NativeHasThread WatchdogHasRequest

SPECIFICATION LiveGatewaySpec
CONSTANTS
  a = a
  b = b
  c1 = c1
  c2 = c2
  w1 = w1
  w2 = w2
  w3 = w3
  None = None
  Requests = {c1, w1, w2}
  Clients = {c1}
  ClientOps = {"connect"}
  Isas = {a}
  Iors <- SingleIors
  Lists <- OneList
  DefaultList <- Single
  StartList <- Single
  RobinModulus = 1
  MissLimit = 1
  MaxIncarnation = 2
  MaxGlitches = 0
PROPERTIES Recovers

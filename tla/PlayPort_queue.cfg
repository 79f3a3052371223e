SPECIFICATION Spec
CONSTANTS
  r1 = r1
  r2 = r2
  r3 = r3
  p1 = p1
  p2 = p2
  c1 = c1
  c2 = c2
  None = None
  Requests = {r1, r2, r3}
  Ports = {p1, p2}
  Channels = {c1, c2}
  Allowed <- QueuedOps
  MaxFailures = 0
  MaxOverruns = 0
  Rivals = FALSE
INVARIANTS TypeOK QueueConsistent RestingPortsComplete OneChannel
PROPERTIES ImplementsService ChannelGranted
SYMMETRY Symmetry

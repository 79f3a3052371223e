SPECIFICATION MCSpec
CONSTANTS
  Requests = {w}
  MaxInt = 4
  MaxInput = 11
  Omitted = Omitted
  Loads <- AllLoads
INVARIANTS TypeOK RangesFit FragmentsKept
PROPERTIES WipeAsAsked

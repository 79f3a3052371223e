SPECIFICATION LiveSpec
CONSTANTS
  Requests = {r1, r2}
  PoolSize = 1
  MaxRepeats = 1
  None = None
INVARIANTS TypeOK HealthMissesOnlyRunning
PROPERTIES AnsweredIsCarriedOut NativeCallsEnd QueueGoesOn FailureShows

SPECIFICATION FairSpec
CONSTANTS
  MaxCount = 2
  Tolerated = 1
  Failure = 2
  MaxTime = 3
  MaxFailures = 1
INVARIANTS TypeOK PodsAfterClaims SlowClaimsShown
PROPERTY MeasurementEnds
CHECK_DEADLOCK FALSE

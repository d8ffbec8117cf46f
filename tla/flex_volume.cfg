SPECIFICATION FairSpec
CONSTANTS
  c1 = c1
  Claims = {c1}
  Pods = {p1, p2}
  VolumeOf <- OneClaim
  Malformed = {p2}
  Programs = {g1, g2}
  None = none
  MaxOutages = 1
  MaxRestarts = 1
  MaxStarts = 1
INVARIANTS TypeOK RunningPodsSeeShare
PROPERTIES PodsStart TeardownEnds ReleasedDeleted
CHECK_DEADLOCK FALSE

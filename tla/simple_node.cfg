SPECIFICATION Spec
CONSTANTS
  v1 = v1
  v2 = v2
  q1 = q1
  q2 = q2
  Volumes = {v1, v2}
  Pods = {q1, q2}
  VolOf <- OnePodEach
  Handlers = {h1, h2}
  None = none
  MaxTimeouts = 1
  MaxOutages = 1
  MaxCrashes = 1
SYMMETRY Symmetry
INVARIANTS TypeOK Durable ReleasedClean PublishedShowsVolume
CHECK_DEADLOCK FALSE

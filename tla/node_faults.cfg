SPECIFICATION HealthSpec
CONSTANTS
  Pods = {p1, p2}
  Staging = staging
  Handlers = {h1, h2}
  Files = {f1}
  None = none
  MaxTimeouts = 1
  MaxOutages = 1
  MaxCrashes = 1
  Limit = 16
  Capacity = 8
  Statfs <- Answers
SYMMETRY Symmetry
INVARIANTS TypeOK ProbeOK VerdictRight Durable ReleasedClean PublishedShowsShare
PROPERTIES AccessSpec HealthyMeansShare
CHECK_DEADLOCK FALSE

SPECIFICATION FairSpec
CONSTANTS
  Pods = {p1, p2}
  Staging = staging
  Handlers = {h1, h2}
  Files = {f1}
  None = none
  MaxTimeouts = 1
  MaxOutages = 1
  MaxCrashes = 1
PROPERTIES TeardownAcknowledged TeardownCompletes VolumeReleased
CHECK_DEADLOCK FALSE

SPECIFICATION Spec
CONSTANTS
  Pods = {p1, p2}
  Staging = staging
  Handlers = {h1, h2}
  Files = {f1}
  None = none
  MaxTimeouts = 1
  MaxOutages = 0
  MaxCrashes = 0
PROPERTY FailedBindKeepsFiles
CHECK_DEADLOCK FALSE

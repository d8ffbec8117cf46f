SPECIFICATION FairSpec
CONSTANTS
  v1 = v1
  v2 = v2
  s1 = s1
  n1 = n1
  n2 = n2
  Volumes = {v1, v2}
  Shares = {n1}
  Snaps = {s1}
  Handlers = {h1, h2}
  Files = {}
  None = none
  SnapOf <- OfFirst
  Scenarios <- Plain
PROPERTY Provisioned

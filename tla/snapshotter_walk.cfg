SPECIFICATION Spec
CONSTANTS
  N = 5
  Parent <- InFolder
  Folders = {2}
  Links = {4}
  MaxSize = 2
  MaxChanges = 2
  MaxErrors = 0
  MaxCrashes = 2
INVARIANT EveryFileWalked
CHECK_DEADLOCK FALSE

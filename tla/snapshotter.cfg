SPECIFICATION Spec
CONSTANTS
  N = 5
  Parent <- InFolder
  Folders = {2}
  Links = {4}
  MaxSize = 2
  MaxChanges = 2
  MaxErrors = 1
  MaxCrashes = 2
INVARIANTS TypeOK NoShortEntry QuietSnapshotComplete OnlyTailMissing RestoredExactly
CHECK_DEADLOCK FALSE

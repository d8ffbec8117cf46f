SPECIFICATION FairSpec
CONSTANTS
  Names = {1, 2, 3, 4}
  MaxEntries = {0, 1, 2, 3}
  MaxChanges = 3
INVARIANTS TypeOK NoneSkipped NoneRepeated
PROPERTY PagingEnds

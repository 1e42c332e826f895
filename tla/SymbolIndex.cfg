SPECIFICATION Spec
CONSTANTS
  Files = {f1, f2, f3}
  f1 = f1
  f2 = f2
  f3 = f3
  Blacklisted = {f3}
INVARIANTS TypeOK CurrentIsFilled IndexedIsOnDisk
PROPERTIES LeavesOnlyIfExcused DefinitionFound

SPECIFICATION Spec
CONSTANTS
  Files = {f1, f2, f3}
  f1 = f1
  f2 = f2
  f3 = f3
  Capacity = 2
  Services = {"source_code_model", "code_completion"}
  MaxWrites = 4
INVARIANTS EditedContentsFresh ReparsedFresh TypeOK
PROPERTIES EvictsOldestForNew

SPECIFICATION Spec
CONSTANTS
  Files = {f1, f2}
  f1 = f1
  f2 = f2
  Capacity = 1
  Services = {"source_code_model", "code_completion"}
  MaxWrites = 4
INVARIANTS AnswersFresh

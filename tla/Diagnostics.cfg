CONSTANTS
  TUnit = {"a.cpp", "b.cpp"}
  Header = {"h.hpp"}
  Diag <- MCDiag
  Note = {"n1", "n2"}
  FileOf <- MCFileOf
  Notes <- MCNotes
  Workers = 2
  MaxEdits = 1
  MaxCalls = 3
SPECIFICATION Spec
INVARIANTS
  TypeOK
  OwnDiagnosticsCurrent
  DetailsRefer
  DetailsAttributed
CHECK_DEADLOCK FALSE

SPECIFICATION Spec
CONSTANTS
  f1 = f1
  f2 = f2
  Files = {f1, f2}
  Letters <- MCLetters
  Names <- MCNames
  Candidates <- MCCandidates
  MaxLength = 4
INVARIANTS BackspaceAnsweredFresh

SPECIFICATION Spec
CONSTANTS
  Targets = {t1, t2}
  None = None
  MaxBuilds = 4
INVARIANTS TypeOK OutputOfTarget OutputFresh

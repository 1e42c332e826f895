SPECIFICATION Spec
CONSTANTS
  NumWorkers = 3
  NumFiles = 5
  FileCounts = {2, 5}
  ParseOutcome = {"ok", "fail"}
  MaxDeaths = 3
INVARIANTS TypeOK HandedOutOnce DeathCostsOneFile LeftWhenQuiet MergedAfterExit
PROPERTIES RunEnds IndexesDirectory

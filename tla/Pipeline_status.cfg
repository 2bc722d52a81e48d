SPECIFICATION Spec
CONSTANTS
  Tables = {t1, t2, t3}
  Jobs = {j1}
  Endpoints = {"data", "none"}
  Events = {"create", "registry", "credentials", "log", "ack", "lastRun", "drift", "orphans", "crash"}
INVARIANTS LogTellsOutcome SuccessMailIsTrue
PROPERTIES LogIsSafe TablesGetTheirTurn

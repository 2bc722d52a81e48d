SPECIFICATION Spec
CONSTANTS
  Tables = {t1}
  Jobs = {j1, j2}
  Endpoints = {"data", "none", "schemas"}
  Events = {"create", "registry", "credentials", "lastRun", "drift", "orphans", "toggle", "crash"}
INVARIANTS FailureIsAlerted
PROPERTIES LogIsClosed

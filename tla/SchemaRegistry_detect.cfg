SPECIFICATION RegistrySpec
CONSTANTS
  Tables = {t1}
  Fields = {f1, f2}
  Runs = {r1}
  Requests = {q1}
  Statuses = {"stable", "changed"}
  Events = {"new", "update", "import", "fail"}
PROPERTIES DriftIsFrozen

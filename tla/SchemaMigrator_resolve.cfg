SPECIFICATION Spec
CONSTANTS
  Tables = {t1, t2}
  Fields = {f1, f2}
  Runs = {r1}
  Requests = {}
  Resolutions = {a1, a2}
  Statuses = {}
  Events = {"new", "fail", "crash", "sql", "github"}
SYMMETRY Symmetry
INVARIANTS ResolvedIsMigrated CommittedIsRecorded

SPECIFICATION FairSpec
CONSTANTS
  Triggers = {"manual", "scheduled", "schema-change"}
  Tables = {x}
  Keys = {k1, k2}
  Default <- MCDefault
  Typed <- MCTyped
  Forever = Forever
  Absent = Absent
  MaxDay = 1
  MaxEvents = 3
INVARIANTS TypeOK PolicyIsKept OnlyExpiredAreDoomed FreshIsKept SyncAllReports

CHECK_DEADLOCK FALSE
PROPERTY ButtonsReturn

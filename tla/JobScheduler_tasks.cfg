SPECIFICATION FairSpec
CONSTANTS
  i1 = i1
  i2 = i2
  Ids = {i1, i2}
  Names = {"nightly-full-sync", "hourly-sync"}
  Default = "nightly-full-sync"
  Pages = {p1, p2}
  Runners = {r1}
  Forms <- MCForms
  Stored <- MCStored
  Absent = Absent
  MaxRequests = 3
  MaxCrashes = 1
INVARIANTS TasksFollowDocuments
PROPERTY JobsKeepRunning

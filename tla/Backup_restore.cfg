SPECIFICATION Spec
CONSTANTS
  r1 = r1
  r2 = r2
  r3 = r3
  Ids = {r1, r2, r3}
  Versions = {1, 2}
  Keys = {k1, k2}
  Tasks = {t1, t2}
  Fetched = 2
  Inserted = 2
  Stored <- MCStored
  Absent = Absent
  MaxWrites = 2
  MaxCalls = 3
INVARIANTS BackupIsComplete DeletedIsKept RoundTrip
SYMMETRY Symmetry

SPECIFICATION Spec
CONSTANTS
  Users = {root, u}
  Root = root
  Tabs = {p1, p2}
  Scopes = {s}
  Addresses = {lan}
  Absent = Absent
  MaxEvents = 5
INVARIANTS TypeOK SavedAsAsked OwnWritesAreShown PagesFit
SYMMETRY TabSymmetry
CHECK_DEADLOCK FALSE

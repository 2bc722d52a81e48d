SPECIFICATION ViewsSpec
CONSTANTS
  ViewNames <- TwoViews
  Columns <- TwoColumns
  Queries <- ThreeQueries
  a = a
  b = b
  v = v
  w = w
  Slots = {c1, c2}
  Loads = {l1, l2}
  ViewEvents = {"refuse", "store", "lost", "crash", "migrate"}
  MaxEvents = 3
SYMMETRY SlotSymmetry
INVARIANTS ViewsTypeOK TrackedAreLive SampleFits

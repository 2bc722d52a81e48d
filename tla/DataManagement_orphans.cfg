SPECIFICATION Spec
CONSTANTS
  Tables = {t1, t2}
  Keys = {1, 2}
  BatchLimit = 1
  PageRows = 1
  Answers = {"good", "bad", "cached", "empty", "typed"}
  Events = {"add", "remove", "sync", "overwrite", "nokey", "fail", "store", "lost"}
  MaxEvents = 2
  MaxGets = 2
SYMMETRY TableSymmetry
INVARIANTS ConfirmedIsListed ListFits
PROPERTIES OnlyGoneRowsArePurged

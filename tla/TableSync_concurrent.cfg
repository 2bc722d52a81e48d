SPECIFICATION Spec
CONSTANTS
  Keys = {1, 2}
  Mistyped = {2}
  PageSize = 1
  MaxRetries = 1
  Runs = {r1, r2}
  Strategies = {"upsert", "overwrite"}
  Events = {"remove", "field", "detector", "contract"}
  MaxTime = 2
INVARIANTS OrphansAreGone
PROPERTIES RunEnds Converges FreezeTakesEffect

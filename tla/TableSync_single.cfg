SPECIFICATION Spec
CONSTANTS
  Keys = {1, 2, 3}
  Mistyped = {1}
  PageSize = 2
  MaxRetries = 2
  Runs = {r1}
  Strategies = {"upsert", "incremental", "overwrite"}
  Events = {"remove", "field", "network", "mismatch", "short", "record", "store", "crash", "nomodel", "strategy"}
  MaxTime = 3
INVARIANTS CaughtUp CleanRunCopiesAll OrphansAreFound
PROPERTIES NeverStale

SPECIFICATION FairSpec
CONSTANTS
  a = a
  b = b
  Threads = {a, b}
  Flushers = {a}
  Names = {"default", "other"}
  MaxProviders = 3
  MaxShutdowns = 2
CHECK_DEADLOCK FALSE
INVARIANTS ProvidersSound
PROPERTIES LifeSpec DetachedAreDisposed

SPECIFICATION MCSpec
CONSTANTS
  a = a
  b = b
  x = x
  y = y
  z = z
  Threads = {a, b}
  AttrValues = {x, y, z}
  Limits = {0, 1}
  MaxTokens = 3
  MaxResets = 1
  TTL = 0
  PruneInterval = 1
  MaxClock = 1
  MaxCalls = 3
  MaxMeters = 1
  AttrMax = 2
  MaxChanges = 1
SYMMETRY Symmetry
CHECK_DEADLOCK FALSE
INVARIANTS AccountedOnce SlotsSound GaugeTotal
PROPERTIES LimitKept

SPECIFICATION OutputSpec
CONSTANTS
  a = a
  b = b
  w1 = w1
  Threads = {a, b}
  Writers = {w1}
  MaxOps = 5
  MaxRecords = 2
CHECK_DEADLOCK FALSE
INVARIANTS HandlersSound OutputSettles
PROPERTIES HostHandlerKept

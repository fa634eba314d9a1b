SPECIFICATION FairSpec
CONSTANTS
  f1 = f1
  f2 = f2
  f3 = f3
  s1 = s1
  Flushes = {f1, f2, f3}
  Shutdowns = {s1}
  MaxAbandoned = 1
  MaxCallers = 2
CHECK_DEADLOCK FALSE
INVARIANTS BudgetExact FlushBacklogBounded TrueMeansDrained
PROPERTIES CallsReturn BudgetRecovers

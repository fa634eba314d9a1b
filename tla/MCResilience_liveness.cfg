SPECIFICATION FairSpec
CONSTANTS
  t1 = t1
  t2 = t2
  e1 = e1
  e2 = e2
  e3 = e3
  Threads = {t1, t2}
  LoopThreads = {t2}
  Interruptible = {t2}
  Policies <- DefaultOrBlocking
  DefaultPolicy <- Default
  Threshold = 2
  BaseCooldown = 1
  MaxCooldown = 1
  MaxExponent = 9
  MaxAttempts = 3
  MaxPending = 2
  NoExecutor = NoExecutor
  Executors = {e1, e2, e3}
  Workers = 1
  MaxCalls = 4
  MaxResets = 0
INVARIANT ProbeInProgress
PROPERTIES TimedCallsReturn HalfOpenEnds

SPECIFICATION Spec
CONSTANTS
  t1 = t1
  t2 = t2
  e1 = e1
  e2 = e2
  e3 = e3
  Threads = {t1, t2}
  LoopThreads = {t1}
  Interruptible = {t2}
  Policies <- RetryingOrNoTimeout
  DefaultPolicy <- Retrying
  Threshold = 2
  BaseCooldown = 1
  MaxCooldown = 2
  MaxExponent = 1
  MaxAttempts = 3
  MaxPending = 2
  NoExecutor = NoExecutor
  Executors = {e1, e2, e3}
  Workers = 1
  MaxCalls = 3
  MaxResets = 1
SYMMETRY Symmetry
INVARIANT PermitAccounting
PROPERTIES GrowthReopens CooldownKept

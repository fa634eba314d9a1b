SPECIFICATION Spec
CONSTANTS
    a1 = a1
    a2 = a2
    l1 = l1
    l2 = l2
    Admins = {a1, a2}
    Loggers = {l1, l2}
    MaxCalls = 3
    MaxRedactions = 2
SYMMETRY Symmetry
CHECK_DEADLOCK FALSE
INVARIANTS ReceiptsSound RegisteredMeansHandled

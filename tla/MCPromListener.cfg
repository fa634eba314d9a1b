SPECIFICATION Spec
CONSTANTS
    r1 = r1
    r2 = r2
    Requests = {r1, r2}
    Keys <- MCKeys
    Contents <- MCContents
    Creds = {"good", "bad"}
    MaxOps = 3
    MaxEdits = 1
    MaxTicks = 1
    MaxEvents = 3
SYMMETRY Symmetry
CHECK_DEADLOCK FALSE
INVARIANTS ResponsesSound HandshakeFresh ListenerSettles

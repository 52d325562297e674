SPECIFICATION Spec
CONSTANTS
    r1 = r1
    r2 = r2
    w = w
    Requests = {r1, r2}
    Worker = w
    Refusals = {413}
    MaxLoops = 2
    MaxAudits = 1
    MaxConfigure = 1
SYMMETRY Symmetry
CHECK_DEADLOCK FALSE
INVARIANTS
    TrailSound
    LineTellsAnswer
    KeysMaskedOnce

SPECIFICATION Spec
CONSTANTS
    Ids = {1, 2, 3, 4}
    Limit = 2
    MaxTime = 1
CHECK_DEADLOCK FALSE
INVARIANTS
    WalkSound

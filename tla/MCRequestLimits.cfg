SPECIFICATION Spec
CONSTANTS
    Addresses = {a1, a2}
    Window = 3
    MaxRequests = 2
    Second = 2
    MaxTime = 6
SYMMETRY Symmetry
INVARIANTS
    WindowSound
PROPERTIES
    LimitRefined
    WaitPlusASecond

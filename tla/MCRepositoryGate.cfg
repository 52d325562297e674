SPECIFICATION GateSpec
CONSTANTS
    e1 = e1
    e2 = e2
    e3 = e3
    f1 = f1
    f2 = f2
    Endpoints = {e1, e2, e3}
    Fragments = {f1, f2}
    FragmentsOf <- MCFragmentsOf
    Repositories <- MCRepositories
CHECK_DEADLOCK FALSE
INVARIANTS
    VerdictSound
    SurfaceIsSpecified
    NothingUncheckedPasses

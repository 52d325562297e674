SPECIFICATION Spec
CONSTANTS
    Workers = {w1, w2}
    Callers = {v1}
    Cases = {c1}
    Runs = {r1, r2}
    NoCase = NoCase
    NoRun = NoRun
    MaxClaims = 3
SYMMETRY Symmetry
INVARIANTS
    TypeOK
    PublicationGate
    OneInFlightPerCase
    OneRecordPerClaim
    EndedByLatestClaim
    EveryClaimAccounted
    CaseStatusWitnessed
    AnswersMatchRecords
PROPERTIES
    PublicationRefined

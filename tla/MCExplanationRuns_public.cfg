SPECIFICATION Spec
CONSTANTS
    Workers = {}
    Callers = {v1, v2, v3}
    Cases = {c1}
    Runs = {r1, r2}
    NoCase = NoCase
    NoRun = NoRun
    MaxClaims = 3
SYMMETRY Symmetry
INVARIANTS
    AnswerShowsEndedRun
PROPERTIES
    EndedRunsStayEnded

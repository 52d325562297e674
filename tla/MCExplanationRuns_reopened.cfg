SPECIFICATION Spec
CONSTANTS
    Workers = {w1}
    Callers = {v1}
    Cases = {c1}
    Runs = {r1}
    NoCase = NoCase
    NoRun = NoRun
    MaxClaims = 2
PROPERTIES
    EndedRunsStayEnded

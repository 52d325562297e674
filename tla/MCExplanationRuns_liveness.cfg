SPECIFICATION FairSpec
CONSTANTS
    Workers = {w1}
    Callers = {v1}
    Cases = {c1}
    Runs = {r1, r2}
    NoCase = NoCase
    NoRun = NoRun
    MaxClaims = 3
PROPERTIES
    InFlightRunsEnd

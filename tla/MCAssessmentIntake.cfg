SPECIFICATION FairSpec
CONSTANTS
    Requests = {r1, r2, r3}
    Keys = {k1, k2}
    b1 = b1
    b2 = b2
    b3 = b3
    c1 = c1
    c2 = c2
    Bodies = {b1, b2, b3}
    Contents = {c1, c2}
    ContentOf <- Spellings
    Rules = {v1, v2}
    None = None
INVARIANTS
    IntakeSound
    OneAssessmentPerKey
    AnswersAgree
    RepliesSound
PROPERTIES
    StoreRefined
    RequestsEnd

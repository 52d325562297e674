SPECIFICATION Spec
CONSTANTS
    Forms <- MCForms
    Texts <- MCTexts
    Demos = {d1}
    Unread = Unread
    None = None
    MaxRuns = 3
    Cooldown = 1
    MaxTime = 1
INVARIANTS
    AttemptsAccounted
    ConfirmationIsFresh
    ShownBelongsTogether
PROPERTIES
    CooldownBetweenAttempts

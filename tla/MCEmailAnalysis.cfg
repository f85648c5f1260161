SPECIFICATION Spec
CONSTANTS
    Families <- MCFamilies
    Brands <- MCBrands
    Shorteners <- MCShorteners
    Digits <- MCDigits
    MaxBody = 6
INVARIANTS
    PartsUsedOnce
    AnchorsAreComplete
    EveryLinkIsJudged
    WorstFirst
    SignalsAreMonotone
CHECK_DEADLOCK FALSE

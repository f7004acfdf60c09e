SPECIFICATION MatchSpec
CONSTANTS
    Letters = {"a", "b"}
    MaxFilter = 5
    MaxName = 4
CHECK_DEADLOCK FALSE
INVARIANTS
    InBounds
    FindsMatches
    TakesNoOther
PROPERTIES
    Terminates

CONSTANTS
    NoScore = NoScore
    MARGIN = 1
    Configs <- MCConfigs
    MaxPlies = 5
SPECIFICATION Spec
CHECK_DEADLOCK FALSE
INVARIANTS
    EndIsAccountedFor
    AdjudicationIsEarned
    ClockIsKept
    TimeLossIsEarned
PROPERTIES
    ReasonIsTrue

CONSTANTS
    Engines <- MCEngines
    Options <- MCOptions
    MaxRestarts = 1
SPECIFICATION Spec
CHECK_DEADLOCK FALSE
INVARIANTS
    ScoreIsTally
    RatingIsTally
    PentaIsTally

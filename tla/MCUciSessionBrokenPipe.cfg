CONSTANTS
    MaxOutput = 2
    Configs <- MCConfigs
    MaxGames = 2
    MaxMoves = 1
SPECIFICATION Spec
CHECK_DEADLOCK FALSE
INVARIANTS
    CrashIsContained

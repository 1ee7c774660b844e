CONSTANTS
    MaxOutput = 1
    Configs <- MCConfigs
    MaxGames = 2
    MaxMoves = 2
SPECIFICATION FairSpec
CHECK_DEADLOCK FALSE
INVARIANTS
    MoveIsFresh
    AnswersInStep
PROPERTIES
    StopEndsSession

CONSTANTS
    w1 = w1
    w2 = w2
    Workers <- MCWorkers
    Main = Main
    Nobody = Nobody
    NoGame = NoGame
    Total = 3
    Prefetch = 2
    Configs <- MCConfigs
SPECIFICATION FairSpec
CHECK_DEADLOCK FALSE
INVARIANTS
    CountIsScored
    GameIsInOnePlace
    FinalSaveIsComplete
    IncompleteIsFailure
PROPERTIES
    EndsEventually
    AllGamesPlayed

CONSTANTS
    w1 = w1
    w2 = w2
    Workers <- MCWorkers
    Main = Main
    Nobody = Nobody
    NoGame = NoGame
    Total = 2
    Prefetch = 4
    Configs <- PlainConfigs
SPECIFICATION Spec
CHECK_DEADLOCK FALSE
INVARIANTS
    GamesFinishedBeforeTeardown

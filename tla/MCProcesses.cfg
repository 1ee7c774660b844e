CONSTANTS
    Workers = {w1, w2}
    Main = Main
    Engines = {e1, e2, e3}
    NoEngine = NoEngine
    GameSize = 1
    MaxStarting = 1
    Logs = FALSE
    Recover = TRUE
SPECIFICATION Spec
CHECK_DEADLOCK FALSE
INVARIANTS
    EntriesAreLive
    DeathIsSeen
    NothingLeftBehind
PROPERTIES
    ShutdownCompletes

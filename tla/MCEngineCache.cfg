CONSTANTS
    w1 = w1
    w2 = w2
    A = A
    B = B
    Workers <- MCWorkers
    Engines <- MCEngines
    RestartSets <- MCRestartSets
    Shared = Shared
    NoEntry = NoEntry
    NoEngine = NoEngine
    NoCpus = NoCpus
    Machines <- MCMachines
    Selected <- MCSelected
    Options <- MCOptions
    MaxGames = 4
SPECIFICATION PinnedSpec
SYMMETRY Symmetry
CHECK_DEADLOCK FALSE
INVARIANTS
    OneGamePerEngine
    NoEntryLost
    EnginesOnOwnCores

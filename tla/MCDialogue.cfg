CONSTANTS
    Absent = Absent
    UciMoves <- MCUciMoves
    Lines <- MCLines
    Status <- MCStatus
    Tenths <- MCTenths
    Setups <- MCSetups
    STARTPOS = STARTPOS
    Named <- MCNamed
    MaxGames = 2
    MaxPlies = 2
SPECIFICATION Spec
CHECK_DEADLOCK FALSE
INVARIANTS
    OptionsReachEngine
    ScoreIsOfFirstPv
    WarningsAreTrue
    PgnReplays

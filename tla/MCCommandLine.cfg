CONSTANTS
    Malformed = Malformed
    RandomSeed = RandomSeed
    ExistingFiles <- MCExistingFiles
    AbsolutePaths <- MCAbsolutePaths
    EndsIn <- MCEndsIn
    Stem <- MCStem
    DatedName <- MCDatedName
    HardwareThreads = 4
    SizeModulus = 4000000
    WaitModulus = 1000000
    IntMax = 1000000
    FirstLines <- MCFirstLines
    ResumeLines <- MCResumeLines
    Resumed <- MCResumed
    Descriptors = {20, 64}
    Tablebases = {"dtz"}
    GameTexts <- MCGameTexts
    Text <- MCText
    GamesIn <- MCGamesIn
    Gzipped <- MCGzipped
    Zlib = FALSE
    Mersenne <- MCMersenne
    MaxGames = 3
    MaxSessions = 3
SPECIFICATION SessionsSpec
INVARIANTS
    OptionsCommute
    SanitizedIsUsable
    ReloadIsStable
    CountedGamesAreOnFile
    CrcIsOfFile
    BookContinues
CHECK_DEADLOCK FALSE

---------------------------- MODULE MCCommandLine ----------------------------
(* Command lines for CommandLine: two or three engines and up to two further *)
(* options from a menu, in any place.                                        *)
EXTENDS CommandLine, TLC

Opt(flag, params) == [flag |-> flag, params |-> params]
Tc == [seconds |-> 8, increment |-> 1]

EngineA == Opt("engine", <<<<"cmd", "a">>, <<"name", "a">>>>)
EngineB == Opt("engine", <<<<"cmd", "b">>>>)
Each == Opt("each", <<<<"tc", Tc>>, <<"option", <<"Hash", "16">>>>>>)
Base == <<EngineA, EngineB, Each>>

Menu ==
    {Opt("engine", <<<<"cmd", "/a">>, <<"tc", [minutes |-> 1, seconds |-> 2, moves |-> 40]>>>>),
     Opt("engine", <<<<"name", "a_2">>, <<"cmd", "a">>, <<"nodes", 5>>, <<"option", <<"Threads", "2">>>>>>),
     Opt("engine", <<<<"name", "b">>, <<"dir", "bin">>, <<"cmd", "b">>, <<"restart", "on">>>>),
     Opt("engine", <<<<"cmd", "">>>>), Opt("engine", <<<<"name", "c">>, <<"cmd", "/c">>>>),
     Opt("engine", <<<<"cmd", "a">>, <<"proto", "xboard">>>>),
     Opt("each", <<<<"timemargin", 5>>, <<"args", "x">>>>), Opt("each", <<<<"st", 3>>>>),
     Opt("each", <<<<"option", <<"Threads", "1">>>>, <<"depth", 9>>>>),
     Opt("each", <<<<"tc", [infinite |-> TRUE]>>>>), Opt("each", <<<<"timemargin", -1>>>>),
     Opt("each", <<<<"name", "c">>>>), Opt("each", <<>>),
     Opt("pgnout", <<<<"file", "games">>, <<"append", "false">>, <<"nodes", "true">>>>),
     Opt("pgnout", <<<<"notation", "uci">>, <<"match_line", "x">>>>), Opt("pgnout", <<Malformed>>),
     Opt("epdout", <<>>), Opt("openings", <<<<"file", "book.epd">>, <<"order", "random">>, <<"start", 3>>>>),
     Opt("openings", <<<<"file", "book">>, <<"format", "pgn">>, <<"plies", 8>>, <<"policy", "round">>>>),
     Opt("openings", <<<<"file", "book.epd">>, <<"start", 2>>>>), Opt("openings", <<<<"file", "empty.epd">>>>),
     Opt("openings", <<<<"file", "book.gz">>, <<"format", "epd">>>>), Opt("openings", <<<<"file", "book">>>>),
     Opt("openings", <<<<"file", "missing.pgn">>>>), Opt("openings", <<<<"start", 0>>>>),
     Opt("sprt", <<<<"elo0", 0>>, <<"elo1", 2>>, <<"alpha", 50>>, <<"beta", 50>>, <<"model", "bayesian">>>>),
     Opt("sprt", <<<<"elo0", 0>>, <<"elo1", 2>>, <<"alpha", 50>>, <<"beta", 50>>>>),
     Opt("sprt", <<<<"elo0", 2>>, <<"elo1", 2>>, <<"alpha", 50>>, <<"beta", 50>>>>),
     Opt("draw", <<<<"movenumber", 34>>, <<"movecount", 8>>, <<"score", 20>>>>), Opt("draw", <<<<"score", -1>>>>),
     Opt("resign", <<<<"movecount", 3>>, <<"score", 400>>, <<"twosided", "true">>>>),
     Opt("maxmoves", <<100>>), Opt("tb", <<"dtz">>), Opt("tb", <<"nowhere">>), Opt("tb", <<"">>), Opt("tbpieces", <<6>>),
     Opt("tbadjudicate", <<"DRAW">>), Opt("tbignore50", <<>>), Opt("log", <<<<"file", "log">>, <<"level", "trace">>>>),
     Opt("report", <<<<"penta", "false">>>>), Opt("output", <<<<"format", "cutechess">>>>),
     Opt("concurrency", <<2>>), Opt("concurrency", <<-1>>), Opt("concurrency", <<-4>>), Opt("concurrency", <<6>>),
     Opt("force_concurrency", <<>>), Opt("crc32", <<<<"pgn", "true">>>>), Opt("event", <<"E", "v">>),
     Opt("site", <<"S">>), Opt("games", <<0>>), Opt("games", <<1>>), Opt("games", <<3>>), Opt("games", <<-1>>), Opt("games", <<Malformed>>),
     Opt("rounds", <<0>>), Opt("rounds", <<3>>), Opt("repeat", <<>>), Opt("repeat", <<1>>),
     Opt("ratinginterval", <<0>>), Opt("scoreinterval", <<0>>), Opt("srand", <<7>>), Opt("srand", <<-7>>),
     Opt("variant", <<"fischerandom">>), Opt("tournament", <<"gauntlet">>), Opt("seeds", <<2>>),
     Opt("quick", <<<<"cmd", "a">>, <<"cmd", "a">>, <<"book", "book.epd">>>>),
     Opt("quick", <<<<"cmd", "a">>, <<"book", "book">>>>),
     Opt("use-affinity", <<<<<<0, 1>>, <<3, 3>>>>>>), Opt("use-affinity", <<<<<<2, 1>>>>>>), Opt("use-affinity", <<>>),
     Opt("noswap", <<>>), Opt("reverse", <<1>>), Opt("strict", <<>>), Opt("startup", <<500>>), Opt("debug", <<>>)}

\* The options that interact with others.
Partners ==
    {o \in Menu : \/ o.flag \in {"engine", "quick", "variant", "repeat", "rounds", "output", "force_concurrency"}
                  \/ o.flag = "games" /\ o.params # <<1>>
                  \/ o.flag = "concurrency" /\ o.params # <<2>>
                  \/ o.flag = "sprt" /\ Len(o.params) = 5
                  \/ o.flag = "each" /\ o.params # <<>> /\ o.params[1][1] = "st"
                  \/ o.flag = "pgnout" /\ Len(o.params) = 3}

MCFirstLines ==
    {Base \o <<a, b>> : a \in Menu, b \in Partners} \cup {<<a>> \o Base : a \in Menu}

Config(params) == Opt("config", <<<<"file", "config.json">>>> \o params)
MCResumeLines ==
    {<<Config(<<>>)>>, <<Config(<<<<"stats", "false">>>>)>>, <<Config(<<<<"outname", "c">>>>)>>,
     Base \o <<Config(<<<<"discard", "true">>>>)>>, <<Config(<<<<"discard", "false">>>>)>>}
    \cup {<<Config(<<>>), Opt("pgnout", <<<<"file", "games">>, <<"append", "false">>>>)>>,
          <<EngineA, Config(<<>>), Opt("rounds", <<5>>)>>}

\* Every option once, and the ones about files together with those they depend on.
GameFile == Opt("pgnout", <<<<"file", "games">>, <<"append", "false">>, <<"nodes", "true">>>>)
MCResumed ==
    {<<a>> \o Base : a \in Menu}
    \cup {Base \o <<a, b>> : a \in {o \in Menu : o.flag \in {"crc32", "pgnout", "epdout", "openings"}},
                           b \in {GameFile, Opt("repeat", <<1>>)}}
    \cup {<<Config(<<>>)>>}

MCExistingFiles == {"book.epd", "empty.epd", "book.gz", "book", "a", "b", "/a"}
MCAbsolutePaths == {"/a", "/c"}
MCEndsIn == [f \in {"book.epd", "empty.epd", "book.gz", "book", "missing.pgn"} |->
                CASE f \in {"book.epd", "empty.epd"} -> "epd" [] f = "missing.pgn" -> "pgn" [] OTHER -> ""]
MCStem == [c \in {"", "a", "b", "/a", "/c"} |-> CASE c = "/a" -> "a" [] c = "/c" -> "c" [] OTHER -> c]
MCDatedName == [x \in {"pgn", "epd"} |-> "fastchess." \o x]

\* Three openings with every kind of line end and the last line unfinished.
MCText == ("book.epd" :> <<"CR", "LF", "x", "CR", "LF", "y", "CR", "CR", "z">>) @@
          ("empty.epd" :> <<"LF", "CR">>) @@ ("book.gz" :> <<"x">>) @@ ("book" :> <<"u">>)
MCGamesIn == [f \in DOMAIN MCText |-> <<<<"u">>, <<"v">>>>]
MCGzipped == {"book.gz"}
MCMersenne == [seed \in {RandomSeed, 7} |-> IF seed = 7 THEN <<1, 1>> ELSE <<2, 0>>]
MCGameTexts == <<<<{0, 6}, {}>>, <<{1, 2, 7}>>, <<Byte, {3}, {0}>>>>
=============================================================================

----------------------------- MODULE CommandLine -----------------------------
(***************************************************************************)
(* The sessions of one tournament. A session starts from a command line,   *)
(* which is parsed and sanitized, opens its game file, plays, and writes   *)
(* the settings and the results to the configuration file from time to     *)
(* time and when it ends, of itself or by an engine that stalls. A killed  *)
(* session writes nothing. Later sessions resume from the file. What       *)
(* happens inside a session is the subject of Tournament.                  *)
(***************************************************************************)
EXTENDS Settings, FileWriter, OpeningBook

CONSTANTS
    FirstLines,       \* command lines that start the tournament
    ResumeLines,      \* command lines that load the configuration file
    Resumed,          \* bound: command lines whose tournament is resumed
    Descriptors,      \* possible limits of open files (RLIMIT_NOFILE)
    Tablebases,       \* directories initSyzygy loads tablebases from
    GameTexts,        \* the PGNs of the games, in the order they are played
    MaxGames,         \* bound: games counted in a session
    MaxSessions       \* bound: sessions started

\* A command line is a sequence of options, and their params are sequences.
IsSeq(s) == s \in Seq(ToSet(s))
ASSUME LinesAssumption ==
    \A l \in FirstLines \cup ResumeLines : IsSeq(l) /\ \A i \in DOMAIN l : IsSeq(l[i].params)

VARIABLES
    phase,      \* "shell": at the prompt; "parsed": options read; "running"; "failed": refused
    line,       \* the command line of the session, or of the last one
    fds,        \* the descriptor limit of the session
    data,       \* argument_data_ after the constructor of OptionsParser
    disk,       \* the configuration files
    counted,    \* match_count_
    files,      \* the game files, PGN and EPD
    crc,        \* file_writer_pgn_->crc32_
    book,       \* book_->openings_
    served,     \* history: the openings of the tournament with the pairs they were played in
    discarded,  \* a session began with other results, or another game file, than those saved
    unwritten,  \* history: games that were counted and not written
    sessions    \* sessions started

game == <<files, crc, book, served>>
sessionsVars == <<phase, line, fds, data, disk, counted, game, discarded, unwritten, sessions>>

SessionsInit ==
    /\ phase = "shell" /\ line = <<>> /\ fds \in Descriptors /\ data = NoArguments
    /\ disk = <<>> /\ counted = 0 /\ discarded = FALSE /\ unwritten = 0 /\ sessions = 0
    /\ files = <<>> /\ crc = {} /\ book = <<>> /\ served = {}

\* main up to the end of the OptionsParser constructor.
Launch(l) ==
    /\ phase = "shell" /\ sessions < MaxSessions
    /\ line' = l /\ sessions' = sessions + 1
    /\ data' = OptionsParser(l, disk, fds)
    /\ phase' = IF data'.ok THEN "parsed" ELSE "failed"
    /\ UNCHANGED <<fds, disk, counted, game, discarded, unwritten>>

ResolveAppendFlagAsGiven(append, total) == append
\* A file is kept when games are resumed, whatever its append flag says.
ResolveAppendFlag(append, total) == append \/ total # 0

\* The writers of the game files, those that have a name.
OpenGameFiles(cfg, total) ==
    LET pgn == IF cfg.pgn_file = "" THEN files
               ELSE OpenFile(files, cfg.pgn_file, ResolveAppendFlag(cfg.pgn_append, total))
    IN IF cfg.epd_file = "" THEN pgn
       ELSE OpenFile(pgn, cfg.epd_file, ResolveAppendFlag(cfg.epd_append, total))

\* initSyzygy, if tablebases are asked for.
Loaded(cfg) == cfg.tb_enabled => cfg.tb_dirs \in Tablebases

HasCrc(cfg) == cfg.pgn_file # "" /\ cfg.pgn_crc

\* TournamentManager::start after the options, and the constructor of BaseTournament.
\* Tablebases come first, then the book, which divides by games, then the game files,
\* and last the pool, which wants a worker.
BeginTournament ==
    LET cfg    == data.cfg
        total  == data.stats
        opened == Loaded(cfg) /\ cfg.games # 0 /\ Setup(cfg, total).ok
    IN /\ phase = "parsed"
       /\ phase' = IF opened /\ cfg.concurrency >= 1 THEN "running" ELSE "failed"
       /\ counted' = total
       /\ IF opened
          THEN /\ files' = OpenGameFiles(cfg, total)
               /\ crc' = IF HasCrc(cfg) THEN InitCrc(files'[cfg.pgn_file]) ELSE crc
               /\ book' = Setup(cfg, total).openings
               /\ served' = IF total = 0 THEN {} ELSE served
          ELSE UNCHANGED game
       /\ discarded' = (discarded \/ \E f \in DOMAIN disk :
                            /\ disk[f].stats > 0
                            /\ total = 0 \/ disk[f].cfg.pgn_file # cfg.pgn_file)
       /\ UNCHANGED <<line, fds, data, disk, unwritten, sessions>>

\* The pair a game belongs to, counted from the start of the session: a session
\* starts with a new pair whatever it resumes.
PairOfSession == (counted - data.stats) \div data.cfg.games
PairOfTournament == data.stats \div data.cfg.games + PairOfSession

WriteGame(cfg, text) ==
    LET pgn == IF cfg.pgn_file = "" THEN files ELSE WriteText(files, cfg.pgn_file, text)
    IN IF cfg.epd_file = "" THEN pgn ELSE WriteText(pgn, cfg.epd_file, text)

\* A game is left to play. It is served the opening of its pair.
Playable ==
    /\ phase = "running" /\ counted < MaxGames
    /\ counted < data.cfg.games * data.cfg.rounds
ServeOpening ==
    served' = served \cup {[pair |-> PairOfTournament, opening |-> OpeningOf(book, PairOfSession, <<>>)]}

PlayGame ==
    LET text == GameTexts[counted + 1]
    IN /\ Playable /\ ServeOpening
       /\ counted' = counted + 1
       /\ files' = WriteGame(data.cfg, text)
       /\ crc' = IF HasCrc(data.cfg) THEN WriteCrc(crc, text) ELSE crc
       /\ UNCHANGED <<phase, line, fds, data, disk, book, discarded, unwritten, sessions>>

\* saveJson. Results are kept between engines of different names only.
SaveJson(games) ==
    /\ phase = "running"
    /\ disk' = Over([f \in {data.cfg.config_name} |-> Saved(data.cfg, data.engines, games)], disk)
    /\ UNCHANGED discarded

Autosave ==
    /\ SaveJson(counted)
    /\ UNCHANGED <<phase, line, fds, data, counted, game, unwritten, sessions>>

BackToShell == phase' = "shell" /\ counted' = 0 /\ data' = NoArguments

\* The tournament ends or is interrupted: its destructor saves.
EndSession ==
    /\ SaveJson(counted) /\ BackToShell
    /\ UNCHANGED <<line, fds, game, unwritten, sessions>>

\* An engine stalls or disconnects and -recover is off: the first such game is counted,
\* and is not written, and the tournament ends.
Stall ==
    /\ Playable /\ ~data.cfg.recover /\ ServeOpening
    /\ SaveJson(counted + 1) /\ BackToShell
    /\ unwritten' = unwritten + 1
    /\ UNCHANGED <<line, fds, files, crc, book, sessions>>

\* The process is killed, or has refused its command line.
Die ==
    /\ phase \in {"running", "failed"}
    /\ BackToShell
    /\ UNCHANGED <<line, fds, disk, game, discarded, unwritten, sessions>>

SessionsNext ==
    \/ line = <<>> /\ \E l \in FirstLines : Launch(l)
    \/ line \in Resumed /\ \E l \in ResumeLines : Launch(l)
    \/ BeginTournament \/ PlayGame \/ Autosave \/ EndSession \/ Stall \/ Die

SessionsSpec == SessionsInit /\ [][SessionsNext]_sessionsVars

-----------------------------------------------------------------------------
(* Properties.                                                             *)

SessionsTypeOK ==
    /\ phase \in {"shell", "parsed", "running", "failed"}
    /\ DOMAIN data.cfg = DOMAIN TournamentDefaults
    /\ \A i \in DOMAIN data.engines : DOMAIN data.engines[i] = DOMAIN NewEngine
    /\ counted \in Nat /\ crc \subseteq Word /\ discarded \in BOOLEAN

Parsed == phase \in {"parsed", "running"}

\* Two neighbouring options that may be given in either order. The exceptions:
\* an option replaces what its own earlier use set; -engine before -engine numbers
\* the engines; -config and -quick replace settings others give; -sprt looks at the
\* rounds given so far; -repeat and -games are one setting.
SameSetting == {{"games", "repeat"}, {"sprt", "rounds"}}
Independent(a, b) ==
    /\ a.flag # b.flag
    /\ {a.flag, b.flag} \cap {"config", "quick"} = {}
    /\ {a.flag, b.flag} \notin SameSetting

Swapped(l, i) == [l EXCEPT ![i] = l[i + 1], ![i + 1] = l[i]]
SameMeaning(d, other) == IF d.ok THEN other = d ELSE ~other.ok

(* The order in which independent options are given does not matter: with two of
   them exchanged the command line gives the same settings and engines, or is
   refused as before. This is what -each is deferred for, which applies to engines
   that come after it. (OptionsParser::parse) *)
OptionsCommute ==
    phase \in {"parsed", "failed"} =>
        \A i \in 1..(Len(line) - 1) :
            Independent(line[i], line[i + 1]) =>
                SameMeaning(data, OptionsParser(Swapped(line, i), disk, fds))

\* A name that is another engine's name with a number appended.
NameClash(names) ==
    \E i, j \in DOMAIN names : \E k \in 2..Len(names) : names[i] = names[j] \o "_" \o ToString(k)

GivenNames(d) == [i \in DOMAIN d.engines |-> Named(d.engines[i]).name]
Distinct(engines) == \A i, j \in DOMAIN engines : engines[i].name = engines[j].name => i = j

\* The settings the rest of the program is built for, on a machine with limit descriptors.
UsableConfig(c, limit) ==
    /\ c.games <= 2
    /\ c.report_penta => /\ c.games = 2 /\ c.output = "fastchess"
                         /\ ~(c.sprt_enabled /\ c.sprt_model = "bayesian")
    /\ c.concurrency > 0 => MinFileDescriptorRequired(c.concurrency) <= limit
    /\ c.concurrency <= HardwareThreads \/ c.force_concurrency
    /\ c.ratinginterval # 0 /\ c.scoreinterval # 0

\* An engine that has a limit, and one way of keeping time at most.
UsableEngine(e, c) ==
    /\ ~(OnClock(e) /\ FixedTime(e))
    /\ OnClock(e) \/ FixedTime(e) \/ e.nodes # 0 \/ e.plies # 0
    /\ e.variant = c.variant

(* What sanitize lets through is what the rest of the program is built for: pairs of
   games at most, two engines, one way of keeping time, pentanomial statistics only
   of pairs and of models that have them, descriptors for the games played at a time,
   and no more of those than processors unless forced to. Engines get different names,
   on which the scoreboard and the engine cache rest, unless the user already gave one
   that sanitize makes up. (sanitize.cpp:21-175) *)
SanitizedIsUsable ==
    Parsed =>
        /\ UsableConfig(data.cfg, fds)
        /\ Len(data.engines) >= 2
        /\ \A i \in DOMAIN data.engines :
              UsableEngine(data.engines[i], data.cfg) /\ data.engines[i].name # ""
        /\ Distinct(data.engines) \/ NameClash(GivenNames(ParseLine(line, disk)))

\* The settings of a session started with -config file=NAME after a save at this moment.
Reloaded ==
    LET name == data.cfg.config_name
    IN OptionsParser(<<[flag |-> "config", params |-> <<<<"file", name>>>>]>>,
                     [f \in {name} |-> Saved(data.cfg, data.engines, counted)], fds)
IsThisTournament(again) ==
    /\ again.ok
    /\ again.engines = data.engines
    /\ again.stats = (IF Len(data.engines) = 2 THEN counted ELSE 0)
    /\ \A x \in SavedSettings : again.cfg[x] = data.cfg[x]

(* Reading a saved file back and sanitizing it again changes nothing that was saved:
   a resumed tournament has the settings and engines of the one that was interrupted,
   on the same machine, as long as its engines had different names. *)
ReloadIsStable ==
    phase = "running" /\ Distinct(data.engines) => IsThisTournament(Reloaded)

(* The games a session counts are in the game file, with those of the sessions it
   resumes: the file is not truncated under them, and a killed session loses its count
   before its games. One game is missing for each session that a stalled engine ended.
   A session that is told to forget the results, or to write to another file, is free. *)
CountedGamesAreOnFile ==
    phase = "running" /\ data.cfg.pgn_file # "" /\ ~discarded =>
        counted - unwritten <= Len(files[data.cfg.pgn_file])

(* The checksum reported after every game is that of the whole game file, with the
   games earlier sessions wrote to it. (FileWriter::initCrc, write, getCrc32) *)
CrcIsOfFile ==
    phase = "running" /\ HasCrc(data.cfg) =>
        GetCrc32(crc) = Checksum(FlattenSeq(files[data.cfg.pgn_file]))

\* The openings of the book file, as its author sees them: one on each line with text.
BookFile(cfg) ==
    IF cfg.opening_format = "pgn" THEN GamesIn[cfg.opening_file]
    ELSE [i \in DOMAIN SelectSeq(Text[cfg.opening_file], LAMBDA c : c \notin LineEnd) |->
             <<SelectSeq(Text[cfg.opening_file], LAMBDA c : c \notin LineEnd)[i]>>]

(* Over all the sessions that resume a tournament every pair of games has an opening
   of its own until the book is used up, from the start the user named, in sequential
   and in random order: a resumed session shuffles as the first one did and goes on after the
   openings already played, and gives an interrupted pair the opening it had.
   (OpeningBook::setup, operator[]) *)
BookContinues ==
    phase = "running" /\ book # <<>> /\ ~discarded =>
        LET all == BookFile(data.cfg)
        IN \A a, b \in served :
              /\ a.opening \in ToSet(all)
              /\ a.pair = b.pair => a.opening = b.opening
              /\ a.pair < b.pair /\ b.pair < a.pair + Len(all) => a.opening # b.opening
              /\ data.cfg.opening_order = "sequential" =>
                    a.opening = all[((data.cfg.opening_start - 1 + a.pair) % Len(all)) + 1]

=============================================================================

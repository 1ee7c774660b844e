------------------------------ MODULE Settings ------------------------------
(***************************************************************************)
(* The command line (cli::OptionsParser): what every option does to the    *)
(* settings of the tournament and of its engines, how -each waits for all  *)
(* the others, and what sanitize makes of the result. The options are      *)
(* tables from key to setting; the ones that do more than store a value    *)
(* have an operator of their own.                                          *)
(*                                                                         *)
(* An option is a record [flag, params]. Its params are the words up to    *)
(* the next flag: <<key, value>> for key=value, the bare value otherwise,  *)
(* Malformed for a word that cannot be read as either. A key "option.N" is *)
(* the key "option" with the value <<N, value>>. Numbers with a fraction   *)
(* are counted in thousandths, times in seconds.                           *)
(***************************************************************************)
EXTENDS Integers, Sequences, SequencesExt, FiniteSets

CONSTANTS
    Malformed,        \* a word that is not a value of the type its key wants
    ExistingFiles,    \* files that exist: opening books and engine binaries
    AbsolutePaths,    \* engine commands that are absolute paths
    EndsIn,           \* function: extension of a file name, "" if none
    Stem,             \* function: an engine command without directory and extension
    DatedName,        \* function: "pgn", "epd" -> the file name made from date and time
    HardwareThreads,  \* std::thread::hardware_concurrency()
    RandomSeed,       \* the seed chosen at random
    SizeModulus,      \* 2^w for std::size_t, of which -games and -rounds are
    WaitModulus,      \* 2^w for std::uint32_t, of which -wait and movenumber= are
    IntMax            \* std::numeric_limits<int>::max()

ASSUME SettingsAssumption ==
    /\ HardwareThreads \in Nat \ {0}
    /\ SizeModulus \in Nat /\ SizeModulus > 2 * IntMax
    /\ WaitModulus \in Nat \ {0}
    /\ IntMax > 500000

-----------------------------------------------------------------------------
(* The settings and their defaults.                                        *)

OpeningDefaults == [opening_file |-> "", opening_format |-> "none", opening_order |-> "sequential",
                    opening_plies |-> -1, opening_start |-> 1]
PgnTracked == {"nodes", "seldepth", "nps", "hashfull", "tbhits", "timeleft", "latency", "pv"}
PgnDefaults == [pgn_lines |-> <<>>, pgn_event |-> <<"Fastchess", "Tournament">>, pgn_site |-> <<"?">>,
                pgn_file |-> "", pgn_notation |-> "san", pgn_append |-> TRUE,
                pgn_nodes |-> FALSE, pgn_seldepth |-> FALSE, pgn_nps |-> FALSE,
                pgn_hashfull |-> FALSE, pgn_tbhits |-> FALSE, pgn_timeleft |-> FALSE,
                pgn_latency |-> FALSE, pgn_pv |-> FALSE, pgn_min |-> FALSE, pgn_crc |-> FALSE]
EpdDefaults == [epd_file |-> "", epd_append |-> TRUE]
SprtDefaults == [sprt_enabled |-> FALSE, sprt_alpha |-> 0, sprt_beta |-> 0, sprt_elo0 |-> 0,
                 sprt_elo1 |-> 0, sprt_model |-> "normalized"]
LogDefaults == [log_file |-> "", log_level |-> "warn", log_append |-> TRUE, log_compress |-> FALSE,
                log_realtime |-> TRUE, log_engine |-> FALSE]
DrawDefaults == [draw_enabled |-> FALSE, draw_movenumber |-> 0, draw_movecount |-> 1, draw_score |-> 0]
ResignDefaults == [resign_enabled |-> FALSE, resign_movecount |-> 1, resign_score |-> 0,
                   resign_twosided |-> FALSE]
MaxMovesDefaults == [maxmoves_enabled |-> FALSE, maxmoves_count |-> 1]
TbDefaults == [tb_enabled |-> FALSE, tb_dirs |-> "", tb_pieces |-> 0, tb_result |-> "BOTH",
               tb_ignore50 |-> FALSE]
OwnDefaults == [config_name |-> "config.json", variant |-> "standard", type |-> "roundrobin",
                seeds |-> 1, output |-> "fastchess", autosaveinterval |-> 20, ratinginterval |-> 10,
                games |-> 2, rounds |-> 2, report_penta |-> TRUE, seed |-> RandomSeed,
                scoreinterval |-> 1, concurrency |-> 1, wait |-> 0, force_concurrency |-> FALSE,
                noswap |-> FALSE, reverse |-> FALSE, recover |-> FALSE, affinity |-> FALSE,
                check_mate_pvs |-> FALSE, show_latency |-> FALSE, test_env |-> FALSE,
                strict |-> FALSE, startup_ms |-> 10000, ucinewgame_ms |-> 60000, ping_ms |-> 60000,
                affinity_cpus |-> <<>>]

Over(f, g) == [x \in DOMAIN f \cup DOMAIN g |-> IF x \in DOMAIN f THEN f[x] ELSE g[x]]

TournamentDefaults ==
    Over(OpeningDefaults, Over(PgnDefaults, Over(EpdDefaults, Over(SprtDefaults, Over(LogDefaults,
    Over(DrawDefaults, Over(ResignDefaults, Over(MaxMovesDefaults, Over(TbDefaults, OwnDefaults)))))))))

NoLimits == [increment |-> 0, fixed_time |-> 0, time |-> 0, moves |-> 0, timemargin |-> 0]

NewEngine == [tc |-> NoLimits, nodes |-> 0, plies |-> 0, name |-> "", dir |-> "", cmd |-> "",
              args |-> "", restart |-> FALSE, options |-> <<>>, variant |-> "standard"]

\* ArgumentData; ok is FALSE once an exception has ended the parser.
NoArguments == [cfg |-> TournamentDefaults, engines |-> <<>>, stats |-> 0,
                old_cfg |-> TournamentDefaults, old_engines |-> <<>>, ok |-> TRUE]

Throw(d) == [d EXCEPT !.ok = FALSE]
Require(d, condition) == [d EXCEPT !.ok = @ /\ condition]
Set(d, settings) == [d EXCEPT !.cfg = Over(settings, @)]

\* d after a handler that has read its params one by one, and leaves the results alone.
Taken(d, read) == [d EXCEPT !.cfg = read.cfg, !.engines = read.engines, !.ok = read.ok]

-----------------------------------------------------------------------------
(* Tables: key -> <<setting, kind of value>>.                              *)

PgnOutKeys ==
    Over([k \in PgnTracked |-> <<"pgn_" \o k, "bool">>],
         [file |-> <<"pgn_file", "text">>, append |-> <<"pgn_append", "bool">>,
          min |-> <<"pgn_min", "bool">>, notation |-> <<"pgn_notation", "notation">>,
          match_line |-> <<"pgn_lines", "list">>])
EpdOutKeys == [file |-> <<"epd_file", "text">>, append |-> <<"epd_append", "bool">>]
OpeningKeys == [file |-> <<"opening_file", "existing">>, format |-> <<"opening_format", "format">>,
                order |-> <<"opening_order", "order">>, plies |-> <<"opening_plies", "int">>,
                start |-> <<"opening_start", "positive">>, policy |-> <<"opening_plies", "policy">>]
SprtKeys == [elo0 |-> <<"sprt_elo0", "int">>, elo1 |-> <<"sprt_elo1", "int">>,
             alpha |-> <<"sprt_alpha", "int">>, beta |-> <<"sprt_beta", "int">>,
             model |-> <<"sprt_model", "text">>]
DrawKeys == [movenumber |-> <<"draw_movenumber", "word">>, movecount |-> <<"draw_movecount", "int">>,
             score |-> <<"draw_score", "natural">>]
ResignKeys == [movecount |-> <<"resign_movecount", "int">>, twosided |-> <<"resign_twosided", "bool">>,
               score |-> <<"resign_score", "natural">>]
LogKeys == [file |-> <<"log_file", "text">>, level |-> <<"log_level", "level">>,
            append |-> <<"log_append", "bool">>, compress |-> <<"log_compress", "bool">>,
            realtime |-> <<"log_realtime", "bool">>, engine |-> <<"log_engine", "bool">>]
ReportKeys == [penta |-> <<"report_penta", "bool">>]
OutputKeys == [format |-> <<"output", "output">>]
CrcKeys == [pgn |-> <<"pgn_crc", "bool">>]

KeyValueTables == [pgnout |-> PgnOutKeys, epdout |-> EpdOutKeys, openings |-> OpeningKeys,
                   sprt |-> SprtKeys, draw |-> DrawKeys, resign |-> ResignKeys, log |-> LogKeys,
                   report |-> ReportKeys, output |-> OutputKeys, crc32 |-> CrcKeys]

\* What naming the option sets before its keys are read.
OnPgnOut == [pgn_file |-> DatedName["pgn"]]
OnEpdOut == [epd_file |-> DatedName["epd"]]
OnSprt(cfg) == [sprt_enabled |-> TRUE, rounds |-> IF cfg.rounds = 0 THEN 500000 ELSE cfg.rounds]

Presets(flag, cfg) ==
    CASE flag = "pgnout" -> OnPgnOut
      [] flag = "epdout" -> OnEpdOut
      [] flag = "sprt" -> OnSprt(cfg)
      [] flag = "draw" -> [draw_enabled |-> TRUE]
      [] flag = "resign" -> [resign_enabled |-> TRUE]
      [] OTHER -> [x \in {} |-> 0]

\* Options of one value: the setting, its kind, and what else is switched on.
AdjudicationOptions ==
    [maxmoves     |-> <<"maxmoves_count", "int", {"maxmoves_enabled"}>>,
     tb           |-> <<"tb_dirs", "text", {"tb_enabled"}>>,
     tbpieces     |-> <<"tb_pieces", "int", {}>>,
     tbadjudicate |-> <<"tb_result", "tb_result", {}>>]
CountOptions ==
    [autosaveinterval |-> <<"autosaveinterval", "int", {}>>, concurrency |-> <<"concurrency", "int", {}>>,
     games |-> <<"games", "size", {}>>, rounds |-> <<"rounds", "size", {}>>, wait |-> <<"wait", "word", {}>>,
     ratinginterval |-> <<"ratinginterval", "int", {}>>, scoreinterval |-> <<"scoreinterval", "int", {}>>,
     srand |-> <<"seed", "natural", {}>>, seeds |-> <<"seeds", "int", {}>>]
FormatOptions == [tournament |-> <<"type", "type", {}>>]
WaitingOptions == [startup |-> <<"startup_ms", "natural", {}>>, ucinewgame |-> <<"ucinewgame_ms", "natural", {}>>,
                   ping |-> <<"ping_ms", "natural", {}>>]
SingleOptions == Over(AdjudicationOptions, Over(CountOptions, Over(FormatOptions, WaitingOptions)))

\* Options without a value: the setting they switch on.
SwitchOptions == [tbignore50 |-> "tb_ignore50", force_concurrency |-> "force_concurrency",
                  noswap |-> "noswap", reverse |-> "reverse", recover |-> "recover",
                  check_mate_pvs |-> "check_mate_pvs", show_latency |-> "show_latency",
                  testEnv |-> "test_env", strict |-> "strict"]

Words == [bool |-> {"true", "false"}, notation |-> {"san", "lan", "uci"}, format |-> {"epd", "pgn"},
            order |-> {"sequential", "random"}, policy |-> {"round"},
            level |-> {"trace", "warn", "info", "err", "fatal"}, output |-> {"cutechess", "fastchess"},
            tb_result |-> {"WIN_LOSS", "DRAW", "BOTH"}, type |-> {"gauntlet", "roundrobin"}]

\* parseScalar and the conditions the handlers add to it.
Legal(kind, v) ==
    /\ v # Malformed
    /\ kind \in DOMAIN Words => v \in Words[kind]
    /\ kind = "natural" => v >= 0
    /\ kind = "positive" => v >= 1
    /\ kind = "existing" => v \in ExistingFiles

\* The value stored: a negative int becomes a large unsigned number.
Stored(kind, v) ==
    CASE kind = "bool" -> v = "true"
      [] kind = "size" -> v % SizeModulus
      [] kind = "word" -> v % WaitModulus
      [] OTHER -> v

\* The settings one key=value pair of a table assigns.
KeyAssigns(entry, v, cfg) ==
    CASE entry[2] = "list" -> [x \in {entry[1]} |-> Append(cfg[entry[1]], v)]
      [] entry[2] = "policy" -> [x \in {} |-> 0]
      [] entry[2] = "existing" /\ EndsIn[v] \in Words.format ->
            [opening_file |-> v, opening_format |-> EndsIn[v]]
      [] OTHER -> [x \in {entry[1]} |-> Stored(entry[2], v)]

ParseKeyValues(flag, params, d) ==
    LET table == KeyValueTables[flag]
        Key(e, p) == IF p[1] \in DOMAIN table /\ Legal(table[p[1]][2], p[2])
                     THEN Set(e, KeyAssigns(table[p[1]], p[2], e.cfg))
                     ELSE Throw(e)
    IN Taken(d, FoldLeft(Key, Set(d, Presets(flag, d.cfg)), params))

ParseSingle(flag, v, d) ==
    LET entry == SingleOptions[flag]
    IN IF Legal(entry[2], v)
       THEN Set(d, [x \in {entry[1]} \cup entry[3] |-> IF x = entry[1] THEN Stored(entry[2], v) ELSE TRUE])
       ELSE Throw(d)

-----------------------------------------------------------------------------
(* Engines.                                                                *)

\* parseDuration with the multiplier in milliseconds.
ParseDuration(v, ms) == v * ms

\* A time control is given by the parts it has.
Part(tc, part) == IF part \in DOMAIN tc THEN tc[part] ELSE 0
TcLegal(tc) ==
    /\ tc # Malformed
    /\ \A part \in DOMAIN tc \ {"infinite"} : tc[part] >= (IF part = "moves" THEN 1 ELSE 0)
ParseTc(tc) ==
    [NoLimits EXCEPT !.moves = Part(tc, "moves"),
                     !.increment = ParseDuration(Part(tc, "increment"), 1000),
                     !.time = ParseDuration(Part(tc, "minutes"), 60000)
                              + ParseDuration(Part(tc, "seconds"), 1000)]

EngineKeyLegal(key, v) ==
    CASE key = "tc" -> TcLegal(v)
      [] key \in {"st", "timemargin"} -> v # Malformed /\ v >= 0
      [] key \in {"nodes", "plies", "depth"} -> v # Malformed
      [] key = "restart" -> v \in {"on", "off"}
      [] key = "proto" -> v = "uci"
      [] OTHER -> key \in {"cmd", "name", "dir", "args", "option"}

\* parseEngineKeyValues. A tc replaces all the limits of time, st and timemargin too.
EngineKey(e, key, v) ==
    CASE key = "tc" -> [e EXCEPT !.tc = ParseTc(v)]
      [] key = "st" -> [e EXCEPT !.tc.fixed_time = ParseDuration(v, 1000)]
      [] key = "timemargin" -> [e EXCEPT !.tc.timemargin = v]
      [] key = "nodes" -> [e EXCEPT !.nodes = v]
      [] key \in {"plies", "depth"} -> [e EXCEPT !.plies = v]
      [] key = "restart" -> [e EXCEPT !.restart = (v = "on")]
      [] key = "option" -> [e EXCEPT !.options = Append(@, v)]
      [] key = "proto" -> e
      [] OTHER -> [e EXCEPT ![key] = v]

\* The pairs of params applied to each of the engines from the i-th on.
ApplyToEngines(params, d, from) ==
    LET Key(e, p) ==
            IF EngineKeyLegal(p[1], p[2])
            THEN [e EXCEPT !.engines = [i \in DOMAIN @ |-> IF i >= from THEN EngineKey(@[i], p[1], p[2])
                                                                        ELSE @[i]]]
            ELSE Require(e, from > Len(e.engines))
    IN Taken(d, FoldLeft(Key, d, params))

ParseEngine(params, d) ==
    ApplyToEngines(params, [d EXCEPT !.engines = Append(@, NewEngine)], Len(d.engines) + 1)

ParseEach(params, d) == ApplyToEngines(params, d, 1)

\* -quick: two engines that differ in name, a book and the settings of a quick test.
QuickEngine(cmd) == [NewEngine EXCEPT !.cmd = cmd, !.name = cmd, !.tc.time = 10000, !.tc.increment = 100]
QuickSettings ==
    [games |-> 2, rounds |-> 25000, recover |-> TRUE, output |-> "cutechess",
     concurrency |-> IF HardwareThreads > 3 THEN HardwareThreads - 2 ELSE 1,
     draw_enabled |-> TRUE, draw_movenumber |-> 30, draw_movecount |-> 8, draw_score |-> 8]

ParseQuick(params, d) ==
    LET Key(e, p) ==
            CASE p[1] = "cmd" -> [e EXCEPT !.engines = Append(@, QuickEngine(p[2]))]
              [] p[1] = "book" /\ EndsIn[p[2]] \in Words.format ->
                    Set(e, [opening_file |-> p[2], opening_order |-> "random", opening_format |-> EndsIn[p[2]]])
              [] OTHER -> Throw(e)
        read   == Taken(d, FoldLeft(Key, d, params))
        first  == Len(d.engines) + 1
        second == first + 1
        same   == read.engines[first].name = read.engines[second].name
    IN IF Len(read.engines) = second /\ read.cfg.opening_file # ""
       THEN [Set(read, QuickSettings) EXCEPT
                !.engines[first].name = IF same THEN @ \o "1" ELSE @,
                !.engines[second].name = IF same THEN @ \o "2" ELSE @]
       ELSE Throw(read)

-----------------------------------------------------------------------------
(* Configuration files: disk is a function from their names to their       *)
(* contents.                                                               *)

\* What saveJson writes: the settings the JSON macros list, the engines, the results.
NotSaved == {"startup_ms", "ucinewgame_ms", "ping_ms", "affinity_cpus", "test_env", "strict"}
TbNotSaved == {"tb_result"}
SavedSettings == DOMAIN TournamentDefaults \ (NotSaved \cup TbNotSaved)

SavedForgetsVariant(cfg, engines, stats) ==
    [cfg |-> [x \in SavedSettings \ {"variant"} |-> cfg[x]], engines |-> engines, stats |-> stats]
Saved(cfg, engines, stats) == [cfg |-> [x \in SavedSettings |-> cfg[x]], engines |-> engines, stats |-> stats]

\* loadJson: everything read so far is set aside, and replaced.
LoadJson(file, disk, d) ==
    IF file \in DOMAIN disk
    THEN [d EXCEPT !.old_engines = d.engines, !.old_cfg = d.cfg,
                   !.cfg = Over(disk[file].cfg, TournamentDefaults),
                   !.engines = disk[file].engines, !.stats = disk[file].stats]
    ELSE Throw(d)

ConfigKey(e, p, disk) ==
    CASE p[1] = "file" -> LoadJson(p[2], disk, e)
      [] p[1] = "outname" -> Set(e, [config_name |-> p[2]])
      [] p = <<"discard", "true">> ->
            [e EXCEPT !.cfg = e.old_cfg, !.engines = e.old_engines, !.stats = 0]
      [] p[1] = "stats" -> e
      [] OTHER -> Throw(e)

ParseConfig(params, disk, d) ==
    LET read    == FoldLeft(LAMBDA e, p : ConfigKey(e, p, disk), d, params)
        last    == SelectLastInSeq(params, LAMBDA p : p[1] = "stats")
        dropped == Len(read.engines) > 2 \/ (last > 0 /\ params[last][2] = "false")
    IN [read EXCEPT !.stats = IF dropped THEN 0 ELSE @]

-----------------------------------------------------------------------------
(* The remaining options, and the dispatch on the flag.                    *)

\* -repeat without exactly one number is -games 2.
ParseRepeat(params, d) ==
    Set(d, [games |-> IF Len(params) = 1 /\ params[1] # Malformed /\ params[1] >= 0 THEN params[1] ELSE 2])

\* "standard" leaves the variant as it is.
ParseVariant(v, d) ==
    IF v \in {"fischerandom", "standard"}
    THEN Set(d, [variant |-> IF v = "fischerandom" THEN "fischerandom" ELSE d.cfg.variant])
    ELSE Throw(d)

\* parseIntList on a list of numbers and ranges <<first, last>>.
CpuRange(range) == [i \in 1..(range[2] - range[1] + 1) |-> range[1] + i - 1]
ParseAffinity(params, d) ==
    IF params # <<>> /\ (params[1] = Malformed \/ \E r \in ToSet(params[1]) : r[2] < r[1])
    THEN Throw(d)
    ELSE Set(d, [affinity |-> TRUE,
                 affinity_cpus |-> IF params = <<>> THEN d.cfg.affinity_cpus
                                   ELSE FoldLeft(LAMBDA acc, r : acc \o CpuRange(r),
                                                 d.cfg.affinity_cpus, params[1])])

ParseEvent(params, d) == Set(d, [pgn_event |-> params])
ParseSite(params, d) == Set(d, [pgn_site |-> params])

Free == {"event", "site", "repeat", "use-affinity"}
KeyValueOptional == {"pgnout", "epdout"}
KeyValue == (DOMAIN KeyValueTables \ KeyValueOptional) \cup {"engine", "each", "config", "quick"}
Single == DOMAIN SingleOptions \cup {"variant"}
Switches == DOMAIN SwitchOptions \cup {"debug"}

\* wrapHandler: the number and form of params a flag takes.
Accepted(o) ==
    /\ o.flag \in Free \cup KeyValueOptional \cup KeyValue \cup Single \cup Switches
    /\ o.flag \in Switches => o.params = <<>>
    /\ o.flag \in Single => Len(o.params) = 1
    /\ o.flag \in KeyValue => o.params # <<>>
    /\ o.flag \in KeyValue \cup KeyValueOptional => \A i \in DOMAIN o.params : o.params[i] # Malformed

\* registerOptions
Handle(o, disk, d) ==
    IF ~Accepted(o) \/ o.flag = "debug" THEN Throw(d) ELSE
    CASE o.flag \in DOMAIN KeyValueTables -> ParseKeyValues(o.flag, o.params, d)
      [] o.flag \in DOMAIN SingleOptions -> ParseSingle(o.flag, o.params[1], d)
      [] o.flag \in DOMAIN SwitchOptions -> Set(d, [x \in {SwitchOptions[o.flag]} |-> TRUE])
      [] o.flag = "engine" -> ParseEngine(o.params, d)
      [] o.flag = "each" -> ParseEach(o.params, d)
      [] o.flag = "quick" -> ParseQuick(o.params, d)
      [] o.flag = "config" -> ParseConfig(o.params, disk, d)
      [] o.flag = "repeat" -> ParseRepeat(o.params, d)
      [] o.flag = "variant" -> ParseVariant(o.params[1], d)
      [] o.flag = "use-affinity" -> ParseAffinity(o.params, d)
      [] o.flag = "event" -> ParseEvent(o.params, d)
      [] o.flag = "site" -> ParseSite(o.params, d)

\* OptionsParser::parse: the params of all deferred options (-each) are joined and come last.
DeferredNone == {}
Deferred == {"each"}

AtOnce(d, o, disk) == IF d.ok /\ o.flag \notin Deferred THEN Handle(o, disk, d) ELSE d
ParseLine(line, disk) ==
    LET read == FoldLeft(LAMBDA d, o : AtOnce(d, o, disk), NoArguments, line)
        late == FlattenSeq([i \in DOMAIN line |->
                               IF line[i].flag \in Deferred THEN line[i].params ELSE <<>>])
    IN IF read.ok /\ \E i \in DOMAIN line : line[i].flag \in Deferred
       THEN Handle([flag |-> "each", params |-> late], disk, read) ELSE read

-----------------------------------------------------------------------------
(* sanitize                                                                *)

FixConfigPentaFirst(d) ==
    LET c == d.cfg
        f == IF c.games > 2 THEN [c EXCEPT !.games = c.rounds, !.rounds = c.games] ELSE c
    IN [Require(d, f.games <= 2) EXCEPT
           !.cfg = [f EXCEPT !.report_penta = @ /\ c.output # "cutechess" /\ c.games >= 2]]

\* Games and rounds that look exchanged are exchanged; pentanomial statistics
\* need pairs of games and fastchess output.
FixConfig(d) ==
    LET c == d.cfg
        f == IF c.games > 2 THEN [c EXCEPT !.games = c.rounds, !.rounds = c.games] ELSE c
    IN [Require(d, f.games <= 2) EXCEPT
           !.cfg = [f EXCEPT !.report_penta = @ /\ f.output # "cutechess" /\ f.games = 2]]

SetDefaults(d) ==
    [d EXCEPT !.cfg.ratinginterval = IF @ = 0 THEN IntMax ELSE @,
              !.cfg.scoreinterval = IF @ = 0 THEN IntMax ELSE @]

\* Descriptors: with eventfd, and the limit of the system as getrlimit reports it.
MinFileDescriptorRequired(c) == 12 + c * 6
MaxConcurrency(fds) == (fds - 12) \div 6

Abs(n) == IF n < 0 THEN -n ELSE n

AdjustConcurrency(fds, d) ==
    LET c      == IF d.cfg.concurrency <= 0 THEN HardwareThreads - Abs(d.cfg.concurrency) ELSE d.cfg.concurrency
        enough == fds >= MinFileDescriptorRequired(c)
    IN [Require(d, /\ c > HardwareThreads => d.cfg.force_concurrency
                   /\ ~enough => MaxConcurrency(fds) >= 1) EXCEPT
           !.cfg.concurrency = IF enough THEN c ELSE MaxConcurrency(fds)]

\* SPRT::isValid; the Bayesian model switches pentanomial reports off. One is 1.0.
One == 1000
SprtIsValid(c) ==
    /\ c.sprt_elo0 < c.sprt_elo1
    /\ 0 < c.sprt_alpha /\ c.sprt_alpha < One
    /\ 0 < c.sprt_beta /\ c.sprt_beta < One
    /\ c.sprt_alpha + c.sprt_beta < One
    /\ c.sprt_model \in {"normalized", "bayesian", "logistic"}

ConfigIsValid(c) ==
    /\ c.sprt_enabled => SprtIsValid(c)
    /\ c.variant = "fischerandom" => c.opening_file # ""
    /\ c.tb_enabled => c.tb_dirs # ""
ValidateConfig(d) ==
    [Require(d, ConfigIsValid(d.cfg)) EXCEPT
        !.cfg.report_penta = @ /\ ~(d.cfg.sprt_enabled /\ d.cfg.sprt_model = "bayesian")]

SanitizeConfig(fds, d) == ValidateConfig(AdjustConcurrency(fds, SetDefaults(FixConfig(d))))

\* Limits of an engine: on a clock, by fixed time, or by the size of the search alone.
OnClock(e) == e.tc.time + e.tc.increment # 0
FixedTime(e) == e.tc.fixed_time # 0
Runnable(e) ==
    /\ OnClock(e) \/ FixedTime(e) \/ e.nodes # 0 \/ e.plies # 0
    /\ ~(OnClock(e) /\ FixedTime(e))
    /\ e.dir # "" \/ e.cmd \in AbsolutePaths => e.cmd \in ExistingFiles

Named(e) == [e EXCEPT !.name = IF @ = "" THEN Stem[e.cmd] ELSE @]

\* The k-th engine of a name gets the suffix _k.
UniqueNames(engines) ==
    [i \in DOMAIN engines |->
        LET k == Cardinality({j \in 1..i : engines[j].name = engines[i].name})
        IN IF k = 1 THEN engines[i] ELSE [engines[i] EXCEPT !.name = @ \o "_" \o ToString(k)]]

SanitizeEngines(d) ==
    LET named == [i \in DOMAIN d.engines |-> Named(d.engines[i])]
    IN [Require(d, /\ Len(d.engines) >= 2
                   /\ \A i \in DOMAIN named : Runnable(d.engines[i]) /\ named[i].name # "") EXCEPT
           !.engines = UniqueNames(named)]

\* The constructor: parse, give every engine the variant, sanitize both.
ApplyVariant(d) == [d EXCEPT !.engines = [i \in DOMAIN @ |-> [@[i] EXCEPT !.variant = d.cfg.variant]]]
Sanitized(fds, d) == IF d.ok THEN SanitizeEngines(SanitizeConfig(fds, ApplyVariant(d))) ELSE d

OptionsParser(line, disk, fds) == Sanitized(fds, ParseLine(line, disk))
=============================================================================

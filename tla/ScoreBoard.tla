----------------------------- MODULE ScoreBoard -----------------------------
(***************************************************************************)
(* The scoreboard of a tournament (class ScoreBoard) and the part of the   *)
(* finish callback that feeds it. Games finish in any order; in            *)
(* pentanomial mode the first game of a pair waits in a cache for the      *)
(* second. Results are kept by (white, black) and read from the point of   *)
(* view of one engine.                                                     *)
(***************************************************************************)
EXTENDS Stats, Sequences, FiniteSets, Folds

CONSTANTS
    Engines,     \* names of the engines, sequences of words
    Options,     \* the tournaments looked at, a set of records (see Option)
    MaxRestarts  \* bound on how often a saved tournament is resumed

(***************************************************************************)
(* penta, noswap, reverse   the flags of the same names                    *)
(* games                    -games, the games of one pairing               *)
(* encounters               the two engines of pairing 0, 1, 2, ..., of    *)
(*                          which the first is always the earlier one      *)
(***************************************************************************)
OptionOK(o) == /\ o.penta \in BOOLEAN /\ o.noswap \in BOOLEAN /\ o.reverse \in BOOLEAN
               /\ o.games \in Nat \ {0}
               /\ o.penta => o.games = 2
               /\ o.encounters \in Seq(Engines \X Engines)
               /\ \A k, l \in DOMAIN o.encounters :
                     o.encounters[k] # <<o.encounters[l][2], o.encounters[l][1]>>

ASSUME OptionsAssumption == \A o \in Options : OptionOK(o)

\* The engines are those of the configuration, a list.
ASSUME EnginesAssumption == IsFiniteSet(Engines)

\* A saved result is filed under the text "first vs second" and split at its first
\* " vs ": a name with that word in it is not told apart from its opponent.
ASSUME NamesAssumption ==
    \A e \in Engines : /\ e \in Seq({e[k] : k \in DOMAIN e}) /\ e # <<>>
                       /\ \A k \in DOMAIN e : e[k] # "vs"

NotPlayed == "none"
Outcomes == {"first", "second", "draw"}   \* who of the two engines of a pairing won

VARIABLES
    opt,              \* the configuration, constant
    results,          \* StatsMap: stats by <<white, black>>, zero when absent
    game_pair_cache,  \* pairing id -> stats of the pair's first finished game
    outcome,          \* history: outcome of every game id, or NotPlayed
    restarts

vars == <<opt, results, game_pair_cache, outcome, restarts>>

-----------------------------------------------------------------------------
(* Games, and the colours createMatch gives to the two engines.            *)

GameIds(o) == 1..(Len(o.encounters) * o.games)

PairingId(id) == (id - 1) \div opt.games

First(id) == opt.encounters[PairingId(id) + 1][1]
Second(id) == opt.encounters[PairingId(id) + 1][2]

\* Swap for every second game unless -noswap, swap again for -reverse.
Swapped(id) == (id % 2 = 0 /\ ~opt.noswap) # opt.reverse

White(id) == IF Swapped(id) THEN Second(id) ELSE First(id)
Black(id) == IF Swapped(id) THEN First(id) ELSE Second(id)

WhiteResult(id, out) ==
    CASE out = "draw" -> "draw"
      [] out = "first" -> IF Swapped(id) THEN "lose" ELSE "win"
      [] out = "second" -> IF Swapped(id) THEN "win" ELSE "lose"

GameStats(id, out) == OneGame(WhiteResult(id, out))

-----------------------------------------------------------------------------
(* The operations of the class.                                            *)

\* The increments updatePair makes to the sum of a pair's two games.
WithPenta(s) ==
    LET inc(cond) == IF cond THEN 1 ELSE 0
    IN [s EXCEPT !.WW = @ + inc(s.wins = 2),
                 !.WD = @ + inc(s.wins = 1 /\ s.draws = 1),
                 !.WL = @ + inc(s.wins = 1 /\ s.losses = 1),
                 !.DD = @ + inc(s.draws = 2),
                 !.LD = @ + inc(s.losses = 1 /\ s.draws = 1),
                 !.LL = @ + inc(s.losses = 2)]

UpdateNonPair(w, b, s) == results' = [results EXCEPT ![<<w, b>>] = AddStats(@, s)]

GetStats(a, b) == AddStats(results[<<a, b>>], InvertStats(results[<<b, a>>]))

\* One term of getAllStats: the stats of a stored pair as engine e sees them.
SeenByWhite(e, key) == results[key]
SeenBy(e, key) == IF key[1] = e THEN results[key] ELSE InvertStats(results[key])

\* The pairs e takes part in.
KeysOf(e) == {key \in DOMAIN results : e \in {key[1], key[2]}}

GetAllStats(e) ==
    MapThenFoldSet(AddStats, ZeroStats, LAMBDA key : SeenBy(e, key),
                   LAMBDA keys : CHOOSE key \in keys : TRUE, KeysOf(e))

EmptyMap == [p \in {} |-> ZeroStats]

IsPairCompleted(p) == p \notin DOMAIN game_pair_cache

-----------------------------------------------------------------------------
Init ==
    /\ opt \in Options
    /\ results = [key \in Engines \X Engines |-> ZeroStats]
    /\ game_pair_cache = EmptyMap
    /\ outcome = [id \in GameIds(opt) |-> NotPlayed]
    /\ restarts = 0

Played(id, out) ==
    /\ outcome[id] = NotPlayed
    /\ outcome' = [outcome EXCEPT ![id] = out]
    /\ UNCHANGED <<opt, restarts>>

\* updateNonPair
FinishSingle(id, out) ==
    /\ ~opt.penta
    /\ Played(id, out)
    /\ UpdateNonPair(White(id), Black(id), GameStats(id, out))
    /\ UNCHANGED game_pair_cache

\* updatePair, first game of the pair: wait for the other, seen from its White.
CachedUninverted(id, out) == GameStats(id, out)
Cached(id, out) == InvertStats(GameStats(id, out))

FinishFirstOfPair(id, out) ==
    /\ opt.penta
    /\ IsPairCompleted(PairingId(id))
    /\ Played(id, out)
    /\ game_pair_cache' = [p \in DOMAIN game_pair_cache \cup {PairingId(id)} |->
                              IF p = PairingId(id) THEN Cached(id, out) ELSE game_pair_cache[p]]
    /\ UNCHANGED results

\* updatePair, second game of the pair.
FinishSecondOfPair(id, out) ==
    /\ opt.penta
    /\ ~IsPairCompleted(PairingId(id))
    /\ Played(id, out)
    /\ UpdateNonPair(White(id), Black(id),
                     WithPenta(AddStats(game_pair_cache[PairingId(id)], GameStats(id, out))))
    /\ game_pair_cache' = [p \in DOMAIN game_pair_cache \ {PairingId(id)} |-> game_pair_cache[p]]

Finish(id, out) ==
    \/ FinishSingle(id, out)
    \/ FinishFirstOfPair(id, out)
    \/ FinishSecondOfPair(id, out)

\* saveJson keeps one entry for two engines, getStats of them in the order of the
\* configuration.
EngineBefore(a, b) == \E k \in DOMAIN opt.encounters : opt.encounters[k] = <<a, b>>

MergedResults == [key \in {k \in Engines \X Engines : EngineBefore(k[1], k[2])} |->
                     GetStats(key[1], key[2])]

\* to_json files it under a text, from_json splits the text again.
KeyText(key) == key[1] \o <<"vs">> \o key[2]

SplitText(text) ==
    LET at == CHOOSE k \in DOMAIN text : text[k] = "vs" /\ \A j \in 1..(k - 1) : text[j] # "vs"
    IN <<SubSeq(text, 1, at - 1), SubSeq(text, at + 1, Len(text))>>

ToJson(map) ==
    [text \in {KeyText(key) : key \in DOMAIN map} |->
        map[CHOOSE key \in DOMAIN map : KeyText(key) = text]]

FromJson(file) ==
    [key \in {SplitText(text) : text \in DOMAIN file} |->
        file[CHOOSE text \in DOMAIN file : SplitText(text) = key]]

\* An entry of the next run's map: absent ones are made of zeros when looked up.
Loaded(map, key) == IF key \in DOMAIN map THEN map[key] ELSE ZeroStats

\* parseConfig takes over the results of two engines only.
Players == {e \in Engines : \E k \in DOMAIN opt.encounters :
                               e \in {opt.encounters[k][1], opt.encounters[k][2]}}
StatsDropped == Cardinality(Players) > 2
Resumed == IF StatsDropped THEN EmptyMap ELSE FromJson(ToJson(MergedResults))

\* A game counts once it has finished, in pentanomial mode once its pair has.
Counted(id) == outcome[id] # NotPlayed /\ IsPairCompleted(PairingId(id))

\* The tournament is saved and a new process resumes it. The first games of
\* unfinished pairs are gone with the cache and are played again; of more than two
\* engines all games are.
SaveAndResume ==
    /\ restarts < MaxRestarts
    /\ restarts' = restarts + 1
    /\ results' = [key \in Engines \X Engines |-> Loaded(Resumed, key)]
    /\ game_pair_cache' = EmptyMap
    /\ outcome' = [id \in DOMAIN outcome |->
                      IF Counted(id) /\ ~StatsDropped THEN outcome[id] ELSE NotPlayed]
    /\ UNCHANGED opt

Next ==
    \/ \E id \in DOMAIN outcome, out \in Outcomes : Finish(id, out)
    \/ SaveAndResume

Spec == Init /\ [][Next]_vars

-----------------------------------------------------------------------------
(* Properties.                                                             *)

TypeOK ==
    /\ opt \in Options
    /\ results \in [Engines \X Engines -> StatsType]
    /\ \A p \in DOMAIN game_pair_cache : game_pair_cache[p] \in StatsType
    /\ outcome \in [GameIds(opt) -> Outcomes \cup {NotPlayed}]
    /\ restarts \in Nat

\* -noswap counts the first game of a pair for the opponent (see the README).
PairsSwap == ~(opt.penta /\ opt.noswap)

\* Counted games in which a won against b.
WonBy(a, b) ==
    {id \in DOMAIN outcome :
        /\ Counted(id)
        /\ \/ <<First(id), Second(id)>> = <<a, b>> /\ outcome[id] = "first"
           \/ <<First(id), Second(id)>> = <<b, a>> /\ outcome[id] = "second"}

DrawnBetween(a, b) ==
    {id \in DOMAIN outcome :
        Counted(id) /\ {First(id), Second(id)} = {a, b} /\ outcome[id] = "draw"}

\* The score of a against b that getStats reports is the number of games a really
\* won, lost and drew against b: whatever the colours, the order in which games
\* finished, the batching in pairs and the restarts in between. (The comment on
\* getStats: "Stats of engine1 vs engine2 + engine2 vs engine1, adjusted with the
\* perspective".)
ScoreIsTally ==
    PairsSwap => \A a, b \in Engines : a # b =>
        LET s == GetStats(a, b)
        IN /\ s.wins = Cardinality(WonBy(a, b))
           /\ s.losses = Cardinality(WonBy(b, a))
           /\ s.draws = Cardinality(DrawnBetween(a, b))

\* The score of an engine in the rating table, getAllStats, is the number of games it
\* really won, lost and drew against any opponent.
RatingIsTally ==
    PairsSwap => \A a \in Engines :
        LET all == GetAllStats(a)
            others == Engines \ {a}
        IN /\ all.wins = Cardinality(UNION {WonBy(a, b) : b \in others})
           /\ all.losses = Cardinality(UNION {WonBy(b, a) : b \in others})
           /\ all.draws = Cardinality(UNION {DrawnBetween(a, b) : b \in others})

\* Every entry that the SPRT reads is consistent: its pentanomial counts and its
\* game counts describe the same games.
PentaMatchesGames ==
    opt.penta => \A key \in DOMAIN results : PentaConsistent(results[key])

\* The pairs of a and b whose two games gave a exactly h half points.
HalfPointsOf(a, id) ==
    CASE outcome[id] = "draw" -> 1
      [] outcome[id] = (IF First(id) = a THEN "first" ELSE "second") -> 2
      [] OTHER -> 0

PairsWorth(a, b, h) ==
    {p \in {PairingId(id) : id \in DOMAIN outcome} :
        LET x == p * opt.games + 1
            y == p * opt.games + 2
        IN /\ {First(x), Second(x)} = {a, b}
           /\ Counted(x) /\ Counted(y)
           /\ HalfPointsOf(a, x) + HalfPointsOf(a, y) = h}

\* The five pentanomial counts are the pairs that really had that score.
PentaIsTally ==
    opt.penta /\ PairsSwap => \A a, b \in Engines : a # b =>
        LET s == GetStats(a, b)
        IN /\ s.WW = Cardinality(PairsWorth(a, b, 4))
           /\ s.WD = Cardinality(PairsWorth(a, b, 3))
           /\ s.WL + s.DD = Cardinality(PairsWorth(a, b, 2))
           /\ s.LD = Cardinality(PairsWorth(a, b, 1))
           /\ s.LL = Cardinality(PairsWorth(a, b, 0))
=============================================================================

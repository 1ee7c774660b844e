----------------------------- MODULE Scheduler -----------------------------
(***************************************************************************)
(* The pairing generator of a tournament and the opening book it draws     *)
(* from: TournamentSchedulerBase with its two subclasses (round robin and  *)
(* gauntlet) and book::OpeningBook.                                        *)
(*                                                                         *)
(* The configuration is a state variable that never changes: one run looks *)
(* at a whole set of tournaments, and the theorems of                      *)
(* GamesAndSessions_proofs hold for every set of them.                     *)
(***************************************************************************)
EXTENDS Integers, FiniteSets

CONSTANTS
    Configs,     \* the tournaments looked at, a set of records (see Config)
    NoOpening    \* std::nullopt of an opening id: the book is empty

(***************************************************************************)
(* kind      "roundrobin" or "gauntlet"       seeds   -seeds               *)
(* players   number of engines                rounds  -rounds              *)
(* games     -games                           book    openings in the file *)
(* played    games already played (of a saved config)                      *)
(***************************************************************************)
Config == [kind : {"roundrobin", "gauntlet"}, players : Nat, seeds : Nat,
           rounds : Nat, games : Nat, book : Nat, played : Nat]

ASSUME ConfigsAssumption ==
    /\ Configs \subseteq Config
    /\ \A c \in Configs : /\ c.players >= 2 /\ c.rounds >= 1 /\ c.games >= 1
                          /\ c.seeds >= 1

ASSUME NoOpeningAssumption == NoOpening \notin Nat

VARIABLES
    conf,            \* the configuration of this tournament
    current_round,
    game_counter,
    player1,
    player2,
    games_per_pair,  \* games issued of the current pairing
    pair_counter,
    opening,         \* opening id of the current pairing
    opening_index,   \* OpeningBook::opening_index_
    issued,          \* history: every Pairing next() has returned
    exhausted        \* next() has returned std::nullopt

vars == <<conf, current_round, game_counter, player1, player2,
          games_per_pair, pair_counter, opening, opening_index, issued, exhausted>>

-----------------------------------------------------------------------------
(* The two subclasses.                                                     *)

\* GauntletScheduler::n_seeds, and its form without the std::min.
SeedsUnbounded(c) == c.seeds
Seeds(c) == IF c.seeds < c.players - 1 THEN c.seeds ELSE c.players - 1

GetPlayer1Limit(c) == IF c.kind = "gauntlet" THEN Seeds(c) ELSE c.players - 1

RoundRobinTotal(c) == ((c.players * (c.players - 1)) \div 2) * c.rounds * c.games

GauntletTotal(c) ==
    (Seeds(c) * c.players - (Seeds(c) * (Seeds(c) + 1)) \div 2) * c.rounds * c.games

Total(c) == IF c.kind = "gauntlet" THEN GauntletTotal(c) ELSE RoundRobinTotal(c)

-----------------------------------------------------------------------------
(* The opening book is cut down to the number of rounds; ids run over what *)
(* is left. (OpeningBook says which lines of the file that is.)            *)

\* Openings::truncate
BookSize(c) == IF c.book > c.rounds THEN c.rounds ELSE c.book

FetchId == IF BookSize(conf) = 0 THEN NoOpening ELSE opening_index % BookSize(conf)

-----------------------------------------------------------------------------
Init ==
    /\ conf \in Configs
    /\ current_round = conf.played \div conf.games + 1
    /\ game_counter = conf.played
    /\ player1 = 0
    /\ player2 = 1
    /\ games_per_pair = 0
    /\ pair_counter = conf.played \div conf.games
    /\ opening = NoOpening
    /\ opening_index = 0
    /\ issued = {}
    /\ exhausted = FALSE

\* The opening of the game about to be issued: a new one at the start of a pairing.
OpeningPerGame == FetchId
OpeningNow == IF games_per_pair = 0 THEN FetchId ELSE opening

Pairing == [round_id   |-> current_round,
            pairing_id |-> pair_counter,
            game_id    |-> game_counter + 1,
            opening_id |-> OpeningNow,
            player1    |-> player1,
            player2    |-> player2]

\* What next() does with the counters once the pairing record is filled in.
StayInPair ==
    /\ games_per_pair + 1 < conf.games
    /\ games_per_pair' = games_per_pair + 1
    /\ UNCHANGED <<current_round, player1, player2, pair_counter>>

Player1After == IF player2 + 1 >= conf.players THEN player1 + 1 ELSE player1
Player2FromOne == IF player2 + 1 >= conf.players THEN 1 ELSE player2 + 1
Player2After == IF player2 + 1 >= conf.players THEN player1 + 2 ELSE player2 + 1

MoveToNextPair ==
    /\ games_per_pair + 1 >= conf.games
    /\ games_per_pair' = 0
    /\ pair_counter' = pair_counter + 1
    /\ IF Player1After >= GetPlayer1Limit(conf)
       THEN /\ current_round' = current_round + 1
            /\ player1' = 0
            /\ player2' = 1
       ELSE /\ player1' = Player1After
            /\ player2' = Player2After
            /\ UNCHANGED current_round

\* next() returns a pairing.
NextPairing ==
    /\ current_round <= conf.rounds
    /\ opening' = OpeningNow
    /\ opening_index' = IF games_per_pair = 0 THEN opening_index + 1 ELSE opening_index
    /\ issued' = issued \cup {Pairing}
    /\ game_counter' = game_counter + 1
    /\ StayInPair \/ MoveToNextPair
    /\ UNCHANGED <<conf, exhausted>>

\* next() returns std::nullopt.
NoMorePairings ==
    /\ current_round > conf.rounds
    /\ exhausted' = TRUE
    /\ UNCHANGED <<conf, current_round, game_counter, player1, player2, games_per_pair,
                   pair_counter, opening, opening_index, issued>>

Next == NextPairing \/ NoMorePairings

Spec == Init /\ [][Next]_vars

-----------------------------------------------------------------------------
(* Properties.                                                             *)

TypeOK ==
    /\ conf \in Configs
    /\ current_round \in Nat \ {0}
    /\ game_counter \in Nat
    /\ player1 \in Nat
    /\ player2 \in Nat
    /\ games_per_pair \in Nat
    /\ pair_counter \in Nat
    /\ opening \in Nat \cup {NoOpening}
    /\ opening_index \in Nat
    /\ issued \subseteq [round_id : Nat, pairing_id : Nat, game_id : Nat,
                         opening_id : Nat \cup {NoOpening}, player1 : Nat, player2 : Nat]
    /\ exhausted \in BOOLEAN

\* All games of one pairing id are the same two engines in the same round from
\* the same opening: updatePair and the pentanomial statistics take the two
\* games of a pairing id to be exactly that.
PairSharesOpening ==
    \A g, h \in issued : g.pairing_id = h.pairing_id =>
        /\ g.opening_id = h.opening_id
        /\ g.round_id = h.round_id
        /\ g.player1 = h.player1
        /\ g.player2 = h.player2

\* Two engines meet under one pairing id only in a round: no encounter is
\* scheduled again under another id, whatever the order of the two engines.
EncounterOnce ==
    \A g, h \in issued :
        (g.round_id = h.round_id /\ {g.player1, g.player2} = {h.player1, h.player2})
            => g.pairing_id = h.pairing_id

\* A pairing id stands for one encounter of one round and no other id for the same one;
\* the games under it are from the same opening.
PairingIdIsEncounter == PairSharesOpening /\ EncounterOnce

\* Game ids are handed out once each and without a gap from the first unplayed one.
GameIdsConsecutive ==
    /\ {g.game_id : g \in issued} = (conf.played + 1)..game_counter
    /\ Cardinality(issued) = game_counter - conf.played

\* A tournament that is new, or that was saved after a whole pairing. (Only the results of
\* two engines survive a restart, so a pairing is a round there.)
WholeRoundsPlayed ==
    \/ conf.played = 0
    \/ conf.players = 2 /\ conf.played % conf.games = 0 /\ conf.played <= conf.rounds * conf.games

\* The rounds a tournament still has to play, and the encounters of each.
OpenRounds == (conf.played \div conf.games + 1)..conf.rounds
Encounters == {e \in (0..(conf.players - 1)) \X (0..(conf.players - 1)) :
                  e[1] < e[2] /\ e[1] < GetPlayer1Limit(conf)}
GamesOf(r, e) == {g \in issued : g.round_id = r /\ <<g.player1, g.player2>> = e}

\* When next() first says there is nothing left, every encounter of every open
\* round has had exactly `games` games, and the last game id is what total()
\* promised the main loop.
CompleteWhenExhausted ==
    exhausted =>
        /\ \A r \in OpenRounds, e \in Encounters : Cardinality(GamesOf(r, e)) = conf.games
        /\ WholeRoundsPlayed => game_counter = Total(conf)
=============================================================================

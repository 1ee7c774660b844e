---------------------- MODULE GamesAndSessions_proofs ----------------------
(***************************************************************************)
(* Proofs about what goes on between the command line and a game: the      *)
(* pairing generator, the pool that runs what it issues, and the sessions  *)
(* that resume a saved tournament.                                         *)
(*                                                                         *)
(* The generator, for every set of configurations. Order is the heart of   *)
(* it: next() walks the encounters in increasing (round, player1, player2),*)
(* so a pairing id names one encounter only and no encounter comes back    *)
(* under another id.                                                       *)
(*                                                                         *)
(* The pool, for any finite number of threads and any set of tasks: it     *)
(* implements TaskPool, and it never loses a wakeup. The refinement rests  *)
(* on DataInv: what is queued is distinct, is not being run and was        *)
(* submitted, so taking the head of the queue is a Start of the abstract   *)
(* pool and the end of a task removes one running task.                    *)
(*                                                                         *)
(* The sessions, for any command lines, any number of sessions and games,  *)
(* and death at any moment: the games a tournament counts are in its file, *)
(* but for those that a stalled engine ended the tournament with.          *)
(* Between sessions only the saved files speak for the results, and what a *)
(* session starts from comes out of the parser, so FilesInv says that the  *)
(* count of every saved file is covered by the game file it names, and     *)
(* Resumes that the parser invents no results: whatever the options, the   *)
(* count it ends with is zero or that of a saved file. The parser is a     *)
(* fold of the community modules, a recursive function on sets of indices; *)
(* its facts are proved by induction on the largest index. Last, sanitize: *)
(* what it lets through is usable, and it changes nothing the second time. *)
(***************************************************************************)
EXTENDS Scheduler, ThreadPool, CommandLine, FiniteSetTheorems, NaturalsInduction, WellFoundedInduction,
        TLAPS

-----------------------------------------------------------------------------
(* The pairing generator.                                                  *)

LEMMA DivNat == ASSUME NEW a \in Nat, NEW b \in Nat \ {0} PROVE a \div b \in Nat
  OBVIOUS

LEMMA ModNat == ASSUME NEW a \in Nat, NEW b \in Nat \ {0} PROVE a % b \in Nat
  OBVIOUS

\* Encounter (r1, i1, j1) comes before (r2, i2, j2) in the schedule.
Before(r1, i1, j1, r2, i2, j2) ==
    \/ r1 < r2
    \/ r1 = r2 /\ i1 < i2
    \/ r1 = r2 /\ i1 = i2 /\ j1 < j2

\* What is known of a game already issued, relative to the counters.
IssuedBehindCounters ==
    \A g \in issued :
        /\ g.pairing_id <= pair_counter
        /\ g.player1 < g.player2
        /\ g.pairing_id = pair_counter =>
              /\ games_per_pair > 0
              /\ g.opening_id = opening
              /\ g.round_id = current_round
              /\ g.player1 = player1
              /\ g.player2 = player2
        /\ g.pairing_id < pair_counter =>
              Before(g.round_id, g.player1, g.player2, current_round, player1, player2)

IssuedInOrder ==
    \A g, h \in issued : g.pairing_id < h.pairing_id =>
        Before(g.round_id, g.player1, g.player2, h.round_id, h.player1, h.player2)

IdsBelowCounter == {g.game_id : g \in issued} = (conf.played + 1)..game_counter

IssuedCounted == IsFiniteSet(issued) /\ Cardinality(issued) = game_counter - conf.played

IInv == /\ TypeOK
        /\ player1 < player2
        /\ game_counter >= conf.played
        /\ IssuedBehindCounters
        /\ IssuedInOrder
        /\ PairSharesOpening
        /\ IdsBelowCounter
        /\ IssuedCounted

-----------------------------------------------------------------------------
LEMMA ConfType == ASSUME conf \in Configs
                  PROVE  /\ conf \in Config
                         /\ conf.players \in Nat /\ conf.players >= 2
                         /\ conf.rounds \in Nat /\ conf.rounds >= 1
                         /\ conf.games \in Nat \ {0}
                         /\ conf.book \in Nat
                         /\ conf.played \in Nat
                         /\ conf.played \div conf.games \in Nat
  <1>1. conf \in Config /\ conf.games \in Nat \ {0} /\ conf.played \in Nat
    BY ConfigsAssumption DEF Config
  <1>2. conf.played \div conf.games \in Nat
    BY <1>1, DivNat
  <1> QED BY <1>1, <1>2, ConfigsAssumption DEF Config

LEMMA FetchIdType == ASSUME TypeOK PROVE FetchId \in Nat \cup {NoOpening}
  <1>1. BookSize(conf) \in Nat
    BY ConfType DEF BookSize, TypeOK
  <1>2. CASE BookSize(conf) = 0
    BY <1>2 DEF FetchId
  <1>3. CASE BookSize(conf) # 0
    <2>1. opening_index % BookSize(conf) \in Nat
      BY <1>1, <1>3, ModNat DEF TypeOK
    <2> QED BY <2>1, <1>3 DEF FetchId
  <1> QED BY <1>2, <1>3

LEMMA OpeningNowType == ASSUME TypeOK PROVE OpeningNow \in Nat \cup {NoOpening}
  BY FetchIdType DEF OpeningNow, TypeOK

LEMMA PairingType ==
  ASSUME TypeOK
  PROVE  Pairing \in [round_id : Nat, pairing_id : Nat, game_id : Nat,
                      opening_id : Nat \cup {NoOpening}, player1 : Nat, player2 : Nat]
  BY OpeningNowType DEF Pairing, TypeOK

-----------------------------------------------------------------------------
LEMMA InitIInv == Init => IInv
  <1> SUFFICES ASSUME Init PROVE IInv OBVIOUS
  <1>1. conf.played \in Nat /\ conf.played \div conf.games \in Nat
    BY ConfType DEF Init
  <1>2. TypeOK
    <2>1. current_round \in Nat \ {0} /\ game_counter \in Nat /\ pair_counter \in Nat
      BY <1>1 DEF Init
    <2>2. issued = {} /\ opening = NoOpening
      BY DEF Init
    <2>3. /\ conf \in Configs /\ player1 \in Nat /\ player2 \in Nat /\ games_per_pair \in Nat
          /\ opening_index \in Nat /\ exhausted \in BOOLEAN
      BY DEF Init
    <2> QED BY <2>1, <2>2, <2>3 DEF TypeOK
  <1>3. IsFiniteSet(issued) /\ Cardinality(issued) = 0
    BY FS_EmptySet DEF Init
  <1>4. IssuedCounted
    BY <1>1, <1>3 DEF Init, IssuedCounted
  <1>5. IdsBelowCounter
    <2>1. {g.game_id : g \in issued} = {}
      BY DEF Init
    <2>2. (conf.played + 1)..game_counter = {}
      BY <1>1 DEF Init
    <2> QED BY <2>1, <2>2 DEF IdsBelowCounter
  <1> QED BY <1>1, <1>2, <1>4, <1>5
          DEF Init, IInv, IssuedBehindCounters, IssuedInOrder, PairSharesOpening

\* The parts of the invariant that speak of the new game and its predecessors.
LEMMA NextPairingIInv == IInv /\ NextPairing => IInv'
  <1> SUFFICES ASSUME IInv, NextPairing PROVE IInv' OBVIOUS
  <1> USE DEF IInv
  <1>t. PICK P \in [round_id : Nat, pairing_id : Nat, game_id : Nat,
                    opening_id : Nat \cup {NoOpening}, player1 : Nat, player2 : Nat] :
          /\ P = Pairing
          /\ P.round_id = current_round
          /\ P.pairing_id = pair_counter
          /\ P.game_id = game_counter + 1
          /\ P.opening_id = OpeningNow
          /\ P.player1 = player1
          /\ P.player2 = player2
    BY PairingType DEF Pairing
  <1>0. issued' = issued \cup {P}
    BY <1>t DEF NextPairing
  <1>1. /\ conf.players \in Nat /\ conf.players >= 2 /\ conf.games \in Nat \ {0}
        /\ conf.played \in Nat /\ conf' = conf
    BY ConfType DEF TypeOK, NextPairing
  <1>2. TypeOK'
    <2>1. /\ current_round' \in Nat \ {0} /\ player1' \in Nat /\ player2' \in Nat
          /\ games_per_pair' \in Nat /\ pair_counter' \in Nat
      BY <1>1 DEF NextPairing, StayInPair, MoveToNextPair, Player1After, Player2After, TypeOK
    <2>2. opening' \in Nat \cup {NoOpening}
      BY OpeningNowType DEF NextPairing
    <2>3. /\ conf' \in Configs /\ game_counter' \in Nat /\ opening_index' \in Nat
          /\ exhausted' \in BOOLEAN
      BY DEF NextPairing, TypeOK
    <2>4. issued' \subseteq [round_id : Nat, pairing_id : Nat, game_id : Nat,
                             opening_id : Nat \cup {NoOpening}, player1 : Nat, player2 : Nat]
      BY <1>0 DEF TypeOK
    <2> QED BY <2>1, <2>2, <2>3, <2>4 DEF TypeOK
  <1>3. player1' < player2'
    BY <1>1 DEF NextPairing, StayInPair, MoveToNextPair, Player1After, Player2After, TypeOK
  <1>4. \* the new game is not before any game already issued
        \A g \in issued :
          /\ g.pairing_id = P.pairing_id =>
                /\ g.opening_id = P.opening_id /\ g.round_id = P.round_id
                /\ g.player1 = P.player1 /\ g.player2 = P.player2
          /\ g.pairing_id # P.pairing_id =>
                /\ g.pairing_id < P.pairing_id
                /\ Before(g.round_id, g.player1, g.player2, P.round_id, P.player1, P.player2)
    <2> SUFFICES ASSUME NEW g \in issued
                 PROVE  /\ g.pairing_id = P.pairing_id =>
                              /\ g.opening_id = P.opening_id /\ g.round_id = P.round_id
                              /\ g.player1 = P.player1 /\ g.player2 = P.player2
                        /\ g.pairing_id # P.pairing_id =>
                              /\ g.pairing_id < P.pairing_id
                              /\ Before(g.round_id, g.player1, g.player2,
                                        P.round_id, P.player1, P.player2)
      OBVIOUS
    <2>1. g.pairing_id \in Nat /\ pair_counter \in Nat /\ games_per_pair \in Nat
      BY DEF TypeOK
    <2>2. CASE g.pairing_id = pair_counter
      BY <1>t, <2>1, <2>2 DEF IssuedBehindCounters, OpeningNow
    <2>3. CASE g.pairing_id # pair_counter
      BY <1>t, <2>1, <2>3 DEF IssuedBehindCounters
    <2> QED BY <2>2, <2>3
  <1>5. PairSharesOpening'
    BY <1>0, <1>4 DEF PairSharesOpening
  <1>6. IssuedInOrder'
    <2> SUFFICES ASSUME NEW g \in issued', NEW h \in issued', g.pairing_id < h.pairing_id
                 PROVE  Before(g.round_id, g.player1, g.player2, h.round_id, h.player1, h.player2)
      BY DEF IssuedInOrder
    <2>0. /\ \A x \in issued : x.pairing_id \in Nat /\ x.pairing_id <= pair_counter
          /\ pair_counter \in Nat
      BY DEF TypeOK, IssuedBehindCounters
    <2>1. CASE g \in issued /\ h \in issued
      BY <2>1 DEF IssuedInOrder
    <2>2. CASE g \in issued /\ h = P
      BY <2>0, <2>2, <1>4
    <2>3. CASE g = P
      BY <2>0, <2>3, <1>0, <1>t
    <2> QED BY <1>0, <2>1, <2>2, <2>3
  <1>7. IssuedBehindCounters'
    <2> SUFFICES ASSUME NEW g \in issued'
                 PROVE  /\ g.pairing_id <= pair_counter'
                        /\ g.player1 < g.player2
                        /\ g.pairing_id = pair_counter' =>
                              /\ games_per_pair' > 0
                              /\ g.opening_id = opening'
                              /\ g.round_id = current_round'
                              /\ g.player1 = player1'
                              /\ g.player2 = player2'
                        /\ g.pairing_id < pair_counter' =>
                              Before(g.round_id, g.player1, g.player2,
                                     current_round', player1', player2')
      BY DEF IssuedBehindCounters
    <2>1. /\ g.round_id \in Nat /\ g.pairing_id \in Nat /\ g.player1 \in Nat /\ g.player2 \in Nat
          /\ current_round \in Nat /\ pair_counter \in Nat /\ player1 \in Nat /\ player2 \in Nat
          /\ games_per_pair \in Nat
      BY <1>0 DEF TypeOK
    <2>2. g.pairing_id <= pair_counter /\ g.player1 < g.player2
      BY <1>0, <1>t DEF IssuedBehindCounters
    <2>3. g.pairing_id = pair_counter => /\ g.opening_id = OpeningNow
                                         /\ g.round_id = current_round
                                         /\ g.player1 = player1 /\ g.player2 = player2
      BY <1>0, <1>t, <1>4
    <2>4. g.pairing_id < pair_counter =>
            Before(g.round_id, g.player1, g.player2, current_round, player1, player2)
      BY <1>0, <1>t, <2>1 DEF IssuedBehindCounters
    <2>5. CASE StayInPair
      <3>1. /\ games_per_pair' > 0 /\ opening' = OpeningNow /\ current_round' = current_round
            /\ player1' = player1 /\ player2' = player2 /\ pair_counter' = pair_counter
        BY <2>1, <2>5 DEF StayInPair, NextPairing
      <3> QED BY <3>1, <2>2, <2>3, <2>4
    <2>6. CASE MoveToNextPair
      <3>1. pair_counter' = pair_counter + 1
        BY <2>6 DEF MoveToNextPair
      <3>2. Before(current_round, player1, player2, current_round', player1', player2')
        BY <2>1, <2>6, <1>1 DEF MoveToNextPair, Player1After, Player2After, Before
      <3>3. current_round' \in Nat /\ player1' \in Nat /\ player2' \in Nat
        BY <1>2 DEF TypeOK
      <3>4. Before(g.round_id, g.player1, g.player2, current_round', player1', player2')
        <4>1. CASE g.pairing_id = pair_counter
          BY <4>1, <2>3, <3>2
        <4>2. CASE g.pairing_id < pair_counter
          BY <4>2, <2>1, <2>4, <3>2, <3>3 DEF Before
        <4> QED BY <2>1, <2>2, <4>1, <4>2
      <3> QED BY <3>1, <3>4, <2>1, <2>2
    <2> QED BY <2>5, <2>6 DEF NextPairing
  <1>8. IdsBelowCounter' /\ game_counter' >= conf'.played
    <2>1. game_counter' = game_counter + 1 /\ game_counter \in Nat
      BY DEF NextPairing, TypeOK
    <2>2. {g.game_id : g \in issued'} = {g.game_id : g \in issued} \cup {game_counter + 1}
      BY <1>0, <1>t
    <2>3. (conf.played + 1)..(game_counter + 1) =
              ((conf.played + 1)..game_counter) \cup {game_counter + 1}
      BY <1>1, <2>1
    <2>4. {g.game_id : g \in issued'} = (conf'.played + 1)..game_counter'
      BY <1>1, <2>1, <2>2, <2>3 DEF IdsBelowCounter
    <2>5. game_counter' >= conf'.played
      BY <1>1, <2>1
    <2> QED BY <2>4, <2>5 DEF IdsBelowCounter
  <1>9. IssuedCounted'
    <2>1. P \notin issued
      <3>1. \A g \in issued : g.game_id \in (conf.played + 1)..game_counter
        BY DEF IdsBelowCounter
      <3> QED BY <3>1, <1>t, <1>1 DEF TypeOK
    <2>2. IsFiniteSet(issued') /\ Cardinality(issued') = Cardinality(issued) + 1
      BY <1>0, <2>1, FS_AddElement DEF IssuedCounted
    <2> QED BY <2>2, <1>1 DEF IssuedCounted, NextPairing, TypeOK
  <1> QED BY <1>2, <1>3, <1>5, <1>6, <1>7, <1>8, <1>9

LEMMA UnchangedIInv == IInv /\ (NoMorePairings \/ UNCHANGED vars) => IInv'
  <1> SUFFICES ASSUME IInv, NoMorePairings \/ UNCHANGED vars PROVE IInv' OBVIOUS
  <1>1. UNCHANGED <<conf, current_round, game_counter, player1, player2, games_per_pair,
                    pair_counter, opening, opening_index, issued>>
    BY DEF NoMorePairings, vars
  <1>2. exhausted' \in BOOLEAN
    BY DEF NoMorePairings, vars, IInv, TypeOK
  <1> QED BY <1>1, <1>2
          DEF IInv, TypeOK, IssuedBehindCounters, IssuedInOrder, PairSharesOpening,
              IdsBelowCounter, IssuedCounted

THEOREM Invariance == Spec => []IInv
  <1>1. IInv /\ [Next]_vars => IInv'
    BY NextPairingIInv, UnchangedIInv DEF Next
  <1> QED BY InitIInv, <1>1, PTL DEF Spec

-----------------------------------------------------------------------------
\* The state of the generator has the type the declarations in
\* base_scheduler.hpp give it; no counter becomes negative (they are unsigned).
THEOREM TypeCorrect == Spec => []TypeOK
  <1>1. IInv => TypeOK BY DEF IInv
  <1> QED BY <1>1, Invariance, PTL

\* A schedule in order meets no encounter twice in a round.
LEMMA InOrderOnce == IInv => EncounterOnce
  <1> SUFFICES ASSUME IInv, NEW g \in issued, NEW h \in issued,
                      g.round_id = h.round_id,
                      {g.player1, g.player2} = {h.player1, h.player2}
               PROVE  g.pairing_id = h.pairing_id
    BY DEF EncounterOnce
  <1>1. /\ g.pairing_id \in Nat /\ h.pairing_id \in Nat
        /\ g.player1 \in Nat /\ g.player2 \in Nat /\ h.player1 \in Nat /\ h.player2 \in Nat
        /\ g.round_id \in Nat
    BY DEF IInv, TypeOK
  <1>2. g.player1 < g.player2 /\ h.player1 < h.player2
    BY DEF IInv, IssuedBehindCounters
  <1>3. g.player1 = h.player1 /\ g.player2 = h.player2
    BY <1>1, <1>2
  <1>4. ~(g.pairing_id < h.pairing_id) /\ ~(h.pairing_id < g.pairing_id)
    BY <1>1, <1>3 DEF IInv, IssuedInOrder, Before
  <1> QED BY <1>1, <1>4

\* Games with one pairing id are the same encounter of a round from the same opening, and
\* no encounter of a round is scheduled under two pairing ids.
THEOREM PairsAreConsistent == Spec => []PairingIdIsEncounter
  <1>1. IInv => PairingIdIsEncounter
    BY InOrderOnce DEF IInv, PairingIdIsEncounter
  <1> QED BY <1>1, Invariance, PTL

\* Game ids run without gap or repetition from the first unplayed game.
THEOREM GameIdsAreConsecutive == Spec => []GameIdsConsecutive
  <1>1. IInv => GameIdsConsecutive
    BY DEF IInv, IdsBelowCounter, IssuedCounted, GameIdsConsecutive
  <1> QED BY <1>1, Invariance, PTL

-----------------------------------------------------------------------------
(* Completeness: the encounters of a round, in the order of the schedule.  *)

Triangle(n) == (n * (n + 1)) \div 2

\* The pairings of a round before that of player i against player j, and all of them.
PairingsBefore(c, i, j) == i * c.players - Triangle(i) + (j - i - 1)
PairingsPerRound(c) == GetPlayer1Limit(c) * c.players - Triangle(GetPlayer1Limit(c))

\* The generator is at an encounter of the round; after the last round it is at the first.
AtEncounter ==
    /\ player1 < GetPlayer1Limit(conf) /\ player2 < conf.players
    /\ games_per_pair < conf.games
    /\ current_round > conf.played \div conf.games
    /\ current_round > conf.rounds => player1 = 0 /\ player2 = 1 /\ games_per_pair = 0
    /\ exhausted => current_round > conf.rounds

\* The games issued of an encounter: all before the present one, none after it.
GamesSoFar(r, i, j) ==
    IF Before(r, i, j, current_round, player1, player2) THEN conf.games
    ELSE IF r = current_round /\ i = player1 /\ j = player2 THEN games_per_pair
    ELSE 0
EncountersCounted ==
    \A r \in OpenRounds, e \in Encounters :
        IsFiniteSet(GamesOf(r, e)) /\ Cardinality(GamesOf(r, e)) = GamesSoFar(r, e[1], e[2])

\* The last game id is the number of games before the present one.
IdsCounted ==
    WholeRoundsPlayed =>
        /\ current_round <= conf.rounds + 1
        /\ game_counter =
               ((current_round - 1) * PairingsPerRound(conf)
                   + PairingsBefore(conf, player1, player2)) * conf.games + games_per_pair

CInv == IInv /\ AtEncounter /\ EncountersCounted /\ IdsCounted

\* The arithmetic of triangles.
LEMMA TriangleFacts ==
  ASSUME NEW n \in Nat
  PROVE  /\ Triangle(n) \in Nat
         /\ Triangle(n + 1) = Triangle(n) + n + 1
         /\ n * (n + 1) = 2 * Triangle(n)
  <1>1. \E k \in Nat : n * (n + 1) = 2 * k
    <2>1. PICK h \in Nat : n = 2 * h \/ n = 2 * h + 1
      <3>1. n = 2 * (n \div 2) \/ n = 2 * (n \div 2) + 1
        OBVIOUS
      <3>2. n \div 2 \in Nat
        OBVIOUS
      <3> QED BY <3>1, <3>2
    <2>2. CASE n = 2 * h
      <3>1. h * (n + 1) \in Nat
        OBVIOUS
      <3>2. n * (n + 1) = 2 * (h * (n + 1))
        BY <2>2
      <3> QED BY <3>1, <3>2
    <2>3. CASE n = 2 * h + 1
      <3>1. n * (h + 1) \in Nat
        OBVIOUS
      <3>2. n + 1 = 2 * (h + 1)
        BY <2>3
      <3>3. n * (n + 1) = 2 * (n * (h + 1))
        BY <3>2
      <3> QED BY <3>1, <3>3
    <2> QED BY <2>1, <2>2, <2>3
  <1>2. PICK k \in Nat : n * (n + 1) = 2 * k
    BY <1>1
  <1>3. Triangle(n) = k
    <2>1. (2 * k) \div 2 = k
      OBVIOUS
    <2> QED BY <1>2, <2>1 DEF Triangle
  <1>4. Triangle(n + 1) = k + n + 1
    <2>1. (n + 1) * (n + 1 + 1) = 2 * (k + n + 1)
      <3>1. (n + 1) * (n + 1 + 1) = n * (n + 1) + 2 * (n + 1)
        OBVIOUS
      <3> QED BY <1>2, <3>1
    <2>2. \A m \in Nat : (2 * m) \div 2 = m
      OBVIOUS
    <2>3. (2 * (k + n + 1)) \div 2 = k + n + 1
      BY <2>2
    <2> QED BY <2>1, <2>3 DEF Triangle
  <1> QED BY <1>2, <1>3, <1>4

\* The players that meet others.
LEMMA LimitFacts ==
  ASSUME conf \in Configs
  PROVE  GetPlayer1Limit(conf) \in 1..(conf.players - 1)
  BY ConfType, ConfigsAssumption DEF GetPlayer1Limit, Seeds, Config

\* How the number of pairings before an encounter grows.
LEMMA PairingsFacts ==
  ASSUME conf \in Configs, NEW i \in Nat, NEW j \in Nat
  PROVE  /\ PairingsBefore(conf, 0, 1) = 0
         /\ PairingsBefore(conf, i, j) \in Int
         /\ PairingsPerRound(conf) \in Int
         /\ PairingsBefore(conf, i, j + 1) = PairingsBefore(conf, i, j) + 1
         /\ j + 1 = conf.players =>
                PairingsBefore(conf, i + 1, i + 2) = PairingsBefore(conf, i, j) + 1
         /\ j + 1 = conf.players /\ i + 1 = GetPlayer1Limit(conf) =>
                PairingsPerRound(conf) = PairingsBefore(conf, i, j) + 1
  <1> DEFINE n == conf.players
             lim == GetPlayer1Limit(conf)
  <1>1. n \in Nat /\ lim \in Nat
    BY ConfType, LimitFacts
  <1>2. Triangle(0) = 0
    BY DEF Triangle
  <1>3. Triangle(i) \in Nat /\ Triangle(i + 1) = Triangle(i) + i + 1 /\ Triangle(lim) \in Nat
    BY <1>1, TriangleFacts
  <1>4. 0 * n = 0 /\ i * n \in Nat /\ lim * n \in Nat /\ (i + 1) * n = i * n + n
    BY <1>1
  <1> HIDE DEF n, lim
  <1>5. PairingsBefore(conf, 0, 1) = 0
    BY <1>2, <1>4 DEF PairingsBefore, n
  <1>6. PairingsBefore(conf, i, j) = i * n - Triangle(i) + (j - i - 1)
    BY DEF PairingsBefore, n
  <1>7. PairingsBefore(conf, i, j + 1) = i * n - Triangle(i) + (j + 1 - i - 1)
    BY DEF PairingsBefore, n
  <1>8. PairingsBefore(conf, i + 1, i + 2) = (i + 1) * n - Triangle(i + 1) + (i + 2 - (i + 1) - 1)
    BY DEF PairingsBefore, n
  <1>9. PairingsPerRound(conf) = lim * n - Triangle(lim)
    BY DEF PairingsPerRound, n, lim
  <1> DEFINE p == i * n
             q == (i + 1) * n
             t == Triangle(i)
             tt == Triangle(i + 1)
  <1>10. p \in Nat /\ q = p + n /\ t \in Nat /\ tt = t + i + 1
    BY <1>3, <1>4
  <1>11. i + 1 = lim => PairingsPerRound(conf) = q - tt
    BY <1>9
  <1> HIDE DEF p, q, t, tt
  <1>12. /\ PairingsBefore(conf, i, j) = p - t + (j - i - 1)
         /\ PairingsBefore(conf, i, j + 1) = p - t + (j + 1 - i - 1)
         /\ PairingsBefore(conf, i + 1, i + 2) = q - tt + (i + 2 - (i + 1) - 1)
    BY <1>6, <1>7, <1>8 DEF p, q, t, tt
  <1>13. PairingsPerRound(conf) \in Int
    BY <1>3, <1>4, <1>9
  <1>14. PairingsBefore(conf, i, j) \in Int
    BY <1>10, <1>12
  <1>15. PairingsBefore(conf, i, j + 1) = PairingsBefore(conf, i, j) + 1
    BY <1>10, <1>12
  <1>16. j + 1 = n => PairingsBefore(conf, i + 1, i + 2) = PairingsBefore(conf, i, j) + 1
    BY <1>1, <1>10, <1>12
  <1>17. j + 1 = n /\ i + 1 = lim => PairingsPerRound(conf) = PairingsBefore(conf, i, j) + 1
    BY <1>1, <1>10, <1>11, <1>12
  <1> QED BY <1>5, <1>13, <1>14, <1>15, <1>16, <1>17 DEF n, lim

\* total() is the number of pairings of a round, times rounds and games.
LEMMA TotalFacts ==
  ASSUME conf \in Configs
  PROVE  Total(conf) = PairingsPerRound(conf) * conf.rounds * conf.games
  <1> DEFINE n == conf.players
  <1>1. CASE conf.kind = "gauntlet"
    BY <1>1 DEF Total, GauntletTotal, PairingsPerRound, GetPlayer1Limit, Triangle
  <1>2. CASE conf.kind # "gauntlet"
    <2>1. n - 1 \in Nat /\ n \in Nat
      BY ConfType
    <2>2. (n - 1) * (n - 1 + 1) = 2 * Triangle(n - 1) /\ Triangle(n - 1) \in Nat
      BY <2>1, TriangleFacts
    <2>3. n - 1 + 1 = n /\ n * (n - 1) = (n - 1) * n
      BY <2>1
    <2>4. (n * (n - 1)) \div 2 = Triangle(n - 1)
      BY <2>3 DEF Triangle
    <2>5. PairingsPerRound(conf) = (n - 1) * n - Triangle(n - 1)
      BY <1>2 DEF PairingsPerRound, GetPlayer1Limit
    <2>6. PairingsPerRound(conf) = Triangle(n - 1)
      <3> DEFINE t == Triangle(n - 1)
                 p == (n - 1) * n
      <3>1. p = 2 * t /\ t \in Nat /\ PairingsPerRound(conf) = p - t
        BY <2>2, <2>3, <2>5
      <3> HIDE DEF t, p
      <3>2. PairingsPerRound(conf) = t
        BY <3>1
      <3> QED BY <3>2 DEF t
    <2> QED BY <1>2, <2>4, <2>6 DEF Total, RoundRobinTotal
  <1> QED BY <1>1, <1>2

LEMMA InitCInv == Init => CInv
  <1> SUFFICES ASSUME Init PROVE CInv OBVIOUS
  <1>1. IInv
    BY InitIInv
  <1>2. conf \in Configs
    BY DEF Init
  <1>t. /\ conf.games \in Nat \ {0} /\ conf.rounds \in Nat /\ conf.rounds >= 1
        /\ conf.played \in Nat /\ conf.played \div conf.games \in Nat /\ conf.players \in Nat /\ conf.players >= 2
    BY <1>2, ConfType
  <1>3. AtEncounter
    BY <1>2, <1>t, LimitFacts DEF Init, AtEncounter
  <1>4. EncountersCounted
    <2> SUFFICES ASSUME NEW r \in OpenRounds, NEW e \in Encounters
                 PROVE  /\ IsFiniteSet(GamesOf(r, e))
                        /\ Cardinality(GamesOf(r, e)) = GamesSoFar(r, e[1], e[2])
      BY DEF EncountersCounted
    <2>1. GamesOf(r, e) = {}
      BY DEF Init, GamesOf
    <2>2. ~Before(r, e[1], e[2], current_round, player1, player2)
      BY <1>t DEF Init, Before, OpenRounds, Encounters
    <2>3. GamesSoFar(r, e[1], e[2]) = 0
      BY <2>2 DEF GamesSoFar, Init
    <2> QED BY <2>1, <2>3, FS_EmptySet
  <1>5. IdsCounted
    <2> DEFINE k == conf.played \div conf.games
    <2>1. PairingsBefore(conf, player1, player2) = 0 /\ games_per_pair = 0 /\ current_round - 1 = k
          /\ game_counter = conf.played
      BY <1>2, <1>t, PairingsFacts DEF Init
    <2>2. CASE conf.played = 0
      <3>1. k = 0
        BY <1>t, <2>2
      <3>4. PairingsPerRound(conf) \in Int
        <4>1. 0 \in Nat
          OBVIOUS
        <4> QED BY <1>2, <4>1, PairingsFacts
      <3>2. 0 * PairingsPerRound(conf) = 0 /\ (0 + 0) * conf.games = 0
        BY <1>t, <3>4
      <3>3. current_round <= conf.rounds + 1
        BY <1>t, <3>1 DEF Init
      <3> QED BY <1>t, <2>1, <2>2, <3>1, <3>2, <3>3 DEF IdsCounted
    <2>3. CASE conf.players = 2 /\ conf.played % conf.games = 0
               /\ conf.played <= conf.rounds * conf.games
      <3>1. conf.played = k * conf.games
        BY <1>t, <2>3
      <3>2. k <= conf.rounds
        <4>1. SUFFICES ASSUME k >= conf.rounds + 1 PROVE FALSE
          BY <1>t
        <4>2. k * conf.games >= (conf.rounds + 1) * conf.games
          BY <1>t, <4>1
        <4>3. (conf.rounds + 1) * conf.games = conf.rounds * conf.games + conf.games
          BY <1>t
        <4> DEFINE a == k * conf.games
                   b == conf.rounds * conf.games
        <4>4. a \in Nat /\ b \in Nat /\ a <= b /\ a >= b + conf.games
          BY <1>t, <2>3, <3>1, <4>2, <4>3
        <4> HIDE DEF a, b
        <4> QED BY <1>t, <4>4
      <3>3. PairingsPerRound(conf) = 1
        <4>1. GetPlayer1Limit(conf) = 1
          BY <1>2, <2>3, LimitFacts
        <4>2. Triangle(1) = 1
          BY DEF Triangle
        <4> QED BY <2>3, <4>1, <4>2 DEF PairingsPerRound
      <3>4. (k * 1 + 0) * conf.games + 0 = k * conf.games
        BY <1>t
      <3>5. current_round <= conf.rounds + 1
        BY <1>t, <2>1, <3>2 DEF Init
      <3> QED BY <2>1, <3>1, <3>3, <3>4, <3>5 DEF IdsCounted
    <2> QED BY <2>2, <2>3 DEF IdsCounted, WholeRoundsPlayed
  <1> QED BY <1>1, <1>3, <1>4, <1>5 DEF CInv

\* Where next() goes from the present encounter: nowhere, or to its successor.
LEMMA NextEncounter ==
  ASSUME CInv, NextPairing
  PROVE  /\ conf' = conf /\ current_round <= conf.rounds
         /\ AtEncounter'
         /\ \A r \in OpenRounds, i \in Nat, j \in Nat :
              i < j /\ j < conf.players /\ i < GetPlayer1Limit(conf) =>
              (Before(r, i, j, current_round', player1', player2') <=>
                 \/ Before(r, i, j, current_round, player1, player2)
                 \/ MoveToNextPair /\ r = current_round /\ i = player1 /\ j = player2)
  <1>t. /\ conf.games \in Nat \ {0} /\ conf.rounds \in Nat /\ conf.played \div conf.games \in Nat
        /\ conf.players \in Nat /\ conf.players >= 2
        /\ GetPlayer1Limit(conf) \in 1..(conf.players - 1)
        /\ current_round \in Nat /\ player1 \in Nat /\ player2 \in Nat /\ games_per_pair \in Nat
        /\ player1 < player2
    BY ConfType, LimitFacts DEF CInv, IInv, TypeOK
  <1>0. conf' = conf /\ current_round <= conf.rounds /\ exhausted' = exhausted
    BY DEF NextPairing
  <1>1. /\ player1 < GetPlayer1Limit(conf) /\ player2 < conf.players
        /\ games_per_pair < conf.games /\ current_round > conf.played \div conf.games
        /\ ~exhausted
    BY <1>0, <1>t DEF CInv, AtEncounter
  <1>c. GetPlayer1Limit(conf)' = GetPlayer1Limit(conf)
    BY <1>0
  <1> DEFINE lim == GetPlayer1Limit(conf)
  <1>2. CASE StayInPair
    <2>1. UNCHANGED <<current_round, player1, player2>> /\ games_per_pair' = games_per_pair + 1
          /\ games_per_pair + 1 < conf.games /\ ~MoveToNextPair
      BY <1>2, <1>t DEF StayInPair, MoveToNextPair
    <2>2. AtEncounter'
      BY <1>0, <1>1, <1>t, <2>1, <1>c DEF AtEncounter
    <2>3. \A r, i, j : Before(r, i, j, current_round', player1', player2')
                         <=> Before(r, i, j, current_round, player1, player2)
      BY <2>1
    <2> QED BY <1>0, <2>1, <2>2, <2>3
  <1>3. CASE MoveToNextPair
    <2>1. games_per_pair' = 0
          /\ IF Player1After >= lim
             THEN current_round' = current_round + 1 /\ player1' = 0 /\ player2' = 1
             ELSE /\ current_round' = current_round
                  /\ player1' = Player1After /\ player2' = Player2After
      BY <1>3 DEF MoveToNextPair
    <2>2. \/ /\ player2 + 1 < conf.players /\ player1' = player1 /\ player2' = player2 + 1
             /\ current_round' = current_round
          \/ /\ player2 + 1 = conf.players /\ player1 + 1 < lim /\ player1' = player1 + 1
             /\ player2' = player1 + 2 /\ current_round' = current_round
          \/ /\ player2 + 1 = conf.players /\ player1 + 1 = lim /\ player1' = 0 /\ player2' = 1
             /\ current_round' = current_round + 1
      BY <1>t, <1>1, <2>1 DEF Player1After, Player2After
    <2>3. AtEncounter'
      <3> HIDE DEF lim
      <3>1. lim \in 1..(conf.players - 1) /\ player1 < lim
        BY <1>1, <1>t DEF lim
      <3>2. player1' < lim /\ player2' < conf.players
        BY <1>t, <1>1, <2>2, <3>1
      <3>3. current_round' > conf.played \div conf.games
        BY <1>t, <1>1, <2>2
      <3>4. current_round' > conf.rounds => player1' = 0 /\ player2' = 1
        BY <1>t, <1>0, <2>2
      <3> QED BY <1>0, <1>1, <1>t, <1>c, <2>1, <3>2, <3>3, <3>4 DEF AtEncounter, lim
    <2>4. ASSUME NEW r \in OpenRounds, NEW i \in Nat, NEW j \in Nat,
                 i < j, j < conf.players, i < lim
          PROVE  Before(r, i, j, current_round', player1', player2') <=>
                   \/ Before(r, i, j, current_round, player1, player2)
                   \/ r = current_round /\ i = player1 /\ j = player2
      <3>1. r \in Int
        BY <1>t DEF OpenRounds
      <3>l. lim \in Nat
        BY <1>t
      <3> HIDE DEF lim
      <3>2. CASE player1' = player1 /\ player2' = player2 + 1 /\ current_round' = current_round
        BY <1>t, <3>1, <3>2 DEF Before
      <3>3. CASE /\ player2 + 1 = conf.players /\ player1' = player1 + 1
                 /\ player2' = player1 + 2 /\ current_round' = current_round
        BY <1>t, <2>4, <3>1, <3>3 DEF Before
      <3>4. CASE /\ player2 + 1 = conf.players /\ player1 + 1 = lim /\ player1' = 0 /\ player2' = 1
                 /\ current_round' = current_round + 1
        BY <1>t, <2>4, <3>1, <3>l, <3>4 DEF Before
      <3> QED BY <2>2, <3>2, <3>3, <3>4
    <2> QED BY <1>0, <1>3, <2>3, <2>4
  <1> QED BY <1>2, <1>3 DEF NextPairing

\* The successor of an encounter, in the words of Before.
LEMMA MoveToSuccessor ==
  ASSUME CInv, NextPairing, MoveToNextPair
  PROVE  /\ games_per_pair' = 0 /\ games_per_pair + 1 = conf.games
         /\ \/ /\ player1' = player1 /\ player2' = player2 + 1 /\ current_round' = current_round
            \/ /\ player2 + 1 = conf.players
               /\ player1' = player1 + 1 /\ player2' = player1 + 2 /\ current_round' = current_round
            \/ /\ player2 + 1 = conf.players /\ player1 + 1 = GetPlayer1Limit(conf)
               /\ player1' = 0 /\ player2' = 1 /\ current_round' = current_round + 1
  <1>t. /\ conf.games \in Nat \ {0} /\ conf.players \in Nat
        /\ GetPlayer1Limit(conf) \in 1..(conf.players - 1)
        /\ player1 \in Nat /\ player2 \in Nat /\ games_per_pair \in Nat
        /\ player1 < GetPlayer1Limit(conf) /\ player2 < conf.players
        /\ games_per_pair < conf.games
    BY ConfType, LimitFacts DEF CInv, IInv, TypeOK, AtEncounter
  <1> DEFINE lim == GetPlayer1Limit(conf)
  <1>1. /\ games_per_pair' = 0 /\ games_per_pair + 1 >= conf.games
        /\ IF Player1After >= lim
           THEN current_round' = current_round + 1 /\ player1' = 0 /\ player2' = 1
           ELSE current_round' = current_round /\ player1' = Player1After /\ player2' = Player2After
    BY DEF MoveToNextPair
  <1> QED BY <1>t, <1>1 DEF Player1After, Player2After

LEMMA NextPairingIds == ASSUME CInv, NextPairing PROVE IdsCounted'
  <1>0. conf' = conf /\ current_round <= conf.rounds /\ game_counter' = game_counter + 1
    BY DEF NextPairing
  <1> SUFFICES ASSUME WholeRoundsPlayed
               PROVE  /\ current_round' <= conf.rounds + 1
                      /\ game_counter' =
                             ((current_round' - 1) * PairingsPerRound(conf)
                                + PairingsBefore(conf, player1', player2')) * conf.games
                             + games_per_pair'
    BY <1>0 DEF IdsCounted, WholeRoundsPlayed, PairingsPerRound, PairingsBefore, GetPlayer1Limit,
                Seeds, Triangle
  <1> DEFINE m == PairingsPerRound(conf)
             b == PairingsBefore(conf, player1, player2)
             bb == PairingsBefore(conf, player1', player2')
             z == (current_round - 1) * m
             zz == (current_round' - 1) * m
  <1>t. /\ conf \in Configs /\ conf.games \in Nat /\ conf.rounds \in Nat
        /\ current_round \in Nat /\ game_counter \in Nat /\ games_per_pair \in Nat
        /\ player1 \in Nat /\ player2 \in Nat
    BY ConfType DEF CInv, IInv, TypeOK
  <1>1. game_counter = (z + b) * conf.games + games_per_pair
    BY DEF CInv, IdsCounted
  <1>2. m \in Int /\ b \in Int
    BY <1>t, PairingsFacts
  <1>3. z \in Int
    <2> HIDE DEF m
    <2> QED BY <1>t, <1>2
  <1>4. CASE StayInPair
    <2>1. UNCHANGED <<current_round, player1, player2>> /\ games_per_pair' = games_per_pair + 1
      BY <1>4 DEF StayInPair
    <2>2. bb = b /\ zz = z
      BY <2>1
    <2> DEFINE g == (z + b) * conf.games
    <2>3. g \in Int
      <3> HIDE DEF z, b
      <3> QED BY <1>t, <1>2, <1>3
    <2>4. game_counter' = g + games_per_pair'
      <3>1. game_counter = g + games_per_pair
        BY <1>1
      <3> HIDE DEF g
      <3> QED BY <1>0, <1>t, <2>1, <2>3, <3>1
    <2> QED BY <1>0, <1>t, <2>1, <2>2, <2>4
  <1>5. CASE MoveToNextPair
    <2>1. games_per_pair' = 0 /\ games_per_pair + 1 = conf.games
      BY <1>5, MoveToSuccessor
    <2>2. zz + bb = z + b + 1 /\ current_round' <= conf.rounds + 1
      <3>1. CASE player1' = player1 /\ player2' = player2 + 1 /\ current_round' = current_round
        <4>1. bb = b + 1
          BY <1>t, <3>1, PairingsFacts
        <4>2. zz = z
          BY <3>1
        <4> HIDE DEF z, b, zz, bb
        <4> QED BY <1>0, <1>t, <1>2, <1>3, <3>1, <4>1, <4>2
      <3>2. CASE /\ player2 + 1 = conf.players /\ player1' = player1 + 1
                 /\ player2' = player1 + 2 /\ current_round' = current_round
        <4>1. bb = b + 1
          BY <1>t, <3>2, PairingsFacts
        <4>2. zz = z
          BY <3>2
        <4> HIDE DEF z, b, zz, bb
        <4> QED BY <1>0, <1>t, <1>2, <1>3, <3>2, <4>1, <4>2
      <3>3. CASE /\ player2 + 1 = conf.players /\ player1 + 1 = GetPlayer1Limit(conf)
                 /\ player1' = 0 /\ player2' = 1 /\ current_round' = current_round + 1
        <4>1. bb = 0
          BY <1>t, <3>3, PairingsFacts
        <4>2. m = b + 1
          BY <1>t, <3>3, PairingsFacts
        <4>3. zz = z + m
          <5> HIDE DEF m
          <5> QED BY <1>t, <1>2, <3>3
        <4> HIDE DEF z, b, zz, bb, m
        <4> QED BY <1>0, <1>t, <1>2, <1>3, <3>3, <4>1, <4>2, <4>3
      <3> QED BY <1>5, MoveToSuccessor, <3>1, <3>2, <3>3
    <2>3. game_counter' = (z + b) * conf.games + conf.games
      <3> DEFINE g == (z + b) * conf.games
      <3>1. g \in Int
        <4> HIDE DEF z, b
        <4> QED BY <1>t, <1>2, <1>3
      <3>2. game_counter = g + games_per_pair
        BY <1>1
      <3> HIDE DEF g
      <3>3. game_counter' = g + conf.games
        BY <1>0, <1>t, <2>1, <3>1, <3>2
      <3> QED BY <3>3 DEF g
    <2>4. (z + b + 1) * conf.games = (z + b) * conf.games + conf.games
      <3> HIDE DEF z, b
      <3> QED BY <1>t, <1>2, <1>3
    <2>5. game_counter' = (zz + bb) * conf.games
      BY <2>2, <2>3, <2>4
    <2>6. (zz + bb) * conf.games \in Int
      <3> HIDE DEF z, b, zz, bb
      <3> QED BY <1>t, <1>2, <1>3, <2>2
    <2>7. game_counter' = (zz + bb) * conf.games + games_per_pair'
      <3> HIDE DEF zz, bb
      <3> QED BY <2>1, <2>5, <2>6
    <2> QED BY <2>2, <2>7
  <1> QED BY <1>4, <1>5 DEF NextPairing

LEMMA NextPairingCounted == ASSUME CInv, NextPairing PROVE EncountersCounted'
  <1>0. conf' = conf /\ issued' = issued \cup {Pairing}
    BY DEF NextPairing
  <1>t. /\ conf.games \in Nat \ {0} /\ conf.players \in Nat /\ conf.rounds \in Nat
        /\ conf.played \div conf.games \in Nat
        /\ current_round \in Nat /\ player1 \in Nat /\ player2 \in Nat /\ games_per_pair \in Nat
    BY ConfType DEF CInv, IInv, TypeOK
  <1>p. Pairing \notin issued /\ IsFiniteSet(issued)
    <2>1. \A g \in issued : g.game_id \in (conf.played + 1)..game_counter
      BY DEF CInv, IInv, IdsBelowCounter
    <2>2. Pairing.game_id = game_counter + 1 /\ game_counter \in Nat /\ conf.played \in Nat
      BY ConfType DEF Pairing, CInv, IInv, TypeOK
    <2> QED BY <2>1, <2>2 DEF CInv, IInv, IssuedCounted
  <1>c. OpenRounds' = OpenRounds /\ Encounters' = Encounters
    BY <1>0 DEF OpenRounds, Encounters, GetPlayer1Limit, Seeds
  <1> SUFFICES ASSUME NEW r \in OpenRounds, NEW e \in Encounters
               PROVE  /\ IsFiniteSet(GamesOf(r, e)')
                      /\ Cardinality(GamesOf(r, e)') = GamesSoFar(r, e[1], e[2])'
    BY <1>c DEF EncountersCounted, GamesOf, GamesSoFar
  <1> DEFINE i == e[1]
             j == e[2]
             behind == Before(r, i, j, current_round, player1, player2)
             behindNext == Before(r, i, j, current_round', player1', player2')
             here == r = current_round /\ i = player1 /\ j = player2
             hereNext == r = current_round' /\ i = player1' /\ j = player2'
  <1>e. /\ r \in Nat /\ i \in Nat /\ j \in Nat /\ i < j /\ j < conf.players
        /\ i < GetPlayer1Limit(conf) /\ e = <<i, j>>
    BY <1>t DEF OpenRounds, Encounters
  <1>1. IsFiniteSet(GamesOf(r, e)) /\ Cardinality(GamesOf(r, e)) = GamesSoFar(r, i, j)
    BY DEF CInv, EncountersCounted
  <1>2. behindNext <=> behind \/ (MoveToNextPair /\ here)
    BY <1>e, NextEncounter
  <1>3. GamesSoFar(r, i, j)' = IF behindNext THEN conf.games
                               ELSE IF hereNext THEN games_per_pair' ELSE 0
    BY <1>0 DEF GamesSoFar
  <1>4. GamesSoFar(r, i, j) = IF behind THEN conf.games ELSE IF here THEN games_per_pair ELSE 0
    BY DEF GamesSoFar
  <1>5. StayInPair => UNCHANGED <<current_round, player1, player2>>
                      /\ games_per_pair' = games_per_pair + 1 /\ ~MoveToNextPair
    BY <1>t DEF StayInPair, MoveToNextPair
  <1>6. MoveToNextPair => games_per_pair' = 0 /\ games_per_pair + 1 = conf.games
    BY MoveToSuccessor
  <1>s. StayInPair \/ MoveToNextPair
    BY DEF NextPairing
  <1>7. CASE here
    <2>1. GamesOf(r, e)' = GamesOf(r, e) \cup {Pairing}
      BY <1>0, <1>7, <1>e DEF GamesOf, Pairing
    <2>2. Pairing \notin GamesOf(r, e)
      BY <1>p DEF GamesOf
    <2>3. /\ IsFiniteSet(GamesOf(r, e)')
          /\ Cardinality(GamesOf(r, e)') = Cardinality(GamesOf(r, e)) + 1
      BY <1>1, <2>1, <2>2, FS_AddElement
    <2>4. ~behind
      BY <1>7, <1>e DEF Before
    <2>5. GamesSoFar(r, i, j)' = games_per_pair + 1
      <3>1. CASE StayInPair
        BY <3>1, <1>2, <1>3, <1>5, <1>7, <2>4
      <3>2. CASE MoveToNextPair
        BY <3>2, <1>2, <1>3, <1>6, <1>7
      <3> QED BY <1>s, <3>1, <3>2
    <2> QED BY <1>1, <1>4, <1>7, <2>3, <2>4, <2>5
  <1>8. CASE ~here
    <2>1. GamesOf(r, e)' = GamesOf(r, e)
      BY <1>0, <1>8, <1>e DEF GamesOf, Pairing
    <2>2. GamesSoFar(r, i, j)' = GamesSoFar(r, i, j)
      <3>1. CASE StayInPair
        BY <3>1, <1>2, <1>3, <1>4, <1>5, <1>8
      <3>2. CASE MoveToNextPair
        BY <3>2, <1>2, <1>3, <1>4, <1>6, <1>8
      <3> QED BY <1>s, <3>1, <3>2
    <2> QED BY <1>1, <2>1, <2>2
  <1> QED BY <1>7, <1>8

LEMMA UnchangedCInv == CInv /\ (NoMorePairings \/ UNCHANGED vars) => CInv'
  <1> SUFFICES ASSUME CInv, NoMorePairings \/ UNCHANGED vars PROVE CInv' OBVIOUS
  <1>1. IInv'
    BY UnchangedIInv DEF CInv
  <1>2. /\ UNCHANGED <<conf, current_round, game_counter, player1, player2, games_per_pair, issued>>
        /\ exhausted' => exhausted \/ current_round > conf.rounds
    BY DEF NoMorePairings, vars
  <1>3. AtEncounter'
    BY <1>2 DEF CInv, AtEncounter, GetPlayer1Limit, Seeds
  <1>4. EncountersCounted'
    <2>1. OpenRounds' = OpenRounds /\ Encounters' = Encounters
      BY <1>2 DEF OpenRounds, Encounters, GetPlayer1Limit, Seeds
    <2>2. \A r, e : /\ GamesOf(r, e)' = GamesOf(r, e)
                    /\ GamesSoFar(r, e[1], e[2])' = GamesSoFar(r, e[1], e[2])
      BY <1>2 DEF GamesOf, GamesSoFar
    <2> QED BY <2>1, <2>2 DEF CInv, EncountersCounted
  <1>5. IdsCounted'
    BY <1>2 DEF CInv, IdsCounted, WholeRoundsPlayed, PairingsPerRound, PairingsBefore,
                GetPlayer1Limit, Seeds
  <1> QED BY <1>1, <1>3, <1>4, <1>5 DEF CInv

LEMMA CountedWhenExhausted == CInv => CompleteWhenExhausted
  <1> SUFFICES ASSUME CInv, exhausted PROVE CompleteWhenExhausted
    BY DEF CompleteWhenExhausted
  <1>t. /\ conf \in Configs /\ conf.games \in Nat /\ conf.rounds \in Nat
        /\ conf.played \div conf.games \in Nat
        /\ current_round \in Nat /\ game_counter \in Nat
    BY ConfType DEF CInv, IInv, TypeOK
  <1>1. current_round > conf.rounds /\ player1 = 0 /\ player2 = 1 /\ games_per_pair = 0
    BY DEF CInv, AtEncounter
  <1>2. ASSUME NEW r \in OpenRounds, NEW e \in Encounters
        PROVE  Cardinality(GamesOf(r, e)) = conf.games
    <2>1. Before(r, e[1], e[2], current_round, player1, player2)
      BY <1>t, <1>1 DEF Before, OpenRounds
    <2> QED BY <2>1 DEF CInv, EncountersCounted, GamesSoFar
  <1>3. ASSUME WholeRoundsPlayed PROVE game_counter = Total(conf)
    <2> DEFINE m == PairingsPerRound(conf)
    <2>1. current_round - 1 = conf.rounds
      BY <1>t, <1>1, <1>3 DEF CInv, IdsCounted
    <2>2. PairingsBefore(conf, player1, player2) = 0 /\ m \in Int
      <3>1. player1 \in Nat /\ player2 \in Nat
        BY <1>1
      <3> QED BY <1>t, <1>1, <3>1, PairingsFacts
    <2>3. game_counter = (conf.rounds * m + 0) * conf.games + 0
      BY <1>1, <1>3, <2>1, <2>2 DEF CInv, IdsCounted
    <2>4. Total(conf) = m * conf.rounds * conf.games
      BY <1>t, TotalFacts
    <2> HIDE DEF m
    <2>5. conf.rounds * m = m * conf.rounds /\ m * conf.rounds \in Int
      BY <1>t, <2>2
    <2>6. game_counter = (m * conf.rounds) * conf.games
      <3> DEFINE x == m * conf.rounds
      <3>1. x \in Int /\ game_counter = (x + 0) * conf.games + 0
        BY <2>3, <2>5
      <3> HIDE DEF x
      <3>2. game_counter = x * conf.games
        BY <1>t, <3>1
      <3> QED BY <3>2 DEF x
    <2> QED BY <2>4, <2>6
  <1> QED BY <1>2, <1>3 DEF CompleteWhenExhausted

\* When next() says that nothing is left, every encounter of every round still open has had
\* exactly its games, and the ids end at what total() promised the main loop.
THEOREM EveryEncounterIsPlayed == Spec => []CompleteWhenExhausted
  <1>1. CInv /\ [Next]_vars => CInv'
    <2> SUFFICES ASSUME CInv, [Next]_vars PROVE CInv' OBVIOUS
    <2>1. CASE NextPairing
      <3>1. IInv'
        BY <2>1, NextPairingIInv DEF CInv
      <3> QED BY <2>1, <3>1, NextEncounter, NextPairingIds, NextPairingCounted DEF CInv
    <2> QED BY <2>1, UnchangedCInv DEF Next
  <1> QED BY InitCInv, <1>1, CountedWhenExhausted, PTL DEF Spec

-----------------------------------------------------------------------------
(* The thread pool.                                                        *)

StopFollowsMain == stop <=> mpc \in {"join", "grow", "done"}
StopEmpties == stop => tasks = <<>>
QuietWhenJoined == mpc \in {"grow", "done"} => size = 0 /\ \A w \in Threads : pc[w] = "off"

ControlInv == PoolTypeOK /\ StopFollowsMain /\ StopEmpties /\ QuietWhenJoined

QueuedOnce == \A i, j \in DOMAIN tasks : tasks[i] = tasks[j] => i = j
QueuedNotRunning == \A i \in DOMAIN tasks : \A w \in Busy : tasks[i] # task[w]
OneRunner == \A v, w \in Busy : task[v] = task[w] => v = w
AllSubmitted ==
    /\ \A i \in DOMAIN tasks : tasks[i] \in submitted
    /\ \A w \in Busy : task[w] \in submitted

DataInv == QueuedOnce /\ QueuedNotRunning /\ OneRunner /\ AllSubmitted

PoolInv == ControlInv /\ DataInv /\ NoLostWakeup

-----------------------------------------------------------------------------
(* The helpers.                                                            *)

\* notify_one moves at most one worker, from its sleep to the mutex.
LEMMA NotifyOneFacts ==
  ASSUME NEW p \in [Threads -> WorkerLabels], NEW q \in NotifyOne(p)
  PROVE  \/ /\ \A w \in Threads : p[w] # "asleep"
            /\ q = p
         \/ \E v \in Threads : p[v] = "asleep" /\ q = [p EXCEPT ![v] = "lock"]
  BY DEF NotifyOne

LEMMA NotifyOneType ==
  ASSUME NEW p \in [Threads -> WorkerLabels], NEW q \in NotifyOne(p)
  PROVE  /\ q \in [Threads -> WorkerLabels]
         /\ \A w \in Threads : q[w] # p[w] => p[w] = "asleep" /\ q[w] = "lock"
  BY NotifyOneFacts DEF WorkerLabels

LEMMA SeqAppend ==
  ASSUME NEW S, NEW s \in Seq(S), NEW e \in S
  PROVE  /\ Append(s, e) \in Seq(S)
         /\ Len(Append(s, e)) = Len(s) + 1
         /\ DOMAIN Append(s, e) = 1..(Len(s) + 1)
         /\ \A i \in DOMAIN s : Append(s, e)[i] = s[i]
         /\ Append(s, e)[Len(s) + 1] = e
  OBVIOUS

LEMMA SeqTail ==
  ASSUME NEW S, NEW s \in Seq(S), s # <<>>
  PROVE  /\ Head(s) \in S /\ Head(s) = s[1] /\ 1 \in DOMAIN s
         /\ Tail(s) \in Seq(S)
         /\ Len(s) \in Nat /\ Len(s) > 0
         /\ Len(Tail(s)) = Len(s) - 1
         /\ DOMAIN Tail(s) = 1..(Len(s) - 1)
         /\ \A i \in DOMAIN Tail(s) : i + 1 \in DOMAIN s /\ Tail(s)[i] = s[i + 1]
  OBVIOUS

\* The sets of threads the counts are taken of are finite.
LEMMA FiniteThreads ==
  \A S \in SUBSET Threads :
     /\ IsFiniteSet(S) /\ Cardinality(S) \in Nat
     /\ Cardinality(S) <= Cardinality(Threads)
  BY FS_Subset, FS_CardinalityType, PoolAssumption

LEMMA ThreadsPositive == Cardinality(Threads) \in Nat /\ Cardinality(Threads) >= 1
  BY FS_EmptySet, FS_CardinalityType, PoolAssumption

-----------------------------------------------------------------------------
(* Control: types, and what a stopped pool looks like.                     *)

LEMMA InitControl == PoolInit => ControlInv
  <1> SUFFICES ASSUME PoolInit PROVE ControlInv
    OBVIOUS
  <1>1. tasks \in Seq(Tasks) /\ size <= 2 * Cardinality(Threads)
    BY ThreadsPositive DEF PoolInit
  <1>2. pc \in [Threads -> WorkerLabels]
    BY DEF PoolInit, WorkerLabels
  <1> QED BY <1>1, <1>2 DEF PoolInit, ControlInv, PoolTypeOK, StopFollowsMain, StopEmpties,
                          QuietWhenJoined, MainLabels

LEMMA StepControl == ControlInv /\ [PoolNext]_poolVars => ControlInv'
  <1> SUFFICES ASSUME ControlInv, [PoolNext]_poolVars PROVE ControlInv'
    OBVIOUS
  <1> USE DEF ControlInv, PoolTypeOK, StopFollowsMain, StopEmpties, QuietWhenJoined
  <1>1. ASSUME NEW w \in Threads, NEW t \in Tasks, WorkerEmplace(w, t) PROVE ControlInv'
    <2>1. tasks' \in Seq(Tasks)
      BY <1>1, SeqAppend DEF WorkerEmplace, Accept
    <2> QED BY <1>1, <2>1 DEF WorkerEmplace, Accept, Goto, WorkerLabels
  <1>2. ASSUME NEW w \in Threads, WorkerNotify(w) PROVE ControlInv'
    <2>1. [pc EXCEPT ![w] = "run"] \in [Threads -> WorkerLabels]
      BY DEF WorkerLabels
    <2>2. pc' \in [Threads -> WorkerLabels]
      BY <1>2, <2>1, NotifyOneType DEF WorkerNotify
    <2> QED BY <1>2, <2>2 DEF WorkerNotify
  <1>3. ASSUME NEW t \in Tasks, MainEmplace(t) PROVE ControlInv'
    <2>1. tasks' \in Seq(Tasks)
      BY <1>3, SeqAppend DEF MainEmplace, Accept
    <2> QED BY <1>3, <2>1 DEF MainEmplace, Accept, MainLabels
  <1>4. CASE MainNotify
    <2>1. pc' \in [Threads -> WorkerLabels]
      BY <1>4, NotifyOneType DEF MainNotify
    <2> QED BY <1>4, <2>1 DEF MainNotify, MainLabels
  <1>5. ASSUME NEW w \in Threads, Test(w) \/ Sleep(w) \/ Leave(w) \/ SpuriousWakeup(w)
        PROVE  ControlInv'
    BY <1>5 DEF Test, Sleep, Leave, SpuriousWakeup, Goto, WorkerLabels
  <1>6. ASSUME NEW w \in Threads, Take(w) PROVE ControlInv'
    <2>1. Head(tasks) \in Tasks /\ tasks' \in Seq(Tasks)
      BY <1>6, SeqTail DEF Take
    <2> QED BY <1>6, <2>1 DEF Take, Goto, WorkerLabels
  <1>7. ASSUME NEW w \in Threads, Finish(w) PROVE ControlInv'
    BY <1>7 DEF Finish, Goto, WorkerLabels
  <1>8. ASSUME NEW S \in SUBSET Threads, Kill(S) PROVE ControlInv'
    <2>1. pc' \in [Threads -> WorkerLabels] /\ tasks' \in Seq(Tasks)
      BY <1>8 DEF Kill, NotifyAll, WorkerLabels
    <2> QED BY <1>8, <2>1 DEF Kill, MainLabels
  <1>9. CASE Joined
    BY <1>9, ThreadsPositive DEF Joined, WorkerLabels, MainLabels
  <1>10. CASE Grow
    <2>1. /\ Cardinality(target) \in Nat
          /\ Cardinality(target) <= Cardinality(Threads)
      BY FiniteThreads
    <2>2. size' \in Nat /\ size' <= 2 * Cardinality(Threads)
      <3>1. size' = 0 + 2 * Cardinality(target)
        BY <1>10 DEF Grow
      <3> QED BY <2>1, <3>1, ThreadsPositive
    <2> QED BY <1>10, <2>2 DEF Grow, WorkerLabels, MainLabels
  <1>11. CASE UNCHANGED poolVars
    BY <1>11 DEF poolVars
  <1> QED BY <1>1, <1>2, <1>3, <1>4, <1>5, <1>6, <1>7, <1>8, <1>9, <1>10, <1>11
          DEF PoolNext, Worker, Resize

-----------------------------------------------------------------------------
(* Data: no task is in two places.                                         *)

LEMMA InitData == PoolInit => DataInv
  BY DEF PoolInit, DataInv, QueuedOnce, QueuedNotRunning, OneRunner, AllSubmitted, Busy

\* Steps that move no task and start none.
LEMMA QuietData ==
  ASSUME DataInv, tasks' \in {tasks, <<>>}, submitted' = submitted,
         \A w \in Busy' : w \in Busy /\ task'[w] = task[w]
  PROVE  DataInv'
  BY DEF DataInv, QueuedOnce, QueuedNotRunning, OneRunner, AllSubmitted

\* A task that was never submitted joins the queue.
LEMMA AcceptData ==
  ASSUME ControlInv, DataInv, NEW t \in Tasks, Accept(t), task' = task, Busy' = Busy
  PROVE  DataInv'
  <1>1. /\ Len(tasks) \in Nat /\ DOMAIN tasks = 1..Len(tasks)
        /\ DOMAIN tasks' = 1..(Len(tasks) + 1)
        /\ \A i \in DOMAIN tasks : tasks'[i] = tasks[i]
        /\ tasks'[Len(tasks) + 1] = t
    BY SeqAppend DEF Accept, ControlInv, PoolTypeOK
  <1>2. t \notin submitted /\ submitted' = submitted \cup {t}
    BY DEF Accept
  <1>3. \A i \in DOMAIN tasks' : i \in DOMAIN tasks \/ i = Len(tasks) + 1
    BY <1>1
  <1>4. QueuedOnce'
    BY <1>1, <1>2, <1>3 DEF DataInv, QueuedOnce, AllSubmitted
  <1>5. QueuedNotRunning' /\ OneRunner' /\ AllSubmitted'
    BY <1>1, <1>2, <1>3 DEF DataInv, QueuedNotRunning, OneRunner, AllSubmitted
  <1> QED BY <1>4, <1>5 DEF DataInv

LEMMA TakeData ==
  ASSUME ControlInv, DataInv, NEW w \in Threads, Take(w)
  PROVE  DataInv'
  <1>1. /\ tasks # <<>> /\ tasks \in Seq(Tasks) /\ tasks' = Tail(tasks)
        /\ submitted' = submitted
    BY DEF Take, ControlInv, PoolTypeOK
  <1>2. /\ 1 \in DOMAIN tasks /\ Head(tasks) = tasks[1]
        /\ \A i \in DOMAIN tasks' : /\ i \in Nat /\ i >= 1 /\ i + 1 \in DOMAIN tasks
                                   /\ tasks'[i] = tasks[i + 1]
    BY <1>1, SeqTail
  <1>3. Busy' = Busy \cup {w} /\ w \notin Busy
    BY DEF Take, Goto, Busy, ControlInv, PoolTypeOK
  <1>4. task'[w] = tasks[1] /\ \A v \in Threads : v # w => task'[v] = task[v]
    BY <1>2 DEF Take, ControlInv, PoolTypeOK
  <1>5. \A v \in Busy' : v = w \/ (v # w /\ v \in Busy /\ task'[v] = task[v])
    BY <1>3, <1>4 DEF Busy
  <1>6. QueuedOnce'
    <2> SUFFICES ASSUME NEW i \in DOMAIN tasks', NEW j \in DOMAIN tasks', tasks'[i] = tasks'[j]
                 PROVE  i = j
      BY DEF QueuedOnce
    <2>1. i + 1 = j + 1
      BY <1>2 DEF DataInv, QueuedOnce
    <2> QED BY <1>2, <2>1
  <1>7. QueuedNotRunning'
    <2> SUFFICES ASSUME NEW i \in DOMAIN tasks', NEW v \in Busy'
                 PROVE  tasks'[i] # task'[v]
      BY DEF QueuedNotRunning
    <2>1. CASE v = w
      <3>1. tasks[i + 1] # tasks[1]
        BY <1>2 DEF DataInv, QueuedOnce
      <3> QED BY <2>1, <3>1, <1>2, <1>4
    <2>2. CASE v # w
      BY <2>2, <1>2, <1>5 DEF DataInv, QueuedNotRunning
    <2> QED BY <2>1, <2>2
  <1>8. OneRunner'
    BY <1>2, <1>4, <1>5 DEF DataInv, OneRunner, QueuedNotRunning
  <1>9. AllSubmitted'
    BY <1>1, <1>2, <1>4, <1>5 DEF DataInv, AllSubmitted
  <1> QED BY <1>6, <1>7, <1>8, <1>9 DEF DataInv

\* Waking sleepers does not change who is busy.
LEMMA WakeKeepsBusy ==
  ASSUME NEW p \in [Threads -> WorkerLabels], pc' \in NotifyOne(p)
  PROVE  Busy' = {w \in Threads : p[w] \in {"run", "notify"}}
  <1>1. \A w \in Threads : pc'[w] # p[w] => p[w] = "asleep" /\ pc'[w] = "lock"
    BY NotifyOneType
  <1> QED BY <1>1 DEF Busy

LEMMA StepData == ControlInv /\ DataInv /\ [PoolNext]_poolVars => DataInv'
  <1> SUFFICES ASSUME ControlInv, DataInv, [PoolNext]_poolVars PROVE DataInv'
    OBVIOUS
  <1>t. pc \in [Threads -> WorkerLabels] /\ task \in [Threads -> Tasks \cup {NoTask}]
    BY DEF ControlInv, PoolTypeOK
  <1>1. ASSUME NEW w \in Threads, NEW t \in Tasks, WorkerEmplace(w, t) PROVE DataInv'
    <2>1. Busy' = Busy
      BY <1>1, <1>t DEF WorkerEmplace, Goto, Busy
    <2> QED BY <1>1, <2>1, AcceptData DEF WorkerEmplace
  <1>2. ASSUME NEW w \in Threads, WorkerNotify(w) PROVE DataInv'
    <2>1. [pc EXCEPT ![w] = "run"] \in [Threads -> WorkerLabels]
      BY <1>t DEF WorkerLabels
    <2>2. Busy' = Busy
      BY <1>2, <2>1, <1>t, WakeKeepsBusy DEF WorkerNotify, Busy
    <2> QED BY <1>2, <2>2, QuietData DEF WorkerNotify
  <1>3. ASSUME NEW t \in Tasks, MainEmplace(t) PROVE DataInv'
    BY <1>3, AcceptData DEF MainEmplace, Busy
  <1>4. CASE MainNotify
    <2>1. Busy' = Busy
      BY <1>4, <1>t, WakeKeepsBusy DEF MainNotify, Busy
    <2> QED BY <1>4, <2>1, QuietData DEF MainNotify
  <1>5. ASSUME NEW w \in Threads, Test(w) \/ Sleep(w) \/ Leave(w) \/ SpuriousWakeup(w)
        PROVE  DataInv'
    <2>1. Busy' = Busy
      BY <1>5, <1>t DEF Test, Sleep, Leave, SpuriousWakeup, Goto, Busy
    <2>2. UNCHANGED <<tasks, submitted, task>>
      BY <1>5 DEF Test, Sleep, Leave, SpuriousWakeup
    <2> QED BY <2>1, <2>2, QuietData
  <1>6. ASSUME NEW w \in Threads, Take(w) PROVE DataInv'
    BY <1>6, TakeData
  <1>7. ASSUME NEW w \in Threads, Finish(w) PROVE DataInv'
    <2>1. \A v \in Busy' : v \in Busy /\ task'[v] = task[v]
      BY <1>7, <1>t DEF Finish, Goto, Busy
    <2> QED BY <1>7, <2>1, QuietData DEF Finish
  <1>8. ASSUME NEW S \in SUBSET Threads, Kill(S) PROVE DataInv'
    <2>1. \A v \in Busy' : v \in Busy /\ task'[v] = task[v]
      BY <1>8, <1>t DEF Kill, NotifyAll, Busy
    <2> QED BY <1>8, <2>1, QuietData DEF Kill
  <1>9. CASE Joined \/ Grow
    <2>1. \A v \in Busy' : v \in Busy /\ task'[v] = task[v]
      BY <1>9, <1>t DEF Joined, Grow, Busy
    <2> QED BY <1>9, <2>1, QuietData DEF Joined, Grow
  <1>10. CASE UNCHANGED poolVars
    BY <1>10, QuietData DEF poolVars, Busy
  <1> QED BY <1>1, <1>2, <1>3, <1>4, <1>5, <1>6, <1>7, <1>8, <1>9, <1>10
          DEF PoolNext, Worker, Resize

-----------------------------------------------------------------------------
(* Work conservation.                                                      *)

MainNotifying == IF mpc = "notify" THEN 1 ELSE 0
Coming == Cardinality(Looking) + Cardinality(Notifying) + MainNotifying

LEMMA ConservationAsCount ==
  NoLostWakeup <=> ((\E w \in Threads : pc[w] = "asleep") => Len(tasks) <= Coming)
  BY DEF NoLostWakeup, Coming, MainNotifying

LEMMA ComingType ==
  /\ Cardinality(Looking) \in Nat /\ Cardinality(Notifying) \in Nat /\ MainNotifying \in 0..1
  /\ IsFiniteSet(Looking) /\ IsFiniteSet(Notifying)
  /\ Coming \in Nat
  <1>1. Looking \in SUBSET Threads /\ Notifying \in SUBSET Threads
    BY DEF Looking, Notifying
  <1>2. /\ Cardinality(Looking) \in Nat /\ Cardinality(Notifying) \in Nat
        /\ IsFiniteSet(Looking) /\ IsFiniteSet(Notifying)
    BY <1>1, FiniteThreads
  <1>3. MainNotifying \in 0..1
    BY DEF MainNotifying
  <1> QED BY <1>2, <1>3 DEF Coming

\* One more or one fewer member, one more or one fewer in the count.
LEMMA CountAdd ==
  ASSUME NEW S, IsFiniteSet(S), NEW x, x \notin S
  PROVE  Cardinality(S \cup {x}) = Cardinality(S) + 1
  BY FS_AddElement

LEMMA CountRemove ==
  ASSUME NEW S, IsFiniteSet(S), NEW x, x \in S
  PROVE  Cardinality(S \ {x}) = Cardinality(S) - 1
  BY FS_RemoveElement

\* An empty queue needs nobody.
LEMMA EmptyIsServed == ASSUME tasks = <<>> PROVE NoLostWakeup
  BY ComingType, ConservationAsCount

\* The sender of a notification stops sending; if somebody sleeps, one starts to look.
LEMMA NotifyConserves ==
  ASSUME NEW p \in [Threads -> WorkerLabels], pc' \in NotifyOne(p),
         \E w \in Threads : pc'[w] = "asleep"
  PROVE  \E v \in Threads :
            /\ v \notin {w \in Threads : p[w] \in {"test", "lock"}}
            /\ p[v] = "asleep"
            /\ Looking' = {w \in Threads : p[w] \in {"test", "lock"}} \cup {v}
            /\ Notifying' = {w \in Threads : p[w] = "notify"}
  <1>1. PICK v \in Threads : p[v] = "asleep" /\ pc' = [p EXCEPT ![v] = "lock"]
    BY NotifyOneFacts
  <1> QED BY <1>1 DEF Looking, Notifying

LEMMA StepConservation ==
  ControlInv /\ ControlInv' /\ NoLostWakeup /\ [PoolNext]_poolVars => NoLostWakeup'
  <1> SUFFICES ASSUME ControlInv, ControlInv', NoLostWakeup, [PoolNext]_poolVars,
                      tasks' # <<>>, \E w \in Threads : pc'[w] = "asleep"
               PROVE  Len(tasks') <= Coming'
    <2>1. Looking' \in SUBSET Threads /\ Notifying' \in SUBSET Threads
      BY DEF Looking, Notifying
    <2>2. Cardinality(Looking') \in Nat /\ Cardinality(Notifying') \in Nat
      BY <2>1, FiniteThreads
    <2>3. tasks' = <<>> => NoLostWakeup'
      BY <2>2 DEF NoLostWakeup
    <2>4. ((\E w \in Threads : pc'[w] = "asleep") => Len(tasks') <= Coming') => NoLostWakeup'
      BY DEF NoLostWakeup, Coming, MainNotifying
    <2> QED BY <2>3, <2>4
  <1>t. /\ pc \in [Threads -> WorkerLabels] /\ tasks \in Seq(Tasks) /\ Len(tasks) \in Nat
        /\ Len(tasks') \in Nat
    BY DEF ControlInv, PoolTypeOK
  <1>c. /\ Cardinality(Looking) \in Nat /\ Cardinality(Notifying) \in Nat
        /\ MainNotifying \in 0..1
        /\ IsFiniteSet(Looking) /\ IsFiniteSet(Notifying)
        /\ Coming = Cardinality(Looking) + Cardinality(Notifying) + MainNotifying
        /\ Coming' = Cardinality(Looking)' + Cardinality(Notifying)' + MainNotifying'
    BY ComingType DEF Coming
  <1>i. (\E w \in Threads : pc[w] = "asleep") => Len(tasks) <= Coming
    BY ConservationAsCount
  <1>1. ASSUME NEW w \in Threads, NEW t \in Tasks, WorkerEmplace(w, t)
        PROVE  Len(tasks') <= Coming'
    <2>1. Len(tasks') = Len(tasks) + 1 /\ MainNotifying' = MainNotifying
      BY <1>1, <1>t, SeqAppend DEF WorkerEmplace, Accept, MainNotifying
    <2>2. /\ Looking' = Looking /\ Notifying' = Notifying \cup {w} /\ w \notin Notifying
          /\ \E v \in Threads : pc[v] = "asleep"
      BY <1>1, <1>t DEF WorkerEmplace, Goto, Looking, Notifying
    <2>3. Cardinality(Notifying') = Cardinality(Notifying) + 1
      BY <2>2, <1>c, CountAdd
    <2> QED BY <1>c, <1>i, <1>t, <2>1, <2>2, <2>3
  <1>2. ASSUME NEW w \in Threads, WorkerNotify(w) PROVE Len(tasks') <= Coming'
    <2> DEFINE p == [pc EXCEPT ![w] = "run"]
    <2>1. p \in [Threads -> WorkerLabels] /\ pc' \in NotifyOne(p)
      BY <1>2, <1>t DEF WorkerNotify, WorkerLabels
    <2>2. /\ {u \in Threads : p[u] \in {"test", "lock"}} = Looking
          /\ {u \in Threads : p[u] = "notify"} = Notifying \ {w}
          /\ w \in Notifying
          /\ \A u \in Threads : p[u] = "asleep" => pc[u] = "asleep"
      BY <1>2, <1>t DEF WorkerNotify, Looking, Notifying
    <2> HIDE DEF p
    <2>3. PICK v \in Threads :
            /\ v \notin Looking /\ pc[v] = "asleep"
            /\ Looking' = Looking \cup {v} /\ Notifying' = Notifying \ {w}
      BY <2>1, <2>2, NotifyConserves
    <2>4. /\ Cardinality(Looking') = Cardinality(Looking) + 1
          /\ Cardinality(Notifying') = Cardinality(Notifying) - 1
      BY <2>2, <2>3, <1>c, CountAdd, CountRemove
    <2>5. MainNotifying' = MainNotifying /\ tasks' = tasks
      BY <1>2 DEF WorkerNotify, MainNotifying
    <2> QED BY <1>c, <1>i, <1>t, <2>3, <2>4, <2>5
  <1>3. ASSUME NEW t \in Tasks, MainEmplace(t) PROVE Len(tasks') <= Coming'
    <2>1. Len(tasks') = Len(tasks) + 1 /\ MainNotifying = 0 /\ MainNotifying' = 1
      BY <1>3, <1>t, SeqAppend DEF MainEmplace, Accept, MainNotifying
    <2>2. pc' = pc /\ Looking' = Looking /\ Notifying' = Notifying
      BY <1>3 DEF MainEmplace, Looking, Notifying
    <2> QED BY <1>c, <1>i, <1>t, <2>1, <2>2
  <1>4. CASE MainNotify
    <2>1. PICK v \in Threads :
            /\ v \notin Looking /\ pc[v] = "asleep"
            /\ Looking' = Looking \cup {v} /\ Notifying' = Notifying
      BY <1>4, <1>t, NotifyConserves DEF MainNotify, Looking, Notifying
    <2>2. Cardinality(Looking') = Cardinality(Looking) + 1
      BY <2>1, <1>c, CountAdd
    <2>3. MainNotifying = 1 /\ MainNotifying' = 0 /\ tasks' = tasks
      BY <1>4 DEF MainNotify, MainNotifying
    <2> QED BY <1>c, <1>i, <1>t, <2>1, <2>2, <2>3
  <1>5. ASSUME NEW w \in Threads, Test(w) PROVE Len(tasks') <= Coming'
    <2>1. tasks' = tasks /\ ~stop
      BY <1>5 DEF Test, ControlInv, StopEmpties
    <2>2. /\ Looking' = Looking /\ Notifying' = Notifying /\ MainNotifying' = MainNotifying
          /\ \E v \in Threads : pc[v] = "asleep"
      BY <1>5, <2>1, <1>t DEF Test, Goto, Looking, Notifying, MainNotifying
    <2> QED BY <1>c, <1>i, <1>t, <2>1, <2>2
  <1>6. ASSUME NEW w \in Threads, Take(w) PROVE Len(tasks') <= Coming'
    <2>1. Len(tasks') = Len(tasks) - 1 /\ MainNotifying' = MainNotifying
      BY <1>6, <1>t, SeqTail DEF Take, MainNotifying
    <2>2. /\ Looking' = Looking \ {w} /\ w \in Looking /\ Notifying' = Notifying
          /\ \E v \in Threads : pc[v] = "asleep"
      BY <1>6, <1>t DEF Take, Goto, Looking, Notifying
    <2>3. Cardinality(Looking') = Cardinality(Looking) - 1
      BY <2>2, <1>c, CountRemove
    <2> QED BY <1>c, <1>i, <1>t, <2>1, <2>2, <2>3
  <1>7. ASSUME NEW w \in Threads, Finish(w) \/ SpuriousWakeup(w) PROVE Len(tasks') <= Coming'
    <2>1. tasks' = tasks /\ MainNotifying' = MainNotifying
      BY <1>7 DEF Finish, SpuriousWakeup, MainNotifying
    <2>2. /\ Looking' = Looking \cup {w} /\ w \notin Looking /\ Notifying' = Notifying
          /\ \E v \in Threads : pc[v] = "asleep"
      BY <1>7, <1>t DEF Finish, SpuriousWakeup, Goto, Looking, Notifying
    <2>3. Cardinality(Looking') = Cardinality(Looking) + 1
      BY <2>2, <1>c, CountAdd
    <2> QED BY <1>c, <1>i, <1>t, <2>1, <2>2, <2>3
  <1>8. ASSUME NEW w \in Threads, Sleep(w) \/ Leave(w) PROVE FALSE
    BY <1>8 DEF Sleep, Leave
  <1>9. ASSUME NEW S \in SUBSET Threads, Kill(S) PROVE FALSE
    BY <1>9 DEF Kill
  <1>10. CASE Joined \/ Grow
    BY <1>10 DEF Joined, Grow, ControlInv, StopFollowsMain, StopEmpties
  <1>11. CASE UNCHANGED poolVars
    BY <1>11, <1>c, <1>i DEF poolVars, Looking, Notifying, MainNotifying
  <1> QED BY <1>1, <1>2, <1>3, <1>4, <1>5, <1>6, <1>7, <1>8, <1>9, <1>10, <1>11
          DEF PoolNext, Worker, Resize

LEMMA InitPoolInv == PoolInit => PoolInv
  <1>1. PoolInit => NoLostWakeup
    <2>1. PoolInit => tasks = <<>>
      BY DEF PoolInit
    <2> QED BY <2>1, EmptyIsServed
  <1> QED BY <1>1, InitControl, InitData DEF PoolInv

LEMMA StepPoolInv == PoolInv /\ [PoolNext]_poolVars => PoolInv'
  BY StepControl, StepData, StepConservation DEF PoolInv

THEOREM PoolInvariance == PoolSpec => []PoolInv
  BY InitPoolInv, StepPoolInv, PTL DEF PoolSpec

-----------------------------------------------------------------------------
\* Every variable keeps its type; the vector of workers never has more than two
\* places per thread.
THEOREM PoolTypeCorrect == PoolSpec => []PoolTypeOK
  <1>1. PoolInv => PoolTypeOK
    BY DEF PoolInv, ControlInv
  <1> QED BY <1>1, PoolInvariance, PTL

\* For any number of threads and tasks a worker sleeps only while every queued task
\* has a thread or a notification coming for it.
THEOREM WorkConservation == PoolSpec => []NoLostWakeup
  <1>1. PoolInv => NoLostWakeup
    BY DEF PoolInv
  <1> QED BY <1>1, PoolInvariance, PTL

\* No step of a stopped pool starts a task.
THEOREM QuietAfterKill == PoolSpec => NothingStartsAfterKill
  <1>1. PoolInv /\ [PoolNext]_poolVars => [stop => Busy' \subseteq Busy]_poolVars
    <2> SUFFICES ASSUME PoolInv, PoolNext, stop PROVE Busy' \subseteq Busy
      OBVIOUS
    <2>t. pc \in [Threads -> WorkerLabels] /\ tasks = <<>>
      BY DEF PoolInv, ControlInv, PoolTypeOK, StopEmpties
    <2>1. ASSUME NEW w \in Threads, WorkerNotify(w) PROVE Busy' \subseteq Busy
      <3>1. [pc EXCEPT ![w] = "run"] \in [Threads -> WorkerLabels]
        BY <2>t DEF WorkerLabels
      <3> QED BY <2>1, <3>1, <2>t, WakeKeepsBusy DEF WorkerNotify, Busy
    <2>2. CASE MainNotify
      BY <2>2, <2>t, WakeKeepsBusy DEF MainNotify, Busy
    <2>3. ASSUME NEW w \in Threads,
                 Test(w) \/ Sleep(w) \/ Leave(w) \/ Take(w) \/ Finish(w) \/ SpuriousWakeup(w)
          PROVE  Busy' \subseteq Busy
      BY <2>3, <2>t DEF Test, Sleep, Leave, Take, Finish, SpuriousWakeup, Goto, Busy
    <2>4. ASSUME NEW t \in Tasks, MainEmplace(t) \/ \E w \in Threads : WorkerEmplace(w, t)
          PROVE  FALSE
      BY <2>4 DEF MainEmplace, WorkerEmplace, Accept
    <2>5. ASSUME NEW S \in SUBSET Threads, Kill(S) PROVE Busy' \subseteq Busy
      BY <2>5, <2>t DEF Kill, NotifyAll, Busy
    <2>6. CASE Joined \/ Grow
      BY <2>6, <2>t DEF Joined, Grow, Busy
    <2> QED BY <2>1, <2>2, <2>3, <2>4, <2>5, <2>6 DEF PoolNext, Worker, Resize
  <1> QED BY <1>1, PoolInvariance, PTL DEF PoolSpec, NothingStartsAfterKill

-----------------------------------------------------------------------------
(* The refinement.                                                         *)

LEMMA RefinementInit == PoolInit => Abstract!Init
  BY DEF PoolInit, Abstract!Init, Busy

\* A step that moves no task is a stutter of the abstract pool.
LEMMA Stutter ==
  ASSUME UNCHANGED <<tasks, submitted, stop>>, Busy' = Busy, \A w \in Busy : task'[w] = task[w]
  PROVE  UNCHANGED Abstract!vars
  BY DEF Abstract!vars

LEMMA RefinementStep == PoolInv /\ [PoolNext]_poolVars => [Abstract!Next]_(Abstract!vars)
  <1> SUFFICES ASSUME PoolInv, [PoolNext]_poolVars PROVE [Abstract!Next]_(Abstract!vars)
    OBVIOUS
  <1>t. /\ pc \in [Threads -> WorkerLabels] /\ task \in [Threads -> Tasks \cup {NoTask}]
        /\ tasks \in Seq(Tasks) /\ submitted \subseteq Tasks
    BY DEF PoolInv, ControlInv, PoolTypeOK
  <1>1. ASSUME NEW t \in Tasks, Accept(t), UNCHANGED <<stop, task>>, Busy' = Busy
        PROVE  Abstract!Next
    <2>1. Abstract!Submit(t)
      BY <1>1 DEF Abstract!Submit, Accept
    <2> QED BY <2>1 DEF Abstract!Next
  <1>2. ASSUME NEW w \in Threads, NEW t \in Tasks, WorkerEmplace(w, t) PROVE Abstract!Next
    <2>1. Busy' = Busy
      BY <1>2, <1>t DEF WorkerEmplace, Goto, Busy
    <2> QED BY <1>1, <1>2, <2>1 DEF WorkerEmplace
  <1>3. ASSUME NEW t \in Tasks, MainEmplace(t) PROVE Abstract!Next
    BY <1>1, <1>3 DEF MainEmplace, Busy
  <1>4. ASSUME NEW w \in Threads, WorkerNotify(w) PROVE UNCHANGED Abstract!vars
    <2>1. [pc EXCEPT ![w] = "run"] \in [Threads -> WorkerLabels]
      BY <1>t DEF WorkerLabels
    <2>2. Busy' = Busy
      BY <1>4, <2>1, <1>t, WakeKeepsBusy DEF WorkerNotify, Busy
    <2> QED BY <1>4, <2>2, Stutter DEF WorkerNotify
  <1>5. CASE MainNotify
    <2>1. Busy' = Busy
      BY <1>5, <1>t, WakeKeepsBusy DEF MainNotify, Busy
    <2> QED BY <1>5, <2>1, Stutter DEF MainNotify
  <1>6. ASSUME NEW w \in Threads, Test(w) \/ Sleep(w) \/ Leave(w) \/ SpuriousWakeup(w)
        PROVE  UNCHANGED Abstract!vars
    <2>1. Busy' = Busy
      BY <1>6, <1>t DEF Test, Sleep, Leave, SpuriousWakeup, Goto, Busy
    <2> QED BY <1>6, <2>1, Stutter DEF Test, Sleep, Leave, SpuriousWakeup
  <1>7. ASSUME NEW w \in Threads, Take(w) PROVE Abstract!Next
    <2>1. Busy' = Busy \cup {w} /\ w \notin Busy
      BY <1>7, <1>t DEF Take, Goto, Busy
    <2>2. task'[w] = Head(tasks) /\ \A v \in Busy : task'[v] = task[v]
      BY <1>7, <1>t, <2>1 DEF Take, Busy
    <2>3. {task'[v] : v \in Busy'} = {task[v] : v \in Busy} \cup {Head(tasks)}
      BY <2>1, <2>2
    <2>4. Abstract!Start
      BY <1>7, <2>3 DEF Abstract!Start, Take
    <2> QED BY <2>4 DEF Abstract!Next
  <1>8. ASSUME NEW w \in Threads, Finish(w) PROVE Abstract!Next
    <2>1. Busy' = Busy \ {w} /\ w \in Busy
      BY <1>8, <1>t DEF Finish, Goto, Busy
    <2>2. \A v \in Busy' : task'[v] = task[v]
      BY <1>8, <1>t, <2>1 DEF Finish, Busy
    <2>3. \A v \in Busy' : task[v] # task[w]
      BY <2>1 DEF PoolInv, DataInv, OneRunner
    <2>4. {task'[v] : v \in Busy'} = {task[v] : v \in Busy} \ {task[w]}
      BY <2>1, <2>2, <2>3
    <2>5. PICK t \in Tasks : t = task[w]
      BY <2>1, <1>t DEF PoolInv, DataInv, AllSubmitted
    <2>6. Abstract!Finish(t)
      BY <1>8, <2>1, <2>4, <2>5 DEF Abstract!Finish, Finish
    <2> QED BY <2>6 DEF Abstract!Next
  <1>9. ASSUME NEW S \in SUBSET Threads, Kill(S) PROVE Abstract!Next
    <2>1. Busy' = Busy
      BY <1>9, <1>t DEF Kill, NotifyAll, Busy
    <2>2. ~stop
      BY <1>9 DEF Kill, PoolInv, ControlInv, StopFollowsMain
    <2>3. Abstract!Close
      BY <1>9, <2>1, <2>2 DEF Abstract!Close, Kill
    <2> QED BY <2>3 DEF Abstract!Next
  <1>10. CASE Joined
    <2>1. Busy' = Busy
      BY <1>10 DEF Joined, Busy
    <2> QED BY <1>10, <2>1, Stutter DEF Joined
  <1>11. CASE Grow
    <2>1. stop /\ Busy = {}
      BY <1>11 DEF Grow, Busy, PoolInv, ControlInv, StopFollowsMain, QuietWhenJoined
    <2>2. Busy' = {}
      BY <1>11, <2>1 DEF Grow, Busy, PoolInv, ControlInv, QuietWhenJoined
    <2>3. Abstract!Reopen
      BY <1>11, <2>1, <2>2 DEF Abstract!Reopen, Grow
    <2> QED BY <2>3 DEF Abstract!Next
  <1>12. CASE UNCHANGED poolVars
    BY <1>12, Stutter DEF poolVars, Busy
  <1> QED BY <1>2, <1>3, <1>4, <1>5, <1>6, <1>7, <1>8, <1>9, <1>10, <1>11, <1>12
          DEF PoolNext, Worker, Resize

\* The pool with its threads, its mutex and its condition variable implements the
\* queue of tasks that TaskPool describes.
THEOREM PoolRefinesTaskPool == PoolSpec => ImplementsTaskPool
  BY RefinementInit, RefinementStep, PoolInvariance, PTL
     DEF PoolSpec, ImplementsTaskPool, Abstract!Spec

-----------------------------------------------------------------------------
(* The sessions. Induction on numbers, as a statement about sets of them:  *)
(* a set that has 0 and the successor of each of its members has them all. *)

LEMMA NatSetInduction ==
  ASSUME NEW T, 0 \in T, \A n \in Nat : n \in T => n + 1 \in T
  PROVE  Nat \subseteq T
  <1> SUFFICES ASSUME Nat \ T # {} PROVE FALSE
    OBVIOUS
  <1> DEFINE R == OpToRel(<, Nat)
  <1>1. IsWellFoundedOn(R, Nat)
    BY NatLessThanWellFounded
  <1>2. \A i, j \in Nat : i < j => <<i, j>> \in R
    BY DEF OpToRel
  <1> HIDE DEF R
  <1>3. PICK m \in Nat \ T : \A n \in Nat \ T : ~(<<n, m>> \in R)
    <2>1. Nat \ T \subseteq Nat
      OBVIOUS
    <2> QED BY <1>1, <2>1, WFMin
  <1>4. m # 0 /\ m - 1 \in Nat /\ m - 1 < m
    BY <1>3
  <1>5. m - 1 \notin T
    BY <1>3, <1>4
  <1>6. <<m - 1, m>> \in R
    BY <1>2, <1>3, <1>4
  <1>7. m - 1 \in Nat \ T
    BY <1>4, <1>5
  <1> QED BY <1>3, <1>6, <1>7

\* FoldLeft recurses on the largest index of a set: a finite set of indices has one.
LEMMA MaxFacts ==
  ASSUME NEW n \in Nat, NEW S \in SUBSET (1..n), S # {}
  PROVE  Max(S) \in S /\ \A i \in S : i <= Max(S)
  <1> DEFINE Has(X) == \E i \in X : \A j \in X : j <= i
             T == {m \in Nat : \A X \in SUBSET (1..m) : X # {} => Has(X)}
  <1>1. 0 \in T
    <2>1. \A X \in SUBSET (1..0) : X = {}
      OBVIOUS
    <2> QED BY <2>1
  <1>2. ASSUME NEW m \in Nat, m \in T PROVE m + 1 \in T
    <2> SUFFICES ASSUME NEW X \in SUBSET (1..(m + 1)), X # {} PROVE Has(X)
      OBVIOUS
    <2>1. CASE m + 1 \in X
      <3>1. \A j \in X : j <= m + 1
        OBVIOUS
      <3> QED BY <2>1, <3>1
    <2>2. CASE m + 1 \notin X
      <3>1. X \in SUBSET (1..m)
        BY <2>2
      <3> QED BY <3>1, <1>2
    <2> QED BY <2>1, <2>2
  <1>3. n \in T
    <2> HIDE DEF T
    <2> QED BY <1>1, <1>2, NatSetInduction
  <1>4. PICK i \in S : \A j \in S : j <= i
    BY <1>3
  <1>5. \A j \in S : i >= j
    BY <1>4
  <1> QED BY <1>4, <1>5 DEF Max

\* Without its last element a set of numbers up to k + 1 is one up to k.
LEMMA LessMax ==
  ASSUME NEW k \in Nat, NEW s \in SUBSET (1..(k + 1)), s # {}
  PROVE  Max(s) \in s /\ s \ {Max(s)} \in SUBSET (1..k)
  <1>1. Max(s) \in s /\ \A i \in s : i <= Max(s)
    BY MaxFacts
  <1> SUFFICES ASSUME NEW i \in s, i # Max(s) PROVE i \in 1..k
    BY <1>1
  <1> DEFINE m == Max(s)
  <1>2. i \in 1..(k + 1) /\ m \in 1..(k + 1) /\ i <= m /\ i # m
    BY <1>1
  <1> HIDE DEF m
  <1> QED BY <1>2

-----------------------------------------------------------------------------
(* What a command line does to the results it resumes.                     *)

Fields == {"cfg", "engines", "stats", "old_cfg", "old_engines", "ok"}

\* The results are those of a saved file, or none.
Resumes(disk0, d) ==
    /\ DOMAIN d = Fields
    /\ d.stats = 0 \/ \E f \in DOMAIN disk0 : d.stats = disk0[f].stats

\* The steps that the handlers of options are made of leave the results alone,
LEMMA KeepsStats ==
  ASSUME NEW d, DOMAIN d = Fields
  PROVE  /\ DOMAIN Throw(d) = Fields /\ Throw(d).stats = d.stats
         /\ \A c : DOMAIN Require(d, c) = Fields /\ Require(d, c).stats = d.stats
         /\ \A x : DOMAIN Set(d, x) = Fields /\ Set(d, x).stats = d.stats
         /\ \A x : DOMAIN Taken(d, x) = Fields /\ Taken(d, x).stats = d.stats
         /\ \A x : DOMAIN [d EXCEPT !.engines = x] = Fields /\ [d EXCEPT !.engines = x].stats = d.stats
  BY DEF Throw, Require, Set, Taken, Fields

\* and so does every option but -config.
LEMMA HandleKeepsStats ==
  ASSUME NEW o, NEW disk0, NEW d, DOMAIN d = Fields, o.flag # "config"
  PROVE  DOMAIN Handle(o, disk0, d) = Fields /\ Handle(o, disk0, d).stats = d.stats
  <1> DEFINE r == Handle(o, disk0, d)
  <1>1. CASE ~Accepted(o) \/ o.flag = "debug"
    BY <1>1, KeepsStats DEF Handle
  <1>2. CASE Accepted(o) /\ o.flag # "debug"
    <2>1. DOMAIN ParseKeyValues(o.flag, o.params, d) = Fields /\ ParseKeyValues(o.flag, o.params, d).stats = d.stats
      BY KeepsStats DEF ParseKeyValues
    <2>2. DOMAIN ParseSingle(o.flag, o.params[1], d) = Fields /\ ParseSingle(o.flag, o.params[1], d).stats = d.stats
      BY KeepsStats DEF ParseSingle
    <2>3. DOMAIN ParseEngine(o.params, d) = Fields /\ ParseEngine(o.params, d).stats = d.stats
      <3> DEFINE e == [d EXCEPT !.engines = Append(d.engines, NewEngine)]
      <3>1. DOMAIN e = Fields /\ e.stats = d.stats
        BY KeepsStats
      <3> HIDE DEF e
      <3>2. \A from : DOMAIN ApplyToEngines(o.params, e, from) = Fields /\ ApplyToEngines(o.params, e, from).stats = e.stats
        BY <3>1, KeepsStats DEF ApplyToEngines
      <3>3. ParseEngine(o.params, d) = ApplyToEngines(o.params, e, Len(d.engines) + 1)
        BY DEF ParseEngine, e, Fields
      <3> QED BY <3>1, <3>2, <3>3
    <2>4. DOMAIN ParseEach(o.params, d) = Fields /\ ParseEach(o.params, d).stats = d.stats
      BY KeepsStats DEF ParseEach, ApplyToEngines
    <2>5. DOMAIN ParseQuick(o.params, d) = Fields /\ ParseQuick(o.params, d).stats = d.stats
      <3> DEFINE Key(e, p) ==
                     CASE p[1] = "cmd" -> [e EXCEPT !.engines = Append(@, QuickEngine(p[2]))]
                       [] p[1] = "book" /\ EndsIn[p[2]] \in Words.format ->
                             Set(e, [opening_file |-> p[2], opening_order |-> "random", opening_format |-> EndsIn[p[2]]])
                       [] OTHER -> Throw(e)
                 read == Taken(d, FoldLeft(Key, d, o.params))
                 first == Len(d.engines) + 1
                 second == first + 1
                 same == read.engines[first].name = read.engines[second].name
                 twins == Set(read, QuickSettings)
                 quick == [twins EXCEPT
                             !.engines[first].name = IF same THEN @ \o "1" ELSE @,
                             !.engines[second].name = IF same THEN @ \o "2" ELSE @]
      <3>1. ParseQuick(o.params, d) \in {quick, Throw(read)}
        BY DEF ParseQuick
      <3>2. DOMAIN read = Fields /\ read.stats = d.stats
        BY KeepsStats
      <3> HIDE DEF read
      <3>3. DOMAIN twins = Fields /\ twins.stats = d.stats
        BY <3>2, KeepsStats
      <3>4. DOMAIN Throw(read) = Fields /\ Throw(read).stats = d.stats
        BY <3>2, KeepsStats
      <3> HIDE DEF twins, first, second, same
      <3>5. DOMAIN quick = Fields /\ quick.stats = d.stats
        BY <3>3 DEF Fields
      <3> QED BY <3>1, <3>4, <3>5
    <2>6. /\ DOMAIN ParseRepeat(o.params, d) = Fields /\ ParseRepeat(o.params, d).stats = d.stats
          /\ DOMAIN ParseVariant(o.params[1], d) = Fields /\ ParseVariant(o.params[1], d).stats = d.stats
          /\ DOMAIN ParseAffinity(o.params, d) = Fields /\ ParseAffinity(o.params, d).stats = d.stats
          /\ DOMAIN ParseEvent(o.params, d) = Fields /\ ParseEvent(o.params, d).stats = d.stats
          /\ DOMAIN ParseSite(o.params, d) = Fields /\ ParseSite(o.params, d).stats = d.stats
      <3>1. DOMAIN ParseRepeat(o.params, d) = Fields /\ ParseRepeat(o.params, d).stats = d.stats
        BY KeepsStats DEF ParseRepeat
      <3>2. DOMAIN ParseVariant(o.params[1], d) = Fields /\ ParseVariant(o.params[1], d).stats = d.stats
        BY KeepsStats DEF ParseVariant
      <3>3. DOMAIN ParseAffinity(o.params, d) = Fields /\ ParseAffinity(o.params, d).stats = d.stats
        <4>1. \E x : ParseAffinity(o.params, d) \in {Throw(d), Set(d, x)}
          BY DEF ParseAffinity
        <4> QED BY <4>1, KeepsStats
      <3>4. DOMAIN ParseEvent(o.params, d) = Fields /\ ParseEvent(o.params, d).stats = d.stats
        BY KeepsStats DEF ParseEvent
      <3>5. DOMAIN ParseSite(o.params, d) = Fields /\ ParseSite(o.params, d).stats = d.stats
        BY KeepsStats DEF ParseSite
      <3> QED BY <3>1, <3>2, <3>3, <3>4, <3>5
    <2>7. \/ o.flag \in DOMAIN KeyValueTables \/ o.flag \in DOMAIN SingleOptions \/ o.flag \in DOMAIN SwitchOptions
          \/ o.flag \in {"engine", "each", "quick", "repeat", "variant", "use-affinity", "event", "site"}
      <3>1. {"pgnout", "epdout"} \subseteq DOMAIN KeyValueTables
        BY DEF KeyValueTables
      <3> QED BY <1>2, <3>1 DEF Accepted, Free, KeyValueOptional, KeyValue, Single, Switches
    <2> HIDE DEF r
    <2>8. r \in {ParseKeyValues(o.flag, o.params, d), ParseSingle(o.flag, o.params[1], d),
                 Set(d, [x \in {SwitchOptions[o.flag]} |-> TRUE]), ParseEngine(o.params, d), ParseEach(o.params, d),
                 ParseQuick(o.params, d), ParseRepeat(o.params, d), ParseVariant(o.params[1], d),
                 ParseAffinity(o.params, d), ParseEvent(o.params, d), ParseSite(o.params, d)}
      BY <1>2, <2>7 DEF Handle, r
    <2> DEFINE Good(x) == DOMAIN x = Fields /\ x.stats = d.stats
    <2>9. /\ Good(ParseKeyValues(o.flag, o.params, d)) /\ Good(ParseSingle(o.flag, o.params[1], d))
          /\ Good(Set(d, [x \in {SwitchOptions[o.flag]} |-> TRUE])) /\ Good(ParseEngine(o.params, d))
          /\ Good(ParseEach(o.params, d)) /\ Good(ParseQuick(o.params, d)) /\ Good(ParseRepeat(o.params, d))
          /\ Good(ParseVariant(o.params[1], d)) /\ Good(ParseAffinity(o.params, d))
          /\ Good(ParseEvent(o.params, d)) /\ Good(ParseSite(o.params, d))
      BY <2>1, <2>2, <2>3, <2>4, <2>5, <2>6, KeepsStats
    <2> HIDE DEF Good
    <2>10. Good(r)
      BY <2>8, <2>9
    <2> QED BY <2>10 DEF Good, r
  <1> QED BY <1>1, <1>2

\* The function that the fold over the parameters of -config chooses, and that there is one.
IsConfigured(base, params, disk0, f) ==
    f = [s \in SUBSET DOMAIN params |-> IF s = {} THEN base ELSE ConfigKey(f[s \ {Max(s)}], params[Max(s)], disk0)]

LEMMA ConfigExists ==
  ASSUME NEW params, IsSeq(params), NEW base, NEW disk0
  PROVE  \E f : IsConfigured(base, params, disk0, f)
  <1> DEFINE n == Len(params)
             D == DOMAIN params
             Val(f, s) == IF s = {} THEN base ELSE ConfigKey(f[s \ {Max(s)}], params[Max(s)], disk0)
             Below(k) == SUBSET (1..k)
             T == {k \in Nat : \E f : f = [s \in Below(k) |-> Val(f, s)]}
  <1>1. n \in Nat /\ D = 1..n
    BY DEF IsSeq
  <1>2. ASSUME NEW k \in Nat, NEW s \in Below(k + 1), s # {} PROVE s \ {Max(s)} \in Below(k)
    BY <1>2, LessMax
  <1>3. 0 \in T
    <2> DEFINE f == [s \in Below(0) |-> base]
    <2>1. \A s \in Below(0) : s = {}
      OBVIOUS
    <2>2. f = [s \in Below(0) |-> Val(f, s)]
      BY <2>1
    <2> QED BY <2>2
  <1>4. ASSUME NEW k \in Nat, k \in T PROVE k + 1 \in T
    <2>1. PICK g : g = [s \in Below(k) |-> Val(g, s)]
      BY <1>4
    <2> DEFINE f == [s \in Below(k + 1) |-> IF s \in Below(k) THEN g[s] ELSE Val(g, s)]
    <2>2. Below(k) \subseteq Below(k + 1)
      OBVIOUS
    <2>3. \A s \in Below(k + 1) : s # {} => s \ {Max(s)} \in Below(k)
      BY <1>2
    <2>4. \A s \in Below(k + 1) : Val(f, s) = Val(g, s)
      BY <2>2, <2>3
    <2>5. \A s \in Below(k + 1) : f[s] = Val(g, s)
      BY <2>1
    <2>6. f = [s \in Below(k + 1) |-> Val(f, s)]
      <3> HIDE DEF Val, Below
      <3> QED BY <2>4, <2>5
    <2>7. \E h : h = [s \in Below(k + 1) |-> Val(h, s)]
      <3> HIDE DEF Val, Below, f
      <3> QED BY <2>6
    <2> HIDE DEF Val, Below, f
    <2> QED BY <2>7
  <1>5. n \in T
    <2> HIDE DEF T
    <2> QED BY <1>1, <1>3, <1>4, NatSetInduction
  <1>6. PICK f : f = [s \in Below(n) |-> Val(f, s)]
    BY <1>5
  <1> QED BY <1>1, <1>6 DEF IsConfigured

LEMMA ConfigKeyResumes ==
  ASSUME NEW e, NEW p, NEW disk0, Resumes(disk0, e) PROVE Resumes(disk0, ConfigKey(e, p, disk0))
  <1>1. DOMAIN e = Fields
    BY DEF Resumes
  <1>2. Resumes(disk0, Throw(e)) /\ \A x : Resumes(disk0, Set(e, x))
    BY <1>1, KeepsStats DEF Resumes
  <1>3. Resumes(disk0, LoadJson(p[2], disk0, e))
    <2>1. CASE p[2] \in DOMAIN disk0
      <3> DEFINE new == LoadJson(p[2], disk0, e)
      <3>1. DOMAIN new = Fields /\ new.stats = disk0[p[2]].stats
        BY <1>1, <2>1 DEF LoadJson, Fields
      <3> QED BY <2>1, <3>1 DEF Resumes
    <2>2. CASE p[2] \notin DOMAIN disk0
      BY <1>2, <2>2 DEF LoadJson
    <2> QED BY <2>1, <2>2
  <1>4. \A x, y : Resumes(disk0, [e EXCEPT !.cfg = x, !.engines = y, !.stats = 0])
    BY <1>1 DEF Resumes, Fields
  <1> HIDE DEF Resumes
  <1> QED BY <1>2, <1>3, <1>4 DEF ConfigKey

ConfigRead(base, params, disk0) == FoldLeft(LAMBDA e, p : ConfigKey(e, p, disk0), base, params)

LEMMA ConfigResumes ==
  ASSUME NEW params, IsSeq(params), NEW base, NEW disk0, Resumes(disk0, base)
  PROVE  Resumes(disk0, ConfigRead(base, params, disk0))
  <1> DEFINE S == SUBSET DOMAIN params
             f == CHOOSE g : IsConfigured(base, params, disk0, g)
             Sum(g) == g = [s \in SUBSET DOMAIN params |-> IF s = {} THEN base ELSE ConfigKey(g[s \ {Max(s)}], params[Max(s)], disk0)]
             K == {k \in Nat : \A s \in S : s \subseteq 1..k => Resumes(disk0, f[s])}
  <1>1. FoldLeft(LAMBDA e, p : ConfigKey(e, p, disk0), base, params) = f[DOMAIN params]
    <2>1. FoldLeft(LAMBDA e, p : ConfigKey(e, p, disk0), base, params) = (CHOOSE g : Sum(g))[DOMAIN params]
      BY DEF FoldLeft, MapThenFoldSet
    <2>2. \A g : Sum(g) <=> IsConfigured(base, params, disk0, g)
      BY DEF IsConfigured
    <2> HIDE DEF Sum
    <2>3. (CHOOSE g : Sum(g)) = f
      BY <2>2
    <2> QED BY <2>1, <2>3
  <1>2. IsConfigured(base, params, disk0, f)
    BY ConfigExists
  <1>3. \A s \in S : f[s] = IF s = {} THEN base ELSE ConfigKey(f[s \ {Max(s)}], params[Max(s)], disk0)
    <2> HIDE DEF f
    <2> QED BY <1>2 DEF IsConfigured
  <1>4. Len(params) \in Nat /\ DOMAIN params = 1..Len(params)
    BY DEF IsSeq
  <1> HIDE DEF f
  <1>5. 0 \in K
    <2>1. \A s \in S : s \subseteq 1..0 => s = {}
      OBVIOUS
    <2> QED BY <1>3, <2>1
  <1>6. ASSUME NEW k \in Nat, k \in K PROVE k + 1 \in K
    <2> SUFFICES ASSUME NEW s \in S, s \subseteq 1..(k + 1), s # {} PROVE Resumes(disk0, f[s])
      BY <1>3
    <2>1. Max(s) \in s /\ s \ {Max(s)} \in SUBSET (1..k)
      BY LessMax
    <2>2. Resumes(disk0, f[s \ {Max(s)}])
      BY <1>6, <2>1
    <2> QED BY <1>3, <2>1, <2>2, ConfigKeyResumes
  <1>7. Len(params) \in K
    <2> HIDE DEF K
    <2> QED BY <1>4, <1>5, <1>6, NatSetInduction
  <1>8. Resumes(disk0, f[DOMAIN params])
    BY <1>4, <1>7
  <1> QED BY <1>1, <1>8 DEF ConfigRead

LEMMA HandleResumes ==
  ASSUME NEW o, NEW disk0, NEW d, Resumes(disk0, d), o.flag = "config" => IsSeq(o.params)
  PROVE  Resumes(disk0, Handle(o, disk0, d))
  <1>0. DOMAIN d = Fields
    BY DEF Resumes
  <1>1. CASE o.flag # "config"
    BY <1>0, <1>1, HandleKeepsStats DEF Resumes
  <1>2. CASE o.flag = "config"
    <2>1. Resumes(disk0, Throw(d))
      BY <1>0, KeepsStats DEF Resumes
    <2>2. Resumes(disk0, ParseConfig(o.params, disk0, d))
      <3> DEFINE read == ConfigRead(d, o.params, disk0)
      <3>1. Resumes(disk0, read)
        BY <1>2, ConfigResumes
      <3>2. \E x \in {0, read.stats} : ParseConfig(o.params, disk0, d) = [read EXCEPT !.stats = x]
        BY DEF ParseConfig, ConfigRead
      <3> HIDE DEF read
      <3> QED BY <3>1, <3>2 DEF Resumes, Fields
    <2>3. Handle(o, disk0, d) \in {Throw(d), ParseConfig(o.params, disk0, d)}
      <3>1. o.flag \notin DOMAIN KeyValueTables /\ o.flag \notin DOMAIN SingleOptions /\ o.flag \notin DOMAIN SwitchOptions
        <4>1. o.flag \notin DOMAIN SingleOptions
          BY <1>2 DEF SingleOptions, AdjudicationOptions, CountOptions, FormatOptions, WaitingOptions, Over
        <4> QED BY <1>2, <4>1 DEF KeyValueTables, SwitchOptions
      <3> QED BY <1>2, <3>1 DEF Handle
    <2> QED BY <2>1, <2>2, <2>3
  <1> QED BY <1>1, <1>2

\* The same for the fold over the options of a command line.
IsParsed(base, opts, disk0, f) ==
    f = [s \in SUBSET DOMAIN opts |-> IF s = {} THEN base ELSE AtOnce(f[s \ {Max(s)}], opts[Max(s)], disk0)]

LEMMA LineExists ==
  ASSUME NEW opts, IsSeq(opts), NEW base, NEW disk0
  PROVE  \E f : IsParsed(base, opts, disk0, f)
  <1> DEFINE n == Len(opts)
             D == DOMAIN opts
             Val(f, s) == IF s = {} THEN base ELSE AtOnce(f[s \ {Max(s)}], opts[Max(s)], disk0)
             Below(k) == SUBSET (1..k)
             T == {k \in Nat : \E f : f = [s \in Below(k) |-> Val(f, s)]}
  <1>1. n \in Nat /\ D = 1..n
    BY DEF IsSeq
  <1>2. ASSUME NEW k \in Nat, NEW s \in Below(k + 1), s # {} PROVE s \ {Max(s)} \in Below(k)
    BY <1>2, LessMax
  <1>3. 0 \in T
    <2> DEFINE f == [s \in Below(0) |-> base]
    <2>1. \A s \in Below(0) : s = {}
      OBVIOUS
    <2>2. f = [s \in Below(0) |-> Val(f, s)]
      BY <2>1
    <2> QED BY <2>2
  <1>4. ASSUME NEW k \in Nat, k \in T PROVE k + 1 \in T
    <2>1. PICK g : g = [s \in Below(k) |-> Val(g, s)]
      BY <1>4
    <2> DEFINE f == [s \in Below(k + 1) |-> IF s \in Below(k) THEN g[s] ELSE Val(g, s)]
    <2>2. Below(k) \subseteq Below(k + 1)
      OBVIOUS
    <2>3. \A s \in Below(k + 1) : s # {} => s \ {Max(s)} \in Below(k)
      BY <1>2
    <2>4. \A s \in Below(k + 1) : Val(f, s) = Val(g, s)
      BY <2>2, <2>3
    <2>5. \A s \in Below(k + 1) : f[s] = Val(g, s)
      BY <2>1
    <2>6. f = [s \in Below(k + 1) |-> Val(f, s)]
      <3> HIDE DEF Val, Below
      <3> QED BY <2>4, <2>5
    <2>7. \E h : h = [s \in Below(k + 1) |-> Val(h, s)]
      <3> HIDE DEF Val, Below, f
      <3> QED BY <2>6
    <2> HIDE DEF Val, Below, f
    <2> QED BY <2>7
  <1>5. n \in T
    <2> HIDE DEF T
    <2> QED BY <1>1, <1>3, <1>4, NatSetInduction
  <1>6. PICK f : f = [s \in Below(n) |-> Val(f, s)]
    BY <1>5
  <1> QED BY <1>1, <1>6 DEF IsParsed

LEMMA AtOnceResumes ==
  ASSUME NEW o, NEW disk0, NEW d, Resumes(disk0, d), IsSeq(o.params)
  PROVE  Resumes(disk0, AtOnce(d, o, disk0))
  BY HandleResumes DEF AtOnce

LineRead(base, opts, disk0) == FoldLeft(LAMBDA d, o : AtOnce(d, o, disk0), base, opts)

LEMMA OptionsResume ==
  ASSUME NEW opts, IsSeq(opts), NEW base, NEW disk0, Resumes(disk0, base),
         \A i \in DOMAIN opts : IsSeq(opts[i].params)
  PROVE  Resumes(disk0, LineRead(base, opts, disk0))
  <1> DEFINE S == SUBSET DOMAIN opts
             f == CHOOSE g : IsParsed(base, opts, disk0, g)
             Sum(g) == g = [s \in SUBSET DOMAIN opts |-> IF s = {} THEN base ELSE AtOnce(g[s \ {Max(s)}], opts[Max(s)], disk0)]
             K == {k \in Nat : \A s \in S : s \subseteq 1..k => Resumes(disk0, f[s])}
  <1>1. FoldLeft(LAMBDA d, o : AtOnce(d, o, disk0), base, opts) = f[DOMAIN opts]
    <2>1. FoldLeft(LAMBDA d, o : AtOnce(d, o, disk0), base, opts) = (CHOOSE g : Sum(g))[DOMAIN opts]
      BY DEF FoldLeft, MapThenFoldSet
    <2>2. \A g : Sum(g) <=> IsParsed(base, opts, disk0, g)
      BY DEF IsParsed
    <2> HIDE DEF Sum
    <2>3. (CHOOSE g : Sum(g)) = f
      BY <2>2
    <2> QED BY <2>1, <2>3
  <1>2. IsParsed(base, opts, disk0, f)
    BY LineExists
  <1>3. \A s \in S : f[s] = IF s = {} THEN base ELSE AtOnce(f[s \ {Max(s)}], opts[Max(s)], disk0)
    <2> HIDE DEF f
    <2> QED BY <1>2 DEF IsParsed
  <1>4. Len(opts) \in Nat /\ DOMAIN opts = 1..Len(opts)
    BY DEF IsSeq
  <1> HIDE DEF f
  <1>5. 0 \in K
    <2>1. \A s \in S : s \subseteq 1..0 => s = {}
      OBVIOUS
    <2> QED BY <1>3, <2>1
  <1>6. ASSUME NEW k \in Nat, k \in K PROVE k + 1 \in K
    <2> SUFFICES ASSUME NEW s \in S, s \subseteq 1..(k + 1) PROVE Resumes(disk0, f[s])
      OBVIOUS
    <2>0. CASE s = {}
      BY <1>3, <2>0
    <2> SUFFICES ASSUME s # {} PROVE Resumes(disk0, f[s])
      BY <2>0
    <2>1. Max(s) \in s /\ s \ {Max(s)} \in SUBSET (1..k)
      BY LessMax
    <2>2. Resumes(disk0, f[s \ {Max(s)}])
      BY <1>6, <2>1
    <2>3. IsSeq(opts[Max(s)].params)
      BY <2>1
    <2> QED BY <1>3, <2>1, <2>2, <2>3, AtOnceResumes
  <1>7. Len(opts) \in K
    <2> HIDE DEF K
    <2> QED BY <1>4, <1>5, <1>6, NatSetInduction
  <1>8. Resumes(disk0, f[DOMAIN opts])
    BY <1>4, <1>7
  <1> QED BY <1>1, <1>8 DEF LineRead

LEMMA ParseLineResumes ==
  ASSUME NEW l, IsSeq(l), NEW disk0, \A i \in DOMAIN l : IsSeq(l[i].params)
  PROVE  Resumes(disk0, ParseLine(l, disk0))
  <1> DEFINE read == LineRead(NoArguments, l, disk0)
             joined == FlattenSeq([i \in DOMAIN l |-> IF l[i].flag \in Deferred THEN l[i].params ELSE <<>>])
             late == [flag |-> "each", params |-> joined]
  <1>1. Resumes(disk0, NoArguments)
    BY DEF Resumes, NoArguments, Fields
  <1>2. Resumes(disk0, read)
    BY <1>1, OptionsResume
  <1>3. ParseLine(l, disk0) \in {Handle(late, disk0, read), read}
    BY DEF ParseLine, LineRead
  <1> HIDE DEF read, joined
  <1>4. late.flag # "config"
    OBVIOUS
  <1> HIDE DEF late
  <1>5. Resumes(disk0, Handle(late, disk0, read))
    BY <1>2, <1>4, HandleKeepsStats DEF Resumes
  <1> QED BY <1>2, <1>3, <1>5

LEMMA SanitizedKeepsStats ==
  ASSUME NEW d, DOMAIN d = Fields, NEW limit
  PROVE  DOMAIN Sanitized(limit, d) = Fields /\ Sanitized(limit, d).stats = d.stats
  <1> DEFINE Good(x) == DOMAIN x = Fields /\ x.stats = d.stats
  <1>1. ASSUME NEW x, Good(x) PROVE Good(ApplyVariant(x))
    BY <1>1 DEF ApplyVariant, Fields
  <1>2. ASSUME NEW x, Good(x), NEW c, NEW b PROVE Good([Require(x, b) EXCEPT !.cfg = c]) /\ Good([Require(x, b) EXCEPT !.engines = c])
    BY <1>2, KeepsStats DEF Fields
  <1>3. ASSUME NEW x, Good(x) PROVE Good(FixConfig(x))
    BY <1>2, <1>3 DEF FixConfig
  <1>4. ASSUME NEW x, Good(x) PROVE Good(SetDefaults(x))
    BY <1>4 DEF SetDefaults, Fields
  <1>5. ASSUME NEW x, Good(x) PROVE Good(AdjustConcurrency(limit, x))
    BY <1>5 DEF AdjustConcurrency, Require, Fields
  <1>6. ASSUME NEW x, Good(x) PROVE Good(ValidateConfig(x))
    BY <1>6 DEF ValidateConfig, Require, Fields
  <1>7. ASSUME NEW x, Good(x) PROVE Good(SanitizeEngines(x))
    BY <1>7 DEF SanitizeEngines, Require, Fields
  <1>8. Good(d)
    OBVIOUS
  <1> HIDE DEF Good
  <1>9. Good(SanitizeConfig(limit, ApplyVariant(d)))
    BY <1>1, <1>3, <1>4, <1>5, <1>6, <1>8 DEF SanitizeConfig
  <1>10. Good(SanitizeEngines(SanitizeConfig(limit, ApplyVariant(d))))
    BY <1>7, <1>9
  <1>11. Good(Sanitized(limit, d))
    BY <1>8, <1>10 DEF Sanitized
  <1> QED BY <1>11 DEF Good

\* Whatever the command line, a session starts from no results or from saved ones.
LEMMA OptionsParserResumes ==
  ASSUME NEW l \in FirstLines \cup ResumeLines, NEW disk0, NEW limit
  PROVE  Resumes(disk0, OptionsParser(l, disk0, limit))
  <1>1. IsSeq(l) /\ \A i \in DOMAIN l : IsSeq(l[i].params)
    BY LinesAssumption
  <1>2. Resumes(disk0, ParseLine(l, disk0))
    BY <1>1, ParseLineResumes
  <1>3. DOMAIN ParseLine(l, disk0) = Fields
    BY <1>2 DEF Resumes
  <1> QED BY <1>2, <1>3, SanitizedKeepsStats DEF OptionsParser, Resumes

-----------------------------------------------------------------------------
(* The saved counts and the files.                                         *)

\* The game file called name, if there is one, has n games at least.
IsOnFile(all, name, n) == name # "" => name \in DOMAIN all /\ n <= Len(all[name])

\* A session that was launched and not begun has the results of a saved file, or none.
ResumesWhatIsSaved ==
    phase = "parsed" => data.stats = 0 \/ \E f \in DOMAIN disk : data.stats = disk[f].stats
\* The games a saved file counts are in the game file it names, but for the unwritten ones.
SavedIsOnFile ==
    ~discarded => \A f \in DOMAIN disk : disk[f].stats > 0 =>
        IsOnFile(files, disk[f].cfg.pgn_file, disk[f].stats - unwritten)
\* The games a running tournament counts are in its game file, but for the unwritten ones.
CountedIsOnFile ==
    phase = "running" /\ ~discarded => IsOnFile(files, data.cfg.pgn_file, counted - unwritten)

(* The inductive invariant of the sessions: the files are sequences that grow, the file
   of a running tournament exists, and the three facts above. A session that threw
   its games away is free. *)
FilesInv ==
    /\ phase \in {"shell", "parsed", "running", "failed"}
    /\ counted \in Nat /\ unwritten \in Nat
    /\ \A f \in DOMAIN files : IsSeq(files[f])
    /\ \A f \in DOMAIN disk : disk[f].stats \in Nat
    /\ phase = "running" /\ data.cfg.pgn_file # "" => data.cfg.pgn_file \in DOMAIN files
    /\ ResumesWhatIsSaved /\ SavedIsOnFile /\ CountedIsOnFile

LEMMA EmptyIsSeq == IsSeq(<<>>) /\ Len(<<>>) = 0
  BY DEF IsSeq, ToSet

LEMMA AppendIsSeq ==
  ASSUME NEW s, IsSeq(s), NEW x
  PROVE  IsSeq(Append(s, x)) /\ Len(Append(s, x)) = Len(s) + 1 /\ Len(s) \in Nat
  <1> DEFINE T == ToSet(s) \cup {x}
  <1>1. s \in Seq(T)
    BY DEF IsSeq
  <1>2. Append(s, x) \in Seq(T) /\ Len(Append(s, x)) = Len(s) + 1 /\ Len(s) \in Nat
    BY <1>1
  <1>3. \A i \in DOMAIN Append(s, x) : Append(s, x)[i] \in ToSet(Append(s, x))
    BY DEF ToSet
  <1>4. Append(s, x) \in Seq(ToSet(Append(s, x)))
    <2> DEFINE a == Append(s, x)
    <2>1. a \in Seq(T)
      BY <1>2
    <2> HIDE DEF a, T
    <2>2. DOMAIN a = 1..Len(a) /\ Len(a) \in Nat /\ a = [i \in 1..Len(a) |-> a[i]]
      BY <2>1
    <2>3. \A i \in 1..Len(a) : a[i] \in ToSet(a)
      BY <2>2 DEF ToSet
    <2>4. a \in Seq(ToSet(a))
      BY <2>2, <2>3
    <2> QED BY <2>4 DEF a
  <1> QED BY <1>2, <1>4 DEF IsSeq

\* Opening a file leaves every file a sequence, and one that is appended to as it is.
LEMMA OpenFileFacts ==
  ASSUME NEW all, \A f \in DOMAIN all : IsSeq(all[f]), NEW name, NEW append
  PROVE  /\ DOMAIN OpenFile(all, name, append) = DOMAIN all \cup {name}
         /\ \A f \in DOMAIN OpenFile(all, name, append) : IsSeq(OpenFile(all, name, append)[f])
  BY EmptyIsSeq DEF OpenFile, Content

LEMMA KeptFile ==
  ASSUME NEW all, NEW name
  PROVE  \A f \in DOMAIN all : OpenFile(all, name, TRUE)[f] = all[f]
  BY DEF OpenFile, Content

LEMMA OpenGameFilesFacts ==
  ASSUME NEW cfg, NEW total, \A f \in DOMAIN files : IsSeq(files[f])
  PROVE  LET opened == OpenGameFiles(cfg, total)
         IN /\ DOMAIN files \subseteq DOMAIN opened
            /\ cfg.pgn_file # "" => cfg.pgn_file \in DOMAIN opened
            /\ \A f \in DOMAIN opened : IsSeq(opened[f])
            /\ total # 0 => \A f \in DOMAIN files : opened[f] = files[f]
  <1> DEFINE pgn == IF cfg.pgn_file = "" THEN files
                    ELSE OpenFile(files, cfg.pgn_file, ResolveAppendFlag(cfg.pgn_append, total))
             opened == IF cfg.epd_file = "" THEN pgn
                       ELSE OpenFile(pgn, cfg.epd_file, ResolveAppendFlag(cfg.epd_append, total))
  <1>1. OpenGameFiles(cfg, total) = opened
    BY DEF OpenGameFiles
  <1>2. total # 0 => ResolveAppendFlag(cfg.pgn_append, total) = TRUE /\ ResolveAppendFlag(cfg.epd_append, total) = TRUE
    BY DEF ResolveAppendFlag
  <1>3. /\ DOMAIN files \subseteq DOMAIN pgn
        /\ cfg.pgn_file # "" => cfg.pgn_file \in DOMAIN pgn
        /\ \A f \in DOMAIN pgn : IsSeq(pgn[f])
        /\ total # 0 => \A f \in DOMAIN files : pgn[f] = files[f]
    <2>1. CASE cfg.pgn_file = ""
      BY <2>1
    <2>2. CASE cfg.pgn_file # ""
      <3> DEFINE append == ResolveAppendFlag(cfg.pgn_append, total)
      <3>1. pgn = OpenFile(files, cfg.pgn_file, append)
        BY <2>2
      <3>2. total # 0 => pgn = OpenFile(files, cfg.pgn_file, TRUE)
        BY <1>2, <3>1
      <3>3. total # 0 => \A f \in DOMAIN files : pgn[f] = files[f]
        <4> HIDE DEF pgn
        <4> QED BY <3>2, KeptFile
      <3>4. DOMAIN pgn = DOMAIN files \cup {cfg.pgn_file} /\ \A f \in DOMAIN pgn : IsSeq(pgn[f])
        <4> HIDE DEF append
        <4>1. /\ DOMAIN OpenFile(files, cfg.pgn_file, append) = DOMAIN files \cup {cfg.pgn_file}
              /\ \A f \in DOMAIN OpenFile(files, cfg.pgn_file, append) : IsSeq(OpenFile(files, cfg.pgn_file, append)[f])
          BY OpenFileFacts
        <4> HIDE DEF pgn
        <4> QED BY <3>1, <4>1
      <3> HIDE DEF pgn
      <3> QED BY <3>3, <3>4
    <2> QED BY <2>1, <2>2
  <1> HIDE DEF pgn
  <1>4. /\ DOMAIN pgn \subseteq DOMAIN opened
        /\ \A f \in DOMAIN opened : IsSeq(opened[f])
        /\ total # 0 => \A f \in DOMAIN pgn : opened[f] = pgn[f]
    <2>1. CASE cfg.epd_file = ""
      BY <1>3, <2>1
    <2>2. CASE cfg.epd_file # ""
      <3> DEFINE append == ResolveAppendFlag(cfg.epd_append, total)
      <3>1. opened = OpenFile(pgn, cfg.epd_file, append)
        BY <2>2
      <3>2. total # 0 => opened = OpenFile(pgn, cfg.epd_file, TRUE)
        BY <1>2, <3>1
      <3>3. total # 0 => \A f \in DOMAIN pgn : opened[f] = pgn[f]
        <4> HIDE DEF opened
        <4> QED BY <3>2, KeptFile
      <3>4. DOMAIN opened = DOMAIN pgn \cup {cfg.epd_file} /\ \A f \in DOMAIN opened : IsSeq(opened[f])
        <4> HIDE DEF append
        <4>1. \A f \in DOMAIN pgn : IsSeq(pgn[f])
          BY <1>3
        <4>2. /\ DOMAIN OpenFile(pgn, cfg.epd_file, append) = DOMAIN pgn \cup {cfg.epd_file}
              /\ \A f \in DOMAIN OpenFile(pgn, cfg.epd_file, append) : IsSeq(OpenFile(pgn, cfg.epd_file, append)[f])
          BY <4>1, OpenFileFacts
        <4> HIDE DEF opened
        <4> QED BY <3>1, <4>2
      <3> HIDE DEF opened
      <3> QED BY <3>3, <3>4
    <2> QED BY <2>1, <2>2
  <1> HIDE DEF opened
  <1>5. /\ DOMAIN files \subseteq DOMAIN opened
        /\ cfg.pgn_file # "" => cfg.pgn_file \in DOMAIN opened
        /\ \A f \in DOMAIN opened : IsSeq(opened[f])
        /\ total # 0 => \A f \in DOMAIN files : opened[f] = files[f]
    BY <1>3, <1>4
  <1> QED BY <1>1, <1>5

LEMMA WriteTextFacts ==
  ASSUME NEW all, \A f \in DOMAIN all : IsSeq(all[f]), NEW name, NEW text
  PROVE  /\ DOMAIN WriteText(all, name, text) = DOMAIN all
         /\ \A f \in DOMAIN all : /\ IsSeq(WriteText(all, name, text)[f])
                                  /\ Len(WriteText(all, name, text)[f]) \in Nat /\ Len(all[f]) \in Nat
                                  /\ Len(WriteText(all, name, text)[f]) >= Len(all[f])
                                  /\ f = name => Len(WriteText(all, name, text)[f]) = Len(all[f]) + 1
  <1>1. \A f \in DOMAIN all : Len(all[f]) \in Nat
    BY DEF IsSeq
  <1>2. \A f \in DOMAIN all : WriteText(all, name, text)[f] = IF f = name THEN Append(all[f], text) ELSE all[f]
    BY DEF WriteText
  <1>3. \A f \in DOMAIN all : IsSeq(Append(all[f], text)) /\ Len(Append(all[f], text)) = Len(all[f]) + 1
    BY AppendIsSeq
  <1>4. DOMAIN WriteText(all, name, text) = DOMAIN all
    BY DEF WriteText
  <1> DEFINE w == WriteText(all, name, text)
  <1> HIDE DEF w
  <1>5. ASSUME NEW f \in DOMAIN all
        PROVE  /\ IsSeq(w[f]) /\ Len(w[f]) \in Nat /\ Len(all[f]) \in Nat /\ Len(w[f]) >= Len(all[f])
               /\ f = name => Len(w[f]) = Len(all[f]) + 1
    <2>1. w[f] = IF f = name THEN Append(all[f], text) ELSE all[f]
      BY <1>2 DEF w
    <2> QED BY <1>1, <1>3, <2>1
  <1> QED BY <1>4, <1>5 DEF w

LEMMA WriteGameFacts ==
  ASSUME NEW cfg, NEW text, \A f \in DOMAIN files : IsSeq(files[f])
  PROVE  LET written == WriteGame(cfg, text)
         IN /\ DOMAIN written = DOMAIN files
            /\ \A f \in DOMAIN files : /\ IsSeq(written[f]) /\ Len(files[f]) \in Nat /\ Len(written[f]) \in Nat
                                       /\ Len(written[f]) >= Len(files[f])
                                       /\ f = cfg.pgn_file /\ f # "" => Len(written[f]) >= Len(files[f]) + 1
  <1> DEFINE pgn == IF cfg.pgn_file = "" THEN files ELSE WriteText(files, cfg.pgn_file, text)
             written == IF cfg.epd_file = "" THEN pgn ELSE WriteText(pgn, cfg.epd_file, text)
  <1>1. WriteGame(cfg, text) = written
    BY DEF WriteGame
  <1>2. \A f \in DOMAIN files : Len(files[f]) \in Nat
    BY DEF IsSeq
  <1>3. /\ DOMAIN pgn = DOMAIN files
        /\ \A f \in DOMAIN files : /\ IsSeq(pgn[f]) /\ Len(pgn[f]) \in Nat /\ Len(pgn[f]) >= Len(files[f])
                                   /\ f = cfg.pgn_file /\ f # "" => Len(pgn[f]) = Len(files[f]) + 1
    <2>1. CASE cfg.pgn_file = ""
      <3>1. pgn = files
        BY <2>1
      <3>2. \A f \in DOMAIN files : Len(files[f]) >= Len(files[f])
        BY <1>2
      <3> HIDE DEF pgn
      <3>3. \A f \in DOMAIN files : ~(f = cfg.pgn_file /\ f # "")
        BY <2>1
      <3> QED BY <1>2, <3>1, <3>2, <3>3
    <2>2. CASE cfg.pgn_file # ""
      <3>1. pgn = WriteText(files, cfg.pgn_file, text)
        BY <2>2
      <3> HIDE DEF pgn
      <3> QED BY <3>1, WriteTextFacts
    <2> QED BY <2>1, <2>2
  <1> HIDE DEF pgn
  <1>4. /\ DOMAIN written = DOMAIN pgn
        /\ \A f \in DOMAIN pgn : IsSeq(written[f]) /\ Len(written[f]) \in Nat /\ Len(written[f]) >= Len(pgn[f])
    <2>1. CASE cfg.epd_file = ""
      <3>1. written = pgn
        BY <2>1
      <3> HIDE DEF written
      <3>2. \A f \in DOMAIN pgn : IsSeq(pgn[f]) /\ Len(pgn[f]) \in Nat
        BY <1>3
      <3>3. \A f \in DOMAIN pgn : Len(pgn[f]) >= Len(pgn[f])
        BY <3>2
      <3> QED BY <3>1, <3>2, <3>3
    <2>2. CASE cfg.epd_file # ""
      <3>1. written = WriteText(pgn, cfg.epd_file, text)
        BY <2>2
      <3>2. \A f \in DOMAIN pgn : IsSeq(pgn[f])
        BY <1>3
      <3> HIDE DEF written
      <3> QED BY <3>1, <3>2, WriteTextFacts
    <2> QED BY <2>1, <2>2
  <1> HIDE DEF written
  <1>5. /\ DOMAIN written = DOMAIN files
        /\ \A f \in DOMAIN files : /\ IsSeq(written[f]) /\ Len(files[f]) \in Nat /\ Len(written[f]) \in Nat
                                   /\ Len(written[f]) >= Len(files[f])
                                   /\ f = cfg.pgn_file /\ f # "" => Len(written[f]) >= Len(files[f]) + 1
    <2>1. ASSUME NEW f \in DOMAIN files
          PROVE  /\ IsSeq(written[f]) /\ Len(files[f]) \in Nat /\ Len(written[f]) \in Nat
                 /\ Len(written[f]) >= Len(files[f])
                 /\ f = cfg.pgn_file /\ f # "" => Len(written[f]) >= Len(files[f]) + 1
      <3>1. Len(files[f]) \in Nat /\ Len(pgn[f]) \in Nat /\ Len(written[f]) \in Nat /\ IsSeq(written[f])
        BY <1>2, <1>3, <1>4
      <3>2. Len(written[f]) >= Len(pgn[f]) /\ Len(pgn[f]) >= Len(files[f])
        BY <1>3, <1>4
      <3>3. f = cfg.pgn_file /\ f # "" => Len(pgn[f]) = Len(files[f]) + 1
        BY <1>3
      <3>4. Len(written[f]) >= Len(files[f])
        BY <3>1, <3>2
      <3>5. f = cfg.pgn_file /\ f # "" => Len(written[f]) >= Len(files[f]) + 1
        BY <3>1, <3>2, <3>3
      <3> QED BY <3>1, <3>4, <3>5
    <2> QED BY <1>3, <1>4, <2>1
  <1> QED BY <1>1, <1>5

LEMMA FilesInit == SessionsInit => FilesInv
  <1> SUFFICES ASSUME SessionsInit PROVE FilesInv
    OBVIOUS
  <1>1. DOMAIN files = {} /\ DOMAIN disk = {}
    BY DEF SessionsInit
  <1> QED BY <1>1 DEF SessionsInit, game, FilesInv, ResumesWhatIsSaved, SavedIsOnFile, CountedIsOnFile

LEMMA LaunchFiles ==
  ASSUME FilesInv, NEW l \in FirstLines \cup ResumeLines, Launch(l)
  PROVE  FilesInv'
  <1>1. Resumes(disk, data')
    BY OptionsParserResumes DEF Launch
  <1>2. phase' \in {"parsed", "failed"} /\ UNCHANGED <<disk, counted, files, discarded, unwritten>>
    BY DEF Launch, game
  <1>3. ResumesWhatIsSaved'
    BY <1>1, <1>2 DEF ResumesWhatIsSaved, Resumes
  <1>4. SavedIsOnFile'
    BY <1>2 DEF FilesInv, SavedIsOnFile, IsOnFile
  <1>5. CountedIsOnFile'
    BY <1>2 DEF CountedIsOnFile
  <1> QED BY <1>2, <1>3, <1>4, <1>5 DEF FilesInv

LEMMA BeginTournamentFiles ==
  ASSUME FilesInv, BeginTournament
  PROVE  FilesInv'
  <1> DEFINE cfg == data.cfg
             total == data.stats
             opened == Loaded(cfg) /\ cfg.games # 0 /\ Setup(cfg, total).ok
  <1>1. /\ phase = "parsed" /\ phase' \in {"running", "failed"} /\ counted' = total
        /\ unwritten \in Nat /\ UNCHANGED <<data, disk, unwritten>>
    BY DEF BeginTournament, FilesInv
  <1>2. phase' = "running" => opened
    BY DEF BeginTournament
  <1>3. files' = IF opened THEN OpenGameFiles(cfg, total) ELSE files
    BY DEF BeginTournament, game
  <1>4. ~discarded' => /\ ~discarded
                       /\ \A f \in DOMAIN disk : disk[f].stats > 0 => total # 0 /\ disk[f].cfg.pgn_file = cfg.pgn_file
    BY DEF BeginTournament
  <1> HIDE DEF opened
  <1>5. total = 0 \/ \E f \in DOMAIN disk : total = disk[f].stats
    BY <1>1 DEF FilesInv, ResumesWhatIsSaved
  <1>6. total \in Nat
    <2>1. \A f \in DOMAIN disk : disk[f].stats \in Nat
      BY DEF FilesInv
    <2> QED BY <1>5, <2>1
  <1> HIDE DEF cfg, total
  <1>7. /\ DOMAIN files \subseteq DOMAIN files'
        /\ phase' = "running" /\ cfg.pgn_file # "" => cfg.pgn_file \in DOMAIN files'
        /\ \A f \in DOMAIN files' : IsSeq(files'[f])
        /\ total # 0 => \A f \in DOMAIN files : files'[f] = files[f]
    <2>1. CASE opened
      <3>1. \A f \in DOMAIN files : IsSeq(files[f])
        BY DEF FilesInv
      <3> DEFINE new == OpenGameFiles(cfg, total)
      <3>2. /\ DOMAIN files \subseteq DOMAIN new
            /\ cfg.pgn_file # "" => cfg.pgn_file \in DOMAIN new
            /\ \A f \in DOMAIN new : IsSeq(new[f])
            /\ total # 0 => \A f \in DOMAIN files : new[f] = files[f]
        BY <3>1, OpenGameFilesFacts
      <3>3. files' = new
        BY <1>3, <2>1
      <3> HIDE DEF new
      <3> QED BY <3>2, <3>3
    <2>2. CASE ~opened
      BY <1>1, <1>2, <1>3, <2>2 DEF FilesInv
    <2> QED BY <2>1, <2>2
  <1>8. ASSUME NEW name, NEW n, total # 0, IsOnFile(files, name, n) PROVE IsOnFile(files', name, n)
    BY <1>7, <1>8 DEF IsOnFile
  <1>9. SavedIsOnFile'
    <2> SUFFICES ASSUME ~discarded', NEW f \in DOMAIN disk, disk[f].stats > 0
                 PROVE  IsOnFile(files', disk[f].cfg.pgn_file, disk[f].stats - unwritten)
      BY <1>1 DEF SavedIsOnFile
    <2>1. total # 0 /\ ~discarded
      BY <1>4
    <2>2. IsOnFile(files, disk[f].cfg.pgn_file, disk[f].stats - unwritten)
      BY <2>1 DEF FilesInv, SavedIsOnFile
    <2> QED BY <1>8, <2>1, <2>2
  <1>10. CountedIsOnFile'
    <2> SUFFICES ASSUME phase' = "running", ~discarded' PROVE IsOnFile(files', cfg.pgn_file, total - unwritten)
      BY <1>1 DEF CountedIsOnFile, cfg
    <2>1. CASE total = 0
      <3>1. cfg.pgn_file # "" => cfg.pgn_file \in DOMAIN files' /\ Len(files'[cfg.pgn_file]) \in Nat
        <4>1. \A s : IsSeq(s) => Len(s) \in Nat
          BY DEF IsSeq
        <4>2. \A f \in DOMAIN files' : IsSeq(files'[f])
          BY <1>7
        <4>3. \A f \in DOMAIN files' : Len(files'[f]) \in Nat
          BY <4>1, <4>2
        <4> QED BY <1>7, <4>3
      <3>2. cfg.pgn_file # "" => 0 - unwritten <= Len(files'[cfg.pgn_file])
        <4>1. \A n \in Nat : 0 - unwritten <= n
          BY <1>1
        <4> QED BY <3>1, <4>1
      <3> QED BY <2>1, <3>1, <3>2 DEF IsOnFile
    <2>2. CASE total # 0
      <3>1. PICK f \in DOMAIN disk : total = disk[f].stats
        BY <1>5, <2>2
      <3>2. disk[f].stats > 0
        BY <1>6, <2>2, <3>1
      <3>3. ~discarded /\ disk[f].cfg.pgn_file = cfg.pgn_file
        BY <1>4, <3>2
      <3>4. IsOnFile(files, cfg.pgn_file, total - unwritten)
        BY <3>1, <3>2, <3>3 DEF FilesInv, SavedIsOnFile
      <3> QED BY <1>8, <2>2, <3>4
    <2> QED BY <2>1, <2>2
  <1>11. ResumesWhatIsSaved'
    BY <1>1 DEF ResumesWhatIsSaved
  <1>12. /\ phase' \in {"shell", "parsed", "running", "failed"} /\ counted' \in Nat /\ unwritten' \in Nat
         /\ \A f \in DOMAIN disk' : disk'[f].stats \in Nat
         /\ phase' = "running" /\ data'.cfg.pgn_file # "" => data'.cfg.pgn_file \in DOMAIN files'
    BY <1>1, <1>6, <1>7 DEF FilesInv, cfg
  <1> QED BY <1>7, <1>9, <1>10, <1>11, <1>12 DEF FilesInv

\* A file that grows still holds what it held, and one game more.
LEMMA StillCovers ==
  ASSUME NEW n \in Nat, NEW u \in Nat, NEW before \in Nat, NEW after \in Nat, n - u <= before
  PROVE  (after >= before => n - u <= after) /\ (after >= before + 1 => (n + 1) - u <= after)
  OBVIOUS

LEMMA PlayGameFiles ==
  ASSUME FilesInv, PlayGame
  PROVE  FilesInv'
  <1> DEFINE name == data.cfg.pgn_file
  <1>1. /\ phase = "running" /\ phase' = phase /\ counted' = counted + 1 /\ counted \in Nat /\ unwritten \in Nat
        /\ UNCHANGED <<data, disk, discarded, unwritten>>
    BY DEF PlayGame, Playable, FilesInv
  <1>2. \A f \in DOMAIN files : IsSeq(files[f])
    BY DEF FilesInv
  <1>3. PICK text : files' = WriteGame(data.cfg, text)
    BY DEF PlayGame
  <1>4. /\ DOMAIN files' = DOMAIN files
        /\ \A f \in DOMAIN files : /\ IsSeq(files'[f]) /\ Len(files[f]) \in Nat /\ Len(files'[f]) \in Nat
                                   /\ Len(files'[f]) >= Len(files[f])
                                   /\ f = name /\ f # "" => Len(files'[f]) >= Len(files[f]) + 1
    <2> DEFINE new == WriteGame(data.cfg, text)
    <2>1. /\ DOMAIN new = DOMAIN files
          /\ \A f \in DOMAIN files : /\ IsSeq(new[f]) /\ Len(files[f]) \in Nat /\ Len(new[f]) \in Nat
                                     /\ Len(new[f]) >= Len(files[f])
                                     /\ f = name /\ f # "" => Len(new[f]) >= Len(files[f]) + 1
      BY <1>2, WriteGameFacts
    <2> HIDE DEF new
    <2> QED BY <1>3, <2>1 DEF new
  <1> HIDE DEF name
  <1>5. SavedIsOnFile'
    <2> SUFFICES ASSUME ~discarded, NEW f \in DOMAIN disk, disk[f].stats > 0, NEW file, file = disk[f].cfg.pgn_file, file # ""
                 PROVE  file \in DOMAIN files' /\ disk[f].stats - unwritten <= Len(files'[file])
      BY <1>1 DEF SavedIsOnFile, IsOnFile
    <2>1. disk[f].stats \in Nat /\ file \in DOMAIN files /\ disk[f].stats - unwritten <= Len(files[file])
      BY DEF FilesInv, SavedIsOnFile, IsOnFile
    <2>2. Len(files[file]) \in Nat /\ Len(files'[file]) \in Nat /\ Len(files'[file]) >= Len(files[file])
      BY <1>4, <2>1
    <2>3. disk[f].stats - unwritten <= Len(files'[file])
      BY <1>1, <2>1, <2>2, StillCovers
    <2> QED BY <1>4, <2>1, <2>3
  <1>6. CountedIsOnFile'
    <2> SUFFICES ASSUME ~discarded, name # "" PROVE name \in DOMAIN files' /\ (counted + 1) - unwritten <= Len(files'[name])
      BY <1>1 DEF CountedIsOnFile, IsOnFile, name
    <2>1. name \in DOMAIN files /\ counted - unwritten <= Len(files[name])
      BY <1>1 DEF FilesInv, CountedIsOnFile, IsOnFile, name
    <2>2. Len(files[name]) \in Nat /\ Len(files'[name]) \in Nat /\ Len(files'[name]) >= Len(files[name]) + 1
      BY <1>4, <2>1
    <2>3. (counted + 1) - unwritten <= Len(files'[name])
      BY <1>1, <2>1, <2>2, StillCovers
    <2> QED BY <1>4, <2>1, <2>3
  <1>7. ResumesWhatIsSaved'
    BY <1>1 DEF ResumesWhatIsSaved
  <1>8. data'.cfg.pgn_file # "" => data'.cfg.pgn_file \in DOMAIN files'
    BY <1>1, <1>4 DEF FilesInv
  <1>9. \A f \in DOMAIN files' : IsSeq(files'[f])
    BY <1>4
  <1>10. /\ phase' \in {"shell", "parsed", "running", "failed"} /\ counted' \in Nat /\ unwritten' \in Nat
         /\ \A f \in DOMAIN disk' : disk'[f].stats \in Nat
    <2>1. counted + 1 \in Nat
      BY <1>1
    <2>2. \A f \in DOMAIN disk : disk[f].stats \in Nat
      BY DEF FilesInv
    <2> QED BY <1>1, <2>1, <2>2
  <1> QED BY <1>5, <1>6, <1>7, <1>8, <1>9, <1>10 DEF FilesInv

LEMMA PgnFileIsSaved == "pgn_file" \in SavedSettings
  <1>1. "pgn_file" \in DOMAIN PgnDefaults
    BY DEF PgnDefaults
  <1>2. \A f, g : DOMAIN f \subseteq DOMAIN Over(f, g) /\ DOMAIN g \subseteq DOMAIN Over(f, g)
    BY DEF Over
  <1>3. "pgn_file" \in DOMAIN TournamentDefaults
    BY <1>1, <1>2 DEF TournamentDefaults
  <1> QED BY <1>3 DEF SavedSettings, NotSaved, TbNotSaved

LEMMA LenIsNat == ASSUME NEW s, IsSeq(s) PROVE Len(s) \in Nat
  BY DEF IsSeq

LEMMA MoreUnwritten ==
  ASSUME NEW n \in Nat, NEW u \in Nat, NEW v \in Nat, NEW len \in Nat, v >= u, n - u <= len
  PROVE  n - v <= len
  OBVIOUS

\* What is saved counts the games written and, after a stall, one that is not.
LEMMA SaveJsonFiles ==
  ASSUME FilesInv, NEW games \in Nat, SaveJson(games), UNCHANGED files, unwritten' \in Nat, unwritten' >= unwritten,
         games - unwritten' = counted - unwritten
  PROVE  /\ \A f \in DOMAIN disk' : disk'[f].stats \in Nat
         /\ SavedIsOnFile'
  <1> DEFINE name == data.cfg.config_name
             saved == Saved(data.cfg, data.engines, games)
             new == [f \in {name} |-> saved]
  <1>1. saved.stats = games /\ saved.cfg.pgn_file = data.cfg.pgn_file
    BY PgnFileIsSaved DEF Saved
  <1> HIDE DEF saved
  <1>2. disk' = Over(new, disk) /\ discarded' = discarded /\ phase = "running"
    BY DEF SaveJson, saved
  <1>3. DOMAIN disk' = DOMAIN disk \cup {name} /\ \A f \in DOMAIN disk' : disk'[f] = IF f = name THEN saved ELSE disk[f]
    BY <1>2 DEF Over
  <1> HIDE DEF name
  <1>4. ASSUME NEW f \in DOMAIN disk'
        PROVE  disk'[f].stats \in Nat
               /\ (~discarded /\ disk'[f].stats > 0 => IsOnFile(files, disk'[f].cfg.pgn_file, disk'[f].stats - unwritten'))
    <2>1. CASE f = name
      <3>1. disk'[f] = saved
        BY <1>3, <2>1
      <3>2. ~discarded => IsOnFile(files, data.cfg.pgn_file, counted - unwritten)
        BY <1>2 DEF FilesInv, CountedIsOnFile
      <3> QED BY <1>1, <3>1, <3>2
    <2>2. CASE f # name
      <3>1. f \in DOMAIN disk /\ disk'[f] = disk[f]
        BY <1>3, <2>2
      <3>2. disk[f].stats \in Nat
        BY <3>1 DEF FilesInv
      <3> SUFFICES ASSUME ~discarded, disk[f].stats > 0, NEW file, file = disk[f].cfg.pgn_file, file # ""
                   PROVE  file \in DOMAIN files /\ disk[f].stats - unwritten' <= Len(files[file])
        BY <3>1, <3>2 DEF IsOnFile
      <3>3. file \in DOMAIN files /\ disk[f].stats - unwritten <= Len(files[file])
        BY <3>1 DEF FilesInv, SavedIsOnFile, IsOnFile
      <3>4. Len(files[file]) \in Nat /\ unwritten \in Nat
        <4>1. IsSeq(files[file]) /\ unwritten \in Nat
          BY <3>3 DEF FilesInv
        <4> QED BY <4>1, LenIsNat
      <3> DEFINE n == disk[f].stats
                 len == Len(files[file])
      <3>5. n \in Nat /\ len \in Nat /\ unwritten \in Nat /\ n - unwritten <= len
        BY <3>2, <3>3, <3>4
      <3> HIDE DEF n, len
      <3>6. n - unwritten' <= len
        <4>1. unwritten' \in Nat /\ unwritten' >= unwritten
          OBVIOUS
        <4> QED BY <3>5, <4>1, MoreUnwritten
      <3> QED BY <3>3, <3>6 DEF n, len
    <2> QED BY <2>1, <2>2
  <1>5. SavedIsOnFile'
    BY <1>2, <1>4 DEF SavedIsOnFile, IsOnFile
  <1> QED BY <1>4, <1>5

LEMMA AutosaveFiles ==
  ASSUME FilesInv, Autosave
  PROVE  FilesInv'
  <1>1. /\ UNCHANGED <<phase, data, counted, files, discarded, unwritten>> /\ SaveJson(counted) /\ phase = "running"
        /\ counted \in Nat /\ unwritten \in Nat
    BY DEF Autosave, SaveJson, game, FilesInv
  <1>2. (\A f \in DOMAIN disk' : disk'[f].stats \in Nat) /\ SavedIsOnFile'
    BY <1>1, SaveJsonFiles
  <1>3. ResumesWhatIsSaved' /\ CountedIsOnFile'
    BY <1>1 DEF FilesInv, ResumesWhatIsSaved, CountedIsOnFile, IsOnFile
  <1> QED BY <1>1, <1>2, <1>3 DEF FilesInv

LEMMA EndSessionFiles ==
  ASSUME FilesInv, EndSession
  PROVE  FilesInv'
  <1>1. /\ phase' = "shell" /\ counted' = 0 /\ UNCHANGED <<files, unwritten>> /\ SaveJson(counted)
        /\ counted \in Nat /\ unwritten \in Nat
    BY DEF EndSession, BackToShell, game, FilesInv
  <1>2. (\A f \in DOMAIN disk' : disk'[f].stats \in Nat) /\ SavedIsOnFile'
    BY <1>1, SaveJsonFiles
  <1>3. ResumesWhatIsSaved' /\ CountedIsOnFile'
    BY <1>1 DEF ResumesWhatIsSaved, CountedIsOnFile
  <1> QED BY <1>1, <1>2, <1>3 DEF FilesInv

LEMMA StallFiles ==
  ASSUME FilesInv, Stall
  PROVE  FilesInv'
  <1>1. /\ phase' = "shell" /\ counted' = 0 /\ files' = files /\ unwritten' = unwritten + 1 /\ SaveJson(counted + 1)
        /\ counted \in Nat /\ unwritten \in Nat
    BY DEF Stall, BackToShell, FilesInv
  <1>2. /\ counted + 1 \in Nat /\ unwritten' \in Nat /\ unwritten' >= unwritten
        /\ (counted + 1) - unwritten' = counted - unwritten
    BY <1>1
  <1>3. (\A f \in DOMAIN disk' : disk'[f].stats \in Nat) /\ SavedIsOnFile'
    BY <1>1, <1>2, SaveJsonFiles
  <1>4. ResumesWhatIsSaved' /\ CountedIsOnFile'
    BY <1>1 DEF ResumesWhatIsSaved, CountedIsOnFile
  <1> QED BY <1>1, <1>2, <1>3, <1>4 DEF FilesInv

LEMMA DieFiles ==
  ASSUME FilesInv, Die
  PROVE  FilesInv'
  <1>1. phase' = "shell" /\ counted' = 0 /\ UNCHANGED <<files, disk, discarded, unwritten>>
    BY DEF Die, BackToShell, game
  <1>2. ResumesWhatIsSaved' /\ CountedIsOnFile'
    BY <1>1 DEF ResumesWhatIsSaved, CountedIsOnFile
  <1>3. SavedIsOnFile'
    BY <1>1 DEF FilesInv, SavedIsOnFile, IsOnFile
  <1> QED BY <1>1, <1>2, <1>3 DEF FilesInv

(* FilesInv holds of every session, whatever the options, the games played, the
   autosaves, the engines that stall, and the moments at which the program dies. (cli.cpp, base/tournament.cpp,
   file_writer.hpp) *)
THEOREM FilesInvariance == SessionsSpec => []FilesInv
  <1>1. SessionsInit => FilesInv
    BY FilesInit
  <1>2. FilesInv /\ [SessionsNext]_sessionsVars => FilesInv'
    <2> SUFFICES ASSUME FilesInv, [SessionsNext]_sessionsVars PROVE FilesInv'
      OBVIOUS
    <2>1. ASSUME NEW l \in FirstLines \cup ResumeLines, Launch(l) PROVE FilesInv'
      BY <2>1, LaunchFiles
    <2>2. CASE BeginTournament
      BY <2>2, BeginTournamentFiles
    <2>3. CASE PlayGame
      BY <2>3, PlayGameFiles
    <2>4. CASE Autosave
      BY <2>4, AutosaveFiles
    <2>5. CASE EndSession
      BY <2>5, EndSessionFiles
    <2>6. CASE Die
      BY <2>6, DieFiles
    <2>7. CASE Stall
      BY <2>7, StallFiles
    <2>8. CASE UNCHANGED sessionsVars
      BY <2>8 DEF sessionsVars, game, FilesInv, ResumesWhatIsSaved, SavedIsOnFile, CountedIsOnFile, IsOnFile
    <2> QED BY <2>1, <2>2, <2>3, <2>4, <2>5, <2>6, <2>7, <2>8 DEF SessionsNext
  <1> QED BY <1>1, <1>2, PTL DEF SessionsSpec

(* The games a session counts are in the game file with those it resumes, but for one
   game of each session that a stalled engine ended: games are written before they are
   counted, the file is not truncated under the count, and no other count is saved.
   (base/tournament.cpp) *)
THEOREM CountedGames == SessionsSpec => []CountedGamesAreOnFile
  <1>1. FilesInv => CountedGamesAreOnFile
    BY DEF FilesInv, CountedIsOnFile, IsOnFile, CountedGamesAreOnFile
  <1> QED BY <1>1, FilesInvariance, PTL

-----------------------------------------------------------------------------
(* Sanitizing.                                                             *)

\* The settings sanitize reads or writes.
Sane == {"games", "rounds", "report_penta", "output", "concurrency", "force_concurrency", "ratinginterval",
         "scoreinterval", "sprt_enabled", "sprt_model", "variant"}

LEMMA InOver ==
  ASSUME NEW x, NEW f, NEW g
  PROVE  x \in DOMAIN f \/ x \in DOMAIN g => x \in DOMAIN Over(f, g)
  BY DEF Over

LEMMA PartsAreSettings ==
  DOMAIN OwnDefaults \cup DOMAIN TbDefaults \cup DOMAIN SprtDefaults \cup DOMAIN OpeningDefaults
    \subseteq DOMAIN TournamentDefaults
  <1> SUFFICES ASSUME NEW x \in DOMAIN OwnDefaults \cup DOMAIN TbDefaults \cup DOMAIN SprtDefaults \cup DOMAIN OpeningDefaults
               PROVE  x \in DOMAIN TournamentDefaults
    OBVIOUS
  <1> DEFINE a == Over(TbDefaults, OwnDefaults)
             b == Over(MaxMovesDefaults, a)
             c == Over(ResignDefaults, b)
             d == Over(DrawDefaults, c)
             e == Over(LogDefaults, d)
             f == Over(SprtDefaults, e)
             g == Over(EpdDefaults, f)
             h == Over(PgnDefaults, g)
  <1>1. TournamentDefaults = Over(OpeningDefaults, h)
    BY DEF TournamentDefaults
  <1>3. x \in DOMAIN OwnDefaults \/ x \in DOMAIN TbDefaults => x \in DOMAIN a
    BY InOver
  <1> HIDE DEF a
  <1>4. x \in DOMAIN a => x \in DOMAIN b
    BY InOver
  <1> HIDE DEF b
  <1>5. x \in DOMAIN b => x \in DOMAIN c
    BY InOver
  <1> HIDE DEF c
  <1>6. x \in DOMAIN c => x \in DOMAIN d
    BY InOver
  <1> HIDE DEF d
  <1>7. x \in DOMAIN d => x \in DOMAIN e
    BY InOver
  <1> HIDE DEF e
  <1>8. x \in DOMAIN e \/ x \in DOMAIN SprtDefaults => x \in DOMAIN f
    BY InOver
  <1> HIDE DEF f
  <1>9. x \in DOMAIN f => x \in DOMAIN g
    BY InOver
  <1> HIDE DEF g
  <1>10. x \in DOMAIN g => x \in DOMAIN h
    BY InOver
  <1> HIDE DEF h
  <1>11. x \in DOMAIN h \/ x \in DOMAIN OpeningDefaults => x \in DOMAIN TournamentDefaults
    BY <1>1, InOver
  <1> QED BY <1>3, <1>4, <1>5, <1>6, <1>7, <1>8, <1>9, <1>10, <1>11

LEMMA SaneAreSettings == Sane \subseteq DOMAIN TournamentDefaults
  <1>1. Sane \subseteq DOMAIN OwnDefaults \cup DOMAIN SprtDefaults
    BY DEF Sane, OwnDefaults, SprtDefaults
  <1> QED BY <1>1, PartsAreSettings

\* The configuration as sanitize is given it.
IsGiven(c) ==
    /\ Sane \subseteq DOMAIN c
    /\ c.concurrency \in Int
    /\ c.output \in {"fastchess", "cutechess"}

LEMMA FixConfigFacts ==
  ASSUME NEW d, DOMAIN d = Fields, IsGiven(d.cfg)
  PROVE  LET e == FixConfig(d)
         IN /\ DOMAIN e = Fields /\ IsGiven(e.cfg) /\ e.engines = d.engines
            /\ e.cfg.variant = d.cfg.variant
            /\ e.ok => d.ok
            /\ e.ok => e.cfg.games <= 2
            /\ e.cfg.report_penta => e.cfg.games = 2 /\ e.cfg.output = "fastchess"
  <1> DEFINE c == d.cfg
             f == IF c.games > 2 THEN [c EXCEPT !.games = c.rounds, !.rounds = c.games] ELSE c
             g == [f EXCEPT !.report_penta = f.report_penta /\ f.output # "cutechess" /\ f.games = 2]
             e == [Require(d, f.games <= 2) EXCEPT !.cfg = g]
  <1>1. FixConfig(d) = e
    BY DEF FixConfig
  <1>2. /\ DOMAIN f = DOMAIN c /\ f.concurrency = c.concurrency /\ f.output = c.output /\ f.variant = c.variant
        /\ Sane \subseteq DOMAIN f
    BY DEF IsGiven, Sane
  <1> HIDE DEF f
  <1>3. /\ DOMAIN g = DOMAIN f /\ g.games = f.games /\ g.concurrency = f.concurrency /\ g.output = f.output
        /\ g.variant = f.variant
        /\ g.report_penta = (f.report_penta /\ f.output # "cutechess" /\ f.games = 2)
    BY <1>2 DEF Sane
  <1> HIDE DEF g
  <1>4. /\ DOMAIN e = Fields /\ e.cfg = g /\ e.engines = d.engines /\ e.ok = (d.ok /\ f.games <= 2)
    BY DEF Require, Fields
  <1> HIDE DEF e
  <1>5. IsGiven(g)
    BY <1>2, <1>3 DEF IsGiven
  <1>6. g.report_penta => g.games = 2 /\ g.output = "fastchess"
    BY <1>2, <1>3 DEF IsGiven
  <1> QED BY <1>1, <1>2, <1>3, <1>4, <1>5, <1>6

LEMMA SetDefaultsFacts ==
  ASSUME NEW d, DOMAIN d = Fields, IsGiven(d.cfg)
  PROVE  LET e == SetDefaults(d)
         IN /\ DOMAIN e = Fields /\ IsGiven(e.cfg) /\ e.engines = d.engines /\ e.ok = d.ok
            /\ \A x \in Sane \ {"ratinginterval", "scoreinterval"} : e.cfg[x] = d.cfg[x]
            /\ e.cfg.ratinginterval # 0 /\ e.cfg.scoreinterval # 0
  <1>1. IntMax # 0
    BY SettingsAssumption
  <1> DEFINE e == SetDefaults(d)
  <1>2. /\ DOMAIN e = Fields /\ e.engines = d.engines /\ e.ok = d.ok
        /\ DOMAIN e.cfg = DOMAIN d.cfg
        /\ \A x \in Sane \ {"ratinginterval", "scoreinterval"} : e.cfg[x] = d.cfg[x]
    BY DEF SetDefaults, Fields, IsGiven
  <1>3. e.cfg.ratinginterval # 0 /\ e.cfg.scoreinterval # 0
    BY <1>1 DEF SetDefaults, Fields, IsGiven, Sane
  <1> HIDE DEF e
  <1>4. IsGiven(e.cfg)
    BY <1>2 DEF IsGiven, Sane
  <1> QED BY <1>2, <1>3, <1>4 DEF e

LEMMA AdjustedConcurrency ==
  ASSUME NEW limit \in Int, NEW c \in Int, NEW n \in Int,
         n = IF limit >= MinFileDescriptorRequired(c) THEN c ELSE MaxConcurrency(limit),
         limit < MinFileDescriptorRequired(c) => MaxConcurrency(limit) >= 1
  PROVE  n <= c /\ (n > 0 => MinFileDescriptorRequired(n) <= limit)
  BY DEF MinFileDescriptorRequired, MaxConcurrency

LEMMA AdjustConcurrencyFacts ==
  ASSUME NEW limit \in Int, NEW d, DOMAIN d = Fields, IsGiven(d.cfg)
  PROVE  LET e == AdjustConcurrency(limit, d)
         IN /\ DOMAIN e = Fields /\ IsGiven(e.cfg) /\ e.engines = d.engines
            /\ e.ok => d.ok
            /\ \A x \in Sane \ {"concurrency"} : e.cfg[x] = d.cfg[x]
            /\ e.ok => /\ e.cfg.concurrency > 0 => MinFileDescriptorRequired(e.cfg.concurrency) <= limit
                       /\ e.cfg.concurrency <= HardwareThreads \/ e.cfg.force_concurrency
  <1> DEFINE c == IF d.cfg.concurrency <= 0 THEN HardwareThreads - Abs(d.cfg.concurrency) ELSE d.cfg.concurrency
             enough == limit >= MinFileDescriptorRequired(c)
             n == IF enough THEN c ELSE MaxConcurrency(limit)
             e == AdjustConcurrency(limit, d)
  <1>1. HardwareThreads \in Int
    BY SettingsAssumption
  <1>2. c \in Int
    BY <1>1 DEF Abs, IsGiven
  <1>3. /\ DOMAIN e = Fields /\ e.engines = d.engines
        /\ DOMAIN e.cfg = DOMAIN d.cfg
        /\ e.cfg.concurrency = n
        /\ \A x \in Sane \ {"concurrency"} : e.cfg[x] = d.cfg[x]
    BY DEF AdjustConcurrency, Require, Fields, IsGiven, Sane
  <1>4. e.ok => /\ d.ok
                /\ c > HardwareThreads => d.cfg.force_concurrency
                /\ ~enough => MaxConcurrency(limit) >= 1
    BY DEF AdjustConcurrency, Require, Fields
  <1> HIDE DEF c, e
  <1>5. n \in Int
    BY <1>2 DEF MaxConcurrency
  <1>6. IsGiven(e.cfg)
    BY <1>3, <1>5 DEF IsGiven, Sane
  <1>7. limit < MinFileDescriptorRequired(c) <=> ~enough
    BY <1>2 DEF MinFileDescriptorRequired
  <1>8. e.ok => n <= c /\ (n > 0 => MinFileDescriptorRequired(n) <= limit)
    BY <1>2, <1>4, <1>5, <1>7, AdjustedConcurrency
  <1> HIDE DEF n
  <1>9. e.ok => n <= HardwareThreads \/ d.cfg.force_concurrency
    BY <1>1, <1>2, <1>4, <1>5, <1>8
  <1>10. e.cfg.force_concurrency = d.cfg.force_concurrency
    BY <1>3 DEF Sane
  <1> QED BY <1>3, <1>4, <1>6, <1>8, <1>9, <1>10 DEF e

LEMMA ValidateConfigFacts ==
  ASSUME NEW d, DOMAIN d = Fields, IsGiven(d.cfg)
  PROVE  LET e == ValidateConfig(d)
         IN /\ DOMAIN e = Fields /\ e.engines = d.engines
            /\ e.ok => d.ok
            /\ \A x \in Sane \ {"report_penta"} : e.cfg[x] = d.cfg[x]
            /\ e.cfg.report_penta => d.cfg.report_penta /\ ~(e.cfg.sprt_enabled /\ e.cfg.sprt_model = "bayesian")
  <1> DEFINE e == ValidateConfig(d)
  <1>1. /\ DOMAIN e = Fields /\ e.engines = d.engines /\ (e.ok => d.ok)
        /\ \A x \in Sane \ {"report_penta"} : e.cfg[x] = d.cfg[x]
    BY DEF ValidateConfig, Require, Fields, IsGiven, Sane
  <1>2. e.cfg.report_penta = (d.cfg.report_penta /\ ~(d.cfg.sprt_enabled /\ d.cfg.sprt_model = "bayesian"))
    BY DEF ValidateConfig, Require, Fields, IsGiven, Sane
  <1>3. e.cfg.sprt_enabled = d.cfg.sprt_enabled /\ e.cfg.sprt_model = d.cfg.sprt_model
    BY <1>1 DEF Sane
  <1> QED BY <1>1, <1>2, <1>3

LEMMA SanitizeConfigFacts ==
  ASSUME NEW limit \in Int, NEW d, DOMAIN d = Fields, IsGiven(d.cfg)
  PROVE  LET e == SanitizeConfig(limit, d)
         IN /\ DOMAIN e = Fields /\ e.engines = d.engines
            /\ e.ok => d.ok
            /\ e.cfg.variant = d.cfg.variant
            /\ e.ok => UsableConfig(e.cfg, limit)
  <1> DEFINE a == FixConfig(d)
             b == SetDefaults(a)
             c == AdjustConcurrency(limit, b)
             e == ValidateConfig(c)
  <1>1. SanitizeConfig(limit, d) = e
    BY DEF SanitizeConfig
  <1>2. /\ DOMAIN a = Fields /\ IsGiven(a.cfg) /\ a.engines = d.engines /\ a.cfg.variant = d.cfg.variant
        /\ a.ok => d.ok
        /\ a.ok => a.cfg.games <= 2
        /\ a.cfg.report_penta => a.cfg.games = 2 /\ a.cfg.output = "fastchess"
    BY FixConfigFacts
  <1> HIDE DEF a
  <1>3. /\ DOMAIN b = Fields /\ IsGiven(b.cfg) /\ b.engines = a.engines /\ b.ok = a.ok
        /\ \A x \in Sane \ {"ratinginterval", "scoreinterval"} : b.cfg[x] = a.cfg[x]
        /\ b.cfg.ratinginterval # 0 /\ b.cfg.scoreinterval # 0
    BY <1>2, SetDefaultsFacts
  <1> HIDE DEF b
  <1>4. /\ DOMAIN c = Fields /\ IsGiven(c.cfg) /\ c.engines = b.engines
        /\ c.ok => b.ok
        /\ \A x \in Sane \ {"concurrency"} : c.cfg[x] = b.cfg[x]
        /\ c.ok => /\ c.cfg.concurrency > 0 => MinFileDescriptorRequired(c.cfg.concurrency) <= limit
                   /\ c.cfg.concurrency <= HardwareThreads \/ c.cfg.force_concurrency
    BY <1>3, AdjustConcurrencyFacts
  <1> HIDE DEF c
  <1>5. /\ DOMAIN e = Fields /\ e.engines = c.engines
        /\ e.ok => c.ok
        /\ \A x \in Sane \ {"report_penta"} : e.cfg[x] = c.cfg[x]
        /\ e.cfg.report_penta => c.cfg.report_penta /\ ~(e.cfg.sprt_enabled /\ e.cfg.sprt_model = "bayesian")
    BY <1>4, ValidateConfigFacts
  <1> HIDE DEF e
  <1>6. /\ e.cfg.variant = d.cfg.variant /\ e.cfg.games = a.cfg.games /\ e.cfg.output = a.cfg.output
        /\ c.cfg.report_penta = a.cfg.report_penta
        /\ e.cfg.ratinginterval = b.cfg.ratinginterval /\ e.cfg.scoreinterval = b.cfg.scoreinterval
        /\ e.cfg.concurrency = c.cfg.concurrency /\ e.cfg.force_concurrency = c.cfg.force_concurrency
    BY <1>2, <1>3, <1>4, <1>5 DEF Sane
  <1>7. e.ok => UsableConfig(e.cfg, limit)
    BY <1>2, <1>3, <1>4, <1>5, <1>6 DEF UsableConfig
  <1> QED BY <1>1, <1>2, <1>3, <1>4, <1>5, <1>6, <1>7

\* What sanitize reads of an engine.
EngineFields == {"tc", "nodes", "plies", "name", "dir", "cmd", "variant"}

LEMMA SanitizeEnginesFacts ==
  ASSUME NEW d, DOMAIN d = Fields, \A i \in DOMAIN d.engines : EngineFields \subseteq DOMAIN d.engines[i]
  PROVE  LET e == SanitizeEngines(d)
         IN /\ e.cfg = d.cfg
            /\ e.ok => d.ok
            /\ DOMAIN e.engines = DOMAIN d.engines
            /\ e.ok => /\ Len(d.engines) >= 2
                       /\ \A i \in DOMAIN d.engines : /\ Runnable(d.engines[i])
                                                      /\ \A x \in EngineFields \ {"name"} : e.engines[i][x] = d.engines[i][x]
  <1> DEFINE named == [i \in DOMAIN d.engines |-> Named(d.engines[i])]
             e == SanitizeEngines(d)
  <1>1. /\ e.cfg = d.cfg /\ e.engines = UniqueNames(named)
        /\ e.ok => /\ d.ok
                   /\ Len(d.engines) >= 2
                   /\ \A i \in DOMAIN named : Runnable(d.engines[i])
    BY DEF SanitizeEngines, Require, Fields
  <1>2. \A i \in DOMAIN named : /\ EngineFields \subseteq DOMAIN named[i]
                                /\ \A x \in EngineFields \ {"name"} : named[i][x] = d.engines[i][x]
    BY DEF Named, EngineFields
  <1>3. DOMAIN named = DOMAIN d.engines
    OBVIOUS
  <1> HIDE DEF named, e
  <1>4. DOMAIN UniqueNames(named) = DOMAIN named
    BY DEF UniqueNames
  <1>5. \A i \in DOMAIN named : \A x \in EngineFields \ {"name"} : UniqueNames(named)[i][x] = named[i][x]
    <2> SUFFICES ASSUME NEW i \in DOMAIN named, NEW x \in EngineFields \ {"name"} PROVE UniqueNames(named)[i][x] = named[i][x]
      OBVIOUS
    <2>1. \E y : UniqueNames(named)[i] \in {named[i], [named[i] EXCEPT !.name = y]}
      BY DEF UniqueNames
    <2>2. \A y : [named[i] EXCEPT !.name = y][x] = named[i][x]
      BY <1>2
    <2> QED BY <2>1, <2>2
  <1> QED BY <1>1, <1>2, <1>3, <1>4, <1>5 DEF e

(* What sanitize lets through, it made usable: for every settings that the parser can
   hand over and every limit on descriptors, pairs of games at most, pentanomial
   statistics only where there are pairs and models for them, no more games at a time
   than there are descriptors and, unless forced, processors; two engines at least,
   each with a limit, one way of keeping time at most and the tournament's variant.
   (sanitize.cpp:21-175) *)
THEOREM SanitizeIsSound ==
  ASSUME NEW limit \in Int, NEW d, DOMAIN d = DOMAIN NoArguments,
         DOMAIN TournamentDefaults \subseteq DOMAIN d.cfg,
         d.cfg.concurrency \in Int, d.cfg.output \in Words.output,
         \A i \in DOMAIN d.engines : DOMAIN NewEngine \subseteq DOMAIN d.engines[i],
         d.ok, Sanitized(limit, d).ok
  PROVE  LET s == Sanitized(limit, d)
         IN /\ UsableConfig(s.cfg, limit)
            /\ Len(d.engines) >= 2 /\ DOMAIN s.engines = DOMAIN d.engines
            /\ \A i \in DOMAIN s.engines : UsableEngine(s.engines[i], s.cfg)
  <1> DEFINE a == ApplyVariant(d)
             b == SanitizeConfig(limit, a)
             s == SanitizeEngines(b)
  <1>1. Sanitized(limit, d) = s
    BY DEF Sanitized
  <1>2. DOMAIN d = Fields
    BY DEF NoArguments, Fields
  <1>3. EngineFields \subseteq DOMAIN NewEngine
    BY DEF EngineFields, NewEngine
  <1>4. /\ DOMAIN a = Fields /\ a.cfg = d.cfg /\ DOMAIN a.engines = DOMAIN d.engines
        /\ \A i \in DOMAIN d.engines : EngineFields \subseteq DOMAIN a.engines[i] /\ a.engines[i].variant = d.cfg.variant
    <2>1. /\ DOMAIN a = Fields /\ a.cfg = d.cfg
          /\ a.engines = [i \in DOMAIN d.engines |-> [d.engines[i] EXCEPT !.variant = d.cfg.variant]]
      BY <1>2 DEF ApplyVariant, Fields
    <2>2. \A i \in DOMAIN d.engines : EngineFields \subseteq DOMAIN d.engines[i]
      BY <1>3
    <2> HIDE DEF a
    <2> QED BY <2>1, <2>2 DEF EngineFields
  <1>5. IsGiven(a.cfg)
    <2>1. d.cfg.output \in {"fastchess", "cutechess"}
      BY DEF Words
    <2> HIDE DEF a
    <2> QED BY <1>4, <2>1, SaneAreSettings DEF IsGiven
  <1> HIDE DEF a
  <1>6. /\ DOMAIN b = Fields /\ b.engines = a.engines /\ b.cfg.variant = a.cfg.variant
        /\ b.ok => UsableConfig(b.cfg, limit)
    BY <1>4, <1>5, SanitizeConfigFacts
  <1> HIDE DEF b
  <1>7. /\ s.cfg = b.cfg /\ b.ok /\ DOMAIN s.engines = DOMAIN b.engines
        /\ Len(b.engines) >= 2
        /\ \A i \in DOMAIN b.engines : /\ Runnable(b.engines[i])
                                       /\ \A x \in EngineFields \ {"name"} : s.engines[i][x] = b.engines[i][x]
    <2>1. \A i \in DOMAIN b.engines : EngineFields \subseteq DOMAIN b.engines[i]
      BY <1>4, <1>6
    <2>2. s.ok
      BY <1>1
    <2> HIDE DEF s
    <2> QED BY <1>6, <2>1, <2>2, SanitizeEnginesFacts DEF s
  <1> HIDE DEF s
  <1>8. ASSUME NEW i \in DOMAIN s.engines PROVE UsableEngine(s.engines[i], s.cfg)
    <2>1. Runnable(b.engines[i]) /\ b.engines[i].variant = b.cfg.variant
      BY <1>4, <1>6, <1>7, <1>8
    <2>2. \A x \in {"tc", "nodes", "plies", "variant"} : s.engines[i][x] = b.engines[i][x]
      BY <1>7, <1>8 DEF EngineFields
    <2>3. /\ s.engines[i].tc = b.engines[i].tc /\ s.engines[i].nodes = b.engines[i].nodes
          /\ s.engines[i].plies = b.engines[i].plies /\ s.engines[i].variant = b.engines[i].variant
      BY <2>2
    <2> QED BY <1>7, <2>1, <2>3 DEF UsableEngine, Runnable, OnClock, FixedTime
  <1>9. Len(d.engines) >= 2
    <2>1. Len([i \in DOMAIN d.engines |-> [d.engines[i] EXCEPT !.variant = d.cfg.variant]]) = Len(d.engines)
      BY DEF ApplyVariant
    <2> QED BY <1>4, <1>6, <1>7, <2>1 DEF a, ApplyVariant
  <1> QED BY <1>1, <1>4, <1>6, <1>7, <1>8, <1>9

\* What validateConfig reads.
Validated == {"variant", "opening_file", "tb_enabled", "tb_dirs", "sprt_enabled", "sprt_model", "sprt_elo0",
              "sprt_elo1", "sprt_alpha", "sprt_beta"}

LEMMA ValidatedAreSettings == Validated \subseteq DOMAIN TournamentDefaults
  <1>1. Validated \subseteq DOMAIN OwnDefaults \cup DOMAIN TbDefaults \cup DOMAIN SprtDefaults \cup DOMAIN OpeningDefaults
    BY DEF Validated, OwnDefaults, TbDefaults, SprtDefaults, OpeningDefaults
  <1> QED BY <1>1, PartsAreSettings

\* Settings sanitize has nothing left to change in.
Settled(s, limit) ==
    /\ s = [x \in Fields |-> s[x]] /\ s.ok = TRUE
    /\ s.cfg = [x \in DOMAIN s.cfg |-> s.cfg[x]] /\ Sane \subseteq DOMAIN s.cfg
    /\ s.cfg.games \in Nat /\ s.cfg.games <= 2
    /\ s.cfg.report_penta \in BOOLEAN
    /\ s.cfg.report_penta = TRUE => /\ s.cfg.games = 2 /\ s.cfg.output # "cutechess"
                                    /\ ~(s.cfg.sprt_enabled /\ s.cfg.sprt_model = "bayesian")
    /\ s.cfg.ratinginterval # 0 /\ s.cfg.scoreinterval # 0
    /\ s.cfg.concurrency \in Nat \ {0} /\ MinFileDescriptorRequired(s.cfg.concurrency) <= limit
    /\ s.cfg.concurrency > HardwareThreads => s.cfg.force_concurrency
    /\ ConfigIsValid(s.cfg)

\* A check that succeeds, and an update to what is there already, change nothing.
LEMMA Same == ASSUME NEW s, s = [x \in Fields |-> s[x]], s.ok = TRUE, NEW b, b = TRUE PROVE Require(s, b) = s
  BY DEF Require, Fields

LEMMA SameCfg ==
  ASSUME NEW s, s = [x \in Fields |-> s[x]], NEW c, c = s.cfg
  PROVE  [s EXCEPT !.cfg = c] = s
  BY DEF Fields

\* Nothing is left to change, so nothing is changed; and one pass settles everything.
LEMMA SettledStays ==
  ASSUME NEW limit \in Int, NEW s, Settled(s, limit)
  PROVE  SanitizeConfig(limit, s) = s
  <1> DEFINE c == s.cfg
  <1>1. /\ s = [x \in Fields |-> s[x]] /\ s.ok = TRUE /\ c = [x \in DOMAIN c |-> c[x]] /\ Sane \subseteq DOMAIN c
    BY DEF Settled
  <1>2. FixConfig(s) = s
    <2>1. ~(c.games > 2) /\ (c.games <= 2) = TRUE
      BY DEF Settled
    <2>2. (c.report_penta /\ c.output # "cutechess" /\ c.games = 2) = c.report_penta
      BY DEF Settled
    <2>3. [c EXCEPT !.report_penta = c.report_penta /\ c.output # "cutechess" /\ c.games = 2] = c
      BY <1>1, <2>2
    <2>4. FixConfig(s) = [Require(s, c.games <= 2) EXCEPT
                             !.cfg = [c EXCEPT !.report_penta = c.report_penta /\ c.output # "cutechess" /\ c.games = 2]]
      BY <2>1 DEF FixConfig
    <2>5. Require(s, c.games <= 2) = s
      BY <1>1, <2>1, Same
    <2> QED BY <1>1, <2>3, <2>4, <2>5, SameCfg
  <1>3. SetDefaults(s) = s
    <2>1. c.ratinginterval # 0 /\ c.scoreinterval # 0
      BY DEF Settled
    <2>2. SetDefaults(s) = [s EXCEPT !.cfg = [[c EXCEPT !.ratinginterval = c.ratinginterval] EXCEPT !.scoreinterval = c.scoreinterval]]
      BY <1>1, <2>1 DEF SetDefaults, Fields, Sane
    <2>3. [[c EXCEPT !.ratinginterval = c.ratinginterval] EXCEPT !.scoreinterval = c.scoreinterval] = c
      BY <1>1
    <2> QED BY <1>1, <2>2, <2>3, SameCfg
  <1>4. AdjustConcurrency(limit, s) = s
    <2>1. /\ c.concurrency \in Nat \ {0} /\ MinFileDescriptorRequired(c.concurrency) <= limit
          /\ c.concurrency > HardwareThreads => c.force_concurrency
      BY DEF Settled
    <2>2. ~(c.concurrency <= 0) /\ limit >= MinFileDescriptorRequired(c.concurrency)
      BY <2>1 DEF MinFileDescriptorRequired
    <2> DEFINE legal == (c.concurrency > HardwareThreads => c.force_concurrency)
                        /\ (~(limit >= MinFileDescriptorRequired(c.concurrency)) => MaxConcurrency(limit) >= 1)
    <2>3. legal = TRUE
      BY <2>1, <2>2
    <2>4. AdjustConcurrency(limit, s) = [Require(s, legal) EXCEPT !.cfg.concurrency = c.concurrency]
      BY <2>2 DEF AdjustConcurrency
    <2> HIDE DEF legal
    <2>5. Require(s, legal) = s
      BY <1>1, <2>3, Same
    <2>6. [c EXCEPT !.concurrency = c.concurrency] = c
      BY <1>1
    <2>7. AdjustConcurrency(limit, s) = [s EXCEPT !.cfg = [c EXCEPT !.concurrency = c.concurrency]]
      BY <2>4, <2>5
    <2> QED BY <1>1, <2>6, <2>7, SameCfg
  <1>5. ValidateConfig(s) = s
    <2>1. ConfigIsValid(c) = TRUE
      BY DEF Settled, ConfigIsValid
    <2>2. Require(s, ConfigIsValid(c)) = s
      BY <1>1, <2>1, Same
    <2>3. (c.report_penta /\ ~(c.sprt_enabled /\ c.sprt_model = "bayesian")) = c.report_penta
      BY DEF Settled
    <2>4. [c EXCEPT !.report_penta = c.report_penta /\ ~(c.sprt_enabled /\ c.sprt_model = "bayesian")] = c
      BY <1>1, <2>3
    <2>5. ValidateConfig(s) = [s EXCEPT !.cfg = [c EXCEPT !.report_penta = c.report_penta /\ ~(c.sprt_enabled /\ c.sprt_model = "bayesian")]]
      BY <2>2 DEF ValidateConfig
    <2> QED BY <1>1, <2>4, <2>5, SameCfg
  <1> QED BY <1>2, <1>3, <1>4, <1>5 DEF SanitizeConfig

\* Settings as functions.
Well(s) == s = [x \in Fields |-> s[x]] /\ s.cfg = [x \in DOMAIN s.cfg |-> s.cfg[x]]

LEMMA StagesAreWell ==
  ASSUME NEW d, Well(d)
  PROVE  /\ Well(FixConfig(d)) /\ DOMAIN FixConfig(d).cfg = DOMAIN d.cfg
         /\ Well(SetDefaults(d)) /\ DOMAIN SetDefaults(d).cfg = DOMAIN d.cfg
         /\ \A limit : Well(AdjustConcurrency(limit, d)) /\ DOMAIN AdjustConcurrency(limit, d).cfg = DOMAIN d.cfg
         /\ Well(ValidateConfig(d)) /\ DOMAIN ValidateConfig(d).cfg = DOMAIN d.cfg
  <1>1. Well(FixConfig(d)) /\ DOMAIN FixConfig(d).cfg = DOMAIN d.cfg
    BY DEF Well, FixConfig, Require, Fields
  <1>2. Well(SetDefaults(d)) /\ DOMAIN SetDefaults(d).cfg = DOMAIN d.cfg
    BY DEF Well, SetDefaults, Fields
  <1>3. ASSUME NEW limit PROVE Well(AdjustConcurrency(limit, d)) /\ DOMAIN AdjustConcurrency(limit, d).cfg = DOMAIN d.cfg
    BY DEF Well, AdjustConcurrency, Require, Fields
  <1>4. Well(ValidateConfig(d)) /\ DOMAIN ValidateConfig(d).cfg = DOMAIN d.cfg
    BY DEF Well, ValidateConfig, Require, Fields
  <1> QED BY <1>1, <1>2, <1>3, <1>4

LEMMA FixConfigIs ==
  ASSUME NEW d, DOMAIN d = Fields
  PROVE  LET f == IF d.cfg.games > 2 THEN [d.cfg EXCEPT !.games = d.cfg.rounds, !.rounds = d.cfg.games] ELSE d.cfg
         IN /\ FixConfig(d).cfg = [f EXCEPT !.report_penta = f.report_penta /\ f.output # "cutechess" /\ f.games = 2]
            /\ FixConfig(d).ok = (d.ok /\ f.games <= 2)
  BY DEF FixConfig, Require, Fields

LEMMA SanitizedSettles ==
  ASSUME NEW limit \in Int, NEW d, Well(d), IsGiven(d.cfg), Validated \subseteq DOMAIN d.cfg,
         d.cfg.games \in Nat, d.cfg.rounds \in Nat,
         SanitizeConfig(limit, d).ok, SanitizeConfig(limit, d).cfg.concurrency >= 1
  PROVE  Settled(SanitizeConfig(limit, d), limit)
  <1> DEFINE a == FixConfig(d)
             b == SetDefaults(a)
             c == AdjustConcurrency(limit, b)
             e == ValidateConfig(c)
             f == IF d.cfg.games > 2 THEN [d.cfg EXCEPT !.games = d.cfg.rounds, !.rounds = d.cfg.games] ELSE d.cfg
  <1>1. SanitizeConfig(limit, d) = e
    BY DEF SanitizeConfig
  <1>2. Well(a) /\ Well(b) /\ Well(c) /\ Well(e) /\ DOMAIN c.cfg = DOMAIN d.cfg /\ DOMAIN e.cfg = DOMAIN d.cfg
    <2>1. Well(a) /\ DOMAIN a.cfg = DOMAIN d.cfg
      BY StagesAreWell
    <2> HIDE DEF a
    <2>2. Well(b) /\ DOMAIN b.cfg = DOMAIN a.cfg
      BY <2>1, StagesAreWell
    <2> HIDE DEF b
    <2>3. Well(c) /\ DOMAIN c.cfg = DOMAIN b.cfg
      BY <2>2, StagesAreWell
    <2> HIDE DEF c
    <2>4. Well(e) /\ DOMAIN e.cfg = DOMAIN c.cfg
      BY <2>3, StagesAreWell
    <2> HIDE DEF e
    <2> QED BY <2>1, <2>2, <2>3, <2>4
  <1>3. \A s : Well(s) => DOMAIN s = Fields
    BY DEF Well
  <1>4. /\ a.cfg.games \in Nat
        /\ a.cfg.report_penta = TRUE => a.cfg.games = 2 /\ a.cfg.output # "cutechess"
        /\ a.ok => a.cfg.games <= 2
    <2>1. f.games \in Nat /\ Sane \subseteq DOMAIN f /\ DOMAIN f = DOMAIN d.cfg
      BY DEF IsGiven, Sane
    <2>2. /\ a.cfg = [f EXCEPT !.report_penta = f.report_penta /\ f.output # "cutechess" /\ f.games = 2]
          /\ a.ok = (d.ok /\ f.games <= 2)
      <3>1. DOMAIN d = Fields
        BY <1>3
      <3> QED BY <3>1, FixConfigIs
    <2> HIDE DEF f, a
    <2> QED BY <2>1, <2>2 DEF Sane
  <1>5. IsGiven(a.cfg) /\ DOMAIN a = Fields
    BY <1>3, FixConfigFacts
  <1> HIDE DEF a
  <1>6. /\ DOMAIN b = Fields /\ IsGiven(b.cfg) /\ b.ok = a.ok
        /\ b.cfg.games = a.cfg.games /\ b.cfg.output = a.cfg.output /\ b.cfg.report_penta = a.cfg.report_penta
        /\ b.cfg.ratinginterval # 0 /\ b.cfg.scoreinterval # 0
    BY <1>5, SetDefaultsFacts DEF Sane
  <1> HIDE DEF b
  <1>7. /\ DOMAIN c = Fields /\ IsGiven(c.cfg) /\ (c.ok => b.ok)
        /\ c.cfg.games = b.cfg.games /\ c.cfg.output = b.cfg.output /\ c.cfg.report_penta = b.cfg.report_penta
        /\ c.cfg.ratinginterval = b.cfg.ratinginterval /\ c.cfg.scoreinterval = b.cfg.scoreinterval
        /\ c.ok => /\ c.cfg.concurrency > 0 => MinFileDescriptorRequired(c.cfg.concurrency) <= limit
                   /\ c.cfg.concurrency <= HardwareThreads \/ c.cfg.force_concurrency
    BY <1>6, AdjustConcurrencyFacts DEF Sane
  <1> HIDE DEF c
  <1>8. /\ e.cfg.report_penta = (c.cfg.report_penta /\ ~(c.cfg.sprt_enabled /\ c.cfg.sprt_model = "bayesian"))
        /\ e.ok = (c.ok /\ ConfigIsValid(c.cfg))
        /\ \A x \in DOMAIN c.cfg \ {"report_penta"} : e.cfg[x] = c.cfg[x]
    BY <1>7 DEF ValidateConfig, Require, Fields, IsGiven, Sane
  <1>9. e.ok /\ e.cfg.concurrency >= 1
    BY <1>1
  <1> HIDE DEF e
  <1>10. /\ e.cfg.games = c.cfg.games /\ e.cfg.output = c.cfg.output /\ e.cfg.concurrency = c.cfg.concurrency
         /\ e.cfg.force_concurrency = c.cfg.force_concurrency
         /\ e.cfg.ratinginterval = c.cfg.ratinginterval /\ e.cfg.scoreinterval = c.cfg.scoreinterval
         /\ e.cfg.sprt_enabled = c.cfg.sprt_enabled /\ e.cfg.sprt_model = c.cfg.sprt_model
    BY <1>7, <1>8 DEF IsGiven, Sane
  <1>11. ConfigIsValid(e.cfg)
    <2>1. ConfigIsValid(c.cfg)
      BY <1>8, <1>9
    <2>2. \A x \in Validated : e.cfg[x] = c.cfg[x]
      BY <1>2, <1>8 DEF Validated
    <2>3. /\ e.cfg.variant = c.cfg.variant /\ e.cfg.opening_file = c.cfg.opening_file
          /\ e.cfg.tb_enabled = c.cfg.tb_enabled /\ e.cfg.tb_dirs = c.cfg.tb_dirs
          /\ e.cfg.sprt_enabled = c.cfg.sprt_enabled /\ e.cfg.sprt_model = c.cfg.sprt_model
          /\ e.cfg.sprt_elo0 = c.cfg.sprt_elo0 /\ e.cfg.sprt_elo1 = c.cfg.sprt_elo1
          /\ e.cfg.sprt_alpha = c.cfg.sprt_alpha /\ e.cfg.sprt_beta = c.cfg.sprt_beta
      BY <2>2 DEF Validated
    <2> QED BY <2>1, <2>3 DEF ConfigIsValid, SprtIsValid
  <1>12. e = [x \in Fields |-> e[x]] /\ e.cfg = [x \in DOMAIN e.cfg |-> e.cfg[x]] /\ e.ok = TRUE /\ Sane \subseteq DOMAIN e.cfg
    BY <1>2, <1>8, <1>9 DEF Well, IsGiven
  <1>13. c.ok /\ b.ok /\ a.ok
    BY <1>6, <1>7, <1>8, <1>9
  <1>14. /\ e.cfg.concurrency \in Nat \ {0} /\ MinFileDescriptorRequired(e.cfg.concurrency) <= limit
         /\ e.cfg.concurrency > HardwareThreads => e.cfg.force_concurrency
    <2>1. HardwareThreads \in Nat
      BY SettingsAssumption
    <2>2. c.cfg.concurrency \in Int
      BY <1>7 DEF IsGiven
    <2> QED BY <1>7, <1>9, <1>10, <1>13, <2>1, <2>2
  <1>15. /\ e.cfg.games \in Nat /\ e.cfg.games <= 2 /\ e.cfg.report_penta \in BOOLEAN
         /\ e.cfg.ratinginterval # 0 /\ e.cfg.scoreinterval # 0
    BY <1>4, <1>6, <1>7, <1>8, <1>10, <1>13
  <1>16. e.cfg.report_penta = TRUE => /\ e.cfg.games = 2 /\ e.cfg.output # "cutechess"
                                     /\ ~(e.cfg.sprt_enabled /\ e.cfg.sprt_model = "bayesian")
    BY <1>4, <1>6, <1>7, <1>8, <1>10
  <1> QED BY <1>1, <1>11, <1>12, <1>14, <1>15, <1>16 DEF Settled

(* Sanitizing what sanitize accepted changes nothing, as happens to a file saved by one
   session and read by the next: the swap of games and rounds, the defaults, the
   adjusted concurrency and the dropped pentanomial statistics are all settled the
   first time. (sanitize.cpp:21-150) *)
THEOREM SanitizeIsStable ==
  ASSUME NEW limit \in Int, NEW d, d = [x \in DOMAIN NoArguments |-> d[x]],
         d.cfg = [x \in DOMAIN d.cfg |-> d.cfg[x]], DOMAIN TournamentDefaults \subseteq DOMAIN d.cfg,
         d.cfg.concurrency \in Int, d.cfg.output \in Words.output, d.cfg.games \in Nat, d.cfg.rounds \in Nat,
         SanitizeConfig(limit, d).ok, SanitizeConfig(limit, d).cfg.concurrency >= 1
  PROVE  SanitizeConfig(limit, SanitizeConfig(limit, d)) = SanitizeConfig(limit, d)
  <1>1. DOMAIN NoArguments = Fields
    BY DEF NoArguments, Fields
  <1>2. Well(d)
    BY <1>1 DEF Well
  <1>3. d.cfg.output \in {"fastchess", "cutechess"}
    BY DEF Words
  <1>4. IsGiven(d.cfg)
    BY <1>3, SaneAreSettings DEF IsGiven
  <1>5. Validated \subseteq DOMAIN d.cfg
    BY ValidatedAreSettings
  <1> QED BY <1>2, <1>4, <1>5, SanitizedSettles, SettledStays
=============================================================================

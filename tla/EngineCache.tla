---------------------------- MODULE EngineCache ----------------------------
(***************************************************************************)
(* The cache of engine processes (util::CachePool guarded by ScopeGuards)  *)
(* and the way playGame borrows two entries from it, plays and gives them  *)
(* back. Workers run concurrently; each lookup and each deletion holds the *)
(* mutex of the cache, the release of an entry is one atomic store.        *)
(*                                                                         *)
(* Without -use-affinity all workers share one cache; with it every thread *)
(* has its own. Engines with restart=on are not kept: their guard is null  *)
(* and the entry is erased after the game.                                 *)
(***************************************************************************)
EXTENDS Integers, FiniteSets

CONSTANTS
    Workers,       \* threads of the pool
    Engines,       \* engine names, unique after sanitize
    RestartSets,   \* the sets of engines with restart=on looked at
    Shared,        \* the cache all threads use without affinity
    NoEntry,       \* no entry borrowed
    NoEngine,      \* no game in hand
    MaxGames       \* bound on the games of a behaviour

ASSUME CacheAssumption ==
    /\ RestartSets \subseteq SUBSET Engines
    /\ Shared \notin Workers
    /\ NoEntry \notin Nat
    /\ NoEngine \notin Engines
    /\ MaxGames \in Nat

VARIABLES
    affinity,   \* config.affinity, constant
    restart,    \* the engines with restart=on, constant
    stop,       \* atomic::stop
    cache,      \* std::list of entries of all caches, by a number for its place
    next,       \* the place of the next entry appended
    pc,         \* where each worker is in playGame
    game,       \* the names of the two engines of each worker's game
    held,       \* the entry each worker has borrowed for each side
    games       \* games begun

vars == <<affinity, restart, stop, cache, next, pc, game, held, games>>
config == <<affinity, restart>>

Sides == {"white", "black"}
Slots == Workers \X Sides

Labels == {"idle", "getWhite", "getBlack", "check", "play", "deleteWhite", "deleteBlack",
           "releaseBlack", "releaseWhite"}

Entry == [owner : Workers \cup {Shared}, name : Engines, available : BOOLEAN, started : BOOLEAN]

NoGame == [s \in Sides |-> NoEngine]

\* getEngineCache
CacheOfShared(w) == Shared
CacheOf(w) == IF affinity THEN w ELSE Shared

-----------------------------------------------------------------------------
Init ==
    /\ affinity \in BOOLEAN
    /\ restart \in RestartSets
    /\ stop = FALSE
    /\ cache = [e \in {} |-> NoEntry]
    /\ next = 0
    /\ pc = [w \in Workers |-> "idle"]
    /\ game = [w \in Workers |-> NoGame]
    /\ held = [x \in Slots |-> NoEntry]
    /\ games = 0

Goto(w, label) == pc' = [pc EXCEPT ![w] = label]

\* A task of the pool starts playGame with two different engines.
Begin(w, white, black) ==
    /\ pc[w] = "idle"
    /\ games < MaxGames
    /\ white # black
    /\ games' = games + 1
    /\ game' = [game EXCEPT ![w] = [white |-> white, black |-> black]]
    /\ Goto(w, "getWhite")
    /\ UNCHANGED <<config, stop, cache, next, held>>

\* The entries getEntry may hand out: of this cache, with this name and not in use.
ReusableInUse(c, n) == {e \in DOMAIN cache : cache[e].owner = c /\ cache[e].name = n}
Reusable(c, n) ==
    {e \in DOMAIN cache : cache[e].owner = c /\ cache[e].name = n /\ cache[e].available}

TakeFirst(w, side) ==
    LET R == Reusable(CacheOf(w), game[w][side])
    IN \E e \in R :
         /\ \A other \in R : e <= other
         /\ cache' = [cache EXCEPT ![e] = [@ EXCEPT !.available = FALSE]]
         /\ held' = [held EXCEPT ![<<w, side>>] = e]
         /\ UNCHANGED next

\* A new entry is unavailable from the start; its process is not running yet.
NewEntry(w, side) ==
    [owner |-> CacheOf(w), name |-> game[w][side], available |-> FALSE, started |-> FALSE]

AppendNew(w, side) ==
    /\ Reusable(CacheOf(w), game[w][side]) = {}
    /\ cache' = [e \in DOMAIN cache \cup {next} |->
                    IF e = next THEN NewEntry(w, side) ELSE cache[e]]
    /\ next' = next + 1
    /\ held' = [held EXCEPT ![<<w, side>>] = next]

\* getEntry, one critical section.
GetEntry(w, side) ==
    /\ pc[w] = (IF side = "white" THEN "getWhite" ELSE "getBlack")
    /\ Goto(w, IF side = "white" THEN "getBlack" ELSE "check")
    /\ TakeFirst(w, side) \/ AppendNew(w, side)
    /\ UNCHANGED <<config, stop, game, games>>

\* The way out of playGame without erasing anything: the guards of engines with
\* restart=on are null, so such an entry stays in the list unavailable.
Drop(w) ==
    held' = [x \in Slots |-> IF x[1] = w /\ game[w][x[2]] \in restart THEN NoEntry ELSE held[x]]

ReturnEarly(w) ==
    /\ pc[w] = "check"
    /\ stop
    /\ Drop(w)
    /\ Goto(w, "releaseBlack")
    /\ UNCHANGED <<config, stop, cache, next, game, games>>

\* start(), and Match::start brings up the processes that are not running.
StartMatch(w) ==
    /\ pc[w] = "check"
    /\ ~stop
    /\ cache' = [e \in DOMAIN cache |->
                    IF \E s \in Sides : held[<<w, s>>] = e
                    THEN [cache[e] EXCEPT !.started = TRUE] ELSE cache[e]]
    /\ Goto(w, "play")
    /\ UNCHANGED <<config, stop, next, game, held, games>>

\* The match ends by itself or is interrupted.
EndMatch(w) ==
    /\ pc[w] = "play"
    /\ Goto(w, "deleteWhite")
    /\ UNCHANGED <<config, stop, cache, next, game, held, games>>

\* A stall or a disconnect with -recover: engines that do not answer isready are
\* replaced by fresh objects, whose process starts with their next match. (The flag
\* is not modelled: both ways out of a broken match are open in every behaviour.)
Restarted(e, dead, w) ==
    IF \E s \in dead : held[<<w, s>>] = e THEN [cache[e] EXCEPT !.started = FALSE] ELSE cache[e]

RecoverMatch(w, dead) ==
    /\ pc[w] = "play"
    /\ cache' = [e \in DOMAIN cache |-> Restarted(e, dead, w)]
    /\ Goto(w, "deleteWhite")
    /\ UNCHANGED <<config, stop, next, game, held, games>>

\* A stall or a disconnect without -recover stops the tournament.
AbandonMatch(w) ==
    /\ pc[w] = "play"
    /\ stop' = TRUE
    /\ Drop(w)
    /\ Goto(w, "releaseBlack")
    /\ UNCHANGED <<config, cache, next, game, games>>

\* deleteFromCache for an engine with restart=on, one critical section.
EraseNothing(e) == DOMAIN cache
Erase(e) == DOMAIN cache \ {e}

DeleteEntry(w, side) ==
    /\ pc[w] = (IF side = "white" THEN "deleteWhite" ELSE "deleteBlack")
    /\ Goto(w, IF side = "white" THEN "deleteBlack" ELSE "releaseBlack")
    /\ IF game[w][side] \in restart
       THEN /\ cache' = [e \in Erase(held[<<w, side>>]) |-> cache[e]]
            /\ held' = [held EXCEPT ![<<w, side>>] = NoEntry]
       ELSE UNCHANGED <<cache, held>>
    /\ UNCHANGED <<config, stop, next, game, games>>

\* ~ScopeGuard, in reverse order of construction.
ReleaseEntry(w, side) ==
    /\ pc[w] = (IF side = "black" THEN "releaseBlack" ELSE "releaseWhite")
    /\ Goto(w, IF side = "black" THEN "releaseWhite" ELSE "idle")
    /\ cache' = [e \in DOMAIN cache |->
                    IF held[<<w, side>>] = e THEN [cache[e] EXCEPT !.available = TRUE]
                                             ELSE cache[e]]
    /\ held' = [held EXCEPT ![<<w, side>>] = NoEntry]
    /\ game' = IF side = "white" THEN [game EXCEPT ![w] = NoGame] ELSE game
    /\ UNCHANGED <<config, stop, next, games>>

\* Somebody else ends the tournament: Ctrl-C, the SPRT, another worker.
StopTournament ==
    /\ ~stop
    /\ stop' = TRUE
    /\ UNCHANGED <<config, cache, next, pc, game, held, games>>

Next ==
    \/ \E w \in Workers :
         \/ \E white, black \in Engines : Begin(w, white, black)
         \/ \E side \in Sides : GetEntry(w, side) \/ DeleteEntry(w, side) \/ ReleaseEntry(w, side)
         \/ ReturnEarly(w) \/ StartMatch(w) \/ EndMatch(w) \/ AbandonMatch(w)
         \/ \E dead \in SUBSET Sides : RecoverMatch(w, dead)
    \/ StopTournament

Spec == Init /\ [][Next]_vars

-----------------------------------------------------------------------------
(* Properties.                                                             *)

TypeOK ==
    /\ affinity \in BOOLEAN /\ stop \in BOOLEAN
    /\ restart \subseteq Engines
    /\ next \in Nat
    /\ games \in Nat
    /\ DOMAIN cache \subseteq 0..(next - 1)
    /\ \A e \in DOMAIN cache : cache[e] \in Entry
    /\ pc \in [Workers -> Labels]
    /\ game \in [Workers -> [Sides -> Engines \cup {NoEngine}]]
    /\ held \in [Slots -> Nat \cup {NoEntry}]

\* An engine process is in at most one game, on one side of it: two games that
\* talk to the same process would read each other's moves.
OneGamePerEngine ==
    \A x, y \in Slots : held[x] # NoEntry /\ held[x] = held[y] => x = y

\* A borrowed entry is still in the list, is marked as in use, and is the engine
\* the game asked for; with affinity it was started by the same thread, so it runs
\* on that thread's cores. (deleteFromCache asserts the second part.)
BorrowedEntryIsValid ==
    \A w \in Workers, s \in Sides :
        LET e == held[<<w, s>>]
        IN e # NoEntry => /\ e \in DOMAIN cache
                          /\ ~cache[e].available
                          /\ cache[e].name = game[w][s]
                          /\ cache[e].owner = CacheOf(w)

\* While the tournament goes on no entry is lost: what is marked in use is in use.
NoEntryLost ==
    ~stop => \A e \in DOMAIN cache :
                ~cache[e].available => \E x \in Slots : held[x] = e

=============================================================================

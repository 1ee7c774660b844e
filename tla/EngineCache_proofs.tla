------------------------- MODULE EngineCache_proofs -------------------------
(***************************************************************************)
(* Proofs about the engine cache, for any number of workers and engines    *)
(* and any number of games. What makes mutual exclusion inductive is that  *)
(* a borrowed entry is marked unavailable, so getEntry cannot find it, and *)
(* that a worker's slots are empty before it borrows (SlotsFollowPc).      *)
(* The second half adds -use-affinity: the pool made of a machine of any   *)
(* size and shape is sound (PoolsAreSound), and with it the invariant that *)
(* says who runs on which processors (PinnedInv).                          *)
(***************************************************************************)
EXTENDS PinnedWorkers, FiniteSetTheorems, TLAPS

SlotsFollowPc ==
    \A w \in Workers :
        /\ pc[w] \in {"idle", "getWhite"} =>
              held[<<w, "white">>] = NoEntry /\ held[<<w, "black">>] = NoEntry
        /\ pc[w] \in {"getBlack", "releaseWhite"} => held[<<w, "black">>] = NoEntry

GameInHand == \A w \in Workers : pc[w] # "idle" => game[w] \in [Sides -> Engines]

IInv ==
    /\ TypeOK /\ GameInHand /\ SlotsFollowPc
    /\ OneGamePerEngine /\ BorrowedEntryIsValid /\ NoEntryLost

-----------------------------------------------------------------------------
\* A record with one field of an entry changed is an entry.
LEMMA AvailableUpdate ==
  \A e \in Entry, b \in BOOLEAN :
     /\ [e EXCEPT !.available = b] \in Entry
     /\ [e EXCEPT !.available = b].available = b
     /\ [e EXCEPT !.available = b].owner = e.owner
     /\ [e EXCEPT !.available = b].name = e.name
  BY DEF Entry

LEMMA StartedUpdate ==
  \A e \in Entry, b \in BOOLEAN :
     /\ [e EXCEPT !.started = b] \in Entry
     /\ [e EXCEPT !.started = b].available = e.available
     /\ [e EXCEPT !.started = b].owner = e.owner
     /\ [e EXCEPT !.started = b].name = e.name
  BY DEF Entry

LEMMA InitIInv == Init => IInv
  <1> SUFFICES ASSUME Init PROVE IInv
    OBVIOUS
  <1>1. NoGame \in [Sides -> Engines \cup {NoEngine}]
    BY DEF NoGame
  <1>2. TypeOK
    <2>1. DOMAIN cache = {} /\ next \in Nat
      BY DEF Init
    <2>2. restart \subseteq Engines
      BY CacheAssumption DEF Init
    <2> QED BY <1>1, <2>1, <2>2 DEF Init, TypeOK, Labels
  <1>3. GameInHand /\ SlotsFollowPc
    BY DEF Init, GameInHand, SlotsFollowPc, Slots, Sides
  <1>4. OneGamePerEngine /\ BorrowedEntryIsValid /\ NoEntryLost
    BY DEF Init, OneGamePerEngine, BorrowedEntryIsValid, NoEntryLost, Slots
  <1> QED BY <1>2, <1>3, <1>4 DEF IInv

\* Steps that touch neither the list nor the slots.
LEMMA QuietStep ==
  ASSUME IInv, UNCHANGED <<affinity, restart, cache, next, game, held>>, TypeOK',
         stop => stop', SlotsFollowPc', GameInHand'
  PROVE  IInv'
  BY DEF IInv, OneGamePerEngine, BorrowedEntryIsValid, NoEntryLost, CacheOf

LEMMA BeginIInv ==
  ASSUME IInv, NEW w \in Workers, NEW white \in Engines, NEW black \in Engines,
         Begin(w, white, black)
  PROVE  IInv'
  <1>1. held[<<w, "white">>] = NoEntry /\ held[<<w, "black">>] = NoEntry
    BY DEF IInv, Begin, SlotsFollowPc
  <1>2. TypeOK'
    <2>1. [white |-> white, black |-> black] \in [Sides -> Engines \cup {NoEngine}]
      BY DEF Sides
    <2>2. game' \in [Workers -> [Sides -> Engines \cup {NoEngine}]]
      BY <2>1 DEF Begin, IInv, TypeOK
    <2>3. pc' \in [Workers -> Labels]
      BY DEF Begin, Goto, IInv, TypeOK, Labels
    <2> QED BY <2>2, <2>3 DEF Begin, config, IInv, TypeOK
  <1>3. BorrowedEntryIsValid'
    <2> SUFFICES ASSUME NEW v \in Workers, NEW s \in Sides, held[<<v, s>>] # NoEntry
                 PROVE  /\ held[<<v, s>>] \in DOMAIN cache
                        /\ ~cache[held[<<v, s>>]].available
                        /\ cache[held[<<v, s>>]].name = game'[v][s]
                        /\ cache[held[<<v, s>>]].owner = CacheOf(v)
      BY DEF BorrowedEntryIsValid, Begin, config, CacheOf
    <2>1. v # w
      BY <1>1 DEF Sides
    <2> QED BY <2>1 DEF Begin, IInv, TypeOK, BorrowedEntryIsValid
  <1>4. SlotsFollowPc'
    BY <1>1 DEF Begin, Goto, IInv, TypeOK, SlotsFollowPc
  <1>5. OneGamePerEngine' /\ NoEntryLost'
    BY DEF Begin, config, IInv, OneGamePerEngine, NoEntryLost
  <1>6. GameInHand'
    <2>1. [white |-> white, black |-> black] \in [Sides -> Engines]
      BY DEF Sides
    <2> QED BY <2>1 DEF Begin, Goto, IInv, TypeOK, GameInHand
  <1> QED BY <1>2, <1>3, <1>4, <1>5, <1>6 DEF IInv

\* What the two branches of getEntry have in common: a slot that was empty now
\* holds a place nobody else holds, with an unavailable entry of the right kind.
LEMMA GetEntryIInv ==
  ASSUME IInv, NEW w \in Workers, NEW side \in Sides, GetEntry(w, side)
  PROVE  IInv'
  <1> DEFINE n == game[w][side]
             x == <<w, side>>
  <1>1. x \in Slots /\ held[x] = NoEntry
    BY DEF GetEntry, IInv, SlotsFollowPc, Sides, Slots
  <1>n. n \in Engines /\ CacheOf(w) \in Workers \cup {Shared}
    BY DEF IInv, GameInHand, GetEntry, CacheOf
  <1>2. PICK e \in Nat :
          /\ held' = [held EXCEPT ![x] = e]
          /\ e \in DOMAIN cache'
          /\ DOMAIN cache \subseteq DOMAIN cache'
          /\ DOMAIN cache' = DOMAIN cache \cup {e}
          /\ \A y \in Slots : held[y] # e
          /\ \A f \in DOMAIN cache : f # e => cache'[f] = cache[f]
          /\ ~cache'[e].available
          /\ cache'[e].name = n
          /\ cache'[e].owner = CacheOf(w)
          /\ cache'[e] \in Entry
          /\ next' \in Nat
          /\ DOMAIN cache' \subseteq 0..(next' - 1)
    <2>1. CASE TakeFirst(w, side)
      <3>1. PICK e \in Reusable(CacheOf(w), n) :
              /\ cache' = [cache EXCEPT ![e] = [@ EXCEPT !.available = FALSE]]
              /\ held' = [held EXCEPT ![x] = e]
              /\ next' = next
        BY <2>1 DEF TakeFirst
      <3>2. /\ e \in DOMAIN cache /\ e \in Nat /\ cache[e] \in Entry
            /\ cache[e].name = n /\ cache[e].owner = CacheOf(w) /\ cache[e].available
        BY <3>1 DEF Reusable, IInv, TypeOK
      <3>3. \A y \in Slots : held[y] # e
        BY <3>2, CacheAssumption DEF IInv, BorrowedEntryIsValid, Slots
      <3>4. /\ cache'[e] = [cache[e] EXCEPT !.available = FALSE]
            /\ DOMAIN cache' = DOMAIN cache
            /\ \A f \in DOMAIN cache : f # e => cache'[f] = cache[f]
        BY <3>1, <3>2
      <3>5. /\ ~cache'[e].available /\ cache'[e].name = n /\ cache'[e].owner = CacheOf(w)
            /\ cache'[e] \in Entry
        <4>1. \A E \in Entry : /\ [E EXCEPT !.available = FALSE] \in Entry
                               /\ ~[E EXCEPT !.available = FALSE].available
                               /\ [E EXCEPT !.available = FALSE].name = E.name
                               /\ [E EXCEPT !.available = FALSE].owner = E.owner
          BY AvailableUpdate
        <4> QED BY <3>2, <3>4, <4>1
      <3>6. next' \in Nat /\ DOMAIN cache' \subseteq 0..(next' - 1)
        BY <3>1, <3>4 DEF IInv, TypeOK
      <3>7. DOMAIN cache' = DOMAIN cache \cup {e}
        BY <3>2, <3>4
      <3> QED BY <3>1, <3>2, <3>3, <3>4, <3>5, <3>6, <3>7
    <2>2. CASE AppendNew(w, side)
      <3>1. /\ cache' = [f \in DOMAIN cache \cup {next} |->
                            IF f = next THEN NewEntry(w, side) ELSE cache[f]]
            /\ next' = next + 1
            /\ held' = [held EXCEPT ![x] = next]
        BY <2>2 DEF AppendNew
      <3>2. next \in Nat /\ DOMAIN cache \subseteq 0..(next - 1)
        BY DEF IInv, TypeOK
      <3>3. next \notin DOMAIN cache
        BY <3>2
      <3>4. \A y \in Slots : held[y] # next
        BY <3>2, <3>3, CacheAssumption DEF IInv, BorrowedEntryIsValid, Slots
      <3>5. /\ cache'[next] = NewEntry(w, side)
            /\ DOMAIN cache' = DOMAIN cache \cup {next}
            /\ \A f \in DOMAIN cache : f # next => cache'[f] = cache[f]
        BY <3>1
      <3>6. /\ ~NewEntry(w, side).available /\ NewEntry(w, side).name = n
            /\ NewEntry(w, side).owner = CacheOf(w)
            /\ NewEntry(w, side) \in Entry
        BY <1>n DEF NewEntry, Entry
      <3>7. next' \in Nat /\ DOMAIN cache' \subseteq 0..(next' - 1)
        BY <3>1, <3>2, <3>5
      <3> QED BY <3>1, <3>2, <3>4, <3>5, <3>6, <3>7
    <2> QED BY <2>1, <2>2 DEF GetEntry
  <1>3. /\ held'[x] = e
        /\ \A y \in Slots : y # x => held'[y] = held[y]
    BY <1>1, <1>2 DEF IInv, TypeOK
  <1>4. TypeOK'
    <2>1. pc' \in [Workers -> Labels]
      BY DEF GetEntry, Goto, IInv, TypeOK, Labels
    <2>2. \A f \in DOMAIN cache' : cache'[f] \in Entry
      BY <1>2 DEF IInv, TypeOK
    <2>3. held' \in [Slots -> Nat \cup {NoEntry}]
      BY <1>2 DEF IInv, TypeOK
    <2> QED BY <1>2, <2>1, <2>2, <2>3 DEF GetEntry, config, IInv, TypeOK
  <1>5. OneGamePerEngine'
    BY <1>2, <1>3 DEF IInv, OneGamePerEngine
  <1>6. BorrowedEntryIsValid'
    <2> SUFFICES ASSUME NEW v \in Workers, NEW s \in Sides, held'[<<v, s>>] # NoEntry
                 PROVE  /\ held'[<<v, s>>] \in DOMAIN cache'
                        /\ ~cache'[held'[<<v, s>>]].available
                        /\ cache'[held'[<<v, s>>]].name = game[v][s]
                        /\ cache'[held'[<<v, s>>]].owner = CacheOf(v)
      BY DEF BorrowedEntryIsValid, GetEntry, config, CacheOf
    <2>1. CASE <<v, s>> = x
      BY <2>1, <1>2, <1>3
    <2>2. CASE <<v, s>> # x
      <3>1. <<v, s>> \in Slots /\ held'[<<v, s>>] = held[<<v, s>>]
        BY <2>2, <1>3 DEF Slots
      <3>2. held[<<v, s>>] \in DOMAIN cache /\ held[<<v, s>>] # e
        BY <3>1, <1>2 DEF IInv, BorrowedEntryIsValid
      <3> QED BY <3>1, <3>2, <1>2 DEF IInv, BorrowedEntryIsValid
    <2> QED BY <2>1, <2>2
  <1>7. NoEntryLost'
    <2> SUFFICES ASSUME ~stop, NEW f \in DOMAIN cache', ~cache'[f].available
                 PROVE  \E y \in Slots : held'[y] = f
      BY DEF NoEntryLost, GetEntry
    <2>1. CASE f = e
      BY <2>1, <1>1, <1>3
    <2>2. CASE f # e
      <3>1. PICK y \in Slots : held[y] = f
        BY <2>2, <1>2 DEF IInv, NoEntryLost
      <3>2. y # x
        BY <3>1, <1>1, <1>2, <2>2, CacheAssumption DEF IInv, TypeOK
      <3> QED BY <3>1, <3>2, <1>3
    <2> QED BY <2>1, <2>2
  <1>8. SlotsFollowPc'
    <2> SUFFICES ASSUME NEW v \in Workers
                 PROVE  SlotsFollowPc!(v)'
      BY DEF SlotsFollowPc
    <2>1. CASE v = w
      BY <2>1, <1>3 DEF GetEntry, Goto, IInv, TypeOK, SlotsFollowPc, Sides, Slots
    <2>2. CASE v # w
      <3>1. pc'[v] = pc[v]
        BY <2>2 DEF GetEntry, Goto, IInv, TypeOK
      <3>2. \A s \in Sides : held'[<<v, s>>] = held[<<v, s>>]
        BY <2>2, <1>3 DEF Slots
      <3> QED BY <3>1, <3>2 DEF IInv, SlotsFollowPc, Sides
    <2> QED BY <2>1, <2>2
  <1>9. GameInHand'
    BY DEF GetEntry, Goto, IInv, TypeOK, GameInHand
  <1> QED BY <1>4, <1>5, <1>6, <1>7, <1>8, <1>9 DEF IInv

\* A slot that gives up its entry leaves mutual exclusion alone.
LEMMA SlotsShrink ==
  ASSUME OneGamePerEngine, NEW newHeld,
         \A y \in Slots : newHeld[y] \in {held[y], NoEntry}
  PROVE  \A x, y \in Slots : newHeld[x] # NoEntry /\ newHeld[x] = newHeld[y] => x = y
  BY DEF OneGamePerEngine

\* The processes of entries start and are replaced; nothing else about them changes.
LEMMA StartedIInv ==
  ASSUME IInv, NEW w \in Workers,
         pc[w] \in {"check", "play"}, \E l \in {"play", "deleteWhite"} : Goto(w, l),
         UNCHANGED <<affinity, restart, stop, next, game, held, games>>,
         DOMAIN cache' = DOMAIN cache,
         \A e \in DOMAIN cache :
            \E b \in BOOLEAN : cache'[e] = [cache[e] EXCEPT !.started = b]
  PROVE  IInv'
  <1>1. \A e \in DOMAIN cache : /\ cache'[e] \in Entry
                                /\ cache'[e].available = cache[e].available
                                /\ cache'[e].owner = cache[e].owner
                                /\ cache'[e].name = cache[e].name
    <2> SUFFICES ASSUME NEW e \in DOMAIN cache
                 PROVE  /\ cache'[e] \in Entry
                        /\ cache'[e].available = cache[e].available
                        /\ cache'[e].owner = cache[e].owner
                        /\ cache'[e].name = cache[e].name
      OBVIOUS
    <2> DEFINE E == cache[e]
    <2>1. E \in Entry
      BY DEF IInv, TypeOK
    <2>2. PICK b \in BOOLEAN : cache'[e] = [E EXCEPT !.started = b]
      OBVIOUS
    <2> HIDE DEF E
    <2>3. /\ cache'[e] \in Entry
          /\ cache'[e].available = E.available
          /\ cache'[e].owner = E.owner
          /\ cache'[e].name = E.name
      BY <2>1, <2>2, StartedUpdate
    <2> QED BY <2>3 DEF E
  <1>2. TypeOK' /\ GameInHand' /\ SlotsFollowPc'
    <2>1. pc' \in [Workers -> Labels]
      BY DEF Goto, IInv, TypeOK, Labels
    <2>2. TypeOK'
      BY <1>1, <2>1 DEF IInv, TypeOK
    <2>3. GameInHand' /\ SlotsFollowPc'
      BY DEF Goto, IInv, TypeOK, GameInHand, SlotsFollowPc
    <2> QED BY <2>2, <2>3
  <1>3. OneGamePerEngine'
    BY DEF IInv, OneGamePerEngine
  <1>4. BorrowedEntryIsValid'
    BY <1>1 DEF IInv, BorrowedEntryIsValid, CacheOf
  <1>5. NoEntryLost'
    BY <1>1 DEF IInv, NoEntryLost
  <1> QED BY <1>2, <1>3, <1>4, <1>5 DEF IInv

LEMMA StartMatchIInv ==
  ASSUME IInv, NEW w \in Workers, StartMatch(w)
  PROVE  IInv'
  <1>1. \A e \in DOMAIN cache :
          \E b \in BOOLEAN : cache'[e] = [cache[e] EXCEPT !.started = b]
    <2> SUFFICES ASSUME NEW e \in DOMAIN cache
                 PROVE  \E b \in BOOLEAN : cache'[e] = [cache[e] EXCEPT !.started = b]
      OBVIOUS
    <2>1. cache[e] = [cache[e] EXCEPT !.started = cache[e].started]
          /\ cache[e].started \in BOOLEAN
      <3>1. \A E \in Entry : E = [E EXCEPT !.started = E.started] /\ E.started \in BOOLEAN
        BY DEF Entry
      <3> QED BY <3>1 DEF IInv, TypeOK
    <2>2. cache'[e] = cache[e] \/ cache'[e] = [cache[e] EXCEPT !.started = TRUE]
      BY DEF StartMatch
    <2> QED BY <2>1, <2>2
  <1> QED BY <1>1, StartedIInv DEF StartMatch, config

LEMMA RecoverMatchIInv ==
  ASSUME IInv, NEW w \in Workers, NEW dead \in SUBSET Sides, RecoverMatch(w, dead)
  PROVE  IInv'
  <1>1. \A e \in DOMAIN cache :
          \E b \in BOOLEAN : cache'[e] = [cache[e] EXCEPT !.started = b]
    <2> SUFFICES ASSUME NEW e \in DOMAIN cache
                 PROVE  \E b \in BOOLEAN : cache'[e] = [cache[e] EXCEPT !.started = b]
      OBVIOUS
    <2>1. cache[e] = [cache[e] EXCEPT !.started = cache[e].started]
          /\ cache[e].started \in BOOLEAN
      <3>1. \A E \in Entry : E = [E EXCEPT !.started = E.started] /\ E.started \in BOOLEAN
        BY DEF Entry
      <3> QED BY <3>1 DEF IInv, TypeOK
    <2>2. cache'[e] = cache[e] \/ cache'[e] = [cache[e] EXCEPT !.started = FALSE]
      BY DEF RecoverMatch, Restarted
    <2> QED BY <2>1, <2>2
  <1> QED BY <1>1, StartedIInv DEF RecoverMatch, config

\* Leaving playGame with stop set: entries of restarted engines may be lost.
LEMMA LeaveIInv ==
  ASSUME IInv, NEW w \in Workers, pc[w] \in {"check", "play"}, Drop(w), stop',
         Goto(w, "releaseBlack"), stop' \in BOOLEAN,
         UNCHANGED <<affinity, restart, cache, next, game, games>>
  PROVE  IInv'
  <1>1. \A y \in Slots : held'[y] \in {held[y], NoEntry}
    BY DEF Drop
  <1>2. TypeOK'
    <2>1. pc' \in [Workers -> Labels]
      BY DEF Goto, IInv, TypeOK, Labels
    <2>2. held' \in [Slots -> Nat \cup {NoEntry}]
      BY <1>1 DEF Drop, IInv, TypeOK
    <2> QED BY <2>1, <2>2 DEF IInv, TypeOK
  <1>3. OneGamePerEngine'
    BY <1>1, SlotsShrink DEF IInv, OneGamePerEngine
  <1>4. BorrowedEntryIsValid'
    BY <1>1 DEF IInv, BorrowedEntryIsValid, CacheOf, Slots
  <1>5. NoEntryLost'
    BY DEF NoEntryLost
  <1>6. SlotsFollowPc'
    <2>1. \A v \in Workers, s \in Sides : held'[<<v, s>>] \in {held[<<v, s>>], NoEntry}
      BY <1>1 DEF Slots
    <2> QED BY <2>1 DEF Goto, IInv, TypeOK, SlotsFollowPc, Sides
  <1>7. GameInHand'
    BY DEF Goto, IInv, TypeOK, GameInHand
  <1> QED BY <1>2, <1>3, <1>4, <1>5, <1>6, <1>7 DEF IInv

LEMMA DeleteEntryIInv ==
  ASSUME IInv, NEW w \in Workers, NEW side \in Sides, DeleteEntry(w, side)
  PROVE  IInv'
  <1> DEFINE x == <<w, side>>
  <1>0. x \in Slots /\ stop' = stop
    BY DEF Slots, DeleteEntry
  <1>1. CASE game[w][side] \in restart
    <2>1. /\ cache' = [e \in DOMAIN cache \ {held[x]} |-> cache[e]]
          /\ held' = [held EXCEPT ![x] = NoEntry]
      BY <1>1 DEF DeleteEntry, Erase
    <2>2. /\ held'[x] = NoEntry
          /\ \A y \in Slots : y # x => held'[y] = held[y]
          /\ \A y \in Slots : held'[y] \in {held[y], NoEntry}
      BY <1>0, <2>1 DEF IInv, TypeOK
    <2>3. TypeOK'
      <3>1. pc' \in [Workers -> Labels]
        BY DEF DeleteEntry, Goto, IInv, TypeOK, Labels
      <3>2. held' \in [Slots -> Nat \cup {NoEntry}]
        BY <2>1 DEF IInv, TypeOK
      <3> QED BY <2>1, <3>1, <3>2 DEF DeleteEntry, config, IInv, TypeOK
    <2>4. OneGamePerEngine'
      BY <2>2, SlotsShrink DEF IInv, OneGamePerEngine
    <2>5. BorrowedEntryIsValid'
      <3> SUFFICES ASSUME NEW v \in Workers, NEW s \in Sides, held'[<<v, s>>] # NoEntry
                   PROVE  /\ held'[<<v, s>>] \in DOMAIN cache'
                          /\ ~cache'[held'[<<v, s>>]].available
                          /\ cache'[held'[<<v, s>>]].name = game[v][s]
                          /\ cache'[held'[<<v, s>>]].owner = CacheOf(v)
        BY DEF BorrowedEntryIsValid, DeleteEntry, config, CacheOf
      <3>1. <<v, s>> \in Slots /\ <<v, s>> # x /\ held'[<<v, s>>] = held[<<v, s>>]
        BY <2>2 DEF Slots
      <3>2. held[<<v, s>>] # held[x]
        BY <3>1, <1>0 DEF IInv, OneGamePerEngine
      <3> QED BY <2>1, <3>1, <3>2 DEF IInv, BorrowedEntryIsValid
    <2>6. NoEntryLost'
      BY <1>0, <2>1, <2>2 DEF IInv, NoEntryLost
    <2>7. SlotsFollowPc'
      <3>1. \A v \in Workers, s \in Sides : held'[<<v, s>>] \in {held[<<v, s>>], NoEntry}
        BY <2>2 DEF Slots
      <3> QED BY <3>1 DEF DeleteEntry, Goto, IInv, TypeOK, SlotsFollowPc, Sides
    <2>8. GameInHand'
      BY DEF DeleteEntry, Goto, IInv, TypeOK, GameInHand
    <2> QED BY <2>3, <2>4, <2>5, <2>6, <2>7, <2>8 DEF IInv
  <1>2. CASE game[w][side] \notin restart
    <2>1. UNCHANGED <<affinity, restart, stop, cache, next, game, held>>
      BY <1>2 DEF DeleteEntry, config
    <2>2. TypeOK'
      <3>1. pc' \in [Workers -> Labels]
        BY DEF DeleteEntry, Goto, IInv, TypeOK, Labels
      <3> QED BY <2>1, <3>1 DEF DeleteEntry, IInv, TypeOK
    <2>3. SlotsFollowPc' /\ GameInHand'
      BY <2>1 DEF DeleteEntry, Goto, IInv, TypeOK, SlotsFollowPc, GameInHand
    <2> QED BY <2>1, <2>2, <2>3, QuietStep
  <1> QED BY <1>1, <1>2

LEMMA ReleaseEntryIInv ==
  ASSUME IInv, NEW w \in Workers, NEW side \in Sides, ReleaseEntry(w, side)
  PROVE  IInv'
  <1> DEFINE x == <<w, side>>
  <1>0. x \in Slots /\ stop' = stop
    BY DEF Slots, ReleaseEntry
  <1>1. /\ held'[x] = NoEntry
        /\ \A y \in Slots : y # x => held'[y] = held[y]
        /\ \A y \in Slots : held'[y] \in {held[y], NoEntry}
    BY <1>0 DEF ReleaseEntry, IInv, TypeOK
  <1>2. /\ DOMAIN cache' = DOMAIN cache
        /\ \A e \in DOMAIN cache :
              /\ cache'[e] \in Entry
              /\ cache'[e].name = cache[e].name /\ cache'[e].owner = cache[e].owner
              /\ e # held[x] => cache'[e] = cache[e]
              /\ e = held[x] => cache'[e].available
    <2>1. DOMAIN cache' = DOMAIN cache
      BY DEF ReleaseEntry
    <2>2. \A e \in DOMAIN cache :
            /\ e # held[x] => cache'[e] = cache[e]
            /\ e = held[x] => cache'[e] = [cache[e] EXCEPT !.available = TRUE]
      BY DEF ReleaseEntry
    <2>3. \A E \in Entry : /\ [E EXCEPT !.available = TRUE] \in Entry
                           /\ [E EXCEPT !.available = TRUE].available
                           /\ [E EXCEPT !.available = TRUE].name = E.name
                           /\ [E EXCEPT !.available = TRUE].owner = E.owner
      BY AvailableUpdate
    <2>4. ASSUME NEW e \in DOMAIN cache
          PROVE  /\ cache'[e] \in Entry
                 /\ cache'[e].name = cache[e].name /\ cache'[e].owner = cache[e].owner
                 /\ e = held[x] => cache'[e].available
      <3> DEFINE E == cache[e]
      <3>1. E \in Entry
        BY DEF IInv, TypeOK
      <3>2. /\ e # held[x] => cache'[e] = E
            /\ e = held[x] => cache'[e] = [E EXCEPT !.available = TRUE]
        BY <2>2
      <3> HIDE DEF E
      <3>3. /\ cache'[e] \in Entry /\ cache'[e].name = E.name /\ cache'[e].owner = E.owner
            /\ e = held[x] => cache'[e].available
        BY <2>3, <3>1, <3>2
      <3> QED BY <3>3 DEF E
    <2> QED BY <2>1, <2>2, <2>4
  <1>3. /\ game' \in [Workers -> [Sides -> Engines \cup {NoEngine}]]
        /\ \A v \in Workers : v # w => game'[v] = game[v]
        /\ side = "black" => game' = game
    <2>1. NoGame \in [Sides -> Engines \cup {NoEngine}]
      BY DEF NoGame
    <2> QED BY <2>1 DEF ReleaseEntry, IInv, TypeOK, Sides
  <1>4. /\ pc' \in [Workers -> Labels]
        /\ \A v \in Workers : v # w => pc'[v] = pc[v]
        /\ pc'[w] = IF side = "black" THEN "releaseWhite" ELSE "idle"
    BY DEF ReleaseEntry, Goto, IInv, TypeOK, Labels
  <1>5. TypeOK'
    <2>1. held' \in [Slots -> Nat \cup {NoEntry}]
      BY DEF ReleaseEntry, IInv, TypeOK
    <2> QED BY <1>2, <1>3, <1>4, <2>1 DEF ReleaseEntry, config, IInv, TypeOK
  <1>6. OneGamePerEngine'
    BY <1>1, SlotsShrink DEF IInv, OneGamePerEngine
  <1>7. BorrowedEntryIsValid'
    <2> SUFFICES ASSUME NEW v \in Workers, NEW s \in Sides, held'[<<v, s>>] # NoEntry
                 PROVE  /\ held'[<<v, s>>] \in DOMAIN cache'
                        /\ ~cache'[held'[<<v, s>>]].available
                        /\ cache'[held'[<<v, s>>]].name = game'[v][s]
                        /\ cache'[held'[<<v, s>>]].owner = CacheOf(v)
      BY DEF BorrowedEntryIsValid, ReleaseEntry, config, CacheOf
    <2>1. <<v, s>> \in Slots /\ <<v, s>> # x /\ held'[<<v, s>>] = held[<<v, s>>]
      BY <1>1 DEF Slots
    <2>2. held[<<v, s>>] # held[x]
      BY <2>1, <1>0 DEF IInv, OneGamePerEngine
    <2>3. game'[v] = game[v]
      <3>1. CASE v # w
        BY <3>1, <1>3
      <3>2. CASE v = w
        <4>1. s # side
          BY <3>2, <2>1
        <4>2. side = "black"
          BY <3>2, <4>1, <2>1 DEF Sides, ReleaseEntry, IInv, SlotsFollowPc
        <4> QED BY <4>2, <1>3
      <3> QED BY <3>1, <3>2
    <2> QED BY <2>1, <2>2, <2>3, <1>2 DEF IInv, BorrowedEntryIsValid
  <1>8. NoEntryLost'
    <2> SUFFICES ASSUME ~stop, NEW f \in DOMAIN cache, ~cache'[f].available
                 PROVE  \E y \in Slots : held'[y] = f
      BY <1>0, <1>2 DEF NoEntryLost
    <2>1. f # held[x] /\ ~cache[f].available
      BY <1>2
    <2>2. PICK y \in Slots : held[y] = f
      BY <2>1 DEF IInv, NoEntryLost
    <2> QED BY <2>1, <2>2, <1>1
  <1>9. SlotsFollowPc'
    <2>1. \A v \in Workers, s \in Sides : held'[<<v, s>>] \in {held[<<v, s>>], NoEntry}
      BY <1>1 DEF Slots
    <2>2. ASSUME NEW v \in Workers, v # w
          PROVE  SlotsFollowPc!(v)'
      BY <2>1, <2>2, <1>4 DEF IInv, SlotsFollowPc, Sides
    <2>3. SlotsFollowPc!(w)'
      BY <2>1, <1>1, <1>4 DEF ReleaseEntry, IInv, SlotsFollowPc, Sides
    <2> QED BY <2>2, <2>3 DEF SlotsFollowPc
  <1>10. GameInHand'
    BY <1>3, <1>4 DEF ReleaseEntry, IInv, GameInHand, Sides
  <1> QED BY <1>5, <1>6, <1>7, <1>8, <1>9, <1>10 DEF IInv

LEMMA StepIInv == IInv /\ [Next]_vars => IInv'
  <1> SUFFICES ASSUME IInv, [Next]_vars PROVE IInv'
    OBVIOUS
  <1>1. ASSUME NEW w \in Workers, EndMatch(w) PROVE IInv'
    <2>1. UNCHANGED <<affinity, restart, stop, cache, next, game, held>>
      BY <1>1 DEF EndMatch, config
    <2>2. TypeOK'
      <3>1. pc' \in [Workers -> Labels]
        BY <1>1 DEF EndMatch, Goto, IInv, TypeOK, Labels
      <3> QED BY <1>1, <2>1, <3>1 DEF EndMatch, IInv, TypeOK
    <2>3. SlotsFollowPc' /\ GameInHand'
      BY <1>1, <2>1 DEF EndMatch, Goto, IInv, TypeOK, SlotsFollowPc, GameInHand
    <2> QED BY <2>1, <2>2, <2>3, QuietStep
  <1>2. CASE StopTournament
    <2>1. UNCHANGED <<affinity, restart, cache, next, pc, game, held, games>> /\ stop'
          /\ stop' \in BOOLEAN
      BY <1>2 DEF StopTournament, config
    <2>2. TypeOK' /\ SlotsFollowPc' /\ GameInHand'
      BY <2>1 DEF IInv, TypeOK, SlotsFollowPc, GameInHand
    <2> QED BY <2>1, <2>2, QuietStep
  <1>3. CASE UNCHANGED vars
    <2>1. UNCHANGED <<affinity, restart, stop, cache, next, pc, game, held, games>>
      BY <1>3 DEF vars
    <2>2. TypeOK' /\ SlotsFollowPc' /\ GameInHand'
      BY <2>1 DEF IInv, TypeOK, SlotsFollowPc, GameInHand
    <2> QED BY <2>1, <2>2, QuietStep
  <1>4. ASSUME NEW w \in Workers, ReturnEarly(w) \/ AbandonMatch(w) PROVE IInv'
    <2>1. /\ pc[w] \in {"check", "play"} /\ Drop(w) /\ stop' /\ stop' \in BOOLEAN
          /\ Goto(w, "releaseBlack")
          /\ UNCHANGED <<affinity, restart, cache, next, game, games>>
      BY <1>4 DEF ReturnEarly, AbandonMatch, config, IInv, TypeOK
    <2> QED BY <2>1, LeaveIInv
  <1> QED BY <1>1, <1>2, <1>3, <1>4, BeginIInv, GetEntryIInv, DeleteEntryIInv,
             ReleaseEntryIInv, StartMatchIInv, RecoverMatchIInv DEF Next

-----------------------------------------------------------------------------
\* Every reachable state satisfies the inductive invariant.
THEOREM Invariance == Spec => []IInv
  BY InitIInv, StepIInv, PTL DEF Spec

\* Every variable keeps its type, for any number of workers, engines and games.
THEOREM TypeCorrect == Spec => []TypeOK
  <1>1. IInv => TypeOK
    BY DEF IInv
  <1> QED BY <1>1, Invariance, PTL

\* No engine process is ever in two games, or on both sides of one.
THEOREM MutualExclusion == Spec => []OneGamePerEngine
  <1>1. IInv => OneGamePerEngine
    BY DEF IInv
  <1> QED BY <1>1, Invariance, PTL

\* A worker never plays with an entry that was erased, that is free for others, that
\* is another engine or that belongs to another thread's cache.
THEOREM BorrowingIsSafe == Spec => []BorrowedEntryIsValid
  <1>1. IInv => BorrowedEntryIsValid
    BY DEF IInv
  <1> QED BY <1>1, Invariance, PTL

\* Until the tournament stops, an entry marked in use is in somebody's hands.
THEOREM NothingIsLost == Spec => []NoEntryLost
  <1>1. IInv => NoEntryLost
    BY DEF IInv
  <1> QED BY <1>1, Invariance, PTL

-----------------------------------------------------------------------------
LEMMA SequenceOver ==
  ASSUME NEW S, NEW p \in Seq(S)
  PROVE  /\ DOMAIN p = 1..Len(p) /\ Len(p) \in Nat
         /\ \A i \in DOMAIN p : p[i] \in S
  OBVIOUS

LEMMA SequenceOverMore ==
  ASSUME NEW S, NEW T, S \subseteq T, NEW p \in Seq(S)
  PROVE  p \in Seq(T)
  OBVIOUS

LEMMA ConcatenationOver ==
  ASSUME NEW S, NEW q \in Seq(S), NEW r \in Seq(S)
  PROVE  /\ q \o r \in Seq(S) /\ Len(q \o r) = Len(q) + Len(r)
         /\ \A k \in 1..(Len(q) + Len(r)) :
               (q \o r)[k] = IF k <= Len(q) THEN q[k] ELSE r[k - Len(q)]
  OBVIOUS

-----------------------------------------------------------------------------
(* The pool of a machine of any size is sound. The place of a processor in   *)
(* its group is a count, so that no two have the same and none is free.      *)

LEMMA MachineFacts ==
  ASSUME NEW m, MachineOK(m)
  PROVE  /\ DOMAIN m = 1..Len(m) /\ Len(m) \in Nat /\ IsFiniteSet(DOMAIN m)
         /\ \A i \in DOMAIN m : m[i].id \in Int /\ m[i].package \in Int /\ m[i].core \in Int
         /\ \A i, j \in DOMAIN m : m[i].id = m[j].id => i = j
  <1>1. m \in Seq([id : Int, package : Int, core : Int])
    BY DEF MachineOK
  <1>2. DOMAIN m = 1..Len(m) /\ Len(m) \in Nat
    BY <1>1
  <1>3. \A i \in DOMAIN m : m[i] \in [id : Int, package : Int, core : Int]
    BY <1>1, SequenceOver
  <1>4. IsFiniteSet(1..Len(m))
    BY <1>2, FS_Interval
  <1> QED BY <1>2, <1>3, <1>4 DEF MachineOK

LEMMA PrecedesIsOrder ==
  ASSUME NEW m, MachineOK(m)
  PROVE  /\ \A i \in DOMAIN m : ~Precedes(m, i, i)
         /\ \A i, j \in DOMAIN m : i # j => Precedes(m, i, j) \/ Precedes(m, j, i)
         /\ \A i, j, k \in DOMAIN m : Precedes(m, i, j) /\ Precedes(m, j, k) => Precedes(m, i, k)
  BY MachineFacts DEF Precedes, CoreOf

LEMMA EarlierIsFinite ==
  ASSUME NEW m, MachineOK(m), NEW i \in DOMAIN m
  PROVE  IsFiniteSet(EarlierOnCore(m, i))
  <1>1. i - 1 \in Int
    BY MachineFacts
  <1>2. IsFiniteSet(1..(i - 1))
    BY <1>1, FS_Interval
  <1>3. EarlierOnCore(m, i) \in SUBSET (1..(i - 1))
    BY DEF EarlierOnCore
  <1> QED BY <1>2, <1>3, FS_Subset

\* The places of a group are its numbers, each taken once.
LEMMA PlaceFacts ==
  ASSUME NEW m, MachineOK(m), NEW g, NEW G, G = InGroup(m, g), NEW n, n = Cardinality(G)
  PROVE  /\ IsFiniteSet(G) /\ n \in Nat /\ G \subseteq DOMAIN m
         /\ \A k \in 1..n : AtPlace(m, g, k) \in G /\ Place(m, g, AtPlace(m, g, k)) = k
         /\ \A i \in G : Place(m, g, i) \in 1..n /\ AtPlace(m, g, Place(m, g, i)) = i
  <1> DEFINE Before(i) == {j \in G : Precedes(m, j, i)}
             place == [i \in G |-> Cardinality(Before(i)) + 1]
  <1>1. G \subseteq DOMAIN m /\ IsFiniteSet(G) /\ n \in Nat
    <2>1. G \subseteq DOMAIN m
      BY DEF InGroup
    <2> QED BY <2>1, MachineFacts, FS_Subset, FS_CardinalityType
  <1>2. ASSUME NEW i \in G
        PROVE  IsFiniteSet(Before(i)) /\ Cardinality(Before(i)) \in Nat /\ Cardinality(Before(i)) < n
    <2>1. i \notin Before(i)
      BY <1>1, PrecedesIsOrder
    <2>2. Before(i) \in SUBSET G /\ Before(i) # G
      BY <2>1
    <2> HIDE DEF Before
    <2>3. IsFiniteSet(Before(i)) /\ Cardinality(Before(i)) <= n /\ Cardinality(Before(i)) # n
      BY <1>1, <2>2, FS_Subset
    <2> QED BY <1>1, <2>3, FS_CardinalityType
  <1>3. ASSUME NEW i \in G, NEW j \in G, Precedes(m, i, j)
        PROVE  Cardinality(Before(i)) < Cardinality(Before(j))
    <2>1. Before(i) \in SUBSET Before(j)
      BY <1>1, <1>3, PrecedesIsOrder
    <2>2. i \in Before(j) /\ i \notin Before(i)
      BY <1>1, <1>3, PrecedesIsOrder
    <2>3. Before(i) # Before(j)
      BY <2>2
    <2> HIDE DEF Before
    <2>4. Cardinality(Before(i)) <= Cardinality(Before(j)) /\ Cardinality(Before(i)) # Cardinality(Before(j))
      BY <1>2, <2>1, <2>3, FS_Subset
    <2> QED BY <1>2, <2>4
  <1>4. \A i \in G : place[i] \in 1..n
    <2> HIDE DEF Before
    <2> QED BY <1>1, <1>2
  <1>5. \A i, j \in G : i # j => place[i] # place[j]
    <2> SUFFICES ASSUME NEW i \in G, NEW j \in G, i # j PROVE place[i] # place[j]
      OBVIOUS
    <2>1. Precedes(m, i, j) \/ Precedes(m, j, i)
      BY <1>1, PrecedesIsOrder
    <2> HIDE DEF Before
    <2> QED BY <2>1, <1>2, <1>3
  <1>6. \A i \in G : place[i] = Place(m, g, i)
    BY DEF Place
  <1>7. ASSUME NEW k \in 1..n
        PROVE  \E i \in G : Place(m, g, i) = k
    <2> SUFFICES ASSUME \A i \in G : place[i] # k PROVE FALSE
      BY <1>6
    <2> DEFINE Others == (1..n) \ {k}
    <2>1. IsFiniteSet(1..n) /\ Cardinality(1..n) = n
      BY <1>1, FS_Interval
    <2>2. IsFiniteSet(Others) /\ Cardinality(Others) = n - 1
      BY <2>1, FS_RemoveElement
    <2>3. place \in [G -> Others]
      <3> HIDE DEF Before
      <3> QED BY <1>4
    <2> HIDE DEF place, Others
    <2>4. \E i, j \in G : i # j /\ place[i] = place[j]
      BY <1>1, <2>2, <2>3, FS_PigeonHole
    <2> QED BY <1>5, <2>4
  <1>8. \A k \in 1..n : AtPlace(m, g, k) \in G /\ Place(m, g, AtPlace(m, g, k)) = k
    BY <1>7 DEF AtPlace
  <1>9. \A i \in G : Place(m, g, i) \in 1..n
    <2> HIDE DEF place
    <2> QED BY <1>4, <1>6
  <1>10. \A i \in G : AtPlace(m, g, Place(m, g, i)) = i
    <2> HIDE DEF place
    <2> QED BY <1>5, <1>6, <1>8, <1>9
  <1> QED BY <1>1, <1>8, <1>9, <1>10

\* The i-th entry of the pool is for the processor IndexOf.
IndexOf(m, k) ==
    LET n == Cardinality(InGroup(m, 0))
    IN IF k <= n THEN AtPlace(m, 0, k) ELSE AtPlace(m, 1, k - n)

LEMMA PoolEntries ==
  ASSUME NEW m, MachineOK(m), NEW p, p = SetupCores(m)
  PROVE  /\ p \in Seq([cpus : (SUBSET Int) \ {{}}, available : {TRUE}])
         /\ \A k \in DOMAIN p : /\ IndexOf(m, k) \in DOMAIN m
                                /\ p[k] = Unused(m[IndexOf(m, k)].id)
                                /\ k <= Cardinality(InGroup(m, 0)) => IndexOf(m, k) \in InGroup(m, 0)
         /\ \A k, l \in DOMAIN p : IndexOf(m, k) = IndexOf(m, l) => k = l
         /\ \A i \in DOMAIN m : \E k \in DOMAIN p : IndexOf(m, k) = i
  <1> DEFINE G == InGroup(m, 0)
             H == InGroup(m, 1)
             a == Cardinality(G)
             b == Cardinality(H)
             E == [cpus : (SUBSET Int) \ {{}}, available : {TRUE}]
  <1>1. /\ a \in Nat /\ b \in Nat /\ G \subseteq DOMAIN m /\ H \subseteq DOMAIN m
        /\ \A k \in 1..a : AtPlace(m, 0, k) \in G /\ Place(m, 0, AtPlace(m, 0, k)) = k
        /\ \A k \in 1..b : AtPlace(m, 1, k) \in H /\ Place(m, 1, AtPlace(m, 1, k)) = k
        /\ \A i \in G : Place(m, 0, i) \in 1..a /\ AtPlace(m, 0, Place(m, 0, i)) = i
        /\ \A i \in H : Place(m, 1, i) \in 1..b /\ AtPlace(m, 1, Place(m, 1, i)) = i
    BY PlaceFacts
  <1>2. G \cap H = {}
    BY DEF InGroup
  <1>3. \A i \in DOMAIN m : Unused(m[i].id) \in E
    BY MachineFacts DEF Unused
  <1>4. Group(m, 0) = [k \in 1..a |-> Unused(m[AtPlace(m, 0, k)].id)]
    BY DEF Group
  <1>5. Group(m, 1) = [k \in 1..b |-> Unused(m[AtPlace(m, 1, k)].id)]
    BY DEF Group
  <1> HIDE DEF G, H, a, b, E
  <1>6. Group(m, 0) \in Seq(E) /\ Len(Group(m, 0)) = a
    <2>1. \A k \in 1..a : Unused(m[AtPlace(m, 0, k)].id) \in E
      BY <1>1, <1>3
    <2> QED BY <1>1, <1>4, <2>1
  <1>7. Group(m, 1) \in Seq(E) /\ Len(Group(m, 1)) = b
    <2>1. \A k \in 1..b : Unused(m[AtPlace(m, 1, k)].id) \in E
      BY <1>1, <1>3
    <2> QED BY <1>1, <1>5, <2>1
  <1>8. /\ p \in Seq(E) /\ Len(p) = a + b /\ DOMAIN p = 1..(a + b)
        /\ \A k \in 1..a : p[k] = Group(m, 0)[k]
        /\ \A k \in (a + 1)..(a + b) : p[k] = Group(m, 1)[k - a]
    <2> DEFINE q == Group(m, 0)
               r == Group(m, 1)
    <2>1. q \in Seq(E) /\ r \in Seq(E) /\ Len(q) = a /\ Len(r) = b /\ p = q \o r
      BY <1>6, <1>7 DEF SetupCores
    <2> HIDE DEF q, r
    <2>2. p \in Seq(E) /\ Len(p) = a + b
      <3>1. q \o r \in Seq(E) /\ Len(q \o r) = Len(q) + Len(r)
        BY <2>1, ConcatenationOver
      <3> QED BY <2>1, <3>1
    <2>3. \A k \in 1..(a + b) : p[k] = IF k <= a THEN q[k] ELSE r[k - a]
      <3> DEFINE qr == q \o r
      <3>1. \A k \in 1..(Len(q) + Len(r)) : qr[k] = IF k <= Len(q) THEN q[k] ELSE r[k - Len(q)]
        BY <2>1, ConcatenationOver
      <3>2. p = qr
        BY <2>1
      <3> HIDE DEF qr
      <3> QED BY <2>1, <3>1, <3>2
    <2>4. DOMAIN p = 1..(a + b)
      BY <2>2, SequenceOver
    <2>5. \A k \in 1..a : k \in 1..(a + b) /\ k <= a
      BY <1>1
    <2>6. \A k \in (a + 1)..(a + b) : k \in 1..(a + b) /\ ~(k <= a)
      BY <1>1
    <2> QED BY <2>2, <2>3, <2>4, <2>5, <2>6 DEF q, r
  <1>9. ASSUME NEW k \in 1..(a + b)
        PROVE  \/ k \in 1..a /\ IndexOf(m, k) = AtPlace(m, 0, k)
               \/ k \in (a + 1)..(a + b) /\ k - a \in 1..b /\ IndexOf(m, k) = AtPlace(m, 1, k - a)
    BY <1>1 DEF IndexOf, a, G
  <1>10. ASSUME NEW k \in 1..(a + b)
         PROVE  /\ IndexOf(m, k) \in DOMAIN m /\ p[k] = Unused(m[IndexOf(m, k)].id)
                /\ k <= a => IndexOf(m, k) \in G
    <2>1. CASE k \in 1..a /\ IndexOf(m, k) = AtPlace(m, 0, k)
      BY <2>1, <1>1, <1>4, <1>8
    <2>2. CASE k \in (a + 1)..(a + b) /\ k - a \in 1..b /\ IndexOf(m, k) = AtPlace(m, 1, k - a)
      <3>1. p[k] = Unused(m[AtPlace(m, 1, k - a)].id)
        BY <2>2, <1>5, <1>8
      <3>2. ~(k <= a) /\ IndexOf(m, k) \in DOMAIN m
        BY <2>2, <1>1
      <3> QED BY <2>2, <3>1, <3>2
    <2> QED BY <1>9, <2>1, <2>2
  <1>11. ASSUME NEW k \in 1..(a + b), NEW l \in 1..(a + b), IndexOf(m, k) = IndexOf(m, l)
         PROVE  k = l
    <2>1. CASE k \in 1..a /\ l \in 1..a
      BY <1>1, <1>9, <1>11, <2>1
    <2>2. CASE k \notin 1..a /\ l \notin 1..a
      BY <1>1, <1>9, <1>11, <2>2
    <2>3. CASE k \in 1..a /\ l \notin 1..a
      BY <1>1, <1>2, <1>9, <1>11, <2>3
    <2>4. CASE k \notin 1..a /\ l \in 1..a
      BY <1>1, <1>2, <1>9, <1>11, <2>4
    <2> QED BY <2>1, <2>2, <2>3, <2>4
  <1>12. ASSUME NEW i \in DOMAIN m
         PROVE  \E k \in 1..(a + b) : IndexOf(m, k) = i
    <2>1. i \in G \/ i \in H
      <3>1. IsFiniteSet(EarlierOnCore(m, i))
        BY EarlierIsFinite
      <3>2. Cardinality(EarlierOnCore(m, i)) \in Nat
        BY <3>1, FS_CardinalityType
      <3>3. Cardinality(EarlierOnCore(m, i)) % 2 \in {0, 1}
        BY <3>2
      <3> QED BY <3>3 DEF G, H, InGroup
    <2>2. CASE i \in G
      <3>1. Place(m, 0, i) \in 1..a /\ AtPlace(m, 0, Place(m, 0, i)) = i
        BY <1>1, <2>2
      <3>2. Place(m, 0, i) \in 1..(a + b) /\ Place(m, 0, i) <= a
        BY <1>1, <3>1
      <3> QED BY <3>1, <3>2 DEF IndexOf, a, G
    <2>3. CASE i \in H
      <3> DEFINE k == a + Place(m, 1, i)
      <3>1. Place(m, 1, i) \in 1..b /\ AtPlace(m, 1, Place(m, 1, i)) = i
        BY <1>1, <2>3
      <3>2. k \in 1..(a + b) /\ ~(k <= a) /\ k - a = Place(m, 1, i)
        BY <1>1, <3>1
      <3> HIDE DEF k
      <3>3. IndexOf(m, k) = AtPlace(m, 1, k - a)
        BY <3>2 DEF IndexOf, a, G
      <3> QED BY <3>1, <3>2, <3>3
    <2> QED BY <2>1, <2>2, <2>3
  <1> QED BY <1>8, <1>10, <1>11, <1>12 DEF E, a, G
\* A core is the core of its first processor in the list, which is in group HT_1.
LEMMA FirstOfCore ==
  ASSUME NEW m, MachineOK(m), NEW c \in Cores(m)
  PROVE  \E i \in InGroup(m, 0) : CoreOf(m[i]) = c
  <1> DEFINE I == {i \in DOMAIN m : CoreOf(m[i]) = c}
             R == OpToRel(<, Nat)
  <1>1. I # {} /\ I \in SUBSET Nat
    BY MachineFacts DEF Cores, Processors
  <1>2. IsWellFoundedOn(R, Nat)
    BY NatLessThanWellFounded
  <1>3. \A i, j \in Nat : <<i, j>> \in R <=> i < j
    BY DEF OpToRel
  <1>4. PICK i \in I : \A j \in I : ~(j < i)
    <2> HIDE DEF R, I
    <2>1. \E i \in I : \A j \in I : <<j, i>> \notin R
      BY <1>1, <1>2, WFMin
    <2> QED BY <1>1, <1>3, <2>1
  <1>5. EarlierOnCore(m, i) = {}
    BY <1>4, MachineFacts DEF EarlierOnCore
  <1>6. Cardinality(EarlierOnCore(m, i)) = 0
    BY <1>5, FS_EmptySet
  <1> QED BY <1>4, <1>6 DEF InGroup

LEMMA CoresAreFinite ==
  ASSUME NEW m, MachineOK(m)
  PROVE  /\ IsFiniteSet(Processors(m)) /\ IsFiniteSet(Cores(m))
         /\ Cardinality(Cores(m)) \in Nat /\ Cardinality(InGroup(m, 0)) \in Nat
         /\ Cardinality(Cores(m)) <= Cardinality(InGroup(m, 0))
  <1> DEFINE G == InGroup(m, 0)
             f == [i \in DOMAIN m |-> m[i]]
             g == [i \in DOMAIN m |-> CoreOf(m[i])]
             h == [c \in Cores(m) |-> CHOOSE i \in G : CoreOf(m[i]) = c]
  <1>1. f \in Surjection(DOMAIN m, Processors(m))
    BY DEF Surjection, Processors
  <1>2. g \in Surjection(DOMAIN m, Cores(m))
    BY DEF Surjection, Cores, Processors
  <1>3. h \in [Cores(m) -> G] /\ \A c \in Cores(m) : CoreOf(m[h[c]]) = c
    BY FirstOfCore
  <1>4. IsFiniteSet(G) /\ Cardinality(G) \in Nat
    BY PlaceFacts
  <1> HIDE DEF f, g, h, G
  <1>5. IsFiniteSet(Processors(m)) /\ IsFiniteSet(Cores(m))
    BY <1>1, <1>2, MachineFacts, FS_Surjection
  <1>6. Cardinality(Cores(m)) \in Nat
    BY <1>5, FS_CardinalityType
  <1>7. ~(Cardinality(G) < Cardinality(Cores(m)))
    <2> SUFFICES ASSUME Cardinality(G) < Cardinality(Cores(m)) PROVE FALSE
      OBVIOUS
    <2>1. \E c, d \in Cores(m) : c # d /\ h[c] = h[d]
      BY <1>3, <1>4, <1>5, FS_PigeonHole
    <2> QED BY <2>1, <1>3
  <1> QED BY <1>4, <1>5, <1>6, <1>7 DEF G

LEMMA CoreOfProcessor ==
  ASSUME NEW m, MachineOK(m), NEW i \in DOMAIN m
  PROVE  PhysicalCore(m, m[i].id) = CoreOf(m[i])
  <1>1. m[i] \in Processors(m)
    BY DEF Processors
  <1>2. \A p \in Processors(m) : p.id = m[i].id => p = m[i]
    BY MachineFacts DEF Processors
  <1>3. (CHOOSE p \in Processors(m) : p.id = m[i].id) = m[i]
    BY <1>1, <1>2
  <1> QED BY <1>3 DEF PhysicalCore

LEMMA ThreeElements ==
  ASSUME NEW x, NEW y, NEW z, x # y, x # z, y # z
  PROVE  Cardinality({x, y, z}) = 3
  <1> DEFINE S == {x, y}
  <1>1. IsFiniteSet({x}) /\ Cardinality({x}) = 1
    BY FS_Singleton
  <1>2. {x} \cup {y} = S /\ y \notin {x}
    OBVIOUS
  <1>3. IsFiniteSet(S) /\ Cardinality(S) = 2
    BY <1>1, <1>2, FS_AddElement
  <1>4. S \cup {z} = {x, y, z} /\ z \notin S
    OBVIOUS
  <1> HIDE DEF S
  <1>5. Cardinality(S \cup {z}) = 3
    BY <1>3, <1>4, FS_AddElement
  <1> QED BY <1>4, <1>5

\* Of the two processors of a core only one is in group HT_1.
LEMMA OneOfCoreInGroup ==
  ASSUME NEW m, MachineOK(m), TwoWay(m),
         NEW i \in InGroup(m, 0), NEW j \in InGroup(m, 0), i # j
  PROVE  CoreOf(m[i]) # CoreOf(m[j])
  <1>1. ASSUME NEW k \in InGroup(m, 0), NEW l \in InGroup(m, 0), k < l,
               CoreOf(m[k]) = CoreOf(m[l])
        PROVE  FALSE
    <2> DEFINE E == EarlierOnCore(m, l)
               C == {p \in Processors(m) : CoreOf(p) = CoreOf(m[l])}
    <2>1. k \in DOMAIN m /\ l \in DOMAIN m /\ k \in E /\ Cardinality(E) % 2 = 0
      BY <1>1, MachineFacts DEF InGroup, EarlierOnCore
    <2>2. E # {k}
      <3>1. Cardinality({k}) = 1
        BY FS_Singleton
      <3>2. 1 % 2 # 0
        OBVIOUS
      <3> QED BY <2>1, <3>1, <3>2
    <2>3. PICK n \in E : n # k
      BY <2>1, <2>2
    <2>4. n \in DOMAIN m /\ n < l /\ CoreOf(m[n]) = CoreOf(m[l])
      BY <2>1, MachineFacts DEF EarlierOnCore
    <2>5. m[k] # m[l] /\ m[n] # m[l] /\ m[n] # m[k]
      BY <1>1, <2>1, <2>3, <2>4, MachineFacts
    <2>6. {m[k], m[l], m[n]} \in SUBSET C
      BY <1>1, <2>1, <2>4 DEF Processors
    <2>7. IsFiniteSet(C) /\ Cardinality(C) <= 2 /\ Cardinality(C) \in Nat
      <3>1. CoreOf(m[l]) \in Cores(m)
        BY <2>1 DEF Cores, Processors
      <3>2. C \in SUBSET Processors(m)
        OBVIOUS
      <3>3. Cardinality(C) <= 2
        BY <3>1 DEF TwoWay
      <3> HIDE DEF C
      <3>4. IsFiniteSet(C)
        BY <3>2, CoresAreFinite, FS_Subset
      <3> QED BY <3>3, <3>4, FS_CardinalityType
    <2>8. Cardinality({m[k], m[l], m[n]}) = 3
      BY <2>5, ThreeElements
    <2> HIDE DEF C
    <2>9. Cardinality({m[k], m[l], m[n]}) <= Cardinality(C)
      BY <2>6, <2>7, FS_Subset
    <2> QED BY <2>7, <2>8, <2>9
  <1>2. i \in Nat /\ j \in Nat
    BY MachineFacts DEF InGroup
  <1>3. i < j \/ j < i
    BY <1>2
  <1> QED BY <1>1, <1>3

\* Whatever the machine and whatever the user names, the manager gives out each processor
\* once, and one of every core before the second of any.
LEMMA PoolsAreSpread ==
  ASSUME NEW m, MachineOK(m), NEW p, DOMAIN p = 1..Len(p), Len(p) \in Nat,
         \A i, j \in DOMAIN p : i # j => p[i].cpus \cap p[j].cpus = {}
  PROVE  Spread(p, m)
  <1> DEFINE q == SetupCores(m)
             n == Cardinality(Cores(m))
  <1> SUFFICES ASSUME TwoWay(m), SameCores(p, q), NEW i \in DOMAIN p, NEW j \in DOMAIN p,
                      i # j, i <= n, j <= n
               PROVE  OnOtherCores(m, p[i].cpus, p[j].cpus)
    BY DEF Spread
  <1>1. DOMAIN q = 1..Len(q)
    BY PoolEntries, SequenceOver
  <1>2. i \in DOMAIN q /\ j \in DOMAIN q
    BY <1>1 DEF SameCores
  <1>3. i <= Cardinality(InGroup(m, 0)) /\ j <= Cardinality(InGroup(m, 0))
    BY CoresAreFinite
  <1> DEFINE k == IndexOf(m, i)
             l == IndexOf(m, j)
  <1>4. k \in InGroup(m, 0) /\ l \in InGroup(m, 0) /\ k # l /\ k \in DOMAIN m /\ l \in DOMAIN m
    BY <1>2, <1>3, PoolEntries
  <1>5. q[i].cpus = {m[k].id} /\ q[j].cpus = {m[l].id}
    BY <1>2, PoolEntries DEF Unused
  <1>6. p[i].cpus = {m[k].id} /\ p[j].cpus = {m[l].id}
    BY <1>5 DEF SameCores
  <1> HIDE DEF k, l
  <1>7. CoreOf(m[k]) # CoreOf(m[l])
    BY <1>4, OneOfCoreInGroup
  <1>8. PhysicalCore(m, m[k].id) # PhysicalCore(m, m[l].id)
    BY <1>4, <1>7, CoreOfProcessor
  <1> QED BY <1>6, <1>8 DEF OnOtherCores

\* Every processor of the machine is in the pool, so that as many workers find a core.
THEOREM PoolIsWhole ==
  ASSUME NEW m \in Machines, NEW i \in DOMAIN m
  PROVE  \E k \in DOMAIN SetupCores(m) : SetupCores(m)[k].cpus = {m[i].id}
  <1>1. MachineOK(m)
    BY PinnedAssumption
  <1>2. PICK k \in DOMAIN SetupCores(m) : IndexOf(m, k) = i
    BY <1>1, PoolEntries
  <1>3. SetupCores(m)[k] = Unused(m[i].id)
    BY <1>1, <1>2, PoolEntries
  <1> QED BY <1>2, <1>3 DEF Unused

\* What setupCores and setupSelectedCores make of any machine is a sound pool.
THEOREM PoolsAreSound == \A m \in Machines, selected \in Selected : SoundPool(m, selected)
  <1> SUFFICES ASSUME NEW m \in Machines, NEW selected \in Selected PROVE SoundPool(m, selected)
    OBVIOUS
  <1> DEFINE E == [cpus : (SUBSET Int) \ {{}}, available : {TRUE}]
             p == NewPool(TRUE, m, selected)
  <1>1. MachineOK(m) /\ SelectedOK(selected)
    BY PinnedAssumption
  <1>2. CASE selected = <<>>
    <2>1. p = SetupCores(m)
      BY <1>2 DEF NewPool
    <2>2. /\ p \in Seq(E)
          /\ \A k \in DOMAIN p : IndexOf(m, k) \in DOMAIN m /\ p[k] = Unused(m[IndexOf(m, k)].id)
          /\ \A k, l \in DOMAIN p : IndexOf(m, k) = IndexOf(m, l) => k = l
      BY <1>1, <2>1, PoolEntries
    <2>3. \A k \in DOMAIN p : p[k].cpus = {m[IndexOf(m, k)].id}
      <3> HIDE DEF p, E
      <3>1. \A x : Unused(x).cpus = {x}
        BY DEF Unused
      <3> QED BY <2>2, <3>1
    <2> HIDE DEF p, E
    <2>4. \A k \in DOMAIN p : p[k].cpus # NoCpus
      BY <1>1, <2>2, <2>3 DEF MachineOK
    <2>5. \A k, l \in DOMAIN p : k # l => p[k].cpus \cap p[l].cpus = {}
      <3> SUFFICES ASSUME NEW k \in DOMAIN p, NEW l \in DOMAIN p, k # l
                   PROVE  p[k].cpus \cap p[l].cpus = {}
        OBVIOUS
      <3>1. IndexOf(m, k) # IndexOf(m, l) /\ IndexOf(m, k) \in DOMAIN m /\ IndexOf(m, l) \in DOMAIN m
        BY <2>2
      <3>2. m[IndexOf(m, k)].id # m[IndexOf(m, l)].id
        BY <1>1, <3>1, MachineFacts
      <3>3. p[k].cpus = {m[IndexOf(m, k)].id} /\ p[l].cpus = {m[IndexOf(m, l)].id}
        BY <2>3
      <3> QED BY <3>2, <3>3
    <2>6. DOMAIN p = 1..Len(p) /\ Len(p) \in Nat
      BY <2>2, SequenceOver
    <2>7. Spread(p, m)
      BY <1>1, <2>5, <2>6, PoolsAreSpread
    <2> QED BY <2>2, <2>4, <2>7 DEF SoundPool, p, E
  <1>3. CASE selected # <<>>
    <2>1. p = [i \in DOMAIN selected |-> Unused(selected[i])]
      BY <1>3 DEF NewPool, SetupSelectedCores
    <2>2. /\ DOMAIN selected = 1..Len(selected) /\ Len(selected) \in Nat
          /\ \A i \in DOMAIN selected : selected[i] \in Int
      BY <1>1, SequenceOver DEF SelectedOK
    <2>3. \A i \in DOMAIN selected : Unused(selected[i]) \in E /\ Unused(selected[i]).cpus = {selected[i]}
      BY <2>2 DEF Unused
    <2> HIDE DEF p, E
    <2>4. p \in Seq(E)
      BY <2>1, <2>2, <2>3
    <2>5. DOMAIN p = 1..Len(p) /\ Len(p) \in Nat /\ DOMAIN p = DOMAIN selected
      BY <2>1, <2>4, SequenceOver
    <2>6. \A i \in DOMAIN p : p[i].cpus = {selected[i]}
      BY <2>1, <2>3, <2>5
    <2>7. \A i \in DOMAIN p : p[i].cpus # NoCpus
      BY <1>1, <2>5, <2>6 DEF SelectedOK
    <2>8. \A k, l \in DOMAIN p : k # l => p[k].cpus \cap p[l].cpus = {}
      BY <1>1, <2>5, <2>6 DEF SelectedOK
    <2>9. Spread(p, m)
      BY <1>1, <2>5, <2>8, PoolsAreSpread
    <2> QED BY <2>4, <2>7, <2>9 DEF SoundPool, p, E
  <1> QED BY <1>2, <1>3

-----------------------------------------------------------------------------
(* Workers with a core of their own.                                       *)

PoolType ==
    /\ machine \in Machines
    /\ cpus \in [Workers -> {NoCpus} \cup SUBSET Int]
    /\ pool \in Seq([cpus : (SUBSET Int) \ {{}}, available : BOOLEAN])
    /\ \A i \in DOMAIN pool : pool[i].cpus # NoCpus

\* The entries taken are the first ones, and as many as there are workers with a core.
TakenInOrder ==
    \E k \in 0..Len(pool) :
        /\ \A i \in DOMAIN pool : ~pool[i].available <=> i <= k
        /\ IsFiniteSet(Pinned) /\ Cardinality(Pinned) = k

CoresAreTaken ==
    \A w \in Pinned : \E i \in DOMAIN pool : ~pool[i].available /\ cpus[w] = pool[i].cpus

ProcessorsApart == \A v, w \in Pinned : v # w => cpus[v] \cap cpus[w] = {}

\* A worker in a game has looked for a core, and every entry belongs to a worker.
Owned ==
    affinity => /\ \A w \in Workers : pc[w] # "idle" => cpus[w] # NoCpus
                /\ \A e \in DOMAIN cache : cache[e].owner \in Workers

\* A process that runs does so on the processors of the worker that owns its entry.
StartedOnOwn ==
    affinity => \A e \in DOMAIN cache : cache[e].started =>
                   /\ cpus[cache[e].owner] # NoCpus
                   /\ e \in DOMAIN pinned /\ pinned[e] = cpus[cache[e].owner]

PlayedIsStarted ==
    \A w \in Workers, s \in Sides :
        pc[w] = "play" /\ held[<<w, s>>] # NoEntry => cache[held[<<w, s>>]].started

PoolInv == PoolType /\ Spread(pool, machine) /\ TakenInOrder /\ CoresAreTaken /\ ProcessorsApart
ProcessInv == Owned /\ StartedOnOwn /\ PlayedIsStarted
PinnedInv == IInv /\ PoolInv /\ ProcessInv

-----------------------------------------------------------------------------
\* Whether a pool is spread does not depend on which entries are taken.
LEMMA SpreadOfCpus ==
  ASSUME NEW p, NEW q, NEW m, Spread(p, m), DOMAIN q = DOMAIN p, Len(q) = Len(p),
         \A i \in DOMAIN p : q[i].cpus = p[i].cpus
  PROVE  Spread(q, m)
  BY DEF Spread, SameCores

\* consume() gives the first entry that is available.
LEMMA FirstAvailableFacts ==
  ASSUME NEW k \in 0..Len(pool), PoolType, \A i \in DOMAIN pool : ~pool[i].available <=> i <= k,
         FirstAvailable(pool) # 0
  PROVE  FirstAvailable(pool) = k + 1 /\ k + 1 \in DOMAIN pool
  <1>1. /\ DOMAIN pool = 1..Len(pool) /\ Len(pool) \in Nat
        /\ \A i \in DOMAIN pool : pool[i] \in [cpus : (SUBSET Int) \ {{}}, available : BOOLEAN]
    BY SequenceOver DEF PoolType
  <1>2. \A i \in 1..Len(pool) : pool[i].available \in BOOLEAN
    BY <1>1
  <1>3. Available(pool) = (k + 1)..Len(pool)
    BY <1>1, <1>2 DEF Available
  <1>4. Available(pool) # {}
    BY DEF FirstAvailable
  <1>5. /\ FirstAvailable(pool) \in Available(pool)
        /\ \A j \in Available(pool) : FirstAvailable(pool) <= j
    <2>1. \E i \in Available(pool) : \A j \in Available(pool) : i <= j
      <3>1. k + 1 \in Available(pool)
        BY <1>1, <1>3, <1>4
      <3> QED BY <1>3, <3>1
    <2> QED BY <1>4, <2>1 DEF FirstAvailable
  <1> QED BY <1>1, <1>3, <1>4, <1>5

LEMMA PinnedInitInv == PinnedInit => PinnedInv
  <1> SUFFICES ASSUME PinnedInit PROVE PinnedInv
    OBVIOUS
  <1>1. IInv
    BY InitIInv DEF PinnedInit
  <1>2. PICK selected \in Selected : pool = NewPool(pinning, machine, selected)
    BY DEF PinnedInit
  <1>3. machine \in Machines /\ cpus = [w \in Workers |-> NoCpus]
    BY DEF PinnedInit
  <1>4. pool = <<>> \/ pool = NewPool(TRUE, machine, selected)
    BY <1>2 DEF NewPool
  <1>5. /\ pool \in Seq([cpus : (SUBSET Int) \ {{}}, available : {TRUE}])
        /\ \A i \in DOMAIN pool : pool[i].cpus # NoCpus
        /\ Spread(pool, machine)
    <2>1. CASE pool = <<>>
      BY <2>1 DEF Spread
    <2>2. CASE pool = NewPool(TRUE, machine, selected)
      BY <2>2, <1>3, PoolsAreSound DEF SoundPool
    <2> QED BY <1>4, <2>1, <2>2
  <1>6. /\ DOMAIN pool = 1..Len(pool) /\ Len(pool) \in Nat
        /\ \A i \in DOMAIN pool : pool[i] \in [cpus : (SUBSET Int) \ {{}}, available : {TRUE}]
    BY <1>5, SequenceOver
  <1>7. \A i \in DOMAIN pool : pool[i].available = TRUE
    BY <1>6
  <1>8. PoolType
    <2>1. [cpus : (SUBSET Int) \ {{}}, available : {TRUE}]
             \subseteq [cpus : (SUBSET Int) \ {{}}, available : BOOLEAN]
      OBVIOUS
    <2>2. pool \in Seq([cpus : (SUBSET Int) \ {{}}, available : BOOLEAN])
      BY <1>5, <2>1, SequenceOverMore
    <2> QED BY <1>3, <1>5, <2>2 DEF PoolType
  <1>9. Pinned = {}
    BY <1>3 DEF Pinned
  <1>10. TakenInOrder
    <2>1. 0 \in 0..Len(pool)
      BY <1>6
    <2>2. \A i \in DOMAIN pool : ~pool[i].available <=> i <= 0
      BY <1>6, <1>7
    <2>3. IsFiniteSet(Pinned) /\ Cardinality(Pinned) = 0
      BY <1>9, FS_EmptySet
    <2> QED BY <2>1, <2>2, <2>3 DEF TakenInOrder
  <1>11. PoolInv
    BY <1>5, <1>8, <1>9, <1>10 DEF PoolInv, CoresAreTaken, ProcessorsApart
  <1>12. ProcessInv
    BY DEF PinnedInit, Init, ProcessInv, Owned, StartedOnOwn, PlayedIsStarted
  <1> QED BY <1>1, <1>11, <1>12 DEF PinnedInv

-----------------------------------------------------------------------------
(* The pool.                                                               *)

\* consume(): the worker gets the first entry that nobody has.
LEMMA ConsumeKeepsPoolInv ==
  ASSUME PinnedInv, NEW w \in Workers, cpus[w] = NoCpus, FirstAvailable(pool) # 0,
         pool' = Consume(pool, FirstAvailable(pool)), machine' = machine,
         cpus' = [cpus EXCEPT ![w] = pool[FirstAvailable(pool)].cpus]
  PROVE  PoolInv'
  <1> DEFINE f == FirstAvailable(pool)
  <1>1. PICK k \in 0..Len(pool) :
          /\ \A i \in DOMAIN pool : ~pool[i].available <=> i <= k
          /\ IsFiniteSet(Pinned) /\ Cardinality(Pinned) = k
    BY DEF PinnedInv, PoolInv, TakenInOrder
  <1>2. PoolType
    BY DEF PinnedInv, PoolInv
  <1>3. f = k + 1 /\ f \in DOMAIN pool
    BY <1>1, <1>2, FirstAvailableFacts
  <1>4. /\ DOMAIN pool = 1..Len(pool) /\ Len(pool) \in Nat
        /\ \A i \in DOMAIN pool : pool[i] \in [cpus : (SUBSET Int) \ {{}}, available : BOOLEAN]
    BY <1>2, SequenceOver DEF PoolType
  <1>5. /\ DOMAIN pool' = DOMAIN pool /\ Len(pool') = Len(pool)
        /\ pool'[f] = [pool[f] EXCEPT !.available = FALSE]
        /\ \A i \in DOMAIN pool : i # f => pool'[i] = pool[i]
    BY <1>3, <1>4 DEF Consume
  <1>6. /\ pool'[f].cpus = pool[f].cpus /\ pool'[f].available = FALSE
        /\ pool'[f] \in [cpus : (SUBSET Int) \ {{}}, available : BOOLEAN]
    BY <1>3, <1>4, <1>5
  <1>7. \A i \in DOMAIN pool : pool'[i].cpus = pool[i].cpus
    BY <1>5, <1>6
  <1>8. /\ cpus'[w] = pool[f].cpus
        /\ \A v \in Workers : v # w => cpus'[v] = cpus[v]
    BY <1>2 DEF PoolType
  <1>9. pool[f].cpus # NoCpus /\ pool[f].cpus # {} /\ pool[f].cpus \in SUBSET Int
    BY <1>2, <1>3, <1>4 DEF PoolType
  <1>10. Pinned' = Pinned \cup {w} /\ w \notin Pinned
    BY <1>8, <1>9 DEF Pinned
  <1>11. PoolType'
    <2>1. cpus' \in [Workers -> {NoCpus} \cup SUBSET Int]
      BY <1>2, <1>9 DEF PoolType
    <2>2. pool' \in Seq([cpus : (SUBSET Int) \ {{}}, available : BOOLEAN])
      BY <1>2, <1>3, <1>4, <1>6 DEF PoolType, Consume
    <2> QED BY <1>2, <1>5, <1>7, <2>1, <2>2 DEF PoolType
  <1>12. Spread(pool, machine)'
    BY <1>5, <1>7, SpreadOfCpus DEF PinnedInv, PoolInv
  <1>13. TakenInOrder'
    <2>1. k + 1 \in 0..Len(pool')
      BY <1>3, <1>4, <1>5
    <2>2. ASSUME NEW i \in DOMAIN pool'
          PROVE  ~pool'[i].available <=> i <= k + 1
      <3>1. i \in Nat /\ i \in DOMAIN pool
        BY <1>4, <1>5
      <3>2. CASE i = f
        BY <3>1, <3>2, <1>3, <1>6
      <3>3. CASE i # f
        <4>1. pool'[i].available = pool[i].available
          BY <3>1, <3>3, <1>5
        <4>2. i <= k <=> i <= k + 1
          BY <3>1, <3>3, <1>3
        <4> QED BY <4>1, <4>2, <3>1, <1>1
      <3> QED BY <3>2, <3>3
    <2>3. IsFiniteSet(Pinned') /\ Cardinality(Pinned') = k + 1
      BY <1>1, <1>10, FS_AddElement
    <2> QED BY <2>1, <2>2, <2>3 DEF TakenInOrder
  <1>14. CoresAreTaken'
    <2> SUFFICES ASSUME NEW v \in Pinned'
                 PROVE  \E i \in DOMAIN pool' : ~pool'[i].available /\ cpus'[v] = pool'[i].cpus
      BY DEF CoresAreTaken
    <2>1. CASE v = w
      BY <2>1, <1>3, <1>5, <1>6, <1>8
    <2>2. CASE v # w
      <3>1. v \in Pinned
        BY <2>2, <1>10
      <3>2. PICK i \in DOMAIN pool : ~pool[i].available /\ cpus[v] = pool[i].cpus
        BY <3>1 DEF PinnedInv, PoolInv, CoresAreTaken
      <3>3. i # f /\ cpus'[v] = cpus[v]
        BY <2>2, <3>1, <3>2, <1>1, <1>3, <1>4, <1>8 DEF Pinned
      <3> QED BY <3>2, <3>3, <1>5
    <2> QED BY <2>1, <2>2
  <1>15. ProcessorsApart'
    <2>1. \A v \in Pinned : cpus[v] \cap pool[f].cpus = {}
      <3> SUFFICES ASSUME NEW v \in Pinned PROVE cpus[v] \cap pool[f].cpus = {}
        OBVIOUS
      <3>1. PICK i \in DOMAIN pool : ~pool[i].available /\ cpus[v] = pool[i].cpus
        BY DEF PinnedInv, PoolInv, CoresAreTaken
      <3>2. i # f
        BY <3>1, <1>1, <1>3, <1>4
      <3>3. Spread(pool, machine)
        BY DEF PinnedInv, PoolInv
      <3> QED BY <3>1, <3>2, <3>3, <1>3 DEF Spread
    <2>2. \A u, v \in Pinned : u # v => cpus[u] \cap cpus[v] = {}
      BY DEF PinnedInv, PoolInv, ProcessorsApart
    <2>3. \A v \in Pinned : v # w /\ cpus'[v] = cpus[v]
      BY <1>8, <1>10 DEF Pinned
    <2>4. ASSUME NEW u \in Pinned', NEW v \in Pinned', u # v
          PROVE  cpus'[u] \cap cpus'[v] = {}
      BY <2>1, <2>2, <2>3, <2>4, <1>8, <1>10
    <2> QED BY <2>4 DEF ProcessorsApart
  <1> QED BY <1>11, <1>12, <1>13, <1>14, <1>15 DEF PoolInv

\* Without affinity for the threads of an engine a worker has no processor of its own.
LEMMA NoCoreKeepsPoolInv ==
  ASSUME PinnedInv, NEW w \in Workers, cpus[w] = NoCpus, UNCHANGED <<pool, machine>>,
         cpus' = [cpus EXCEPT ![w] = {}]
  PROVE  PoolInv'
  <1>1. PoolType
    BY DEF PinnedInv, PoolInv
  <1>2. cpus'[w] = {} /\ \A v \in Workers : v # w => cpus'[v] = cpus[v]
    BY <1>1 DEF PoolType
  <1>3. Pinned' = Pinned /\ \A v \in Pinned : cpus'[v] = cpus[v]
    BY <1>2 DEF Pinned
  <1>4. PoolType'
    BY <1>1 DEF PoolType
  <1> QED BY <1>3, <1>4
          DEF PinnedInv, PoolInv, TakenInOrder, CoresAreTaken, ProcessorsApart

LEMMA SamePoolInv ==
  ASSUME PinnedInv, UNCHANGED <<pool, machine, cpus>>
  PROVE  PoolInv'
  BY DEF PinnedInv, PoolInv, PoolType, TakenInOrder, CoresAreTaken, ProcessorsApart, Pinned

-----------------------------------------------------------------------------
(* The processes.                                                          *)

\* What is borrowed with affinity is the worker's own and held by nobody else.
LEMMA HeldIsOwn ==
  ASSUME PinnedInv, affinity, NEW w \in Workers, NEW s \in Sides, held[<<w, s>>] # NoEntry
  PROVE  held[<<w, s>>] \in DOMAIN cache /\ cache[held[<<w, s>>]].owner = w
  BY DEF PinnedInv, IInv, BorrowedEntryIsValid, CacheOf

\* Steps that start, replace and erase nothing.
LEMMA SameProcesses ==
  ASSUME PinnedInv, UNCHANGED <<affinity, cache, held, cpus, pinned>>,
         NEW w \in Workers, NEW l \in Labels, l # "play", Goto(w, l), l # "idle" => pc[w] # "idle"
  PROVE  ProcessInv'
  <1>1. pc \in [Workers -> Labels]
    BY DEF PinnedInv, IInv, TypeOK
  <1>2. pc'[w] = l /\ \A v \in Workers : v # w => pc'[v] = pc[v]
    BY <1>1 DEF Goto
  <1>3. Owned'
    BY <1>2 DEF PinnedInv, ProcessInv, Owned
  <1>4. StartedOnOwn'
    BY DEF PinnedInv, ProcessInv, StartedOnOwn
  <1>5. PlayedIsStarted'
    BY <1>2 DEF PinnedInv, ProcessInv, PlayedIsStarted
  <1> QED BY <1>3, <1>4, <1>5 DEF ProcessInv

LEMMA BeginPinnedInv ==
  ASSUME PinnedInv, NEW w \in Workers, NEW white \in Engines, NEW black \in Engines,
         BeginPinned(w, white, black)
  PROVE  PinnedInv'
  <1>1. IInv'
    BY BeginIInv DEF PinnedInv, BeginPinned
  <1>2. /\ pc[w] = "idle" /\ Goto(w, "getWhite")
        /\ UNCHANGED <<affinity, restart, stop, cache, next, held, machine, pinning, pinned>>
    BY DEF BeginPinned, Begin, config
  <1>3. /\ pc \in [Workers -> Labels] /\ PoolType
        /\ cpus \in [Workers -> {NoCpus} \cup SUBSET Int]
    BY DEF PinnedInv, PoolInv, PoolType, IInv, TypeOK
  <1>4. \/ (cpus[w] # NoCpus \/ ~affinity) /\ UNCHANGED <<pool, cpus>>
        \/ /\ affinity /\ cpus[w] = NoCpus /\ FirstAvailable(pool) # 0
           /\ pool' = Consume(pool, FirstAvailable(pool))
           /\ cpus' = [cpus EXCEPT ![w] = pool[FirstAvailable(pool)].cpus]
        \/ /\ affinity /\ cpus[w] = NoCpus /\ pool' = pool
           /\ cpus' = [cpus EXCEPT ![w] = {}]
    BY DEF BeginPinned
  <1>5. PoolInv'
    BY <1>2, <1>4, SamePoolInv, ConsumeKeepsPoolInv, NoCoreKeepsPoolInv
  <1>6. /\ \A v \in Workers : v # w => cpus'[v] = cpus[v]
        /\ cpus[w] # NoCpus => cpus'[w] = cpus[w]
        /\ affinity => cpus'[w] # NoCpus
    <2>1. CASE (cpus[w] # NoCpus \/ ~affinity) /\ UNCHANGED <<pool, cpus>>
      BY <2>1
    <2>2. CASE /\ affinity /\ cpus[w] = NoCpus /\ FirstAvailable(pool) # 0
               /\ cpus' = [cpus EXCEPT ![w] = pool[FirstAvailable(pool)].cpus]
      <3>1. FirstAvailable(pool) \in DOMAIN pool
        BY <2>2, <1>3, FirstAvailableFacts DEF PinnedInv, PoolInv, TakenInOrder
      <3> QED BY <2>2, <3>1, <1>3 DEF PoolType
    <2>3. CASE affinity /\ cpus[w] = NoCpus /\ cpus' = [cpus EXCEPT ![w] = {}]
      BY <2>3, <1>3, PinnedAssumption
    <2> QED BY <1>4, <2>1, <2>2, <2>3
  <1>7. pc'[w] = "getWhite" /\ \A v \in Workers : v # w => pc'[v] = pc[v]
    BY <1>2, <1>3 DEF Goto
  <1>8. Owned'
    BY <1>2, <1>6, <1>7 DEF PinnedInv, ProcessInv, Owned
  <1>9. StartedOnOwn'
    BY <1>2, <1>6 DEF PinnedInv, ProcessInv, StartedOnOwn, Owned
  <1>10. PlayedIsStarted'
    BY <1>2, <1>7 DEF PinnedInv, ProcessInv, PlayedIsStarted
  <1> QED BY <1>1, <1>5, <1>8, <1>9, <1>10 DEF PinnedInv, ProcessInv

LEMMA StartPinnedInv ==
  ASSUME PinnedInv, NEW w \in Workers, StartPinned(w)
  PROVE  PinnedInv'
  <1>1. IInv'
    BY StartMatchIInv DEF PinnedInv, StartPinned
  <1>2. PoolInv'
    BY SamePoolInv DEF StartPinned
  <1>3. /\ pc[w] = "check" /\ Goto(w, "play")
        /\ UNCHANGED <<affinity, held, cpus>>
        /\ cache' = [e \in DOMAIN cache |->
                        IF \E s \in Sides : held[<<w, s>>] = e
                        THEN [cache[e] EXCEPT !.started = TRUE] ELSE cache[e]]
        /\ pinned' = [e \in DOMAIN cache |->
                        IF ~cache[e].started /\ cache'[e].started THEN cpus[w]
                        ELSE IF e \in DOMAIN pinned THEN pinned[e] ELSE NoCpus]
    BY DEF StartPinned, StartMatch, config
  <1>4. /\ pc \in [Workers -> Labels]
        /\ \A e \in DOMAIN cache : cache[e] \in Entry
        /\ \A e \in DOMAIN cache : cache[e].started \in BOOLEAN
    BY DEF PinnedInv, IInv, TypeOK, Entry
  <1>5. pc'[w] = "play" /\ \A v \in Workers : v # w => pc'[v] = pc[v]
    BY <1>3, <1>4 DEF Goto
  <1>6. /\ DOMAIN cache' = DOMAIN cache
        /\ \A e \in DOMAIN cache : cache'[e].owner = cache[e].owner
        /\ \A e \in DOMAIN cache : cache[e].started => cache'[e].started
        /\ \A s \in Sides : held[<<w, s>>] \in DOMAIN cache => cache'[held[<<w, s>>]].started
        /\ \A e \in DOMAIN cache : cache'[e].started /\ ~cache[e].started
              => \E s \in Sides : held[<<w, s>>] = e
    BY <1>3, <1>4, StartedUpdate DEF Entry
  <1>7. Owned'
    BY <1>3, <1>5, <1>6 DEF PinnedInv, ProcessInv, Owned
  <1>8. StartedOnOwn'
    <2> SUFFICES ASSUME affinity, NEW e \in DOMAIN cache, cache'[e].started
                 PROVE  /\ cpus[cache[e].owner] # NoCpus
                        /\ e \in DOMAIN pinned' /\ pinned'[e] = cpus[cache[e].owner]
      BY <1>3, <1>6 DEF StartedOnOwn
    <2>1. DOMAIN pinned' = DOMAIN cache
      BY <1>3
    <2>2. CASE cache[e].started
      BY <1>3, <2>1, <2>2 DEF PinnedInv, ProcessInv, StartedOnOwn
    <2>3. CASE ~cache[e].started
      <3>1. PICK s \in Sides : held[<<w, s>>] = e
        BY <1>6, <2>3
      <3>2. e # NoEntry
        BY <3>1, CacheAssumption DEF PinnedInv, IInv, TypeOK
      <3>3. cache[e].owner = w
        BY <3>1, <3>2, HeldIsOwn
      <3>4. cpus[w] # NoCpus
        BY <1>3 DEF PinnedInv, ProcessInv, Owned
      <3> QED BY <1>3, <2>1, <2>3, <3>3, <3>4
    <2> QED BY <2>2, <2>3
  <1>9. PlayedIsStarted'
    <2> SUFFICES ASSUME NEW v \in Workers, NEW s \in Sides, pc'[v] = "play",
                        held[<<v, s>>] # NoEntry
                 PROVE  cache'[held[<<v, s>>]].started
      BY <1>3 DEF PlayedIsStarted
    <2>1. held[<<v, s>>] \in DOMAIN cache
      BY DEF PinnedInv, IInv, BorrowedEntryIsValid
    <2>2. CASE v = w
      BY <2>1, <2>2, <1>6
    <2>3. CASE v # w
      BY <2>1, <2>3, <1>5, <1>6 DEF PinnedInv, ProcessInv, PlayedIsStarted
    <2> QED BY <2>2, <2>3
  <1> QED BY <1>1, <1>2, <1>7, <1>8, <1>9 DEF PinnedInv, ProcessInv

\* Steps of a worker outside a match: an entry that is there afterwards was there before and
\* runs only if it did, or is its own and does not run; what others hold stays as it is.
LEMMA NothingStarts ==
  ASSUME PinnedInv, UNCHANGED <<affinity, cpus, pinned>>,
         NEW w \in Workers, NEW l \in Labels, l # "play", Goto(w, l), l # "idle" => pc[w] # "idle",
         \A e \in DOMAIN cache' :
            \/ /\ e \in DOMAIN cache /\ cache'[e].owner = cache[e].owner
               /\ cache'[e].started => cache[e].started
            \/ cache'[e].owner = CacheOf(w) /\ ~cache'[e].started,
         \A v \in Workers, s \in Sides : v # w =>
            /\ held'[<<v, s>>] = held[<<v, s>>]
            /\ held[<<v, s>>] # NoEntry =>
                 cache'[held[<<v, s>>]].started = cache[held[<<v, s>>]].started
  PROVE  ProcessInv'
  <1>1. pc \in [Workers -> Labels]
    BY DEF PinnedInv, IInv, TypeOK
  <1>2. pc'[w] = l /\ \A v \in Workers : v # w => pc'[v] = pc[v]
    BY <1>1 DEF Goto
  <1>3. Owned'
    BY <1>2 DEF PinnedInv, ProcessInv, Owned, CacheOf
  <1>4. StartedOnOwn'
    BY DEF PinnedInv, ProcessInv, StartedOnOwn
  <1>5. PlayedIsStarted'
    BY <1>2 DEF PinnedInv, ProcessInv, PlayedIsStarted
  <1> QED BY <1>3, <1>4, <1>5 DEF ProcessInv

LEMMA GetEntryProcesses ==
  ASSUME PinnedInv, NEW w \in Workers, NEW side \in Sides, GetEntry(w, side),
         UNCHANGED <<cpus, pinned>>
  PROVE  ProcessInv'
  <1> DEFINE l == IF side = "white" THEN "getBlack" ELSE "check"
  <1>1. /\ Goto(w, l) /\ pc[w] # "idle" /\ UNCHANGED affinity
        /\ TakeFirst(w, side) \/ AppendNew(w, side)
    BY DEF GetEntry, config
  <1>2. l \in Labels /\ l # "play"
    BY DEF Labels
  <1>3. /\ held \in [Slots -> Nat \cup {NoEntry}]
        /\ \A e \in DOMAIN cache : cache[e] \in Entry
        /\ \A e \in DOMAIN cache : e # next
    BY DEF PinnedInv, IInv, TypeOK
  <1>4. \A v \in Workers, s \in Sides : held[<<v, s>>] # NoEntry => held[<<v, s>>] \in DOMAIN cache
    BY DEF PinnedInv, IInv, BorrowedEntryIsValid
  <1>5. \A v \in Workers, s \in Sides : v # w => held'[<<v, s>>] = held[<<v, s>>]
    BY <1>1, <1>3 DEF TakeFirst, AppendNew, Slots
  <1>6. /\ \A e \in DOMAIN cache : e \in DOMAIN cache' /\ cache'[e].owner = cache[e].owner
                                 /\ cache'[e].started = cache[e].started
        /\ \A e \in DOMAIN cache' : e \notin DOMAIN cache =>
              cache'[e].owner = CacheOf(w) /\ ~cache'[e].started
    <2>1. CASE TakeFirst(w, side)
      <3>1. PICK e \in DOMAIN cache : cache' = [cache EXCEPT ![e] = [@ EXCEPT !.available = FALSE]]
        BY <2>1 DEF TakeFirst, Reusable
      <3>2. /\ cache'[e] = [cache[e] EXCEPT !.available = FALSE]
            /\ DOMAIN cache' = DOMAIN cache
            /\ \A x \in DOMAIN cache : x # e => cache'[x] = cache[x]
        BY <3>1
      <3>3. cache'[e].owner = cache[e].owner /\ cache'[e].started = cache[e].started
        BY <3>2, <1>3 DEF Entry
      <3> QED BY <3>2, <3>3
    <2>2. CASE AppendNew(w, side)
      <3>1. cache' = [e \in DOMAIN cache \cup {next} |->
                        IF e = next THEN NewEntry(w, side) ELSE cache[e]]
        BY <2>2 DEF AppendNew
      <3> QED BY <3>1, <1>3 DEF NewEntry
    <2> QED BY <1>1, <2>1, <2>2
  <1> HIDE DEF l
  <1> QED BY <1>1, <1>2, <1>4, <1>5, <1>6, NothingStarts

LEMMA DeleteEntryProcesses ==
  ASSUME PinnedInv, NEW w \in Workers, NEW side \in Sides, DeleteEntry(w, side),
         UNCHANGED <<cpus, pinned>>
  PROVE  ProcessInv'
  <1> DEFINE l == IF side = "white" THEN "deleteBlack" ELSE "releaseBlack"
  <1>1. /\ Goto(w, l) /\ pc[w] # "idle" /\ UNCHANGED affinity
        /\ \/ /\ cache' = [e \in DOMAIN cache \ {held[<<w, side>>]} |-> cache[e]]
              /\ held' = [held EXCEPT ![<<w, side>>] = NoEntry]
           \/ UNCHANGED <<cache, held>>
    BY DEF DeleteEntry, Erase, config
  <1>2. l \in Labels /\ l # "play"
    BY DEF Labels
  <1>3. held \in [Slots -> Nat \cup {NoEntry}]
    BY DEF PinnedInv, IInv, TypeOK
  <1>4. \A v \in Workers, s \in Sides : v # w =>
          /\ held'[<<v, s>>] = held[<<v, s>>]
          /\ held[<<v, s>>] # NoEntry => held[<<v, s>>] # held[<<w, side>>]
    BY <1>1, <1>3 DEF Slots, PinnedInv, IInv, OneGamePerEngine
  <1>5. \A v \in Workers, s \in Sides : held[<<v, s>>] # NoEntry => held[<<v, s>>] \in DOMAIN cache
    BY DEF PinnedInv, IInv, BorrowedEntryIsValid
  <1>6. \A e \in DOMAIN cache' : e \in DOMAIN cache /\ cache'[e] = cache[e]
    BY <1>1
  <1>7. \A v \in Workers, s \in Sides : v # w /\ held[<<v, s>>] # NoEntry =>
          cache'[held[<<v, s>>]] = cache[held[<<v, s>>]]
    BY <1>1, <1>4, <1>5
  <1> HIDE DEF l
  <1> QED BY <1>1, <1>2, <1>4, <1>6, <1>7, NothingStarts

LEMMA ReleaseEntryProcesses ==
  ASSUME PinnedInv, NEW w \in Workers, NEW side \in Sides, ReleaseEntry(w, side),
         UNCHANGED <<cpus, pinned>>
  PROVE  ProcessInv'
  <1> DEFINE l == IF side = "black" THEN "releaseWhite" ELSE "idle"
  <1>1. /\ Goto(w, l) /\ pc[w] # "idle" /\ UNCHANGED affinity
        /\ cache' = [e \in DOMAIN cache |->
                       IF held[<<w, side>>] = e THEN [cache[e] EXCEPT !.available = TRUE]
                                                ELSE cache[e]]
        /\ held' = [held EXCEPT ![<<w, side>>] = NoEntry]
    BY DEF ReleaseEntry, config
  <1>2. l \in Labels /\ l # "play"
    BY DEF Labels
  <1>3. /\ held \in [Slots -> Nat \cup {NoEntry}]
        /\ \A e \in DOMAIN cache : cache[e] \in Entry
    BY DEF PinnedInv, IInv, TypeOK
  <1>4. \A v \in Workers, s \in Sides : v # w => held'[<<v, s>>] = held[<<v, s>>]
    BY <1>1, <1>3 DEF Slots
  <1>5. \A v \in Workers, s \in Sides : held[<<v, s>>] # NoEntry => held[<<v, s>>] \in DOMAIN cache
    BY DEF PinnedInv, IInv, BorrowedEntryIsValid
  <1>6. /\ DOMAIN cache' = DOMAIN cache
        /\ \A e \in DOMAIN cache : cache'[e].owner = cache[e].owner
                                 /\ cache'[e].started = cache[e].started
    BY <1>1, <1>3 DEF Entry
  <1> HIDE DEF l
  <1> QED BY <1>1, <1>2, <1>4, <1>5, <1>6, NothingStarts

LEMMA RecoverMatchProcesses ==
  ASSUME PinnedInv, NEW w \in Workers, NEW dead \in SUBSET Sides, RecoverMatch(w, dead),
         UNCHANGED <<cpus, pinned>>
  PROVE  ProcessInv'
  <1>1. /\ Goto(w, "deleteWhite") /\ pc[w] # "idle" /\ UNCHANGED <<affinity, held>>
        /\ cache' = [e \in DOMAIN cache |->
                       IF \E s \in dead : held[<<w, s>>] = e
                       THEN [cache[e] EXCEPT !.started = FALSE] ELSE cache[e]]
    BY DEF RecoverMatch, Restarted, config
  <1>2. "deleteWhite" \in Labels
    BY DEF Labels
  <1>3. \A e \in DOMAIN cache : cache[e] \in Entry
    BY DEF PinnedInv, IInv, TypeOK
  <1>4. \A v \in Workers, s \in Sides : held[<<v, s>>] # NoEntry => held[<<v, s>>] \in DOMAIN cache
    BY DEF PinnedInv, IInv, BorrowedEntryIsValid
  <1>5. \A v \in Workers, s \in Sides, t \in Sides :
          v # w /\ held[<<v, s>>] # NoEntry => held[<<w, t>>] # held[<<v, s>>]
    BY DEF PinnedInv, IInv, OneGamePerEngine, Slots
  <1>6. \A e \in DOMAIN cache' :
          /\ e \in DOMAIN cache /\ cache'[e].owner = cache[e].owner
          /\ cache'[e].started => cache[e].started
    BY <1>1, <1>3, StartedUpdate DEF Entry
  <1>7. \A v \in Workers, s \in Sides : v # w /\ held[<<v, s>>] # NoEntry =>
          cache'[held[<<v, s>>]] = cache[held[<<v, s>>]]
    BY <1>1, <1>4, <1>5
  <1>8. \A v \in Workers, s \in Sides : v # w =>
          /\ held'[<<v, s>>] = held[<<v, s>>]
          /\ held[<<v, s>>] # NoEntry =>
               cache'[held[<<v, s>>]].started = cache[held[<<v, s>>]].started
    BY <1>1, <1>7
  <1>9. \A e \in DOMAIN cache' :
          \/ /\ e \in DOMAIN cache /\ cache'[e].owner = cache[e].owner
             /\ cache'[e].started => cache[e].started
          \/ cache'[e].owner = CacheOf(w) /\ ~cache'[e].started
    BY <1>6
  <1>10. "deleteWhite" # "play" /\ ("deleteWhite" # "idle" => pc[w] # "idle")
    BY <1>1
  <1> QED BY <1>1, <1>2, <1>8, <1>9, <1>10, NothingStarts

LEMMA LeaveProcesses ==
  ASSUME PinnedInv, NEW w \in Workers, ReturnEarly(w) \/ AbandonMatch(w) \/ EndMatch(w),
         UNCHANGED <<cpus, pinned>>
  PROVE  ProcessInv'
  <1>1. PICK l \in {"releaseBlack", "deleteWhite"} :
          /\ Goto(w, l) /\ pc[w] # "idle" /\ UNCHANGED <<affinity, cache>>
          /\ Drop(w) \/ UNCHANGED held
    BY DEF ReturnEarly, AbandonMatch, EndMatch, config
  <1>2. l \in Labels /\ l # "play" /\ l # "idle"
    BY <1>1 DEF Labels
  <1>3. \A v \in Workers, s \in Sides : v # w => held'[<<v, s>>] = held[<<v, s>>]
    BY <1>1 DEF Drop, Slots
  <1> QED BY <1>1, <1>2, <1>3, NothingStarts

\* A game that finds no core, a stop and a stutter leave everything of the processes alone.
LEMMA IdleStep ==
  ASSUME PinnedInv, UNCHANGED <<affinity, cache, pc, held, affinityVars>>, IInv'
  PROVE  PinnedInv'
  <1>1. UNCHANGED <<pool, machine, cpus, pinned>>
    BY DEF affinityVars
  <1>2. PoolInv'
    BY <1>1, SamePoolInv
  <1>3. ProcessInv'
    BY <1>1 DEF PinnedInv, ProcessInv, Owned, StartedOnOwn, PlayedIsStarted
  <1> QED BY <1>2, <1>3 DEF PinnedInv

LEMMA PinnedStep == PinnedInv /\ [PinnedNext]_allVars => PinnedInv'
  <1> SUFFICES ASSUME PinnedInv, [PinnedNext]_allVars PROVE PinnedInv'
    OBVIOUS
  <1>1. IInv
    BY DEF PinnedInv
  <1>2. ASSUME NEW w \in Workers, BeginWithoutCore(w) PROVE PinnedInv'
    <2>1. UNCHANGED <<affinity, restart, stop, cache, next, pc, game, held, affinityVars>>
          /\ games' = games + 1
      BY <1>2 DEF BeginWithoutCore, config
    <2>2. TypeOK' /\ SlotsFollowPc' /\ GameInHand'
      BY <1>1, <2>1 DEF IInv, TypeOK, SlotsFollowPc, GameInHand
    <2>3. IInv'
      BY <1>1, <2>1, <2>2, QuietStep
    <2> QED BY <2>1, <2>3, IdleStep
  <1>3. ASSUME NEW w \in Workers, Unpinned(w), UNCHANGED affinityVars PROVE PinnedInv'
    <2>1. Next
      BY <1>3 DEF Unpinned, Next
    <2>2. IInv'
      BY <1>1, <2>1, StepIInv
    <2>3. UNCHANGED <<pool, machine, cpus, pinned>>
      BY <1>3 DEF affinityVars
    <2>4. ProcessInv'
      BY <1>3, <2>3, GetEntryProcesses, DeleteEntryProcesses, ReleaseEntryProcesses,
         RecoverMatchProcesses, LeaveProcesses DEF Unpinned
    <2> QED BY <2>2, <2>3, <2>4, SamePoolInv DEF PinnedInv
  <1>4. CASE StopTournament /\ UNCHANGED affinityVars
    <2>1. IInv'
      BY <1>1, <1>4, StepIInv DEF Next
    <2>2. UNCHANGED <<affinity, cache, pc, held>>
      BY <1>4 DEF StopTournament, config
    <2> QED BY <1>4, <2>1, <2>2, IdleStep
  <1>5. CASE UNCHANGED allVars
    <2>1. UNCHANGED vars /\ UNCHANGED affinityVars
      BY <1>5 DEF allVars
    <2>2. IInv'
      BY <1>1, <2>1, StepIInv
    <2>3. UNCHANGED <<affinity, cache, pc, held>>
      BY <2>1 DEF vars
    <2> QED BY <2>1, <2>2, <2>3, IdleStep
  <1> QED BY <1>2, <1>3, <1>4, <1>5, BeginPinnedInv, StartPinnedInv DEF PinnedNext

LEMMA OwnCores == PinnedInv => EnginesOnOwnCores
  <1> SUFFICES ASSUME PinnedInv PROVE EnginesOnOwnCores
    OBVIOUS
  <1>1. ASSUME affinity, NEW w \in Workers, NEW s \in Sides, pc[w] = "play",
               held[<<w, s>>] # NoEntry
        PROVE  pinned[held[<<w, s>>]] = cpus[w]
    BY <1>1, HeldIsOwn DEF PinnedInv, ProcessInv, StartedOnOwn, PlayedIsStarted
  <1>2. PICK k \in 0..Len(pool) :
          /\ \A i \in DOMAIN pool : ~pool[i].available <=> i <= k
          /\ IsFiniteSet(Pinned) /\ Cardinality(Pinned) = k
    BY DEF PinnedInv, PoolInv, TakenInOrder
  <1>3. ASSUME TwoWay(machine), SameCores(pool, WholePool[machine]),
               Cardinality(Pinned) <= Cardinality(Cores(machine)),
               NEW v \in Pinned, NEW w \in Pinned, v # w
        PROVE  OnOtherCores(machine, cpus[v], cpus[w])
    <2>1. PICK i \in DOMAIN pool : ~pool[i].available /\ cpus[v] = pool[i].cpus
      BY DEF PinnedInv, PoolInv, CoresAreTaken
    <2>2. PICK j \in DOMAIN pool : ~pool[j].available /\ cpus[w] = pool[j].cpus
      BY DEF PinnedInv, PoolInv, CoresAreTaken
    <2>3. i # j
      BY <1>3, <2>1, <2>2 DEF PinnedInv, PoolInv, ProcessorsApart, Pinned
    <2>4. i <= k /\ j <= k /\ i \in Nat /\ j \in Nat
      BY <1>2, <2>1, <2>2, SequenceOver DEF PinnedInv, PoolInv, PoolType
    <2>5. i <= Cardinality(Cores(machine)) /\ j <= Cardinality(Cores(machine))
      <3>1. Cardinality(Cores(machine)) \in Nat
        BY PinnedAssumption, CoresAreFinite DEF PinnedInv, PoolInv, PoolType
      <3> HIDE DEF Cores
      <3> QED BY <1>2, <1>3, <2>4, <3>1
    <2>6. SameCores(pool, SetupCores(machine))
      BY <1>3 DEF WholePool, PinnedInv, PoolInv, PoolType
    <2> QED BY <1>3, <2>1, <2>2, <2>3, <2>5, <2>6 DEF PinnedInv, PoolInv, Spread
  <1>4. WorkersApart
    BY <1>3 DEF WorkersApart, PinnedInv, PoolInv, ProcessorsApart
  <1> QED BY <1>1, <1>4 DEF EnginesOnOwnCores

\* Every state reachable with -use-affinity satisfies the inductive invariant.
THEOREM PinnedInvariance == PinnedSpec => []PinnedInv
  BY PinnedInitInv, PinnedStep, PTL DEF PinnedSpec

\* With affinity every engine in a game runs on the processors of the worker that plays it;
\* no two workers have a processor in common, nor a physical core while there are enough.
THEOREM EnginesKeepTheirCores == PinnedSpec => []EnginesOnOwnCores
  <1> QED BY OwnCores, PinnedInvariance, PTL

\* A worker that waits for a core, or finds none, takes no engine from another and
\* loses none: what was proved of the cache holds with the pool of cores beside it.
THEOREM CacheIsSafeWithCores == PinnedSpec => [](OneGamePerEngine /\ NoEntryLost)
  <1>1. PinnedInv => OneGamePerEngine /\ NoEntryLost
    BY DEF PinnedInv, IInv
  <1> QED BY <1>1, PinnedInvariance, PTL
=============================================================================

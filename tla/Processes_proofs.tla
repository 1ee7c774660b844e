-------------------------- MODULE Processes_proofs --------------------------
(***************************************************************************)
(* Proofs about the processes of the engines, for any number of workers,   *)
(* of engines and of engines in a game: types, and the three safety        *)
(* properties of Processes.                                                *)
(*                                                                         *)
(* What makes them inductive is who an engine belongs to. An engine is in  *)
(* a seat of one worker, or in the hands of one thread that has just made  *)
(* it or is destroying it, or it is nobody's:                              *)
(*   Whereabouts    where a thread can be, and when it has an engine;      *)
(*   Ownership      no engine has two seats, or a seat and a destroyer, or *)
(*                  two destroyers; who uses an engine has it in a seat;   *)
(*   Lives          how far the process of a thread's engine has come;     *)
(*   Holdings       who holds an end of a pipe runs, and inherited it if   *)
(*                  the pipe is another engine's;                          *)
(*   Listed, ...    an engine in the list has a process, an open event and *)
(*                  no child end in the parent; a started engine in a seat *)
(*                  is in the list; what is in the list is somebody's;     *)
(*   OrphansAreGone nobody's engine has no process and no descriptor.      *)
(* A lemma Step... shows that a step keeps one of these; LifeKept is what  *)
(* every step but a spawn does to the processes.                           *)
(***************************************************************************)
EXTENDS Processes, FiniteSetTheorems, NaturalsInduction, WellFoundedInduction, SequenceTheorems, TLAPS

\* Types.
Places == {"idle", "built", "acquire", "spawn", "attach", "uciok", "search", "broken", "replace",
           "quit", "unlist", "wait", "close", "done", "over"}
PipeNames == {"in", "out", "err"}
PipeEnds == PipeNames \X {"r", "w"}

TypeOK ==
    /\ stop \in BOOLEAN /\ torn \in BOOLEAN
    /\ pc \in [Threads -> [at : Places, engine : Engines \cup {NoEngine}, pipes : Seq(PipeNames), attempt : Nat]]
    /\ seats \in [Workers -> Seq(Engines)]
    /\ ends \in [Engines -> SUBSET PipeEnds]
    /\ open \subseteq Engines \X PipeNames /\ strangers \subseteq Engines \X PipeNames
    /\ event \in [Engines -> {"closed", "clear", "set"}]
    /\ list \subseteq Engines
    /\ life \in [Engines -> {"none", "running", "zombie", "reaped"}]
    /\ held \in [Engines -> SUBSET (Engines \X PipeEnds)]
    /\ waited \in [Engines -> BOOLEAN]

-----------------------------------------------------------------------------
(* The least element of a set of numbers is in it. *)
LEMMA MinOf ==
  ASSUME NEW S \in SUBSET Nat, S # {}
  PROVE  Min(S) \in S
  <1> DEFINE R == {ss \in Nat \X Nat : ss[1] < ss[2]}
  <1>1. IsWellFoundedOn(R, Nat)
    BY NatLessThanWellFounded DEF OpToRel
  <1> HIDE DEF R
  <1>2. PICK x \in S : \A y \in S : ~(<<y, x>> \in R)
    BY <1>1, WFMin
  <1>3. ASSUME NEW y \in S PROVE x =< y
    <2>1. <<y, x>> \in Nat \X Nat /\ <<y, x>>[1] = y /\ <<y, x>>[2] = x
      OBVIOUS
    <2>2. ~(y < x)
      BY <1>2, <2>1 DEF R
    <2> QED BY <2>2
  <1> QED BY <1>2, <1>3 DEF Min

(* What Append, Head and Tail do to a sequence. *)
LEMMA SeqFacts ==
  ASSUME NEW S, NEW s \in Seq(S)
  PROVE  /\ DOMAIN s = 1..Len(s) /\ Len(s) \in Nat
         /\ \A i \in DOMAIN s : s[i] \in S
         /\ \A e \in S : /\ Append(s, e) \in Seq(S)
                         /\ DOMAIN Append(s, e) = 1..(Len(s) + 1)
                         /\ \A i \in DOMAIN s : Append(s, e)[i] = s[i]
                         /\ Append(s, e)[Len(s) + 1] = e
         /\ s # <<>> => /\ Head(s) \in S /\ Head(s) = s[1] /\ 1 \in DOMAIN s
                        /\ Tail(s) \in Seq(S)
                        /\ DOMAIN Tail(s) = 1..(Len(s) - 1)
                        /\ \A i \in DOMAIN Tail(s) : i + 1 \in DOMAIN s /\ Tail(s)[i] = s[i + 1]
  OBVIOUS

(* The engine that Match::start starts next is in a seat and not started; if there is none all are. *)
LEMMA UnstartedFacts ==
  ASSUME TypeOK, NEW w \in Workers
  PROVE  /\ Unstarted(w) # 0 => Unstarted(w) \in DOMAIN seats[w] /\ ~Started(seats[w][Unstarted(w)])
         /\ Unstarted(w) = 0 => \A i \in DOMAIN seats[w] : Started(seats[w][i])
  <1> DEFINE I == {i \in 1..Len(seats[w]) : ~Started(seats[w][i])}
  <1>0. seats[w] \in Seq(Engines)
    BY DEF TypeOK
  <1>1. Unstarted(w) = IF I # {} THEN Min(I) ELSE 0
    BY DEF Unstarted, SelectInSeq
  <1>2. I \in SUBSET Nat /\ DOMAIN seats[w] = 1..Len(seats[w])
    BY <1>0
  <1>3. I # {} => Min(I) \in I
    BY <1>2, MinOf
  <1> HIDE DEF I
  <1> QED BY <1>1, <1>2, <1>3 DEF I

(* The engine that restartEngine replaces is in a seat and has been waited for. *)
LEMMA WaitedFacts ==
  ASSUME TypeOK, NEW w \in Workers, \E i \in DOMAIN seats[w] : waited[seats[w][i]]
  PROVE  \E d \in DOMAIN seats[w] : waited[seats[w][d]] /\ SelectInSeq(seats[w], LAMBDA e : waited[e]) = d
  <1> DEFINE I == {i \in 1..Len(seats[w]) : waited[seats[w][i]]}
  <1>0. seats[w] \in Seq(Engines)
    BY DEF TypeOK
  <1>1. SelectInSeq(seats[w], LAMBDA e : waited[e]) = IF I # {} THEN Min(I) ELSE 0
    BY DEF SelectInSeq
  <1>2. I \in SUBSET Nat /\ DOMAIN seats[w] = 1..Len(seats[w])
    BY <1>0
  <1>3. I # {}
    BY <1>2
  <1>4. Min(I) \in I
    BY <1>2, <1>3, MinOf
  <1> HIDE DEF I
  <1> QED BY <1>1, <1>2, <1>3, <1>4 DEF I

(* The order in which the third pipe is created, if it is. *)
LEMMA ErrSeq == SetToSeq(ErrPipes) \in Seq(PipeNames)
  <1>1. CASE ErrPipes = {}
    <2>1. Cardinality(ErrPipes) = 0
      BY <1>1, FS_EmptySet
    <2>2. SetToSeq(ErrPipes) \in [1..0 -> {}]
      <3>1. [i \in 1..0 |-> "err"] \in [1..0 -> {}] /\ IsInjective([i \in 1..0 |-> "err"])
        BY DEF IsInjective
      <3> QED BY <2>1, <1>1, <3>1 DEF SetToSeq
    <2>3. 1..0 = {}
      OBVIOUS
    <2>4. SetToSeq(ErrPipes) \in [1..0 -> PipeNames]
      BY <2>2, <2>3
    <2> QED BY <2>4, SeqDef
  <1>2. CASE ErrPipes = {"err"}
    <2>1. Cardinality(ErrPipes) = 1
      BY <1>2, FS_Singleton
    <2>2. SetToSeq(ErrPipes) \in [1..1 -> {"err"}]
      <3>1. [i \in 1..1 |-> "err"] \in [1..1 -> {"err"}] /\ IsInjective([i \in 1..1 |-> "err"])
        BY DEF IsInjective
      <3> QED BY <2>1, <1>2, <3>1 DEF SetToSeq
    <2>3. SetToSeq(ErrPipes) \in [1..1 -> PipeNames]
      BY <2>2 DEF PipeNames
    <2> QED BY <2>3, SeqDef
  <1> QED BY <1>1, <1>2 DEF ErrPipes

\* Where a thread is, with the engine it has, the pipes it has to create and its attempt.
PcRecord == [at : Places, engine : Engines \cup {NoEngine}, pipes : Seq(PipeNames), attempt : Nat]

(* At makes such a record. *)
LEMMA AtType == \A p \in Places, e \in Engines \cup {NoEngine} : At(p, e) \in PcRecord
  BY DEF At, PcRecord

(* So does Attempt, for a process that is about to be spawned. *)
LEMMA PipesType ==
  /\ Pipes \in Seq(PipeNames)
  /\ \A e \in Engines, n \in Nat :
        Attempt(e, n) \in PcRecord /\ Attempt(e, n).at = "spawn" /\ Attempt(e, n).engine = e
  <1>1. Pipes \in Seq(PipeNames) /\ <<"out", "in">> \in Seq(PipeNames)
    BY DEF Pipes, PipeNames
  <1>2. <<"out", "in">> \o SetToSeq(ErrPipes) \in Seq(PipeNames)
    BY <1>1, ErrSeq
  <1>4. \A e \in Engines : At("spawn", e) \in PcRecord /\ At("spawn", e).at = "spawn" /\ At("spawn", e).engine = e
    BY DEF At, PcRecord, Places
  <1>5. ASSUME NEW e \in Engines, NEW n \in Nat
        PROVE  Attempt(e, n) \in PcRecord /\ Attempt(e, n).at = "spawn" /\ Attempt(e, n).engine = e
    <2> DEFINE q == <<"out", "in">> \o SetToSeq(ErrPipes)
               r == At("spawn", e)
    <2>1. Attempt(e, n) = [r EXCEPT !.pipes = q, !.attempt = n]
      BY DEF Attempt
    <2>2. q \in Seq(PipeNames) /\ r \in PcRecord /\ r.at = "spawn" /\ r.engine = e
      BY <1>2, <1>4
    <2> HIDE DEF q, r
    <2>3. /\ [r EXCEPT !.pipes = q, !.attempt = n] \in PcRecord
          /\ [r EXCEPT !.pipes = q, !.attempt = n].at = "spawn"
          /\ [r EXCEPT !.pipes = q, !.attempt = n].engine = e
      BY <2>2 DEF PcRecord
    <2> QED BY <2>1, <2>3
  <1> QED BY <1>1, <1>5

(* The main thread is not a worker, and NoEngine is not an engine. *)
LEMMA ThreadFacts ==
  /\ Workers \subseteq Threads /\ Main \in Threads /\ Main \notin Workers
  /\ NoEngine \notin Engines
  /\ \A t \in Threads : t = Main \/ t \in Workers
  BY ProcessesAssumption DEF Threads

-----------------------------------------------------------------------------
\* Places of a thread whose engine is in one of its seats, in none, and that has none.
SeatPlaces == {"acquire", "spawn", "attach", "uciok", "search", "broken"}
LoosePlaces == {"built", "replace", "quit", "unlist", "wait", "close"}
FreePlaces == {"idle", "done", "over"}

\* Places of the workers and of the main thread.
Whereabouts ==
    /\ \A w \in Workers : pc[w].at \in SeatPlaces \cup LoosePlaces \cup {"idle", "done"}
    /\ pc[Main].at \in {"idle", "quit", "unlist", "wait", "close", "over"}
    /\ \A t \in Threads : pc[t].at \in FreePlaces <=> pc[t].engine = NoEngine
    /\ \A t \in Threads : pc[t].pipes # <<>> => pc[t].at \in {"built", "replace", "spawn"}

\* A worker that has made a new engine has a dead one, which it knows is dead, to replace.
DeadIsSeated == \A w \in Workers : pc[w].at = "replace" => \E i \in DOMAIN seats[w] : waited[seats[w][i]]

(* The type of pc, by its name. *)
LEMMA TypeEq == TypeOK => pc \in [Threads -> PcRecord]
  BY DEF TypeOK, PcRecord

(* A step keeps the types. *)
LEMMA StepTyped == ASSUME TypeOK, Whereabouts, DeadIsSeated, [Next]_vars PROVE TypeOK'
  <1> USE ThreadFacts DEF parent, children, Go
  <1>p. pc \in [Threads -> PcRecord]
    BY TypeEq
  <1>g. \A t \in Threads, r \in PcRecord : [pc EXCEPT ![t] = r] \in [Threads -> [at : Places, engine : Engines \cup {NoEngine}, pipes : Seq(PipeNames), attempt : Nat]]
    BY <1>p DEF PcRecord
  <1>e. \A t \in Threads : pc[t].engine \in Engines \cup {NoEngine} /\ pc[t].pipes \in Seq(PipeNames) /\ (pc[t].at \notin FreePlaces => pc[t].engine \in Engines)
    BY <1>p DEF PcRecord, Whereabouts
  <1>1. ASSUME NEW t \in Threads, CreatePipe(t) PROVE TypeOK'
    <2>1. pc[t].engine \in Engines /\ Head(pc[t].pipes) \in PipeNames
      BY <1>1, <1>e DEF CreatePipe, Whereabouts, FreePlaces
    <2> DEFINE e == pc[t].engine
               pipe == Head(pc[t].pipes)
    <2>2. Both(pipe) \subseteq PipeEnds
      BY <2>1 DEF Both, PipeEnds
    <2>3. ends' \in [Engines -> SUBSET PipeEnds]
      BY <1>1, <2>1, <2>2 DEF CreatePipe, TypeOK
    <2>4. held' \in [Engines -> SUBSET (Engines \X PipeEnds)]
      BY <1>1 DEF CreatePipe, TypeOK
    <2>5. open' \subseteq Engines \X PipeNames /\ strangers' \subseteq Engines \X PipeNames
      BY <1>1, <2>1 DEF CreatePipe, TypeOK
    <2> QED BY <1>1, <2>3, <2>4, <2>5 DEF CreatePipe, TypeOK
  <1>2. ASSUME NEW t \in Threads, CloseOnExec(t) PROVE TypeOK'
    <2>1. [pc[t] EXCEPT !.pipes = Tail(@)] \in PcRecord
      <3>1. pc[t] \in PcRecord /\ Tail(pc[t].pipes) \in Seq(PipeNames)
        BY <1>2, <1>e, <1>p, SeqFacts DEF CloseOnExec
      <3>2. \A r \in PcRecord, q \in Seq(PipeNames) : [r EXCEPT !.pipes = q] \in PcRecord
        BY DEF PcRecord
      <3> QED BY <3>1, <3>2
    <2>2. pc' \in [Threads -> [at : Places, engine : Engines \cup {NoEngine}, pipes : Seq(PipeNames), attempt : Nat]]
      BY <1>2, <1>g, <2>1 DEF CloseOnExec
    <2> QED BY <1>2, <2>2 DEF CloseOnExec, TypeOK
  <1>3. ASSUME NEW w \in Workers, Construct(w) PROVE TypeOK'
    <2>1. \A e \in Engines : [At("built", e) EXCEPT !.pipes = Pipes] \in PcRecord
      BY PipesType, AtType DEF PcRecord, At, Places
    <2> QED BY <1>3, <1>g, <2>1 DEF Construct, TypeOK
  <1>4. ASSUME NEW w \in Workers, TakeSeat(w) PROVE TypeOK'
    <2>1. pc[w].engine \in Engines
      BY <1>4, <1>e DEF TakeSeat, Reaches, FreePlaces
    <2>2. Append(seats[w], pc[w].engine) \in Seq(Engines)
      BY <2>1, SeqFacts DEF TypeOK
    <2>3. seats' \in [Workers -> Seq(Engines)]
      BY <1>4, <2>2 DEF TakeSeat, TypeOK
    <2> QED BY <1>4, <1>g, <2>3, AtType DEF TakeSeat, Idle, TypeOK, Places
  <1>5. ASSUME NEW w \in Workers, BeginGame(w) \/ Greeted(w) PROVE TypeOK'
    <2>1. Unstarted(w) # 0 => seats[w][Unstarted(w)] \in Engines
      BY UnstartedFacts, SeqFacts DEF TypeOK
    <2>2. \E r \in PcRecord : pc' = [pc EXCEPT ![w] = r]
      BY <1>5, <2>1, AtType DEF BeginGame, Greeted, Idle, Places
    <2> QED BY <1>5, <1>g, <2>2 DEF BeginGame, Greeted, TypeOK
  <1>6. ASSUME NEW w \in Workers, Acquire(w) PROVE TypeOK'
    <2>1. pc[w].engine \in Engines
      BY <1>6, <1>e DEF Acquire, Reaches, FreePlaces
    <2>2. ends' \in [Engines -> SUBSET PipeEnds]
      BY <1>6 DEF Acquire, DropErr, TypeOK
    <2> QED BY <1>6, <1>g, <2>1, <2>2, PipesType DEF Acquire, TypeOK
  <1>7. ASSUME NEW w \in Workers, Spawn(w) PROVE TypeOK'
    <2>1. pc[w].engine \in Engines
      BY <1>7, <1>e DEF Spawn, Reaches, FreePlaces
    <2> DEFINE e == pc[w].engine
               own == {<<e, p>> : p \in Given}
               more == UNION {{<<x[1], p>> : p \in Both(x[2])} : x \in Inherited(e)}
    <2>2. Inherited(e) \subseteq Engines \X PipeNames
      BY DEF Inherited, PipeNames
    <2>3. own \subseteq Engines \X PipeEnds
      BY <2>1 DEF Given, ErrPipes, PipeEnds, PipeNames
    <2>4. more \subseteq Engines \X PipeEnds
      BY <2>2 DEF Both, PipeEnds
    <2>5. held' = [held EXCEPT ![e] = own \cup more]
      BY <1>7 DEF Spawn
    <2> HIDE DEF own, more
    <2>6. held' \in [Engines -> SUBSET (Engines \X PipeEnds)]
      BY <2>3, <2>4, <2>5 DEF TypeOK
    <2>7. life' \in [Engines -> {"none", "running", "zombie", "reaped"}] /\ strangers' \subseteq Engines \X PipeNames
      BY <1>7, <2>2 DEF Spawn, TypeOK
    <2> QED BY <1>7, <1>g, <2>1, <2>6, <2>7, AtType DEF Spawn, TypeOK, Places
  <1>8. ASSUME NEW w \in Workers, SpawnFails(w) PROVE TypeOK'
    <2>1. pc[w].engine \in Engines
      BY <1>8, <1>e DEF SpawnFails, Reaches, FreePlaces
    <2>2. \E r \in PcRecord : pc' = [pc EXCEPT ![w] = r]
      BY <1>8, <2>1, AtType, PipesType DEF SpawnFails, Places
    <2>3. stop' \in BOOLEAN
      BY <1>8 DEF SpawnFails, TypeOK
    <2> QED BY <1>8, <1>g, <2>2, <2>3 DEF SpawnFails, TypeOK
  <1>9. ASSUME NEW w \in Workers, Attach(w) PROVE TypeOK'
    <2>1. pc[w].engine \in Engines
      BY <1>9, <1>e DEF Attach, Reaches, FreePlaces
    <2>2. event' \in [Engines -> {"closed", "clear", "set"}] /\ list' \subseteq Engines /\ ends' \in [Engines -> SUBSET PipeEnds]
      BY <1>9, <2>1 DEF Attach, TypeOK
    <2> QED BY <1>9, <1>g, <2>1, <2>2, AtType DEF Attach, TypeOK, Places
  <1>10. ASSUME NEW w \in Workers, NotGreeted(w) \/ Interrupted(w) \/ Answers(w) \/ Disconnected(w) \/ Leave(w) PROVE TypeOK'
    <2>1. event' \in [Engines -> {"closed", "clear", "set"}] /\ stop' \in BOOLEAN
      <3>1. CASE NotGreeted(w)
        BY <3>1 DEF NotGreeted, TypeOK
      <3>2. CASE ~NotGreeted(w)
        BY <1>10, <3>2 DEF Interrupted, Answers, Disconnected, Leave, TypeOK
      <3> QED BY <3>1, <3>2
    <2>2. \E r \in PcRecord : pc' = [pc EXCEPT ![w] = r]
      BY <1>10, <1>e, AtType DEF NotGreeted, Interrupted, Answers, Disconnected, Leave, Idle, Places
    <2>3. UNCHANGED <<torn, seats, ends, open, list, life, held, waited, strangers>>
      BY <1>10 DEF NotGreeted, Interrupted, Answers, Disconnected, Leave
    <2> QED BY <1>g, <2>1, <2>2, <2>3 DEF TypeOK
  <1>r. ASSUME NEW e \in Engines, Reap(e)
        PROVE  life' \in [Engines -> {"none", "running", "zombie", "reaped"}] /\ waited' \in [Engines -> BOOLEAN]
    BY <1>r DEF Reap, TypeOK
  <1>11. ASSUME NEW w \in Workers, Turn(w) PROVE TypeOK'
    <2>1. PICK i \in 1..GameSize : /\ Reap(seats[w][i])
                                   /\ Go(w, At(IF life[seats[w][i]] = "running" THEN "search" ELSE "broken", seats[w][i]))
      BY <1>11 DEF Turn
    <2>2. seats[w][i] \in Engines
      BY <1>11, SeqFacts DEF Turn, Seated, TypeOK
    <2>3. \E r \in PcRecord : pc' = [pc EXCEPT ![w] = r]
      BY <2>1, <2>2, AtType DEF Places
    <2> QED BY <1>11, <1>g, <1>r, <2>1, <2>2, <2>3 DEF Turn, TypeOK
  <1>12. ASSUME NEW w \in Workers, Restart(w) PROVE TypeOK'
    <2>1. pc[w].engine \in Engines /\ stop' \in BOOLEAN
      BY <1>12, <1>e DEF Restart, Reaches, FreePlaces, TypeOK
    <2>2. \A e \in Engines : [At("replace", e) EXCEPT !.pipes = Pipes] \in PcRecord
      BY PipesType, AtType DEF PcRecord, At, Places
    <2>3. \E r \in PcRecord : pc' = [pc EXCEPT ![w] = r]
      BY <1>12, <2>2, AtType DEF Restart, Idle, Places
    <2> QED BY <1>12, <1>g, <1>r, <2>1, <2>3 DEF Restart, TypeOK
  <1>13. ASSUME NEW w \in Workers, Replace(w) PROVE TypeOK'
    <2> DEFINE dead == SelectInSeq(seats[w], LAMBDA e : waited[e])
    <2>1. pc[w].engine \in Engines
      BY <1>13, <1>e DEF Replace, Reaches, FreePlaces
    <2>2. dead \in DOMAIN seats[w]
      <3>1. \E i \in DOMAIN seats[w] : waited[seats[w][i]]
        BY <1>13 DEF Replace, Reaches, DeadIsSeated
      <3> QED BY <3>1, WaitedFacts
    <2> HIDE DEF dead
    <2>3. seats[w] \in Seq(Engines) /\ seats[w][dead] \in Engines
      BY <2>2, SeqFacts DEF TypeOK
    <2>4. seats' = [seats EXCEPT ![w][dead] = pc[w].engine] /\ Go(w, At("quit", seats[w][dead]))
      BY <1>13 DEF Replace, dead
    <2>5. [seats[w] EXCEPT ![dead] = pc[w].engine] \in Seq(Engines)
      BY <2>1, <2>2, <2>3
    <2>6. seats' \in [Workers -> Seq(Engines)]
      BY <2>4, <2>5 DEF TypeOK
    <2>7. At("quit", seats[w][dead]) \in PcRecord
      BY <2>3, AtType DEF Places
    <2> QED BY <1>13, <1>g, <2>4, <2>6, <2>7 DEF Replace, TypeOK
  <1>14. ASSUME NEW t \in Threads, Quit(t) PROVE TypeOK'
    <2>1. pc[t].engine \in Engines
      BY <1>14, <1>e DEF Quit, FreePlaces
    <2>2. life' \in [Engines -> {"none", "running", "zombie", "reaped"}] /\ waited' \in [Engines -> BOOLEAN]
      BY <1>14, <1>r, <2>1 DEF Quit, TypeOK
    <2>3. \E r \in PcRecord : pc' = [pc EXCEPT ![t] = r]
      BY <1>14, <2>1, AtType DEF Quit, Places
    <2> QED BY <1>14, <1>g, <2>2, <2>3 DEF Quit, TypeOK
  <1>15. ASSUME NEW t \in Threads, Unlist(t) \/ Wait(t) \/ Close(t) PROVE TypeOK'
    <2>1. pc[t].engine \in Engines
      BY <1>15, <1>e DEF Unlist, Wait, Close, FreePlaces
    <2>2. \E r \in PcRecord : pc' = [pc EXCEPT ![t] = r]
      BY <1>15, <2>1, AtType DEF Unlist, Wait, Close, Idle, Places
    <2>3. /\ list' \subseteq Engines /\ life' \in [Engines -> {"none", "running", "zombie", "reaped"}]
          /\ held' \in [Engines -> SUBSET (Engines \X PipeEnds)] /\ waited' \in [Engines -> BOOLEAN]
      BY <1>15 DEF Unlist, Wait, Close, TypeOK
    <2>4. /\ event' \in [Engines -> {"closed", "clear", "set"}] /\ ends' \in [Engines -> SUBSET PipeEnds]
          /\ open' \subseteq Engines \X PipeNames /\ UNCHANGED <<stop, torn, seats, strangers>>
      BY <1>15 DEF Unlist, Wait, Close, TypeOK
    <2> QED BY <1>g, <2>2, <2>3, <2>4 DEF TypeOK
  <1>16. ASSUME Exit PROVE TypeOK'
    <2>1. \E r \in PcRecord : pc' = [pc EXCEPT ![Main] = r]
      BY <1>16, AtType DEF Exit, Places
    <2> QED BY <1>16, <1>g, <2>1 DEF Exit, TypeOK
  <1>17. ASSUME TakeDown PROVE TypeOK'
    <2>1. PICK w \in Workers : /\ seats[w] # <<>>
                               /\ seats' = [seats EXCEPT ![w] = Tail(@)]
                               /\ Go(Main, At("quit", Head(seats[w])))
      BY <1>17 DEF TakeDown
    <2>2. Head(seats[w]) \in Engines /\ Tail(seats[w]) \in Seq(Engines)
      BY <2>1, SeqFacts DEF TypeOK
    <2>3. seats' \in [Workers -> Seq(Engines)]
      BY <2>1, <2>2 DEF TypeOK
    <2>4. At("quit", Head(seats[w])) \in PcRecord
      BY <2>2, AtType DEF Places
    <2> QED BY <1>17, <1>g, <2>1, <2>3, <2>4 DEF TakeDown, TypeOK
  <1>18. ASSUME WakeReaders \/ StopTournament \/ (\E e \in Engines : Dies(e)) PROVE TypeOK'
    BY <1>18 DEF WakeReaders, StopTournament, Dies, TypeOK
  <1>19. ASSUME UNCHANGED vars PROVE TypeOK'
    BY <1>19 DEF vars, TypeOK
  <1> QED BY <1>1, <1>2, <1>3, <1>4, <1>5, <1>6, <1>7, <1>8, <1>9, <1>10, <1>11, <1>12, <1>13, <1>14, <1>15, <1>16, <1>17,
             <1>18, <1>19 DEF Next, WorkerSteps, MainSteps

(* The fields of At. *)
LEMMA AtFields ==
  \A p, e : At(p, e).at = p /\ At(p, e).engine = e /\ At(p, e).pipes = <<>>
  BY DEF At

\* An engine is in the cache of a worker.
InSeat(e) == \E w \in Workers : \E i \in DOMAIN seats[w] : seats[w][i] = e

(* A new object is in no seat and in nobody's hands. *)
LEMMA FreshFacts ==
  ASSUME NEW e \in Engines, Fresh(e)
  PROVE  /\ ~InSeat(e) /\ \A t \in Threads : pc[t].engine # e
         /\ life[e] = "none" /\ ends[e] = {} /\ ~waited[e]
  <1>1. \A w \in Workers : e \notin {seats[w][i] : i \in DOMAIN seats[w]}
    BY DEF Fresh, ToSet
  <1>2. ~InSeat(e)
    BY <1>1 DEF InSeat
  <1>3. \A t \in Threads : pc[t].engine # e
    BY DEF Fresh
  <1>4. life[e] = "none" /\ ends[e] = {}
    BY DEF Fresh
  <1>5. ~waited[e]
    BY DEF Fresh
  <1> QED BY <1>2, <1>3, <1>4, <1>5

(* The fields of a thread that has a new object. *)
LEMMA NewFields ==
  \A p \in Places, e \in Engines :
     /\ [At(p, e) EXCEPT !.pipes = Pipes].at = p
     /\ [At(p, e) EXCEPT !.pipes = Pipes].engine = e
  BY DEF At

(* The place of a thread after each of its steps. *)
LEMMA StepWhereabouts == ASSUME TypeOK, Whereabouts, DeadIsSeated, [Next]_vars PROVE Whereabouts'
  <1> USE ThreadFacts, AtFields DEF Go
  <1>p. pc \in [Threads -> PcRecord]
    BY TypeEq
  <1>e. \A t \in Threads : pc[t].at \notin FreePlaces => pc[t].engine \in Engines
    BY <1>p DEF PcRecord, Whereabouts
  <1>w. ASSUME NEW w \in Workers, \A s \in Threads : s # w => pc'[s] = pc[s],
               \/ pc'[w].at \in SeatPlaces \cup LoosePlaces /\ pc'[w].engine \in Engines
               \/ pc'[w].at \in {"idle", "done"} /\ pc'[w].engine = NoEngine,
               pc'[w].pipes # <<>> => pc'[w].at \in {"built", "replace", "spawn"}
        PROVE  Whereabouts'
    BY <1>w DEF Whereabouts, SeatPlaces, LoosePlaces, FreePlaces
  <1>m. ASSUME \A s \in Workers : pc'[s] = pc[s],
               \/ pc'[Main].at \in {"quit", "unlist", "wait", "close"} /\ pc'[Main].engine \in Engines
               \/ pc'[Main].at \in {"idle", "over"} /\ pc'[Main].engine = NoEngine,
               pc'[Main].pipes = <<>>
        PROVE  Whereabouts'
    BY <1>m DEF Whereabouts, SeatPlaces, LoosePlaces, FreePlaces
  <1>1. ASSUME NEW w \in Workers, CreatePipe(w) PROVE Whereabouts'
    BY <1>1 DEF CreatePipe, Whereabouts
  <1>2. ASSUME NEW w \in Workers, CloseOnExec(w) PROVE Whereabouts'
    <2>1. pc'[w].at = pc[w].at /\ pc'[w].engine = pc[w].engine /\ \A s \in Threads : s # w => pc'[s] = pc[s]
      BY <1>2, <1>p DEF CloseOnExec, PcRecord
    <2>2. pc[w].at \in {"built", "replace", "spawn"}
      BY <1>2 DEF CloseOnExec, Whereabouts
    <2> QED BY <2>1, <2>2 DEF Whereabouts, FreePlaces
  <1>3. ASSUME NEW w \in Workers, Construct(w) \/ Restart(w) PROVE Whereabouts'
    <2>1. \/ \E e \in Engines, p \in {"built", "replace"} : pc' = [pc EXCEPT ![w] = [At(p, e) EXCEPT !.pipes = Pipes]]
          \/ pc' = [pc EXCEPT ![w] = Idle]
      BY <1>3 DEF Construct, Restart
    <2>2. CASE pc' = [pc EXCEPT ![w] = Idle]
      BY <1>p, <1>w, <2>2 DEF Idle
    <2>3. ASSUME NEW e \in Engines, NEW p \in {"built", "replace"}, pc' = [pc EXCEPT ![w] = [At(p, e) EXCEPT !.pipes = Pipes]]
          PROVE  Whereabouts'
      <3>1. pc'[w].at = p /\ pc'[w].engine = e
        BY <1>p, <2>3, NewFields DEF Places
      <3> QED BY <1>p, <1>w, <2>3, <3>1 DEF LoosePlaces
    <2> QED BY <2>1, <2>2, <2>3
  <1>4. ASSUME NEW w \in Workers, TakeSeat(w) \/ Answers(w) \/ Interrupted(w) \/ NotGreeted(w) \/ Leave(w) PROVE Whereabouts'
    <2>1. \E p \in {"idle", "done"} : pc' = [pc EXCEPT ![w] = At(p, NoEngine)]
      BY <1>4 DEF TakeSeat, Answers, Interrupted, NotGreeted, Leave, Idle
    <2> QED BY <1>p, <1>w, <2>1
  <1>5. ASSUME NEW w \in Workers, BeginGame(w) \/ Greeted(w) PROVE Whereabouts'
    <2>1. Unstarted(w) # 0 => seats[w][Unstarted(w)] \in Engines
      BY UnstartedFacts, SeqFacts DEF TypeOK
    <2>2. \/ \E e \in Engines : pc' = [pc EXCEPT ![w] = At("acquire", e)]
          \/ pc' = [pc EXCEPT ![w] = At("idle", NoEngine)]
      BY <1>5, <2>1 DEF BeginGame, Greeted, Idle
    <2> QED BY <1>p, <1>w, <2>2 DEF SeatPlaces
  <1>6. ASSUME NEW w \in Workers, Acquire(w) \/ SpawnFails(w) PROVE Whereabouts'
    <2>1. pc[w].engine \in Engines
      BY <1>6, <1>e DEF Acquire, SpawnFails, Reaches, FreePlaces
    <2>2. \/ \E n \in Nat : pc' = [pc EXCEPT ![w] = Attempt(pc[w].engine, n)]
          \/ pc' = [pc EXCEPT ![w] = At("done", NoEngine)]
      BY <1>6 DEF Acquire, SpawnFails
    <2>3. CASE pc' = [pc EXCEPT ![w] = At("done", NoEngine)]
      BY <1>p, <1>w, <2>3
    <2>4. ASSUME NEW n \in Nat, pc' = [pc EXCEPT ![w] = Attempt(pc[w].engine, n)] PROVE Whereabouts'
      <3>1. pc'[w].at = "spawn" /\ pc'[w].engine = pc[w].engine /\ \A s \in Threads : s # w => pc'[s] = pc[s]
        BY <1>p, <2>1, <2>4, PipesType
      <3> QED BY <1>w, <2>1, <3>1 DEF SeatPlaces
    <2> QED BY <2>2, <2>3, <2>4
  <1>7. ASSUME NEW w \in Workers, Spawn(w) \/ Attach(w) \/ Disconnected(w) PROVE Whereabouts'
    <2>1. pc[w].engine \in Engines
      BY <1>7, <1>e DEF Spawn, Attach, Disconnected, Reaches, FreePlaces
    <2>2. \E p \in SeatPlaces : pc' = [pc EXCEPT ![w] = At(p, pc[w].engine)]
      BY <1>7 DEF Spawn, Attach, Disconnected, SeatPlaces
    <2> QED BY <1>p, <1>w, <2>1, <2>2
  <1>8. ASSUME NEW w \in Workers, Turn(w) PROVE Whereabouts'
    <2>1. \E e \in Engines, p \in SeatPlaces : pc' = [pc EXCEPT ![w] = At(p, e)]
      <3>1. PICK i \in 1..GameSize : Go(w, At(IF life[seats[w][i]] = "running" THEN "search" ELSE "broken", seats[w][i]))
        BY <1>8 DEF Turn
      <3>2. seats[w][i] \in Engines
        BY <1>8, SeqFacts DEF Turn, Seated, TypeOK
      <3> QED BY <3>1, <3>2 DEF SeatPlaces
    <2> QED BY <1>p, <1>w, <2>1
  <1>9. ASSUME NEW w \in Workers, Replace(w) PROVE Whereabouts'
    <2> DEFINE dead == SelectInSeq(seats[w], LAMBDA e : waited[e])
    <2>1. dead \in DOMAIN seats[w]
      <3>1. \E i \in DOMAIN seats[w] : waited[seats[w][i]]
        BY <1>9 DEF Replace, Reaches, DeadIsSeated
      <3> QED BY <3>1, WaitedFacts
    <2>2. pc' = [pc EXCEPT ![w] = At("quit", seats[w][dead])]
      BY <1>9 DEF Replace
    <2> HIDE DEF dead
    <2>3. seats[w][dead] \in Engines
      BY <2>1, SeqFacts DEF TypeOK
    <2> QED BY <1>p, <1>w, <2>2, <2>3 DEF LoosePlaces
  <1>10. ASSUME NEW t \in Threads, Quit(t) \/ Unlist(t) \/ Wait(t) \/ Close(t) PROVE Whereabouts'
    <2>1. pc[t].engine \in Engines
      BY <1>10, <1>e DEF Quit, Unlist, Wait, Close, FreePlaces
    <2>2. \/ \E p \in {"unlist", "wait", "close"} : pc' = [pc EXCEPT ![t] = At(p, pc[t].engine)]
          \/ pc' = [pc EXCEPT ![t] = At("idle", NoEngine)]
      BY <1>10 DEF Quit, Unlist, Wait, Close, Idle
    <2>3. CASE t = Main
      BY <1>p, <1>m, <2>1, <2>2, <2>3
    <2>4. CASE t \in Workers
      BY <1>p, <1>w, <2>1, <2>2, <2>4 DEF LoosePlaces
    <2> QED BY <2>3, <2>4
  <1>11. CASE TakeDown
    <2>1. \E e \in Engines : pc' = [pc EXCEPT ![Main] = At("quit", e)]
      BY <1>11, SeqFacts DEF TakeDown, TypeOK
    <2> QED BY <1>p, <1>m, <2>1
  <1>12. CASE Exit
    BY <1>p, <1>m, <1>12 DEF Exit
  <1>13. CASE WakeReaders \/ StopTournament \/ (\E e \in Engines : Dies(e))
    BY <1>13 DEF WakeReaders, StopTournament, Dies, Whereabouts
  <1>14. CASE UNCHANGED vars
    BY <1>14 DEF vars, Whereabouts
  <1> QED BY <1>1, <1>2, <1>3, <1>4, <1>5, <1>6, <1>7, <1>8, <1>9, <1>10, <1>11, <1>12, <1>13, <1>14
       DEF Next, WorkerSteps, MainSteps

-----------------------------------------------------------------------------
\* No engine has two seats; who makes or destroys one has it out of the seats, and alone; who uses
\* one has it in a seat.
SeatsDistinct ==
    \A v, w \in Workers : \A i \in DOMAIN seats[v], j \in DOMAIN seats[w] : seats[v][i] = seats[w][j] => v = w /\ i = j
LooseNotSeated == \A t \in Threads : pc[t].at \in LoosePlaces => ~InSeat(pc[t].engine)
OneDestroyer ==
    \A s, t \in Threads : pc[s].at \in LoosePlaces /\ pc[t].at \in LoosePlaces /\ pc[s].engine = pc[t].engine => s = t
UserIsSeated ==
    \A w \in Workers : pc[w].at \in SeatPlaces => \E i \in DOMAIN seats[w] : seats[w][i] = pc[w].engine

\* The four together.
Ownership == SeatsDistinct /\ LooseNotSeated /\ OneDestroyer /\ UserIsSeated

(* restartEngine puts the new engine in the seat of the dead one, and no other seat changes. *)
LEMMA ReplaceFacts ==
  ASSUME TypeOK, DeadIsSeated, NEW w \in Workers, Replace(w)
  PROVE  \E d \in DOMAIN seats[w] :
           /\ waited[seats[w][d]]
           /\ pc[w].at = "replace"
           /\ pc' = [pc EXCEPT ![w] = At("quit", seats[w][d])]
           /\ seats' = [seats EXCEPT ![w] = [seats[w] EXCEPT ![d] = pc[w].engine]]
           /\ DOMAIN seats'[w] = DOMAIN seats[w]
           /\ seats'[w][d] = pc[w].engine
           /\ \A i \in DOMAIN seats[w] : i # d => seats'[w][i] = seats[w][i]
  <1> DEFINE dead == SelectInSeq(seats[w], LAMBDA e : waited[e])
  <1>1. dead \in DOMAIN seats[w] /\ waited[seats[w][dead]]
    <2>1. \E i \in DOMAIN seats[w] : waited[seats[w][i]]
      BY DEF Replace, Reaches, DeadIsSeated
    <2>2. PICK d \in DOMAIN seats[w] : waited[seats[w][d]] /\ dead = d
      BY <2>1, WaitedFacts
    <2> QED BY <2>2
  <1>2. /\ pc[w].at = "replace"
        /\ pc' = [pc EXCEPT ![w] = At("quit", seats[w][dead])]
        /\ seats' = [seats EXCEPT ![w][dead] = pc[w].engine]
    BY DEF Replace, Reaches, Go
  <1> HIDE DEF dead
  <1>3. seats[w] \in Seq(Engines)
    BY DEF TypeOK
  <1>4. seats'[w] = [seats[w] EXCEPT ![dead] = pc[w].engine]
    BY <1>2 DEF TypeOK
  <1> QED BY <1>1, <1>2, <1>3, <1>4 DEF TypeOK

(* A step keeps the ownership of the engines. *)
LEMMA StepOwnership ==
  ASSUME TypeOK, Whereabouts, DeadIsSeated, Ownership, [Next]_vars
  PROVE  Ownership'
  <1> USE ThreadFacts, AtFields DEF Go
  <1>p. pc \in [Threads -> PcRecord]
    BY TypeEq
  <1>e. \A t \in Threads : pc[t].at \notin FreePlaces => pc[t].engine \in Engines
    BY <1>p DEF PcRecord, Whereabouts
  <1>d. SeatPlaces \cap LoosePlaces = {} /\ FreePlaces \cap (SeatPlaces \cup LoosePlaces) = {}
    BY DEF SeatPlaces, LoosePlaces, FreePlaces
  <1>stay. ASSUME seats' = seats,
                  \A t \in Threads : /\ pc'[t].engine = pc[t].engine
                                     /\ pc'[t].at \in SeatPlaces => pc[t].at \in SeatPlaces
                                     /\ pc'[t].at \in LoosePlaces => pc[t].at \in LoosePlaces
           PROVE  Ownership'
    BY <1>stay DEF Ownership, SeatsDistinct, LooseNotSeated, OneDestroyer, UserIsSeated, InSeat
  <1>rest. ASSUME seats' = seats, NEW t \in Threads, \A s \in Threads : s # t => pc'[s] = pc[s], pc'[t].at \in FreePlaces
           PROVE  Ownership'
    BY <1>d, <1>rest DEF Ownership, SeatsDistinct, LooseNotSeated, OneDestroyer, UserIsSeated, InSeat
  <1>sit. ASSUME seats' = seats, NEW w \in Workers, \A s \in Threads : s # w => pc'[s] = pc[s], pc'[w].at \in SeatPlaces,
                 \E i \in DOMAIN seats[w] : seats[w][i] = pc'[w].engine
          PROVE  Ownership'
    BY <1>d, <1>sit DEF Ownership, SeatsDistinct, LooseNotSeated, OneDestroyer, UserIsSeated, InSeat
  <1>new. ASSUME seats' = seats, NEW w \in Workers, \A s \in Threads : s # w => pc'[s] = pc[s], pc'[w].at \in LoosePlaces,
                 pc'[w].engine \in Engines, Fresh(pc'[w].engine)
          PROVE  Ownership'
    <2>1. ~InSeat(pc'[w].engine) /\ \A t \in Threads : pc[t].engine # pc'[w].engine
      BY <1>new, FreshFacts
    <2> QED BY <1>d, <1>new, <2>1 DEF Ownership, SeatsDistinct, LooseNotSeated, OneDestroyer, UserIsSeated, InSeat
  <1>1. ASSUME NEW w \in Workers, CreatePipe(w) PROVE Ownership'
    BY <1>1, <1>stay DEF CreatePipe
  <1>2. ASSUME NEW w \in Workers, CloseOnExec(w) PROVE Ownership'
    <2>1. pc'[w].at = pc[w].at /\ pc'[w].engine = pc[w].engine /\ \A s \in Threads : s # w => pc'[s] = pc[s]
      BY <1>2, <1>p DEF CloseOnExec, PcRecord
    <2> QED BY <1>2, <1>stay, <2>1 DEF CloseOnExec
  <1>3. ASSUME NEW w \in Workers, Construct(w) \/ Restart(w) PROVE Ownership'
    <2>1. /\ seats' = seats
          /\ \/ \E e \in Engines, p \in {"built", "replace"} : Fresh(e) /\ pc' = [pc EXCEPT ![w] = [At(p, e) EXCEPT !.pipes = Pipes]]
             \/ pc' = [pc EXCEPT ![w] = Idle]
      BY <1>3 DEF Construct, Restart
    <2>2. CASE pc' = [pc EXCEPT ![w] = Idle]
      BY <1>p, <1>rest, <2>1, <2>2 DEF Idle, FreePlaces
    <2>3. ASSUME NEW e \in Engines, NEW p \in {"built", "replace"}, Fresh(e), pc' = [pc EXCEPT ![w] = [At(p, e) EXCEPT !.pipes = Pipes]]
          PROVE  Ownership'
      <3>1. pc'[w].at = p /\ pc'[w].engine = e /\ \A s \in Threads : s # w => pc'[s] = pc[s]
        BY <1>p, <2>3, NewFields DEF Places
      <3> QED BY <1>new, <2>1, <2>3, <3>1 DEF LoosePlaces
    <2> QED BY <2>1, <2>2, <2>3
  <1>4. ASSUME NEW w \in Workers, Answers(w) \/ Interrupted(w) \/ NotGreeted(w) \/ Leave(w) PROVE Ownership'
    <2>1. seats' = seats /\ \E p \in {"idle", "done"} : pc' = [pc EXCEPT ![w] = At(p, NoEngine)]
      BY <1>4 DEF Answers, Interrupted, NotGreeted, Leave, Idle
    <2> QED BY <1>p, <1>rest, <2>1 DEF FreePlaces
  <1>4a. ASSUME NEW w \in Workers, TakeSeat(w) PROVE Ownership'
    <2> DEFINE e == pc[w].engine
    <2>1. /\ pc[w].at = "built" /\ seats' = [seats EXCEPT ![w] = Append(seats[w], e)]
          /\ pc'[w].at = "idle" /\ \A s \in Threads : s # w => pc'[s] = pc[s]
      BY <1>4a, <1>p DEF TakeSeat, Reaches, Idle, TypeOK
    <2>2. e \in Engines /\ ~InSeat(e)
      BY <2>1, <1>e DEF Ownership, LooseNotSeated, FreePlaces, LoosePlaces
    <2>3. \A v \in Workers : v # w => seats'[v] = seats[v]
      BY <2>1 DEF TypeOK
    <2>4. /\ DOMAIN seats[w] = 1..Len(seats[w]) /\ Len(seats[w]) \in Nat
          /\ DOMAIN seats'[w] = 1..(Len(seats[w]) + 1)
          /\ \A i \in DOMAIN seats[w] : seats'[w][i] = seats[w][i]
          /\ seats'[w][Len(seats[w]) + 1] = e
      BY <2>1, <2>2, SeqFacts DEF TypeOK
    <2>5. \A v \in Workers : \A i \in DOMAIN seats'[v] :
             \/ i \in DOMAIN seats[v] /\ seats'[v][i] = seats[v][i]
             \/ v = w /\ i = Len(seats[w]) + 1 /\ seats'[v][i] = e
      BY <2>3, <2>4
    <2>6. \A v \in Workers : \A i \in DOMAIN seats[v] : i \in DOMAIN seats'[v] /\ seats'[v][i] = seats[v][i]
      BY <2>3, <2>4
    <2> HIDE DEF e
    <2>7. SeatsDistinct'
      BY <2>2, <2>5 DEF Ownership, SeatsDistinct, InSeat
    <2>8. \A t \in Threads : t # w /\ pc[t].at \in LoosePlaces => pc[t].engine # e
      BY <2>1 DEF Ownership, OneDestroyer, LoosePlaces, e
    <2>9. LooseNotSeated'
      BY <2>1, <2>5, <2>8 DEF Ownership, LooseNotSeated, InSeat, LoosePlaces
    <2>10. OneDestroyer'
      BY <2>1 DEF Ownership, OneDestroyer, LoosePlaces
    <2>11. UserIsSeated'
      BY <2>1, <2>6 DEF Ownership, UserIsSeated, SeatPlaces
    <2> QED BY <2>7, <2>9, <2>10, <2>11 DEF Ownership
  <1>5. ASSUME NEW w \in Workers, BeginGame(w) \/ Greeted(w) PROVE Ownership'
    <2>1. Unstarted(w) # 0 => Unstarted(w) \in DOMAIN seats[w]
      BY UnstartedFacts
    <2>2. \/ Unstarted(w) # 0 /\ pc' = [pc EXCEPT ![w] = At("acquire", seats[w][Unstarted(w)])]
          \/ pc' = [pc EXCEPT ![w] = At("idle", NoEngine)]
      BY <1>5 DEF BeginGame, Greeted, Idle
    <2>3. seats' = seats
      BY <1>5 DEF BeginGame, Greeted
    <2>4. CASE pc' = [pc EXCEPT ![w] = At("idle", NoEngine)]
      BY <1>p, <1>rest, <2>3, <2>4 DEF FreePlaces
    <2>5. CASE Unstarted(w) # 0 /\ pc' = [pc EXCEPT ![w] = At("acquire", seats[w][Unstarted(w)])]
      BY <1>p, <1>sit, <2>1, <2>3, <2>5 DEF SeatPlaces
    <2> QED BY <2>2, <2>4, <2>5
  <1>6. ASSUME NEW w \in Workers, Acquire(w) \/ SpawnFails(w) PROVE Ownership'
    <2>1. pc[w].engine \in Engines /\ pc[w].at \in SeatPlaces
      BY <1>6, <1>e DEF Acquire, SpawnFails, Reaches, FreePlaces, SeatPlaces
    <2>2. /\ seats' = seats
          /\ \/ \E n \in Nat : pc' = [pc EXCEPT ![w] = Attempt(pc[w].engine, n)]
             \/ pc' = [pc EXCEPT ![w] = At("done", NoEngine)]
      BY <1>6 DEF Acquire, SpawnFails
    <2>3. CASE pc' = [pc EXCEPT ![w] = At("done", NoEngine)]
      BY <1>p, <1>rest, <2>2, <2>3 DEF FreePlaces
    <2>4. ASSUME NEW n \in Nat, pc' = [pc EXCEPT ![w] = Attempt(pc[w].engine, n)] PROVE Ownership'
      <3>1. pc'[w].at = "spawn" /\ pc'[w].engine = pc[w].engine /\ \A s \in Threads : s # w => pc'[s] = pc[s]
        BY <1>p, <2>1, <2>4, PipesType
      <3> QED BY <1>stay, <2>1, <2>2, <3>1 DEF LoosePlaces
    <2> QED BY <2>2, <2>3, <2>4
  <1>7. ASSUME NEW w \in Workers, Spawn(w) \/ Attach(w) \/ Disconnected(w) PROVE Ownership'
    <2>1. pc[w].at \in SeatPlaces /\ seats' = seats
      BY <1>7 DEF Spawn, Attach, Disconnected, Reaches, SeatPlaces
    <2>2. \E p \in SeatPlaces : pc' = [pc EXCEPT ![w] = At(p, pc[w].engine)]
      BY <1>7 DEF Spawn, Attach, Disconnected, SeatPlaces
    <2> QED BY <1>p, <1>d, <1>stay, <2>1, <2>2
  <1>8. ASSUME NEW w \in Workers, Turn(w) PROVE Ownership'
    <2>1. PICK i \in 1..GameSize : Go(w, At(IF life[seats[w][i]] = "running" THEN "search" ELSE "broken", seats[w][i]))
      BY <1>8 DEF Turn
    <2>2. i \in DOMAIN seats[w] /\ seats' = seats
      BY <1>8, SeqFacts DEF Turn, Seated, TypeOK
    <2> QED BY <1>p, <1>sit, <2>1, <2>2 DEF SeatPlaces
  <1>9. ASSUME NEW w \in Workers, Replace(w) PROVE Ownership'
    <2> DEFINE e == pc[w].engine
    <2>1. PICK d \in DOMAIN seats[w] :
           /\ pc[w].at = "replace"
           /\ pc' = [pc EXCEPT ![w] = At("quit", seats[w][d])]
           /\ seats' = [seats EXCEPT ![w] = [seats[w] EXCEPT ![d] = e]]
           /\ DOMAIN seats'[w] = DOMAIN seats[w]
           /\ seats'[w][d] = e
           /\ \A i \in DOMAIN seats[w] : i # d => seats'[w][i] = seats[w][i]
      BY <1>9, ReplaceFacts
    <2>2. ~InSeat(e) /\ \A t \in Threads : t # w /\ pc[t].at \in LoosePlaces => pc[t].engine # e
      BY <2>1 DEF Ownership, LooseNotSeated, OneDestroyer, LoosePlaces
    <2>3. /\ \A v \in Workers : v # w => seats'[v] = seats[v]
          /\ pc'[w].at = "quit" /\ pc'[w].engine = seats[w][d] /\ \A s \in Threads : s # w => pc'[s] = pc[s]
      BY <1>p, <2>1 DEF TypeOK
    <2>4. \A v \in Workers : \A i \in DOMAIN seats'[v] :
            i \in DOMAIN seats[v] /\ ((v = w /\ i = d /\ seats'[v][i] = e) \/ (~(v = w /\ i = d) /\ seats'[v][i] = seats[v][i]))
      BY <2>1, <2>3
    <2> HIDE DEF e
    <2>5. SeatsDistinct'
      BY <2>2, <2>4 DEF Ownership, SeatsDistinct, InSeat
    <2>6. LooseNotSeated'
      <3> SUFFICES ASSUME NEW t \in Threads, pc'[t].at \in LoosePlaces, NEW v \in Workers, NEW i \in DOMAIN seats'[v],
                          seats'[v][i] = pc'[t].engine
                   PROVE  FALSE
        BY DEF LooseNotSeated, InSeat
      <3>1. i \in DOMAIN seats[v] /\ (seats'[v][i] = e \/ (~(v = w /\ i = d) /\ seats'[v][i] = seats[v][i]))
        BY <2>4
      <3>2. CASE t = w
        BY <2>1, <2>2, <2>3, <3>1, <3>2 DEF Ownership, SeatsDistinct, InSeat
      <3>3. CASE t # w
        <4>1. pc'[t] = pc[t] /\ pc[t].engine # e
          BY <2>2, <2>3, <3>3
        <4>2. seats[v][i] = pc[t].engine
          BY <3>1, <4>1
        <4> QED BY <3>1, <4>1, <4>2 DEF Ownership, LooseNotSeated, InSeat
      <3> QED BY <3>2, <3>3
    <2>7. OneDestroyer'
      <3>1. \A t \in Threads : t # w /\ pc[t].at \in LoosePlaces => pc[t].engine # seats[w][d]
        BY <2>1 DEF Ownership, LooseNotSeated, InSeat
      <3>2. \A t \in Threads : t # w /\ pc'[t].at \in LoosePlaces => pc'[t].engine # seats[w][d]
        BY <2>3, <3>1
      <3> SUFFICES ASSUME NEW r \in Threads, NEW t \in Threads, pc'[r].at \in LoosePlaces, pc'[t].at \in LoosePlaces,
                          pc'[r].engine = pc'[t].engine, r # t
                   PROVE  FALSE
        BY DEF OneDestroyer
      <3>3. r # w /\ t # w
        BY <2>3, <3>2
      <3> QED BY <2>3, <3>3 DEF Ownership, OneDestroyer
    <2>8. UserIsSeated'
      <3> SUFFICES ASSUME NEW v \in Workers, pc'[v].at \in SeatPlaces
                   PROVE  \E i \in DOMAIN seats'[v] : seats'[v][i] = pc'[v].engine
        BY DEF UserIsSeated
      <3>1. v # w
        BY <2>3 DEF SeatPlaces
      <3> QED BY <2>3, <3>1 DEF Ownership, UserIsSeated
    <2> QED BY <2>5, <2>6, <2>7, <2>8 DEF Ownership
  <1>10. ASSUME NEW t \in Threads, Quit(t) \/ Unlist(t) \/ Wait(t) PROVE Ownership'
    <2>1. pc[t].at \in LoosePlaces /\ seats' = seats /\ \E p \in LoosePlaces : pc' = [pc EXCEPT ![t] = At(p, pc[t].engine)]
      BY <1>10 DEF Quit, Unlist, Wait, LoosePlaces
    <2> QED BY <1>p, <1>d, <1>stay, <2>1
  <1>10a. ASSUME NEW t \in Threads, Close(t) PROVE Ownership'
    BY <1>p, <1>10a, <1>rest DEF Close, Idle, FreePlaces
  <1>11. CASE TakeDown
    <2>1. PICK w \in Workers : /\ seats[w] # <<>>
                               /\ seats' = [seats EXCEPT ![w] = Tail(@)]
                               /\ Go(Main, At("quit", Head(seats[w])))
      BY <1>11 DEF TakeDown
    <2> DEFINE e == Head(seats[w])
    <2>2. /\ e = seats[w][1] /\ 1 \in DOMAIN seats[w]
          /\ DOMAIN seats[w] = 1..Len(seats[w]) /\ Len(seats[w]) \in Nat
          /\ seats'[w] = Tail(seats[w])
          /\ DOMAIN seats'[w] = 1..(Len(seats[w]) - 1)
          /\ \A i \in DOMAIN seats'[w] : i + 1 \in DOMAIN seats[w] /\ seats'[w][i] = seats[w][i + 1]
      BY <2>1, SeqFacts DEF TypeOK
    <2>3. /\ \A v \in Workers : v # w => seats'[v] = seats[v]
          /\ pc'[Main].at = "quit" /\ pc'[Main].engine = e /\ \A s \in Workers : pc'[s] = pc[s]
          /\ \A s \in Workers : pc[s].at = "done"
      BY <1>p, <1>11, <2>1 DEF TypeOK, TakeDown
    <2>4a. ASSUME NEW i \in DOMAIN seats'[w]
           PROVE  i \in Nat /\ i > 0 /\ i + 1 \in DOMAIN seats[w] /\ seats'[w][i] = seats[w][i + 1]
      <3>1. i \in 1..(Len(seats[w]) - 1) /\ i + 1 \in DOMAIN seats[w] /\ seats'[w][i] = seats[w][i + 1]
        BY <2>2, <2>4a
      <3> QED BY <2>2, <3>1
    <2>4b. ASSUME NEW v \in Workers, v # w, NEW i \in DOMAIN seats'[v]
           PROVE  i \in DOMAIN seats[v] /\ seats'[v][i] = seats[v][i]
      BY <2>3, <2>4b
    <2>4. \A v \in Workers : \A i \in DOMAIN seats'[v] :
            (v # w /\ i \in DOMAIN seats[v] /\ seats'[v][i] = seats[v][i])
              \/ (v = w /\ i \in Nat /\ i > 0 /\ i + 1 \in DOMAIN seats[w] /\ seats'[v][i] = seats[w][i + 1])
      <3> SUFFICES ASSUME NEW v \in Workers, NEW i \in DOMAIN seats'[v]
                   PROVE  (v # w /\ i \in DOMAIN seats[v] /\ seats'[v][i] = seats[v][i])
                            \/ (v = w /\ i \in Nat /\ i > 0 /\ i + 1 \in DOMAIN seats[w] /\ seats'[v][i] = seats[w][i + 1])
        OBVIOUS
      <3>1. CASE v = w
        BY <2>4a, <3>1
      <3>2. CASE v # w
        BY <2>4b, <3>2
      <3> QED BY <3>1, <3>2
    <2> HIDE DEF e
    <2>5. SeatsDistinct'
      <3> SUFFICES ASSUME NEW v \in Workers, NEW u \in Workers, NEW i \in DOMAIN seats'[v], NEW j \in DOMAIN seats'[u],
                          seats'[v][i] = seats'[u][j]
                   PROVE  v = u /\ i = j
        BY DEF SeatsDistinct
      <3>0. \A x, y \in Workers : \A k \in DOMAIN seats[x], l \in DOMAIN seats[y] : seats[x][k] = seats[y][l] => x = y /\ k = l
        BY DEF Ownership, SeatsDistinct
      <3>1. CASE v = w /\ u = w
        <4>1. i \in Nat /\ j \in Nat /\ i + 1 \in DOMAIN seats[w] /\ j + 1 \in DOMAIN seats[w]
          BY <2>4, <3>1
        <4>2. seats[w][i + 1] = seats[w][j + 1]
          BY <2>4, <3>1
        <4>3. i + 1 = j + 1
          BY <3>0, <4>1, <4>2
        <4> QED BY <3>1, <4>1, <4>3
      <3>2. CASE v # w /\ u # w
        BY <2>4, <3>0, <3>2
      <3>3. CASE v = w /\ u # w
        BY <2>4, <3>0, <3>3
      <3>4. CASE v # w /\ u = w
        BY <2>4, <3>0, <3>4
      <3> QED BY <3>1, <3>2, <3>3, <3>4
    <2>6. ASSUME NEW v \in Workers, NEW i \in DOMAIN seats'[v], seats'[v][i] = e PROVE FALSE
      <3>0. \A x, y \in Workers : \A k \in DOMAIN seats[x], l \in DOMAIN seats[y] : seats[x][k] = seats[y][l] => x = y /\ k = l
        BY DEF Ownership, SeatsDistinct
      <3>1. CASE v = w
        <4>1. i \in Nat /\ i > 0 /\ i + 1 \in DOMAIN seats[w] /\ seats[w][i + 1] = seats[w][1]
          BY <2>2, <2>4, <2>6, <3>1
        <4>2. i + 1 = 1
          BY <2>2, <3>0, <4>1
        <4> QED BY <4>1, <4>2
      <3>2. CASE v # w
        BY <2>2, <2>4, <2>6, <3>0, <3>2
      <3> QED BY <3>1, <3>2
    <2>7. \A s \in Threads : pc'[s].at \in LoosePlaces => s = Main
      BY <2>3 DEF LoosePlaces
    <2>8. LooseNotSeated'
      BY <2>3, <2>6, <2>7 DEF LooseNotSeated, InSeat
    <2>9. OneDestroyer'
      BY <2>7 DEF OneDestroyer
    <2>10. UserIsSeated'
      BY <2>3 DEF UserIsSeated, SeatPlaces
    <2> QED BY <2>5, <2>8, <2>9, <2>10 DEF Ownership
  <1>12. CASE Exit
    BY <1>p, <1>12, <1>rest DEF Exit, FreePlaces
  <1>13. CASE WakeReaders \/ StopTournament \/ (\E e \in Engines : Dies(e))
    BY <1>13, <1>stay DEF WakeReaders, StopTournament, Dies
  <1>14. CASE UNCHANGED vars
    BY <1>14, <1>stay DEF vars
  <1> QED BY <1>1, <1>2, <1>3, <1>4, <1>4a, <1>5, <1>6, <1>7, <1>8, <1>9, <1>10, <1>10a, <1>11, <1>12, <1>13, <1>14
       DEF Next, WorkerSteps, MainSteps

(* No two threads have the same engine. *)
LEMMA OneUser ==
  ASSUME Whereabouts, Ownership, NEW s \in Threads, NEW t \in Threads,
         pc[s].at \in SeatPlaces \cup LoosePlaces, pc[t].at \in SeatPlaces \cup LoosePlaces, pc[s].engine = pc[t].engine
  PROVE  s = t
  <1> USE ThreadFacts
  <1>1. \A r \in Threads : pc[r].at \in SeatPlaces => r \in Workers /\ InSeat(pc[r].engine)
    BY DEF Whereabouts, SeatPlaces, Ownership, UserIsSeated, InSeat
  <1>2. CASE pc[s].at \in LoosePlaces /\ pc[t].at \in LoosePlaces
    BY <1>2 DEF Ownership, OneDestroyer
  <1>3. CASE pc[s].at \in SeatPlaces /\ pc[t].at \in SeatPlaces
    BY <1>1, <1>3 DEF Ownership, UserIsSeated, SeatsDistinct
  <1>4. CASE pc[s].at \in SeatPlaces /\ pc[t].at \in LoosePlaces
    BY <1>1, <1>4 DEF Ownership, LooseNotSeated
  <1>5. CASE pc[s].at \in LoosePlaces /\ pc[t].at \in SeatPlaces
    BY <1>1, <1>5 DEF Ownership, LooseNotSeated
  <1> QED BY <1>2, <1>3, <1>4, <1>5

-----------------------------------------------------------------------------
\* The process of the engine of a thread, at each place.
LifeAt(place, state) ==
    /\ place \in {"built", "replace", "acquire", "spawn"} => state = "none"
    /\ place \in {"attach", "uciok", "search", "unlist", "wait"} => state # "none"
    /\ place = "broken" => state \in {"zombie", "reaped"}
    /\ place = "close" => state \in {"none", "reaped"}
\* The process of a thread's engine is as far as the thread's place says.
Lives == \A t \in Threads : LifeAt(pc[t].at, life[pc[t].engine])

\* A process that holds an end of a pipe runs.
HeldByRunning == \A e \in Engines : held[e] # {} => life[e] = "running"
\* A process that runs holds the end it writes to.
RunningHolds == \A e \in Engines : life[e] = "running" => <<e, <<"in", "w">> >> \in held[e]
\* Who holds an end of another engine's pipe has inherited it.
HeldByStrangers == \A f \in Engines : \A x \in held[f] : x[1] # f => <<x[1], x[2][1]>> \in strangers

\* Nothing is spawned, and no process comes back.
LifeKept ==
    \A e \in Engines : /\ life[e] = "none" <=> life'[e] = "none"
                       /\ life[e] = "reaped" => life'[e] = "reaped"
                       /\ life[e] = "zombie" => life'[e] \in {"zombie", "reaped"}

(* alive() brings no process back. *)
LEMMA ReapKeeps == ASSUME TypeOK, NEW e \in Engines, Reap(e) PROVE LifeKept
  BY DEF TypeOK, Reap, LifeKept

(* A step keeps Lives: in particular a hang-up is seen of a dead engine only. *)
LEMMA StepLives ==
  ASSUME TypeOK, Whereabouts, Ownership, Lives, RunningHolds, [Next]_vars
  PROVE  Lives'
  <1> USE ThreadFacts, AtFields DEF Go
  <1>p. pc \in [Threads -> PcRecord]
    BY TypeEq
  <1>e. \A t \in Threads : pc[t].at \notin FreePlaces => pc[t].engine \in Engines
    BY <1>p DEF PcRecord, Whereabouts
  <1>l. \A t \in Threads : LifeAt(pc[t].at, life[pc[t].engine])
    BY DEF Lives
  <1>f. \A x : LifeAt("idle", x) /\ LifeAt("done", x) /\ LifeAt("over", x) /\ LifeAt("quit", x)
    BY DEF LifeAt
  <1>kept. ASSUME LifeKept, NEW s \in Threads, pc'[s].at = pc[s].at, pc'[s].engine = pc[s].engine
           PROVE  LifeAt(pc'[s].at, life'[pc'[s].engine])
    <2>1. CASE pc[s].at \in FreePlaces
      BY <1>f, <1>kept, <2>1 DEF FreePlaces
    <2>2. CASE pc[s].at \notin FreePlaces
      <3>1. pc[s].engine \in Engines /\ LifeAt(pc[s].at, life[pc[s].engine]) /\ life[pc[s].engine] \in {"none", "running", "zombie", "reaped"}
        BY <1>e, <1>l, <2>2 DEF TypeOK
      <3> QED BY <1>kept, <3>1 DEF LifeAt, LifeKept
    <2> QED BY <2>1, <2>2
  <1>step. ASSUME LifeKept, NEW t \in Threads, \A s \in Threads : s # t => pc'[s] = pc[s], LifeAt(pc'[t].at, life'[pc'[t].engine])
           PROVE  Lives'
    BY <1>kept, <1>step DEF Lives
  <1>same. ASSUME LifeKept, \A s \in Threads : pc'[s].at = pc[s].at /\ pc'[s].engine = pc[s].engine
           PROVE  Lives'
    BY <1>kept, <1>same DEF Lives
  <1>id. life' = life => LifeKept
    BY DEF LifeKept
  <1>1. ASSUME NEW w \in Workers, CreatePipe(w) PROVE Lives'
    BY <1>1, <1>id, <1>same DEF CreatePipe
  <1>2. ASSUME NEW w \in Workers, CloseOnExec(w) PROVE Lives'
    <2>1. \A s \in Threads : pc'[s].at = pc[s].at /\ pc'[s].engine = pc[s].engine
      BY <1>2, <1>p DEF CloseOnExec, PcRecord
    <2> QED BY <1>2, <1>id, <1>same, <2>1 DEF CloseOnExec, children
  <1>3. ASSUME NEW w \in Workers, Construct(w) PROVE Lives'
    <2>1. PICK e \in Engines : Fresh(e) /\ pc' = [pc EXCEPT ![w] = [At("built", e) EXCEPT !.pipes = Pipes]]
      BY <1>3 DEF Construct
    <2>2. pc'[w].at = "built" /\ pc'[w].engine = e /\ \A s \in Threads : s # w => pc'[s] = pc[s]
      BY <1>p, <2>1, NewFields DEF Places
    <2>3. life' = life /\ life[e] = "none"
      BY <1>3, <2>1, FreshFacts DEF Construct, children
    <2> QED BY <1>id, <1>step, <2>2, <2>3 DEF LifeAt
  <1>4. ASSUME NEW w \in Workers, TakeSeat(w) \/ Answers(w) \/ Interrupted(w) \/ NotGreeted(w) \/ Leave(w) PROVE Lives'
    <2>1. life' = life /\ \E p \in {"idle", "done"} : pc' = [pc EXCEPT ![w] = At(p, NoEngine)]
      BY <1>4 DEF TakeSeat, Answers, Interrupted, NotGreeted, Leave, Idle, children
    <2> QED BY <1>p, <1>f, <1>id, <1>step, <2>1
  <1>5. ASSUME NEW w \in Workers, BeginGame(w) \/ Greeted(w) PROVE Lives'
    <2>1. Unstarted(w) # 0 => life[seats[w][Unstarted(w)]] = "none"
      BY UnstartedFacts DEF Started
    <2>2. \/ Unstarted(w) # 0 /\ pc' = [pc EXCEPT ![w] = At("acquire", seats[w][Unstarted(w)])]
          \/ pc' = [pc EXCEPT ![w] = At("idle", NoEngine)]
      BY <1>5 DEF BeginGame, Greeted, Idle
    <2>3. life' = life
      BY <1>5 DEF BeginGame, Greeted, children
    <2>4. CASE pc' = [pc EXCEPT ![w] = At("idle", NoEngine)]
      BY <1>p, <1>f, <1>id, <1>step, <2>3, <2>4
    <2>5. CASE Unstarted(w) # 0 /\ pc' = [pc EXCEPT ![w] = At("acquire", seats[w][Unstarted(w)])]
      BY <1>p, <1>id, <1>step, <2>1, <2>3, <2>5 DEF LifeAt
    <2> QED BY <2>2, <2>4, <2>5
  <1>6. ASSUME NEW w \in Workers, Acquire(w) \/ SpawnFails(w) PROVE Lives'
    <2>1. pc[w].engine \in Engines /\ life[pc[w].engine] = "none" /\ life' = life
      BY <1>6, <1>e, <1>l DEF Acquire, SpawnFails, Reaches, FreePlaces, LifeAt, children
    <2>2. \/ \E n \in Nat : pc' = [pc EXCEPT ![w] = Attempt(pc[w].engine, n)]
          \/ pc' = [pc EXCEPT ![w] = At("done", NoEngine)]
      BY <1>6 DEF Acquire, SpawnFails
    <2>3. CASE pc' = [pc EXCEPT ![w] = At("done", NoEngine)]
      BY <1>p, <1>f, <1>id, <1>step, <2>1, <2>3
    <2>4. ASSUME NEW n \in Nat, pc' = [pc EXCEPT ![w] = Attempt(pc[w].engine, n)] PROVE Lives'
      <3>1. pc'[w].at = "spawn" /\ pc'[w].engine = pc[w].engine /\ \A s \in Threads : s # w => pc'[s] = pc[s]
        BY <1>p, <2>1, <2>4, PipesType
      <3> QED BY <1>id, <1>step, <2>1, <3>1 DEF LifeAt
    <2> QED BY <2>2, <2>3, <2>4
  <1>7. ASSUME NEW w \in Workers, Spawn(w) PROVE Lives'
    <2>1. /\ pc[w].at = "spawn" /\ pc[w].engine \in Engines
          /\ pc'[w].at = "attach" /\ pc'[w].engine = pc[w].engine /\ \A s \in Threads : s # w => pc'[s] = pc[s]
          /\ life' = [life EXCEPT ![pc[w].engine] = "running"]
      BY <1>7, <1>p, <1>e DEF Spawn, Reaches, FreePlaces
    <2>2. LifeAt(pc'[w].at, life'[pc'[w].engine])
      BY <2>1 DEF LifeAt, TypeOK
    <2>3. ASSUME NEW s \in Threads, s # w PROVE LifeAt(pc'[s].at, life'[pc'[s].engine])
      <3>1. CASE pc[s].at \in SeatPlaces \cup LoosePlaces
        <4>1. pc[s].engine # pc[w].engine
          BY <2>1, <2>3, <3>1, OneUser DEF SeatPlaces
        <4>2. life'[pc[s].engine] = life[pc[s].engine]
          BY <2>1, <4>1 DEF TypeOK
        <4> QED BY <1>l, <2>1, <2>3, <4>2
      <3>2. CASE pc[s].at \notin SeatPlaces \cup LoosePlaces
        BY <1>f, <2>1, <2>3, <3>2 DEF Whereabouts, LoosePlaces
      <3> QED BY <3>1, <3>2
    <2> QED BY <2>2, <2>3 DEF Lives
  <1>8. ASSUME NEW w \in Workers, Attach(w) PROVE Lives'
    <2>1. pc[w].at = "attach" /\ life' = life /\ pc' = [pc EXCEPT ![w] = At("uciok", pc[w].engine)]
      BY <1>8 DEF Attach, Reaches, children
    <2>2. LifeAt("uciok", life[pc[w].engine])
      BY <1>l, <2>1 DEF LifeAt
    <2> QED BY <1>p, <1>id, <1>step, <2>1, <2>2
  <1>9. ASSUME NEW w \in Workers, Disconnected(w) PROVE Lives'
    <2>1. /\ pc[w].at = "search" /\ pc[w].engine \in Engines
          /\ life' = life /\ pc' = [pc EXCEPT ![w] = At("broken", pc[w].engine)]
          /\ HungUp(pc[w].engine)
      BY <1>9, <1>e DEF Disconnected, Reaches, FreePlaces, children
    <2>2. life[pc[w].engine] # "none" /\ life[pc[w].engine] # "running"
      BY <1>l, <2>1 DEF LifeAt, HungUp, RunningHolds
    <2>3. LifeAt("broken", life[pc[w].engine])
      BY <2>1, <2>2 DEF LifeAt, TypeOK
    <2> QED BY <1>p, <1>id, <1>step, <2>1, <2>3
  <1>10. ASSUME NEW w \in Workers, Turn(w) PROVE Lives'
    <2>1. PICK i \in 1..GameSize : /\ Reap(seats[w][i])
                                   /\ Go(w, At(IF life[seats[w][i]] = "running" THEN "search" ELSE "broken", seats[w][i]))
      BY <1>10 DEF Turn
    <2> DEFINE e == seats[w][i]
    <2>2. i \in DOMAIN seats[w] /\ e \in Engines /\ life[e] # "none"
      BY <1>10, SeqFacts, UnstartedFacts DEF Turn, Seated, TypeOK, Started
    <2>3. LifeKept
      BY <2>1, <2>2, ReapKeeps
    <2>4. LifeAt(IF life[e] = "running" THEN "search" ELSE "broken", life'[e])
      BY <2>1, <2>2 DEF LifeAt, Reap, TypeOK
    <2> HIDE DEF e
    <2> QED BY <1>p, <1>step, <2>1, <2>3, <2>4 DEF e
  <1>11. ASSUME NEW w \in Workers, Restart(w) PROVE Lives'
    <2>1. pc[w].engine \in Engines /\ Reap(pc[w].engine)
      BY <1>11, <1>e DEF Restart, Reaches, FreePlaces
    <2>2. LifeKept
      BY <2>1, ReapKeeps
    <2>3. CASE pc' = [pc EXCEPT ![w] = Idle]
      BY <1>p, <1>f, <1>step, <2>2, <2>3 DEF Idle
    <2>4. ASSUME NEW f \in Engines, Fresh(f), pc' = [pc EXCEPT ![w] = [At("replace", f) EXCEPT !.pipes = Pipes]] PROVE Lives'
      <3>1. pc'[w].at = "replace" /\ pc'[w].engine = f /\ \A s \in Threads : s # w => pc'[s] = pc[s]
        BY <1>p, <2>4, NewFields DEF Places
      <3>2. life[f] = "none"
        BY <2>4, FreshFacts
      <3>3. life'[f] = "none"
        BY <2>2, <3>2 DEF LifeKept
      <3> QED BY <1>step, <2>2, <3>1, <3>3 DEF LifeAt
    <2> QED BY <1>11, <2>3, <2>4 DEF Restart
  <1>12. ASSUME NEW w \in Workers, Replace(w) PROVE Lives'
    <2>1. life' = life /\ \E x : pc' = [pc EXCEPT ![w] = At("quit", x)]
      BY <1>12 DEF Replace, children
    <2> QED BY <1>p, <1>f, <1>id, <1>step, <2>1
  <1>13. ASSUME NEW t \in Threads, Quit(t) PROVE Lives'
    <2>1. pc[t].engine \in Engines
      BY <1>13, <1>e DEF Quit, FreePlaces
    <2>2. CASE Started(pc[t].engine)
      <3>1. Reap(pc[t].engine) /\ pc' = [pc EXCEPT ![t] = At("unlist", pc[t].engine)]
        BY <1>13, <2>2 DEF Quit
      <3>2. LifeKept
        BY <2>1, <3>1, ReapKeeps
      <3>3. LifeAt("unlist", life'[pc[t].engine])
        BY <2>1, <2>2, <3>2 DEF LifeAt, LifeKept, Started
      <3> QED BY <1>p, <1>step, <3>1, <3>2, <3>3
    <2>3. CASE ~Started(pc[t].engine)
      <3>1. life' = life /\ pc' = [pc EXCEPT ![t] = At("close", pc[t].engine)]
        BY <1>13, <2>3 DEF Quit
      <3>2. LifeAt("close", life[pc[t].engine])
        BY <2>3 DEF LifeAt, Started
      <3> QED BY <1>p, <1>id, <1>step, <3>1, <3>2
    <2> QED BY <2>2, <2>3
  <1>14. ASSUME NEW t \in Threads, Unlist(t) PROVE Lives'
    <2>1. pc[t].at = "unlist" /\ life' = life /\ pc' = [pc EXCEPT ![t] = At("wait", pc[t].engine)]
      BY <1>14 DEF Unlist, children
    <2>2. LifeAt("wait", life[pc[t].engine])
      BY <1>l, <2>1 DEF LifeAt
    <2> QED BY <1>p, <1>id, <1>step, <2>1, <2>2
  <1>15. ASSUME NEW t \in Threads, Wait(t) PROVE Lives'
    <2>1. /\ pc[t].engine \in Engines /\ life[pc[t].engine] # "none"
          /\ life' = [life EXCEPT ![pc[t].engine] = "reaped"] /\ pc' = [pc EXCEPT ![t] = At("close", pc[t].engine)]
      BY <1>15, <1>e, <1>l DEF Wait, FreePlaces, LifeAt
    <2>2. LifeKept /\ LifeAt("close", life'[pc[t].engine])
      BY <2>1 DEF LifeKept, TypeOK, LifeAt
    <2> QED BY <1>p, <1>step, <2>1, <2>2
  <1>16. ASSUME NEW t \in Threads, Close(t) PROVE Lives'
    <2>1. life' = life /\ pc' = [pc EXCEPT ![t] = At("idle", NoEngine)]
      BY <1>16 DEF Close, Idle, children
    <2> QED BY <1>p, <1>f, <1>id, <1>step, <2>1
  <1>17. CASE TakeDown
    <2>1. life' = life /\ \E x : pc' = [pc EXCEPT ![Main] = At("quit", x)]
      BY <1>17 DEF TakeDown, children
    <2> QED BY <1>p, <1>f, <1>id, <1>step, <2>1
  <1>18. CASE Exit
    <2>1. LifeKept
      BY <1>18 DEF Exit, LifeKept
    <2> QED BY <1>p, <1>f, <1>step, <1>18, <2>1 DEF Exit
  <1>19. CASE WakeReaders \/ StopTournament \/ UNCHANGED vars
    BY <1>19, <1>id, <1>same DEF WakeReaders, StopTournament, vars, children
  <1>20. ASSUME NEW e \in Engines, Dies(e) PROVE Lives'
    <2>1. LifeKept
      BY <1>20 DEF Dies, LifeKept, TypeOK
    <2> QED BY <1>20, <1>same, <2>1 DEF Dies
  <1> QED BY <1>1, <1>2, <1>3, <1>4, <1>5, <1>6, <1>7, <1>8, <1>9, <1>10, <1>11, <1>12, <1>13, <1>14, <1>15, <1>16, <1>17,
             <1>18, <1>19, <1>20 DEF Next, WorkerSteps, MainSteps

(* A step keeps DeadIsSeated: a broken engine has died, and isready learns so. *)
LEMMA StepDeadIsSeated ==
  ASSUME TypeOK, Whereabouts, Ownership, DeadIsSeated, Lives, [Next]_vars
  PROVE  DeadIsSeated'
  <1> USE ThreadFacts, AtFields DEF Go
  <1>p. pc \in [Threads -> PcRecord]
    BY TypeEq
  <1>e. \A t \in Threads : pc[t].at \notin FreePlaces => pc[t].engine \in Engines
    BY <1>p DEF PcRecord, Whereabouts
  <1>s. \A w \in Workers : \A i \in DOMAIN seats[w] : seats[w][i] \in Engines
    BY SeqFacts DEF TypeOK
  <1>m. ASSUME seats' = seats, \A e \in Engines : waited[e] => waited'[e],
               \A w \in Workers : pc'[w].at = "replace" => pc[w].at = "replace"
        PROVE  DeadIsSeated'
    BY <1>m, <1>s DEF DeadIsSeated
  <1>r. ASSUME NEW e \in Engines, Reap(e) PROVE \A f \in Engines : waited[f] => waited'[f]
    BY <1>r DEF Reap, TypeOK
  <1>1. ASSUME NEW w \in Workers, CreatePipe(w) PROVE DeadIsSeated'
    BY <1>1, <1>m DEF CreatePipe
  <1>2. ASSUME NEW w \in Workers, CloseOnExec(w) PROVE DeadIsSeated'
    <2>1. \A s \in Threads : pc'[s].at = pc[s].at
      BY <1>2, <1>p DEF CloseOnExec, PcRecord
    <2> QED BY <1>2, <1>m, <2>1 DEF CloseOnExec
  <1>3. ASSUME NEW w \in Workers, Construct(w) PROVE DeadIsSeated'
    <2>1. \E e \in Engines : pc' = [pc EXCEPT ![w] = [At("built", e) EXCEPT !.pipes = Pipes]]
      BY <1>3 DEF Construct
    <2>2. pc'[w].at = "built" /\ \A s \in Threads : s # w => pc'[s] = pc[s]
      BY <1>p, <2>1, NewFields DEF Places
    <2> QED BY <1>3, <1>m, <2>2 DEF Construct, parent
  <1>4. ASSUME NEW w \in Workers, Answers(w) \/ Interrupted(w) \/ NotGreeted(w) \/ Leave(w) PROVE DeadIsSeated'
    <2>1. seats' = seats /\ waited' = waited /\ \E p \in {"idle", "done"} : pc' = [pc EXCEPT ![w] = At(p, NoEngine)]
      BY <1>4 DEF Answers, Interrupted, NotGreeted, Leave, Idle, parent
    <2> QED BY <1>p, <1>m, <2>1
  <1>5. ASSUME NEW w \in Workers, TakeSeat(w) PROVE DeadIsSeated'
    <2>1. /\ pc'[w].at = "idle" /\ \A s \in Threads : s # w => pc'[s] = pc[s]
          /\ \A v \in Workers : v # w => seats'[v] = seats[v]
          /\ waited' = waited
      BY <1>5, <1>p DEF TakeSeat, Idle, TypeOK, parent
    <2> QED BY <2>1 DEF DeadIsSeated
  <1>6. ASSUME NEW w \in Workers, BeginGame(w) \/ Greeted(w) \/ Attach(w) \/ Disconnected(w) PROVE DeadIsSeated'
    <2>1. seats' = seats /\ waited' = waited /\ \E p \in {"acquire", "idle", "uciok", "broken"} : \E x : pc' = [pc EXCEPT ![w] = At(p, x)]
      BY <1>6 DEF BeginGame, Greeted, Attach, Disconnected, Idle, parent
    <2> QED BY <1>p, <1>m, <2>1
  <1>7. ASSUME NEW w \in Workers, Acquire(w) \/ SpawnFails(w) PROVE DeadIsSeated'
    <2>1. pc[w].engine \in Engines /\ seats' = seats /\ waited' = waited
      BY <1>7, <1>e DEF Acquire, SpawnFails, Reaches, FreePlaces, parent
    <2>2. \/ \E n \in Nat : pc' = [pc EXCEPT ![w] = Attempt(pc[w].engine, n)]
          \/ pc' = [pc EXCEPT ![w] = At("done", NoEngine)]
      BY <1>7 DEF Acquire, SpawnFails
    <2>3. pc'[w].at \in {"spawn", "done"} /\ \A s \in Threads : s # w => pc'[s] = pc[s]
      BY <1>p, <2>1, <2>2, PipesType
    <2> QED BY <1>m, <2>1, <2>3
  <1>8. ASSUME NEW w \in Workers, Spawn(w) PROVE DeadIsSeated'
    BY <1>8, <1>p, <1>m DEF Spawn, parent
  <1>9. ASSUME NEW w \in Workers, Turn(w) PROVE DeadIsSeated'
    <2>1. PICK i \in 1..GameSize : /\ Reap(seats[w][i])
                                   /\ Go(w, At(IF life[seats[w][i]] = "running" THEN "search" ELSE "broken", seats[w][i]))
      BY <1>9 DEF Turn
    <2>2. seats[w][i] \in Engines /\ seats' = seats
      BY <1>9, SeqFacts DEF Turn, Seated, TypeOK
    <2>3. \A e \in Engines : waited[e] => waited'[e]
      BY <1>r, <2>1, <2>2
    <2> QED BY <1>p, <1>m, <2>1, <2>2, <2>3
  <1>10. ASSUME NEW w \in Workers, Restart(w) PROVE DeadIsSeated'
    <2>1. pc[w].at = "broken" /\ pc[w].engine \in Engines /\ Reap(pc[w].engine) /\ seats' = seats /\ \A s \in Threads : s # w => pc'[s] = pc[s]
      BY <1>10, <1>p, <1>e DEF Restart, Reaches, FreePlaces
    <2>2. \A e \in Engines : waited[e] => waited'[e]
      BY <1>r, <2>1
    <2>3. life[pc[w].engine] \in {"zombie", "reaped"}
      BY <2>1 DEF Lives, LifeAt
    <2>4. waited'[pc[w].engine]
      BY <2>1, <2>3 DEF Reap, TypeOK
    <2>5. \E i \in DOMAIN seats[w] : seats[w][i] = pc[w].engine
      BY <2>1 DEF Ownership, UserIsSeated, SeatPlaces
    <2>6. \A v \in Workers : v # w /\ pc'[v].at = "replace" => \E i \in DOMAIN seats'[v] : waited'[seats'[v][i]]
      BY <1>s, <2>1, <2>2 DEF DeadIsSeated
    <2>7. \E i \in DOMAIN seats'[w] : waited'[seats'[w][i]]
      BY <2>1, <2>4, <2>5
    <2> QED BY <2>6, <2>7 DEF DeadIsSeated
  <1>11. ASSUME NEW w \in Workers, Replace(w) PROVE DeadIsSeated'
    <2>1. PICK d \in DOMAIN seats[w] : /\ pc' = [pc EXCEPT ![w] = At("quit", seats[w][d])]
                                       /\ seats' = [seats EXCEPT ![w] = [seats[w] EXCEPT ![d] = pc[w].engine]]
      BY <1>11, ReplaceFacts
    <2>2. /\ pc'[w].at = "quit" /\ \A s \in Threads : s # w => pc'[s] = pc[s]
          /\ \A v \in Workers : v # w => seats'[v] = seats[v]
          /\ waited' = waited
      BY <1>11, <1>p, <2>1 DEF Replace, TypeOK, parent
    <2> QED BY <2>2 DEF DeadIsSeated
  <1>12. ASSUME NEW t \in Threads, Quit(t) \/ Unlist(t) \/ Wait(t) \/ Close(t) PROVE DeadIsSeated'
    <2>1. seats' = seats /\ \E p \in {"unlist", "wait", "close", "idle"} : \E x : pc' = [pc EXCEPT ![t] = At(p, x)]
      BY <1>12 DEF Quit, Unlist, Wait, Close, Idle
    <2>2. pc[t].engine \in Engines
      BY <1>12, <1>e DEF Quit, Unlist, Wait, Close, FreePlaces
    <2>3. \A e \in Engines : waited[e] => waited'[e]
      BY <1>12, <1>r, <2>2 DEF Quit, Unlist, Wait, Close, TypeOK
    <2> QED BY <1>p, <1>m, <2>1, <2>3
  <1>13. CASE TakeDown
    <2>1. /\ \A v \in Workers : pc[v].at = "done"
          /\ \E x : pc' = [pc EXCEPT ![Main] = At("quit", x)]
      BY <1>13 DEF TakeDown
    <2> QED BY <1>p, <2>1 DEF DeadIsSeated
  <1>14. CASE Exit
    BY <1>14, <1>p, <1>m DEF Exit, parent
  <1>15. CASE WakeReaders \/ StopTournament \/ (\E e \in Engines : Dies(e)) \/ UNCHANGED vars
    BY <1>15, <1>m DEF WakeReaders, StopTournament, Dies, vars, parent
  <1> QED BY <1>1, <1>2, <1>3, <1>4, <1>5, <1>6, <1>7, <1>8, <1>9, <1>10, <1>11, <1>12, <1>13, <1>14, <1>15
          DEF Next, WorkerSteps, MainSteps

-----------------------------------------------------------------------------
\* The three together.
Holdings == HeldByRunning /\ RunningHolds /\ HeldByStrangers

(* alive() changes nobody's ends. *)
LEMMA ReapHoldings ==
  ASSUME TypeOK, Holdings, NEW e \in Engines, Reap(e), held' = held, strangers' = strangers
  PROVE  Holdings'
  <1>1. \A f \in Engines : life'[f] = "running" <=> life[f] = "running"
    BY DEF Reap, TypeOK
  <1> QED BY <1>1 DEF Holdings, HeldByRunning, RunningHolds, HeldByStrangers

(* A step keeps the holdings: a pipe is created before its engine is spawned. *)
LEMMA StepHoldings ==
  ASSUME TypeOK, Whereabouts, Lives, Holdings, [Next]_vars
  PROVE  Holdings'
  <1> USE ThreadFacts
  <1>p. pc \in [Threads -> PcRecord]
    BY TypeEq
  <1>e. \A t \in Threads : pc[t].at \notin FreePlaces => pc[t].engine \in Engines
    BY <1>p DEF PcRecord, Whereabouts
  <1>id. ASSUME life' = life, held' = held, strangers' = strangers PROVE Holdings'
    BY <1>id DEF Holdings, HeldByRunning, RunningHolds, HeldByStrangers
  <1>1. ASSUME NEW w \in Workers, CreatePipe(w) PROVE Holdings'
    <2> DEFINE e == pc[w].engine
               pipe == Head(pc[w].pipes)
    <2>1. /\ held' = [f \in Engines |-> held[f] \ {<<e, p>> : p \in Both(pipe)}]
          /\ strangers' = strangers \ {<<e, pipe>>} /\ life' = life
      BY <1>1 DEF CreatePipe
    <2>2. pc[w].at \in {"built", "replace", "spawn"}
      BY <1>1 DEF CreatePipe, Whereabouts
    <2>3. e \in Engines /\ life[e] = "none"
      BY <1>e, <2>2 DEF FreePlaces, Lives, LifeAt
    <2> HIDE DEF e, pipe
    <2>4. HeldByRunning'
      BY <2>1 DEF Holdings, HeldByRunning
    <2>5. RunningHolds'
      BY <2>1, <2>3 DEF Holdings, RunningHolds
    <2>6. HeldByStrangers'
      <3> SUFFICES ASSUME NEW f \in Engines, NEW x \in held'[f], x[1] # f PROVE <<x[1], x[2][1]>> \in strangers'
        BY DEF HeldByStrangers
      <3>1. x \in held[f] /\ x \notin {<<e, p>> : p \in Both(pipe)}
        BY <2>1
      <3>2. <<x[1], x[2][1]>> \in strangers
        BY <3>1 DEF Holdings, HeldByStrangers
      <3>3. x \in Engines \X PipeEnds
        BY <3>1 DEF TypeOK
      <3>4. x = <<x[1], x[2]>> /\ x[2] = <<x[2][1], x[2][2]>> /\ x[2][2] \in {"r", "w"}
        BY <3>3 DEF PipeEnds
      <3>5. ~(x[1] = e /\ x[2][1] = pipe)
        BY <3>1, <3>4 DEF Both
      <3> QED BY <2>1, <3>2, <3>5
    <2> QED BY <2>4, <2>5, <2>6 DEF Holdings
  <1>2. ASSUME NEW w \in Workers, Spawn(w) PROVE Holdings'
    <2> DEFINE e == pc[w].engine
               own == {<<e, p>> : p \in Given}
               more == UNION {{<<x[1], p>> : p \in Both(x[2])} : x \in Inherited(e)}
    <2>1. e \in Engines
      BY <1>2, <1>e DEF Spawn, Reaches, FreePlaces
    <2>2. /\ held' = [held EXCEPT ![e] = own \cup more] /\ life' = [life EXCEPT ![e] = "running"]
          /\ strangers' = strangers \cup Inherited(e)
      BY <1>2 DEF Spawn
    <2>3a. <<e, <<"in", "w">> >> \in own
      BY DEF Given
    <2>3. <<e, <<"in", "w">> >> \in own /\ \A x \in own : x[1] = e
      BY <2>3a
    <2>4. \A x \in more : <<x[1], x[2][1]>> \in Inherited(e)
      <3> SUFFICES ASSUME NEW y \in Inherited(e), NEW p \in Both(y[2]), NEW x, x = <<y[1], p>>
                   PROVE  <<x[1], x[2][1]>> \in Inherited(e)
        OBVIOUS
      <3>1. y = <<y[1], y[2]>> /\ p[1] = y[2]
        BY DEF Inherited, Both
      <3> QED BY <3>1
    <2> HIDE DEF e, own, more
    <2>5. HeldByRunning' /\ RunningHolds'
      BY <2>1, <2>2, <2>3 DEF Holdings, HeldByRunning, RunningHolds, TypeOK
    <2>6. HeldByStrangers'
      <3> SUFFICES ASSUME NEW f \in Engines, NEW x \in held'[f], x[1] # f PROVE <<x[1], x[2][1]>> \in strangers'
        BY DEF HeldByStrangers
      <3>1. CASE f = e
        <4>1. x \in own \cup more
          BY <2>1, <2>2, <3>1 DEF TypeOK
        <4>2. x \in more
          BY <2>3, <3>1, <4>1
        <4> QED BY <2>2, <2>4, <4>2
      <3>2. CASE f # e
        <4>1. x \in held[f]
          BY <2>2, <3>2 DEF TypeOK
        <4> QED BY <2>2, <4>1 DEF Holdings, HeldByStrangers
      <3> QED BY <3>1, <3>2
    <2> QED BY <2>5, <2>6 DEF Holdings
  <1>3. ASSUME NEW w \in Workers, Turn(w) PROVE Holdings'
    <2>1. PICK i \in 1..GameSize : Reap(seats[w][i])
      BY <1>3 DEF Turn
    <2>2. seats[w][i] \in Engines
      BY <1>3, SeqFacts DEF Turn, Seated, TypeOK
    <2> QED BY <1>3, <2>1, <2>2, ReapHoldings DEF Turn
  <1>4. ASSUME NEW w \in Workers, Restart(w) PROVE Holdings'
    <2>1. pc[w].engine \in Engines
      BY <1>4, <1>e DEF Restart, Reaches, FreePlaces
    <2> QED BY <1>4, <2>1, ReapHoldings DEF Restart
  <1>5. ASSUME NEW t \in Threads, Quit(t) PROVE Holdings'
    <2>1. pc[t].engine \in Engines
      BY <1>5, <1>e DEF Quit, FreePlaces
    <2>2. held' = held /\ strangers' = strangers /\ (Reap(pc[t].engine) \/ life' = life)
      BY <1>5 DEF Quit
    <2> QED BY <1>id, <2>1, <2>2, ReapHoldings
  <1>6. ASSUME NEW t \in Threads, Wait(t) PROVE Holdings'
    <2>1. pc[t].engine \in Engines
      BY <1>6, <1>e DEF Wait, FreePlaces
    <2> QED BY <1>6, <2>1 DEF Wait, TypeOK, Holdings, HeldByRunning, RunningHolds, HeldByStrangers
  <1>7. CASE Exit
    BY <1>7 DEF Exit, TypeOK, Holdings, HeldByRunning, RunningHolds, HeldByStrangers
  <1>8. ASSUME NEW e \in Engines, Dies(e) PROVE Holdings'
    BY <1>8 DEF Dies, TypeOK, Holdings, HeldByRunning, RunningHolds, HeldByStrangers
  <1>9. ASSUME NEW w \in Workers,
               \/ CloseOnExec(w) \/ Construct(w) \/ TakeSeat(w) \/ BeginGame(w) \/ Acquire(w) \/ SpawnFails(w) \/ NotGreeted(w)
               \/ Interrupted(w) \/ Disconnected(w) \/ Replace(w) \/ Leave(w) \/ Greeted(w) \/ Answers(w) \/ Attach(w)
        PROVE  Holdings'
    BY <1>9, <1>id DEF CloseOnExec, Construct, TakeSeat, BeginGame, Acquire, SpawnFails, NotGreeted, Attach,
       Interrupted, Disconnected, Replace, Leave, Greeted, Answers, children
  <1>10. ASSUME NEW t \in Threads, Unlist(t) \/ Close(t) PROVE Holdings'
    BY <1>10, <1>id DEF Unlist, Close, children
  <1>11. CASE WakeReaders \/ TakeDown \/ StopTournament \/ UNCHANGED vars
    BY <1>11, <1>id DEF WakeReaders, TakeDown, StopTournament, vars, children
  <1> QED BY <1>1, <1>2, <1>3, <1>4, <1>5, <1>6, <1>7, <1>8, <1>9, <1>10, <1>11 DEF Next, WorkerSteps, MainSteps

-----------------------------------------------------------------------------
(* Every step but a spawn keeps the processes. *)
LEMMA StepKeepsLife ==
  ASSUME TypeOK, Whereabouts, Lives, [Next]_vars
  PROVE  LifeKept \/ \E w \in Workers : Spawn(w)
  <1> USE ThreadFacts
  <1>p. pc \in [Threads -> PcRecord]
    BY TypeEq
  <1>e. \A t \in Threads : pc[t].at \notin FreePlaces => pc[t].engine \in Engines
    BY <1>p DEF PcRecord, Whereabouts
  <1>id. life' = life => LifeKept
    BY DEF LifeKept
  <1>1. ASSUME NEW w \in Workers, Turn(w) PROVE LifeKept
    <2>1. PICK i \in 1..GameSize : Reap(seats[w][i])
      BY <1>1 DEF Turn
    <2>2. seats[w][i] \in Engines
      BY <1>1, SeqFacts DEF Turn, Seated, TypeOK
    <2> QED BY <2>1, <2>2, ReapKeeps
  <1>2. ASSUME NEW w \in Workers, Restart(w) PROVE LifeKept
    <2>1. pc[w].engine \in Engines
      BY <1>2, <1>e DEF Restart, Reaches, FreePlaces
    <2> QED BY <1>2, <2>1, ReapKeeps DEF Restart
  <1>3. ASSUME NEW t \in Threads, Quit(t) PROVE LifeKept
    <2>1. pc[t].engine \in Engines
      BY <1>3, <1>e DEF Quit, FreePlaces
    <2>2. Reap(pc[t].engine) \/ life' = life
      BY <1>3 DEF Quit
    <2> QED BY <1>id, <2>1, <2>2, ReapKeeps
  <1>4. ASSUME NEW t \in Threads, Wait(t) PROVE LifeKept
    <2>1. pc[t].engine \in Engines /\ life[pc[t].engine] # "none"
      BY <1>4, <1>e DEF Wait, FreePlaces, Lives, LifeAt
    <2> QED BY <1>4, <2>1 DEF Wait, TypeOK, LifeKept
  <1>5. Exit => LifeKept
    BY DEF Exit, LifeKept
  <1>6. ASSUME NEW e \in Engines, Dies(e) PROVE LifeKept
    BY <1>6 DEF Dies, TypeOK, LifeKept
  <1>7. ASSUME NEW w \in Workers,
               \/ CreatePipe(w) \/ CloseOnExec(w) \/ Construct(w) \/ TakeSeat(w) \/ BeginGame(w) \/ Acquire(w) \/ SpawnFails(w)
               \/ NotGreeted(w) \/ Interrupted(w) \/ Disconnected(w) \/ Replace(w) \/ Leave(w) \/ Greeted(w) \/ Answers(w) \/ Attach(w)
        PROVE  LifeKept
    BY <1>7, <1>id DEF CreatePipe, CloseOnExec, Construct, TakeSeat, BeginGame, Acquire, SpawnFails, NotGreeted, Attach,
       Interrupted, Disconnected, Replace, Leave, Greeted, Answers, children
  <1>8. ASSUME NEW t \in Threads, Unlist(t) \/ Close(t) PROVE LifeKept
    BY <1>8, <1>id DEF Unlist, Close, children
  <1>9. WakeReaders \/ TakeDown \/ StopTournament \/ UNCHANGED vars => LifeKept
    BY <1>id DEF WakeReaders, TakeDown, StopTournament, vars, children
  <1> QED BY <1>1, <1>2, <1>3, <1>4, <1>5, <1>6, <1>7, <1>8, <1>9 DEF Next, WorkerSteps, MainSteps

\* An engine in the list has a process and an event, and its end of the pipe is closed in the parent.
Listed == \A e \in list : life[e] # "none" /\ event[e] # "closed" /\ <<"in", "w">> \notin ends[e]
\* An engine that is waited for or closed is out of the list.
Unlisted == \A t \in Threads : pc[t].at \in {"wait", "close"} => pc[t].engine \notin list

(* A step keeps Listed: no event is closed of an engine in the list. *)
LEMMA StepListed ==
  ASSUME TypeOK, Whereabouts, Lives, Listed, Unlisted, [Next]_vars
  PROVE  Listed'
  <1> USE ThreadFacts
  <1>p. pc \in [Threads -> PcRecord]
    BY TypeEq
  <1>e. \A t \in Threads : pc[t].at \notin FreePlaces => pc[t].engine \in Engines
    BY <1>p DEF PcRecord, Whereabouts
  <1>l. \A e \in Engines : life[e] # "none" => life'[e] # "none"
    <2>1. ASSUME NEW w \in Workers, Spawn(w) PROVE \A e \in Engines : life[e] # "none" => life'[e] # "none"
      BY <2>1 DEF Spawn, TypeOK
    <2> QED BY <2>1, StepKeepsLife DEF LifeKept
  <1>t. list \subseteq Engines /\ event \in [Engines -> {"closed", "clear", "set"}] /\ ends \in [Engines -> SUBSET PipeEnds]
    BY DEF TypeOK
  <1>m. ASSUME list' \subseteq list,
               \A e \in list' : event'[e] = event[e] \/ event'[e] # "closed",
               \A e \in list' : ends'[e] \subseteq ends[e]
        PROVE  Listed'
    BY <1>m, <1>l, <1>t DEF Listed
  <1>1. ASSUME NEW w \in Workers, CreatePipe(w) PROVE Listed'
    <2>1. pc[w].at \in {"built", "replace", "spawn"}
      BY <1>1 DEF CreatePipe, Whereabouts
    <2>2. pc[w].engine \notin list
      BY <2>1 DEF Lives, LifeAt, Listed
    <2>3. list' = list /\ event' = event /\ \A e \in list : ends'[e] = ends[e]
      BY <1>1, <1>t, <2>2 DEF CreatePipe
    <2> QED BY <1>m, <2>3
  <1>2. ASSUME NEW w \in Workers, Attach(w) PROVE Listed'
    <2> DEFINE e == pc[w].engine
    <2>1. e \in Engines /\ life[e] # "none"
      BY <1>2, <1>e DEF Attach, Reaches, FreePlaces, Lives, LifeAt
    <2>2. <<"in", "w">> \in Given
      BY DEF Given
    <2>3. /\ list' = list \cup {e} /\ event' = [event EXCEPT ![e] = "clear"] /\ ends' = [ends EXCEPT ![e] = @ \ Given]
      BY <1>2 DEF Attach
    <2> HIDE DEF e
    <2> QED BY <1>l, <1>t, <2>1, <2>2, <2>3 DEF Listed
  <1>3. ASSUME NEW t \in Threads, Close(t) PROVE Listed'
    <2>1. pc[t].engine \notin list
      BY <1>3 DEF Close, Unlisted
    <2>2. list' = list /\ \A e \in list : event'[e] = event[e] /\ ends'[e] = ends[e]
      BY <1>3, <1>t, <2>1 DEF Close
    <2> QED BY <1>m, <2>2
  <1>4. ASSUME NEW w \in Workers, NotGreeted(w) \/ Interrupted(w) PROVE Listed'
    <2>1. list' = list /\ ends' = ends
      BY <1>4 DEF NotGreeted, Interrupted
    <2>2. \A e \in Engines : event'[e] = event[e] \/ event'[e] # "closed"
      BY <1>4, <1>t DEF NotGreeted, Interrupted
    <2> QED BY <1>m, <1>t, <2>1, <2>2
  <1>5. ASSUME NEW w \in Workers, Acquire(w) PROVE Listed'
    <2>1. list' = list /\ event' = event /\ \A e \in Engines : ends'[e] \subseteq ends[e]
      BY <1>5, <1>t DEF Acquire, DropErr
    <2> QED BY <1>m, <1>t, <2>1
  <1>6. CASE WakeReaders
    BY <1>6, <1>m, <1>t DEF WakeReaders
  <1>7. ASSUME NEW w \in Workers,
               \/ CloseOnExec(w) \/ Construct(w) \/ TakeSeat(w) \/ BeginGame(w) \/ SpawnFails(w) \/ Spawn(w) \/ Turn(w) \/ Restart(w)
               \/ Disconnected(w) \/ Replace(w) \/ Leave(w) \/ Greeted(w) \/ Answers(w)
        PROVE  Listed'
    BY <1>7, <1>m DEF CloseOnExec, Construct, TakeSeat, BeginGame, SpawnFails, Spawn, Turn, Restart,
       Disconnected, Replace, Leave, Greeted, Answers, parent
  <1>8. ASSUME NEW t \in Threads, Quit(t) \/ Unlist(t) \/ Wait(t) PROVE Listed'
    BY <1>8, <1>m DEF Quit, Unlist, Wait
  <1>9. CASE TakeDown \/ Exit \/ StopTournament \/ UNCHANGED vars
    BY <1>9, <1>m DEF TakeDown, Exit, StopTournament, vars, parent
  <1>10. ASSUME NEW e \in Engines, Dies(e) PROVE Listed'
    BY <1>10, <1>m DEF Dies, parent
  <1> QED BY <1>1, <1>2, <1>3, <1>4, <1>5, <1>6, <1>7, <1>8, <1>9, <1>10 DEF Next, WorkerSteps, MainSteps

(* A step keeps Unlisted: terminate removes the entry, and nobody can list the engine again. *)
LEMMA StepUnlisted ==
  ASSUME TypeOK, Whereabouts, Ownership, Lives, Listed, Unlisted, [Next]_vars
  PROVE  Unlisted'
  <1> USE ThreadFacts, AtFields DEF Go
  <1>p. pc \in [Threads -> PcRecord]
    BY TypeEq
  <1>e. \A t \in Threads : pc[t].at \notin FreePlaces => pc[t].engine \in Engines
    BY <1>p DEF PcRecord, Whereabouts
  <1>step. ASSUME list' \subseteq list, NEW t \in Threads, \A s \in Threads : s # t => pc'[s] = pc[s],
                  pc'[t].at \in {"wait", "close"} => pc'[t].engine \notin list'
           PROVE  Unlisted'
    BY <1>step DEF Unlisted
  <1>1. ASSUME NEW w \in Workers, CreatePipe(w) PROVE Unlisted'
    BY <1>1 DEF CreatePipe, Unlisted
  <1>2. ASSUME NEW w \in Workers, CloseOnExec(w) PROVE Unlisted'
    <2>1. \A s \in Threads : pc'[s].at = pc[s].at /\ pc'[s].engine = pc[s].engine
      BY <1>2, <1>p DEF CloseOnExec, PcRecord
    <2> QED BY <1>2, <2>1 DEF CloseOnExec, Unlisted
  <1>3. ASSUME NEW w \in Workers, Construct(w) \/ Restart(w) PROVE Unlisted'
    <2>1. /\ list' = list
          /\ \/ \E e \in Engines, p \in {"built", "replace"} : pc' = [pc EXCEPT ![w] = [At(p, e) EXCEPT !.pipes = Pipes]]
             \/ pc' = [pc EXCEPT ![w] = Idle]
      BY <1>3 DEF Construct, Restart, parent
    <2>2. CASE pc' = [pc EXCEPT ![w] = Idle]
      BY <1>p, <1>step, <2>1, <2>2 DEF Idle
    <2>3. ASSUME NEW e \in Engines, NEW p \in {"built", "replace"}, pc' = [pc EXCEPT ![w] = [At(p, e) EXCEPT !.pipes = Pipes]]
          PROVE  Unlisted'
      <3>1. pc'[w].at = p /\ \A s \in Threads : s # w => pc'[s] = pc[s]
        BY <1>p, <2>3, NewFields DEF Places
      <3> QED BY <1>step, <2>1, <3>1
    <2> QED BY <2>1, <2>2, <2>3
  <1>4. ASSUME NEW w \in Workers,
               \/ TakeSeat(w) \/ Answers(w) \/ Interrupted(w) \/ NotGreeted(w) \/ Leave(w) \/ BeginGame(w) \/ Greeted(w)
               \/ Disconnected(w) \/ Replace(w) \/ Spawn(w)
        PROVE  Unlisted'
    <2>1. list' = list /\ \E p \in {"idle", "done", "acquire", "broken", "quit", "attach"} : \E x : pc' = [pc EXCEPT ![w] = At(p, x)]
      BY <1>4 DEF TakeSeat, Answers, Interrupted, NotGreeted, Leave, BeginGame, Greeted, Disconnected, Replace, Spawn, Idle, parent
    <2> QED BY <1>p, <1>step, <2>1
  <1>5. ASSUME NEW w \in Workers, Acquire(w) \/ SpawnFails(w) PROVE Unlisted'
    <2>1. pc[w].engine \in Engines /\ list' = list
      BY <1>5, <1>e DEF Acquire, SpawnFails, Reaches, FreePlaces, parent
    <2>2. \/ \E n \in Nat : pc' = [pc EXCEPT ![w] = Attempt(pc[w].engine, n)]
          \/ pc' = [pc EXCEPT ![w] = At("done", NoEngine)]
      BY <1>5 DEF Acquire, SpawnFails
    <2>3. pc'[w].at \in {"spawn", "done"} /\ \A s \in Threads : s # w => pc'[s] = pc[s]
      BY <1>p, <2>1, <2>2, PipesType
    <2> QED BY <1>step, <2>1, <2>3
  <1>6. ASSUME NEW w \in Workers, Attach(w) PROVE Unlisted'
    <2>1. /\ pc[w].at = "attach" /\ list' = list \cup {pc[w].engine}
          /\ pc'[w].at = "uciok" /\ \A s \in Threads : s # w => pc'[s] = pc[s]
      BY <1>6, <1>p DEF Attach, Reaches
    <2>2. \A s \in Threads : s # w /\ pc[s].at \in {"wait", "close"} => pc[s].engine # pc[w].engine
      BY <2>1, OneUser DEF SeatPlaces, LoosePlaces
    <2> QED BY <2>1, <2>2 DEF Unlisted
  <1>7. ASSUME NEW w \in Workers, Turn(w) PROVE Unlisted'
    <2>1. list' = list /\ \E p \in {"search", "broken"} : \E x : pc' = [pc EXCEPT ![w] = At(p, x)]
      BY <1>7 DEF Turn
    <2> QED BY <1>p, <1>step, <2>1
  <1>8. ASSUME NEW t \in Threads, Quit(t) PROVE Unlisted'
    <2>1. list' = list
      BY <1>8 DEF Quit
    <2>2. CASE Started(pc[t].engine)
      BY <1>8, <1>p, <1>step, <2>1, <2>2 DEF Quit
    <2>3. CASE ~Started(pc[t].engine)
      <3>1. pc[t].engine \notin list
        BY <2>3 DEF Started, Listed
      <3>2. pc' = [pc EXCEPT ![t] = At("close", pc[t].engine)]
        BY <1>8, <2>3 DEF Quit
      <3> QED BY <1>p, <1>step, <2>1, <3>1, <3>2
    <2> QED BY <2>2, <2>3
  <1>9. ASSUME NEW t \in Threads, Unlist(t) PROVE Unlisted'
    <2>1. list' = list \ {pc[t].engine} /\ pc' = [pc EXCEPT ![t] = At("wait", pc[t].engine)]
      BY <1>9 DEF Unlist
    <2> QED BY <1>p, <1>step, <2>1
  <1>10. ASSUME NEW t \in Threads, Wait(t) \/ Close(t) PROVE Unlisted'
    <2>0. pc[t].at \in {"wait", "close"} /\ list' = list
      BY <1>10 DEF Wait, Close
    <2>1. list' = list /\ pc[t].engine \notin list
      BY <2>0 DEF Unlisted
    <2>2. pc' = [pc EXCEPT ![t] = At("close", pc[t].engine)] \/ pc' = [pc EXCEPT ![t] = Idle]
      BY <1>10 DEF Wait, Close
    <2> QED BY <1>p, <1>step, <2>1, <2>2 DEF Idle
  <1>11. CASE TakeDown \/ Exit
    <2>1. list' = list /\ \E p \in {"quit", "over"} : \E x : pc' = [pc EXCEPT ![Main] = At(p, x)]
      BY <1>11 DEF TakeDown, Exit, parent
    <2> QED BY <1>p, <1>step, <2>1
  <1>12. CASE WakeReaders \/ StopTournament \/ (\E e \in Engines : Dies(e)) \/ UNCHANGED vars
    BY <1>12 DEF WakeReaders, StopTournament, Dies, vars, parent, Unlisted
  <1> QED BY <1>1, <1>2, <1>3, <1>4, <1>5, <1>6, <1>7, <1>8, <1>9, <1>10, <1>11, <1>12 DEF Next, WorkerSteps, MainSteps

-----------------------------------------------------------------------------
\* A started engine in a seat is in the list, or Process::init is about to list it.
SeatIsListed ==
    \A w \in Workers : \A i \in DOMAIN seats[w] :
        Started(seats[w][i]) => seats[w][i] \in list \/ (pc[w].at = "attach" /\ pc[w].engine = seats[w][i])

(* A step keeps SeatIsListed: no destroyer removes the entry of an engine in a seat. *)
LEMMA StepSeatIsListed ==
  ASSUME TypeOK, Whereabouts, DeadIsSeated, Ownership, Lives, SeatIsListed, [Next]_vars
  PROVE  SeatIsListed'
  <1> USE ThreadFacts, AtFields DEF Go
  <1>p. pc \in [Threads -> PcRecord]
    BY TypeEq
  <1>e. \A t \in Threads : pc[t].at \notin FreePlaces => pc[t].engine \in Engines
    BY <1>p DEF PcRecord, Whereabouts
  <1>s. \A w \in Workers : \A i \in DOMAIN seats[w] : seats[w][i] \in Engines
    BY SeqFacts DEF TypeOK
  <1>k. ASSUME \A w \in Workers : ~Spawn(w) PROVE LifeKept
    BY <1>k, StepKeepsLife
  <1>m. ASSUME seats' = seats, LifeKept, list \subseteq list',
               NEW t \in Threads, pc[t].at # "attach", \A s \in Threads : s # t => pc'[s] = pc[s]
        PROVE  SeatIsListed'
    BY <1>m, <1>s DEF SeatIsListed, LifeKept, Started
  <1>i. ASSUME seats' = seats, LifeKept, list' = list, \A s \in Threads : pc'[s].at = pc[s].at /\ pc'[s].engine = pc[s].engine
        PROVE  SeatIsListed'
    BY <1>i, <1>s DEF SeatIsListed, LifeKept, Started
  <1>id. life' = life => LifeKept
    BY DEF LifeKept
  <1>1. ASSUME NEW w \in Workers, CreatePipe(w) PROVE SeatIsListed'
    BY <1>1, <1>i, <1>id DEF CreatePipe
  <1>2. ASSUME NEW w \in Workers, CloseOnExec(w) PROVE SeatIsListed'
    <2>1. \A s \in Threads : pc'[s].at = pc[s].at /\ pc'[s].engine = pc[s].engine
      BY <1>2, <1>p DEF CloseOnExec, PcRecord
    <2> QED BY <1>2, <1>i, <1>id, <2>1 DEF CloseOnExec, children
  <1>3. ASSUME NEW w \in Workers,
               \/ Construct(w) \/ BeginGame(w) \/ Acquire(w) \/ SpawnFails(w) \/ NotGreeted(w) \/ Interrupted(w) \/ Disconnected(w)
               \/ Leave(w) \/ Greeted(w) \/ Answers(w)
        PROVE  SeatIsListed'
    <2>1. /\ seats' = seats /\ list' = list /\ life' = life /\ pc[w].at # "attach"
          /\ \E r : pc' = [pc EXCEPT ![w] = r]
      BY <1>3 DEF Construct, BeginGame, Acquire, SpawnFails, NotGreeted, Interrupted, Disconnected, Leave, Greeted, Answers,
         Reaches, parent, children
    <2> QED BY <1>p, <1>m, <1>id, <2>1
  <1>4. ASSUME NEW w \in Workers, Turn(w) PROVE SeatIsListed'
    <2>1. PICK i \in 1..GameSize : Reap(seats[w][i])
      BY <1>4 DEF Turn
    <2>2. seats[w][i] \in Engines
      BY <1>4, SeqFacts DEF Turn, Seated, TypeOK
    <2>3. seats' = seats /\ list' = list /\ pc[w].at # "attach" /\ \E r : pc' = [pc EXCEPT ![w] = r]
      BY <1>4 DEF Turn, Reaches
    <2> QED BY <1>p, <1>m, <2>1, <2>2, <2>3, ReapKeeps
  <1>5. ASSUME NEW w \in Workers, Restart(w) PROVE SeatIsListed'
    <2>1. pc[w].engine \in Engines
      BY <1>5, <1>e DEF Restart, Reaches, FreePlaces
    <2>2. LifeKept
      BY <1>5, <2>1, ReapKeeps DEF Restart
    <2>3. seats' = seats /\ list' = list /\ pc[w].at # "attach" /\ \E r : pc' = [pc EXCEPT ![w] = r]
      BY <1>5 DEF Restart, Reaches
    <2> QED BY <1>p, <1>m, <2>2, <2>3
  <1>6. ASSUME NEW w \in Workers, TakeSeat(w) PROVE SeatIsListed'
    <2> DEFINE e == pc[w].engine
    <2>1. /\ pc[w].at = "built" /\ seats' = [seats EXCEPT ![w] = Append(seats[w], e)]
          /\ \A s \in Threads : s # w => pc'[s] = pc[s]
          /\ life' = life /\ list' = list
      BY <1>6, <1>p DEF TakeSeat, Reaches, parent, children
    <2>2. e \in Engines /\ life[e] = "none"
      BY <2>1, <1>e DEF FreePlaces, Lives, LifeAt
    <2>3. \A v \in Workers : v # w => seats'[v] = seats[v]
      BY <2>1 DEF TypeOK
    <2>4. \A i \in DOMAIN seats'[w] : (i \in DOMAIN seats[w] /\ seats'[w][i] = seats[w][i]) \/ seats'[w][i] = e
      <3>1. seats'[w] = Append(seats[w], e) /\ seats[w] \in Seq(Engines)
        BY <2>1 DEF TypeOK
      <3> QED BY <2>2, <3>1
    <2> HIDE DEF e
    <2>5. ASSUME NEW v \in Workers, NEW i \in DOMAIN seats'[v], life'[seats'[v][i]] # "none"
          PROVE  seats'[v][i] \in list' \/ (pc'[v].at = "attach" /\ pc'[v].engine = seats'[v][i])
      <3>0. life[seats'[v][i]] # "none"
        BY <2>1, <2>5
      <3>1. CASE v = w
        BY <2>1, <2>2, <2>4, <3>0, <3>1 DEF SeatIsListed, Started
      <3>2. CASE v # w
        BY <2>1, <2>3, <3>0, <3>2 DEF SeatIsListed, Started
      <3> QED BY <3>1, <3>2
    <2> QED BY <2>5 DEF SeatIsListed, Started
  <1>7. ASSUME NEW w \in Workers, Spawn(w) PROVE SeatIsListed'
    <2> DEFINE e == pc[w].engine
    <2>1. /\ pc[w].at = "spawn" /\ e \in Engines /\ seats' = seats /\ list' = list
          /\ pc'[w].at = "attach" /\ pc'[w].engine = e /\ \A s \in Threads : s # w => pc'[s] = pc[s]
          /\ life' = [life EXCEPT ![e] = "running"]
      BY <1>7, <1>p, <1>e DEF Spawn, Reaches, FreePlaces, parent
    <2>2. \A v \in Workers : \A i \in DOMAIN seats[v] : seats[v][i] = e => v = w
      BY <2>1 DEF Ownership, UserIsSeated, SeatsDistinct, SeatPlaces
    <2> HIDE DEF e
    <2>3. \A v \in Workers : \A i \in DOMAIN seats[v] : seats[v][i] # e => life'[seats[v][i]] = life[seats[v][i]]
      BY <1>s, <2>1 DEF TypeOK
    <2> QED BY <2>1, <2>2, <2>3 DEF SeatIsListed, Started
  <1>8. ASSUME NEW w \in Workers, Attach(w) PROVE SeatIsListed'
    <2>1. /\ seats' = seats /\ life' = life /\ list' = list \cup {pc[w].engine} /\ \A s \in Threads : s # w => pc'[s] = pc[s]
      BY <1>8, <1>p DEF Attach, children
    <2> QED BY <2>1 DEF SeatIsListed, Started
  <1>9. ASSUME NEW w \in Workers, Replace(w) PROVE SeatIsListed'
    <2> DEFINE e == pc[w].engine
    <2>1. PICK d \in DOMAIN seats[w] :
           /\ pc[w].at = "replace"
           /\ pc' = [pc EXCEPT ![w] = At("quit", seats[w][d])]
           /\ seats' = [seats EXCEPT ![w] = [seats[w] EXCEPT ![d] = e]]
           /\ DOMAIN seats'[w] = DOMAIN seats[w]
           /\ seats'[w][d] = e
           /\ \A i \in DOMAIN seats[w] : i # d => seats'[w][i] = seats[w][i]
      BY <1>9, ReplaceFacts
    <2>2. /\ \A v \in Workers : v # w => seats'[v] = seats[v]
          /\ \A s \in Threads : s # w => pc'[s] = pc[s]
          /\ life' = life /\ list' = list
      BY <1>9, <1>p, <2>1 DEF TypeOK, Replace, parent, children
    <2>3. life[e] = "none"
      BY <2>1 DEF Lives, LifeAt
    <2> HIDE DEF e
    <2>4. ASSUME NEW v \in Workers, NEW i \in DOMAIN seats'[v], life'[seats'[v][i]] # "none"
          PROVE  seats'[v][i] \in list' \/ (pc'[v].at = "attach" /\ pc'[v].engine = seats'[v][i])
      <3>0. life[seats'[v][i]] # "none"
        BY <2>2, <2>4
      <3>1. CASE v = w
        <4>1. i # d
          BY <2>1, <2>3, <3>0, <3>1
        <4> QED BY <2>1, <2>2, <3>0, <3>1, <4>1 DEF SeatIsListed, Started
      <3>2. CASE v # w
        BY <2>2, <3>0, <3>2 DEF SeatIsListed, Started
      <3> QED BY <3>1, <3>2
    <2> QED BY <2>4 DEF SeatIsListed, Started
  <1>10. ASSUME NEW t \in Threads, Quit(t) \/ Wait(t) \/ Close(t) PROVE SeatIsListed'
    <2>1. pc[t].engine \in Engines /\ pc[t].at \in {"quit", "wait", "close"}
      BY <1>10, <1>e DEF Quit, Wait, Close, FreePlaces
    <2>2. seats' = seats /\ list' = list /\ \E r : pc' = [pc EXCEPT ![t] = r]
      BY <1>10 DEF Quit, Wait, Close
    <2>3. LifeKept
      <3>1. CASE Quit(t)
        BY <1>id, <2>1, <3>1, ReapKeeps DEF Quit
      <3>2. CASE Wait(t)
        <4>1. life[pc[t].engine] # "none"
          BY <3>2 DEF Wait, Lives, LifeAt
        <4> QED BY <2>1, <3>2, <4>1 DEF Wait, TypeOK, LifeKept
      <3>3. CASE Close(t)
        BY <1>id, <3>3 DEF Close, children
      <3> QED BY <1>10, <3>1, <3>2, <3>3
    <2> QED BY <1>p, <1>m, <2>1, <2>2, <2>3
  <1>11. ASSUME NEW t \in Threads, Unlist(t) PROVE SeatIsListed'
    <2>1. /\ pc[t].at = "unlist" /\ seats' = seats /\ life' = life /\ list' = list \ {pc[t].engine}
          /\ \A s \in Threads : s # t => pc'[s] = pc[s]
      BY <1>11, <1>p DEF Unlist, children
    <2>2. \A w \in Workers : \A i \in DOMAIN seats[w] : seats[w][i] # pc[t].engine
      BY <2>1 DEF Ownership, LooseNotSeated, InSeat, LoosePlaces
    <2> QED BY <2>1, <2>2 DEF SeatIsListed, Started
  <1>12. CASE TakeDown
    <2>1. PICK w \in Workers : seats[w] # <<>> /\ seats' = [seats EXCEPT ![w] = Tail(@)]
      BY <1>12 DEF TakeDown
    <2>2. /\ list' = list /\ life' = life /\ \A s \in Workers : pc'[s] = pc[s]
      BY <1>12, <1>p DEF TakeDown, parent, children
    <2>3. \A i \in DOMAIN seats'[w] : i + 1 \in DOMAIN seats[w] /\ seats'[w][i] = seats[w][i + 1]
      BY <2>1, SeqFacts DEF TypeOK
    <2>4. \A v \in Workers : v # w => seats'[v] = seats[v]
      BY <2>1 DEF TypeOK
    <2>5. ASSUME NEW v \in Workers, NEW i \in DOMAIN seats'[v]
          PROVE  \E j \in DOMAIN seats[v] : seats'[v][i] = seats[v][j]
      <3>1. CASE v = w
        BY <2>3, <3>1
      <3>2. CASE v # w
        BY <2>4, <3>2
      <3> QED BY <3>1, <3>2
    <2> QED BY <2>2, <2>5 DEF SeatIsListed, Started
  <1>13. CASE Exit
    <2>1. LifeKept
      BY <1>13 DEF Exit, LifeKept
    <2>2. seats' = seats /\ list' = list /\ pc[Main].at # "attach" /\ \E r : pc' = [pc EXCEPT ![Main] = r]
      BY <1>13 DEF Exit, parent, Whereabouts
    <2> QED BY <1>p, <1>m, <2>1, <2>2
  <1>14. CASE WakeReaders \/ StopTournament \/ UNCHANGED vars
    BY <1>14, <1>i, <1>id DEF WakeReaders, StopTournament, vars, parent, children
  <1>15. ASSUME NEW e \in Engines, Dies(e) PROVE SeatIsListed'
    <2>1. LifeKept
      BY <1>15 DEF Dies, LifeKept, TypeOK
    <2> QED BY <1>15, <1>i, <2>1 DEF Dies, parent
  <1> QED BY <1>1, <1>2, <1>3, <1>4, <1>5, <1>6, <1>7, <1>8, <1>9, <1>10, <1>11, <1>12, <1>13, <1>14, <1>15
          DEF Next, WorkerSteps, MainSteps

-----------------------------------------------------------------------------
\* An engine is in a seat or in the hands of who made it or destroys it.
Owned(e) == InSeat(e) \/ \E t \in Threads : pc[t].at \in LoosePlaces /\ pc[t].engine = e

(* An engine stays somebody's until its destructor is through. *)
LEMMA StepKeepsOwned ==
  ASSUME TypeOK, Whereabouts, DeadIsSeated, Ownership, [Next]_vars, NEW e \in Engines, Owned(e),
         \A t \in Threads : ~(Close(t) /\ pc[t].engine = e)
  PROVE  Owned(e)'
  <1> USE ThreadFacts, AtFields DEF Go
  <1>p. pc \in [Threads -> PcRecord]
    BY TypeEq
  <1>o. InSeat(e) \/ \E t \in Threads : pc[t].at \in LoosePlaces /\ pc[t].engine = e
    BY DEF Owned
  <1>i. ASSUME seats' = seats, \A s \in Threads : pc'[s].at = pc[s].at /\ pc'[s].engine = pc[s].engine
        PROVE  Owned(e)'
    BY <1>o, <1>i DEF Owned, InSeat
  <1>m. ASSUME seats' = seats, NEW t \in Threads, \A s \in Threads : s # t => pc'[s] = pc[s],
               \/ pc[t].at \notin LoosePlaces
               \/ pc[t].engine # e
               \/ pc'[t].at \in LoosePlaces /\ pc'[t].engine = pc[t].engine
        PROVE  Owned(e)'
    BY <1>o, <1>m DEF Owned, InSeat
  <1>1. ASSUME NEW w \in Workers, CreatePipe(w) PROVE Owned(e)'
    BY <1>1, <1>i DEF CreatePipe
  <1>2. ASSUME NEW w \in Workers, CloseOnExec(w) PROVE Owned(e)'
    <2>1. \A s \in Threads : pc'[s].at = pc[s].at /\ pc'[s].engine = pc[s].engine
      BY <1>2, <1>p DEF CloseOnExec, PcRecord
    <2> QED BY <1>2, <1>i, <2>1 DEF CloseOnExec
  <1>3. ASSUME NEW w \in Workers,
               \/ Construct(w) \/ BeginGame(w) \/ Acquire(w) \/ SpawnFails(w) \/ NotGreeted(w) \/ Interrupted(w) \/ Disconnected(w)
               \/ Leave(w) \/ Greeted(w) \/ Answers(w)
        PROVE  Owned(e)'
    <2>1. /\ seats' = seats /\ pc[w].at \notin LoosePlaces
          /\ \E r : pc' = [pc EXCEPT ![w] = r]
      BY <1>3 DEF Construct, BeginGame, Acquire, SpawnFails, NotGreeted, Interrupted, Disconnected, Leave, Greeted, Answers,
         Reaches, LoosePlaces
    <2> QED BY <1>p, <1>m, <2>1
  <1>4. ASSUME NEW w \in Workers, Turn(w) \/ Restart(w) \/ Spawn(w) \/ Attach(w) PROVE Owned(e)'
    <2>1. seats' = seats /\ pc[w].at \notin LoosePlaces /\ \E r : pc' = [pc EXCEPT ![w] = r]
      BY <1>4 DEF Turn, Restart, Spawn, Attach, Reaches, LoosePlaces
    <2> QED BY <1>p, <1>m, <2>1
  <1>5. ASSUME NEW w \in Workers, TakeSeat(w) PROVE Owned(e)'
    <2>1. /\ seats' = [seats EXCEPT ![w] = Append(seats[w], pc[w].engine)] /\ pc[w].engine \in Engines
          /\ \A s \in Threads : s # w => pc'[s] = pc[s]
      <3>1. pc[w].at = "built"
        BY <1>5 DEF TakeSeat, Reaches
      <3> QED BY <1>5, <1>p, <3>1 DEF TakeSeat, PcRecord, Whereabouts, FreePlaces
    <2>2. \A v \in Workers : v # w => seats'[v] = seats[v]
      BY <2>1 DEF TypeOK
    <2>3. /\ \A i \in DOMAIN seats[w] : i \in DOMAIN seats'[w] /\ seats'[w][i] = seats[w][i]
          /\ \E i \in DOMAIN seats'[w] : seats'[w][i] = pc[w].engine
      <3>1. seats'[w] = Append(seats[w], pc[w].engine) /\ seats[w] \in Seq(Engines)
        BY <2>1 DEF TypeOK
      <3>2. Len(seats[w]) + 1 \in DOMAIN Append(seats[w], pc[w].engine)
        BY <2>1, <3>1
      <3> QED BY <2>1, <3>1, <3>2, SeqFacts
    <2>4. CASE InSeat(e)
      BY <2>2, <2>3, <2>4 DEF Owned, InSeat
    <2>5. ASSUME NEW t \in Threads, pc[t].at \in LoosePlaces, pc[t].engine = e PROVE Owned(e)'
      BY <2>1, <2>3, <2>5 DEF Owned, InSeat
    <2> QED BY <1>o, <2>4, <2>5
  <1>6. ASSUME NEW w \in Workers, Replace(w) PROVE Owned(e)'
    <2>1. PICK d \in DOMAIN seats[w] :
           /\ pc[w].at = "replace"
           /\ pc' = [pc EXCEPT ![w] = At("quit", seats[w][d])]
           /\ seats' = [seats EXCEPT ![w] = [seats[w] EXCEPT ![d] = pc[w].engine]]
           /\ DOMAIN seats'[w] = DOMAIN seats[w]
           /\ seats'[w][d] = pc[w].engine
           /\ \A i \in DOMAIN seats[w] : i # d => seats'[w][i] = seats[w][i]
      BY <1>6, ReplaceFacts
    <2>2. /\ \A v \in Workers : v # w => seats'[v] = seats[v]
          /\ pc'[w].at \in LoosePlaces /\ pc'[w].engine = seats[w][d]
          /\ \A s \in Threads : s # w => pc'[s] = pc[s]
      BY <1>p, <2>1 DEF TypeOK, LoosePlaces
    <2>3. ASSUME NEW v \in Workers, NEW i \in DOMAIN seats[v], seats[v][i] = e PROVE Owned(e)'
      <3>1. CASE v = w /\ i = d
        BY <2>2, <2>3, <3>1 DEF Owned
      <3>2. CASE ~(v = w /\ i = d)
        BY <2>1, <2>2, <2>3, <3>2 DEF Owned, InSeat
      <3> QED BY <3>1, <3>2
    <2>4. ASSUME NEW t \in Threads, pc[t].at \in LoosePlaces, pc[t].engine = e PROVE Owned(e)'
      <3>1. CASE t = w
        BY <2>1, <2>4, <3>1 DEF Owned, InSeat
      <3>2. CASE t # w
        BY <2>2, <2>4, <3>2 DEF Owned
      <3> QED BY <3>1, <3>2
    <2> QED BY <1>o, <2>3, <2>4 DEF InSeat
  <1>7. ASSUME NEW t \in Threads, Quit(t) \/ Unlist(t) \/ Wait(t) PROVE Owned(e)'
    <2>1. seats' = seats /\ \E p \in LoosePlaces : pc' = [pc EXCEPT ![t] = At(p, pc[t].engine)]
      BY <1>7 DEF Quit, Unlist, Wait, LoosePlaces
    <2> QED BY <1>p, <1>m, <2>1
  <1>8. ASSUME NEW t \in Threads, Close(t) PROVE Owned(e)'
    <2>1. pc[t].engine # e /\ seats' = seats /\ \E r : pc' = [pc EXCEPT ![t] = r]
      BY <1>8 DEF Close
    <2> QED BY <1>p, <1>m, <2>1
  <1>9. CASE TakeDown
    <2>1. PICK w \in Workers : /\ seats[w] # <<>> /\ seats' = [seats EXCEPT ![w] = Tail(@)]
                               /\ Go(Main, At("quit", Head(seats[w])))
      BY <1>9 DEF TakeDown
    <2>2. /\ pc'[Main].at \in LoosePlaces /\ pc'[Main].engine = Head(seats[w]) /\ \A s \in Workers : pc'[s] = pc[s]
          /\ pc[Main].at = "idle"
      BY <1>9, <1>p, <2>1 DEF TakeDown, LoosePlaces, Idle
    <2>3. /\ seats[w] \in Seq(Engines) /\ seats'[w] = Tail(seats[w])
          /\ \A v \in Workers : v # w => seats'[v] = seats[v]
      BY <2>1 DEF TypeOK
    <2>4. ASSUME NEW i \in DOMAIN seats[w], i # 1 PROVE i - 1 \in DOMAIN seats'[w] /\ seats'[w][i - 1] = seats[w][i]
      <3>1. i \in 1..Len(seats[w]) /\ i - 1 \in 1..(Len(seats[w]) - 1)
        BY <2>3, <2>4
      <3>2. (i - 1) + 1 = i
        BY <3>1
      <3>3. i - 1 \in DOMAIN Tail(seats[w])
        BY <2>1, <2>3, <3>1, SeqFacts
      <3>4. Tail(seats[w])[i - 1] = seats[w][(i - 1) + 1]
        BY <2>1, <2>3, <3>3, SeqFacts
      <3> QED BY <2>3, <3>2, <3>3, <3>4
    <2>5. ASSUME NEW v \in Workers, NEW i \in DOMAIN seats[v], seats[v][i] = e PROVE Owned(e)'
      <3>1. CASE v = w /\ i = 1
        <4>1. Head(seats[w]) = e
          BY <2>1, <2>3, <2>5, <3>1
        <4> QED BY <2>2, <4>1 DEF Owned
      <3>2. CASE v = w /\ i # 1
        BY <2>4, <2>5, <3>2 DEF Owned, InSeat
      <3>3. CASE v # w
        BY <2>3, <2>5, <3>3 DEF Owned, InSeat
      <3> QED BY <3>1, <3>2, <3>3
    <2>6. ASSUME NEW t \in Threads, pc[t].at \in LoosePlaces, pc[t].engine = e PROVE Owned(e)'
      <3>1. t # Main
        BY <2>2, <2>6 DEF LoosePlaces
      <3>2. pc'[t] = pc[t]
        BY <2>2, <3>1
      <3> QED BY <2>6, <3>2 DEF Owned
    <2> QED BY <1>o, <2>5, <2>6 DEF InSeat
  <1>10. CASE Exit
    <2>0. pc[Main].at = "idle"
      BY <1>10 DEF Exit, Idle
    <2>1. seats' = seats /\ pc[Main].at \notin LoosePlaces /\ \E r : pc' = [pc EXCEPT ![Main] = r]
      BY <1>10, <2>0 DEF Exit, LoosePlaces
    <2> QED BY <1>p, <1>m, <2>1
  <1>11. CASE WakeReaders \/ StopTournament \/ (\E f \in Engines : Dies(f)) \/ UNCHANGED vars
    BY <1>11, <1>i DEF WakeReaders, StopTournament, Dies, vars
  <1> QED BY <1>1, <1>2, <1>3, <1>4, <1>5, <1>6, <1>7, <1>8, <1>9, <1>10, <1>11 DEF Next, WorkerSteps, MainSteps

\* What is in the list is somebody's.
ListedIsOwned == \A e \in list : Owned(e)

(* A step keeps ListedIsOwned. *)
LEMMA StepListedIsOwned ==
  ASSUME TypeOK, Whereabouts, DeadIsSeated, Ownership, Unlisted, ListedIsOwned, [Next]_vars
  PROVE  ListedIsOwned'
  <1> USE ThreadFacts, AtFields DEF Go
  <1>o. \A w \in Workers : pc[w].at \in SeatPlaces => Owned(pc[w].engine)
    BY DEF Ownership, UserIsSeated, Owned, InSeat
  <1>1. \A e \in list' : e \in list \/ \E w \in Workers : Attach(w) /\ e = pc[w].engine
    <2>1. ASSUME NEW w \in Workers,
                 \/ CreatePipe(w) \/ CloseOnExec(w) \/ Construct(w) \/ TakeSeat(w) \/ BeginGame(w) \/ Acquire(w) \/ SpawnFails(w)
                 \/ NotGreeted(w) \/ Interrupted(w) \/ Disconnected(w) \/ Replace(w) \/ Leave(w) \/ Greeted(w) \/ Answers(w)
                 \/ Spawn(w) \/ Turn(w) \/ Restart(w)
          PROVE  list' = list
      BY <2>1 DEF CreatePipe, CloseOnExec, Construct, TakeSeat, BeginGame, Acquire, SpawnFails, NotGreeted, Interrupted,
         Disconnected, Replace, Leave, Greeted, Answers, Spawn, Turn, Restart, parent
    <2>2. ASSUME NEW t \in Threads, Quit(t) \/ Unlist(t) \/ Wait(t) \/ Close(t) PROVE list' \subseteq list
      BY <2>2 DEF Quit, Unlist, Wait, Close
    <2>3. WakeReaders \/ TakeDown \/ Exit \/ StopTournament \/ (\E f \in Engines : Dies(f)) \/ UNCHANGED vars => list' = list
      BY DEF WakeReaders, TakeDown, Exit, StopTournament, Dies, vars, parent
    <2>4. ASSUME NEW w \in Workers, Attach(w) PROVE list' = list \cup {pc[w].engine}
      BY <2>4 DEF Attach
    <2> QED BY <2>1, <2>2, <2>3, <2>4 DEF Next, WorkerSteps, MainSteps
  <1>2. ASSUME NEW e \in list' PROVE Owned(e)'
    <2>1. e \in Engines /\ Owned(e)
      <3>1. CASE e \in list
        BY <3>1 DEF ListedIsOwned, TypeOK
      <3>2. ASSUME NEW w \in Workers, Attach(w), e = pc[w].engine PROVE e \in Engines /\ Owned(e)
        <4>1. pc[w].at = "attach"
          BY <3>2 DEF Attach, Reaches
        <4>2. pc[w].engine \in Engines
          BY <4>1, TypeEq DEF PcRecord, Whereabouts, FreePlaces
        <4> QED BY <1>o, <3>2, <4>1, <4>2 DEF SeatPlaces
      <3> QED BY <1>1, <1>2, <3>1, <3>2
    <2>2. ASSUME NEW t \in Threads, Close(t), pc[t].engine = e PROVE FALSE
      <3>1. e \notin list /\ pc[t].at = "close"
        BY <2>2 DEF Close, Unlisted
      <3>2. PICK w \in Workers : Attach(w) /\ e = pc[w].engine
        BY <1>1, <1>2, <3>1
      <3>3. pc[w].at = "attach"
        BY <3>2 DEF Attach, Reaches
      <3> QED BY <2>2, <3>1, <3>2, <3>3, OneUser DEF SeatPlaces, LoosePlaces
    <2> QED BY <2>1, <2>2, StepKeepsOwned
  <1> QED BY <1>2 DEF ListedIsOwned

-----------------------------------------------------------------------------
\* Nothing is left of an engine.
Gone(e) == life[e] \in {"none", "reaped"} /\ ends[e] = {} /\ event[e] = "closed"
\* An engine that is nobody's was never used, or nothing is left of it.
OrphansAreGone == \A e \in Engines : Owned(e) \/ Gone(e)

(* A step keeps OrphansAreGone: the destructor leaves nothing, and nothing comes back. *)
LEMMA StepOrphansAreGone ==
  ASSUME TypeOK, Whereabouts, DeadIsSeated, Ownership, Lives, ListedIsOwned, OrphansAreGone, [Next]_vars
  PROVE  OrphansAreGone'
  <1> USE ThreadFacts
  <1>p. pc \in [Threads -> PcRecord]
    BY TypeEq
  <1>e. \A t \in Threads : pc[t].at \notin FreePlaces => pc[t].engine \in Engines
    BY <1>p DEF PcRecord, Whereabouts
  <1>o. \A t \in Threads : pc[t].at \in SeatPlaces \cup LoosePlaces => Owned(pc[t].engine)
    BY DEF Whereabouts, SeatPlaces, LoosePlaces, Ownership, UserIsSeated, Owned, InSeat
  <1>1. ASSUME NEW e \in Engines, NEW t \in Threads, Close(t), pc[t].engine = e PROVE Gone(e)'
    <2>1. life[e] \in {"none", "reaped"} /\ life' = life
      BY <1>1 DEF Close, Lives, LifeAt, children
    <2>2. ends'[e] = {} /\ event'[e] = "closed"
      BY <1>1 DEF Close, TypeOK
    <2> QED BY <2>1, <2>2 DEF Gone
  <1>2. ASSUME NEW e \in Engines, ~Owned(e) PROVE Gone(e)'
    <2>0. Gone(e) /\ e \notin list
      BY <1>2 DEF OrphansAreGone, ListedIsOwned
    <2>l. life'[e] \in {"none", "reaped"}
      <3>1. ASSUME NEW w \in Workers, Spawn(w) PROVE life'[e] = life[e]
        <4>1. pc[w].at \in SeatPlaces /\ life' = [life EXCEPT ![pc[w].engine] = "running"]
          BY <3>1 DEF Spawn, Reaches, SeatPlaces
        <4>2. pc[w].engine # e
          BY <1>o, <1>2, <4>1
        <4> QED BY <4>1, <4>2 DEF TypeOK
      <3>2. LifeKept => life'[e] = life[e]
        BY <2>0 DEF LifeKept, Gone
      <3> QED BY <2>0, <3>1, <3>2, StepKeepsLife DEF Gone
    <2>s. ASSUME event'[e] = event[e], ends'[e] \subseteq ends[e] PROVE Gone(e)'
      BY <2>0, <2>l, <2>s DEF Gone
    <2>1. ASSUME NEW w \in Workers, CreatePipe(w) PROVE Gone(e)'
      <3>1. pc[w].at \in LoosePlaces \cup SeatPlaces
        BY <2>1 DEF CreatePipe, Whereabouts, LoosePlaces, SeatPlaces
      <3>2. pc[w].engine # e
        BY <1>o, <1>2, <3>1
      <3> QED BY <2>1, <2>s, <3>2 DEF CreatePipe, TypeOK
    <2>2. ASSUME NEW w \in Workers, Attach(w) PROVE Gone(e)'
      <3>1. pc[w].at \in SeatPlaces
        BY <2>2 DEF Attach, Reaches, SeatPlaces
      <3>2. pc[w].engine # e
        BY <1>o, <1>2, <3>1
      <3> QED BY <2>2, <2>s, <3>2 DEF Attach, TypeOK
    <2>3. ASSUME NEW w \in Workers, NotGreeted(w) \/ Interrupted(w) PROVE Gone(e)'
      BY <2>0, <2>3, <2>s DEF NotGreeted, Interrupted, TypeOK, Gone
    <2>4. ASSUME NEW w \in Workers, Acquire(w) PROVE Gone(e)'
      BY <2>4, <2>s DEF Acquire, DropErr, TypeOK
    <2>5. CASE WakeReaders
      BY <2>0, <2>5, <2>s DEF WakeReaders, TypeOK
    <2>6. ASSUME NEW t \in Threads, Close(t) PROVE Gone(e)'
      <3>1. pc[t].at \in LoosePlaces
        BY <2>6 DEF Close, LoosePlaces
      <3>2. pc[t].engine # e
        BY <1>o, <1>2, <3>1
      <3> QED BY <2>6, <2>s, <3>2 DEF Close, TypeOK
    <2>7. ASSUME NEW w \in Workers,
                 \/ CloseOnExec(w) \/ Construct(w) \/ TakeSeat(w) \/ BeginGame(w) \/ SpawnFails(w) \/ Spawn(w) \/ Turn(w) \/ Restart(w)
                 \/ Disconnected(w) \/ Replace(w) \/ Leave(w) \/ Greeted(w) \/ Answers(w)
          PROVE  Gone(e)'
      BY <2>7, <2>s DEF CloseOnExec, Construct, TakeSeat, BeginGame, SpawnFails, Spawn, Turn, Restart,
         Disconnected, Replace, Leave, Greeted, Answers, parent
    <2>8. ASSUME NEW t \in Threads, Quit(t) \/ Unlist(t) \/ Wait(t) PROVE Gone(e)'
      BY <2>8, <2>s DEF Quit, Unlist, Wait
    <2>9. CASE TakeDown \/ Exit \/ StopTournament \/ (\E f \in Engines : Dies(f)) \/ UNCHANGED vars
      BY <2>9, <2>s DEF TakeDown, Exit, StopTournament, Dies, vars, parent
    <2> QED BY <2>1, <2>2, <2>3, <2>4, <2>5, <2>6, <2>7, <2>8, <2>9 DEF Next, WorkerSteps, MainSteps
  <1>3. ASSUME NEW e \in Engines, Owned(e), \A t \in Threads : ~(Close(t) /\ pc[t].engine = e) PROVE Owned(e)'
    BY <1>3, StepKeepsOwned
  <1> QED BY <1>1, <1>2, <1>3 DEF OrphansAreGone

\* The program ends when all workers have left and the caches are empty.
OverIsEmpty == pc[Main].at = "over" => \A w \in Workers : pc[w].at = "done" /\ seats[w] = <<>>

(* A step keeps OverIsEmpty. *)
LEMMA StepOverIsEmpty ==
  ASSUME TypeOK, Whereabouts, OverIsEmpty, [Next]_vars
  PROVE  OverIsEmpty'
  <1> USE ThreadFacts, AtFields DEF Go
  <1>p. pc \in [Threads -> PcRecord]
    BY TypeEq
  <1>i. ASSUME seats' = seats, pc' = pc PROVE OverIsEmpty'
    BY <1>i DEF OverIsEmpty
  <1>n. ASSUME pc[Main].at # "over", pc'[Main].at = pc[Main].at PROVE OverIsEmpty'
    BY <1>n DEF OverIsEmpty
  <1>w. ASSUME NEW w \in Workers, pc[w].at # "done", \E r : pc' = [pc EXCEPT ![w] = r] PROVE OverIsEmpty'
    <2>1. pc[Main].at # "over" /\ pc'[Main] = pc[Main]
      BY <1>p, <1>w DEF OverIsEmpty
    <2> QED BY <1>n, <2>1
  <1>1. ASSUME NEW w \in Workers, CreatePipe(w) PROVE OverIsEmpty'
    BY <1>1, <1>i DEF CreatePipe
  <1>2. ASSUME NEW w \in Workers,
               \/ Construct(w) \/ TakeSeat(w) \/ BeginGame(w) \/ Acquire(w) \/ Spawn(w) \/ SpawnFails(w) \/ Attach(w) \/ NotGreeted(w)
               \/ Turn(w) \/ Interrupted(w) \/ Disconnected(w) \/ Restart(w) \/ Replace(w) \/ Leave(w) \/ Greeted(w) \/ Answers(w)
        PROVE  OverIsEmpty'
    <2>1. pc[w].at # "done"
      BY <1>2 DEF Construct, TakeSeat, BeginGame, Acquire, Spawn, SpawnFails, Attach, NotGreeted, Turn, Interrupted, Disconnected,
         Restart, Replace, Leave, Greeted, Answers, Reaches
    <2>2. \E r : pc' = [pc EXCEPT ![w] = r]
      BY <1>2 DEF Construct, TakeSeat, BeginGame, Acquire, Spawn, SpawnFails, Attach, NotGreeted, Turn, Interrupted, Disconnected,
         Restart, Replace, Leave, Greeted, Answers
    <2> QED BY <1>w, <2>1, <2>2
  <1>3. ASSUME NEW w \in Workers, CloseOnExec(w) PROVE OverIsEmpty'
    <2>1. pc[w].at # "done" /\ \E r : pc' = [pc EXCEPT ![w] = r]
      BY <1>3 DEF CloseOnExec, Whereabouts
    <2> QED BY <1>w, <2>1
  <1>4. ASSUME NEW t \in Threads, Quit(t) \/ Unlist(t) \/ Wait(t) \/ Close(t) PROVE OverIsEmpty'
    <2>1. pc[t].at \notin {"done", "over"} /\ \E p \in Places \ {"over"} : \E x : pc' = [pc EXCEPT ![t] = At(p, x)]
      BY <1>4 DEF Quit, Unlist, Wait, Close, Idle, Places
    <2>2. CASE t = Main
      BY <1>p, <2>1, <2>2 DEF OverIsEmpty
    <2>3. CASE t \in Workers
      BY <1>w, <2>1, <2>3
    <2> QED BY <2>2, <2>3
  <1>5. CASE TakeDown
    <2>1. \E x : pc' = [pc EXCEPT ![Main] = At("quit", x)]
      BY <1>5 DEF TakeDown
    <2> QED BY <1>p, <2>1 DEF OverIsEmpty
  <1>6. CASE Exit
    <2>1. /\ \A w \in Workers : pc[w].at = "done" /\ seats[w] = <<>>
          /\ seats' = seats /\ \A w \in Workers : pc'[w] = pc[w]
      BY <1>6, <1>p DEF Exit
    <2> QED BY <2>1 DEF OverIsEmpty
  <1>7. CASE WakeReaders \/ StopTournament \/ (\E e \in Engines : Dies(e)) \/ UNCHANGED vars
    BY <1>7, <1>i DEF WakeReaders, StopTournament, Dies, vars
  <1> QED BY <1>1, <1>2, <1>3, <1>4, <1>5, <1>6, <1>7 DEF Next, WorkerSteps, MainSteps

-----------------------------------------------------------------------------
\* The inductive invariant.
IInv ==
    /\ TypeOK /\ Whereabouts
    /\ Ownership /\ DeadIsSeated
    /\ Lives /\ Holdings
    /\ Listed /\ Unlisted /\ SeatIsListed /\ ListedIsOwned
    /\ OrphansAreGone /\ OverIsEmpty

(* It holds at the start, *)
LEMMA InitIInv == Init => IInv
  <1> SUFFICES ASSUME Init PROVE IInv
    OBVIOUS
  <1> USE ThreadFacts
  <1>0. \A t \in Threads : pc[t] = Idle
    BY DEF Init
  <1>1. \A t \in Threads : pc[t].at = "idle" /\ pc[t].engine = NoEngine /\ pc[t].pipes = <<>>
    BY <1>0, AtFields DEF Idle
  <1>2. \A w \in Workers : seats[w] = <<>> /\ DOMAIN seats[w] = {}
    BY DEF Init
  <1>3. TypeOK
    <2>1. Idle \in PcRecord
      BY AtType DEF Idle, Places
    <2>2. pc \in [Threads -> PcRecord]
      BY <2>1 DEF Init
    <2>3. \A w \in Workers : <<>> \in Seq(Engines)
      OBVIOUS
    <2>4. seats \in [Workers -> Seq(Engines)]
      BY <2>3 DEF Init
    <2> QED BY <2>2, <2>4 DEF Init, TypeOK, PcRecord
  <1>4. Whereabouts
    BY <1>1 DEF Whereabouts, FreePlaces
  <1>5. Ownership /\ DeadIsSeated
    BY <1>1, <1>2 DEF Ownership, SeatsDistinct, LooseNotSeated, OneDestroyer, UserIsSeated, DeadIsSeated, SeatPlaces, LoosePlaces
  <1>6. Lives
    BY <1>1 DEF Lives, LifeAt
  <1>7. Holdings
    BY DEF Init, Holdings, HeldByRunning, RunningHolds, HeldByStrangers
  <1>8. Listed /\ Unlisted /\ ListedIsOwned
    BY DEF Init, Listed, Unlisted, ListedIsOwned
  <1>9. SeatIsListed /\ OverIsEmpty
    BY <1>1, <1>2 DEF SeatIsListed, OverIsEmpty
  <1>10. OrphansAreGone
    BY DEF Init, OrphansAreGone, Gone
  <1> QED BY <1>3, <1>4, <1>5, <1>6, <1>7, <1>8, <1>9, <1>10 DEF IInv

(* and after every step, *)
LEMMA NextIInv == IInv /\ [Next]_vars => IInv'
  <1> SUFFICES ASSUME IInv, [Next]_vars PROVE IInv'
    OBVIOUS
  <1>1. TypeOK /\ Whereabouts /\ Ownership /\ DeadIsSeated /\ Lives /\ Holdings
    BY DEF IInv
  <1>2. Listed /\ Unlisted /\ SeatIsListed /\ ListedIsOwned /\ OrphansAreGone /\ OverIsEmpty
    BY DEF IInv
  <1>3. RunningHolds
    BY <1>1 DEF Holdings
  <1>4. TypeOK' /\ Whereabouts' /\ Ownership' /\ DeadIsSeated'
    BY <1>1, StepTyped, StepWhereabouts, StepOwnership, StepDeadIsSeated
  <1>5. Lives' /\ Holdings'
    BY <1>1, <1>3, StepLives, StepHoldings
  <1>6. Listed' /\ Unlisted' /\ SeatIsListed'
    BY <1>1, <1>2, StepListed, StepUnlisted, StepSeatIsListed
  <1>7. ListedIsOwned' /\ OrphansAreGone' /\ OverIsEmpty'
    BY <1>1, <1>2, StepListedIsOwned, StepOrphansAreGone, StepOverIsEmpty
  <1> QED BY <1>4, <1>5, <1>6, <1>7 DEF IInv

(* and so always. *)
LEMMA AlwaysIInv == Spec => []IInv
  BY InitIInv, NextIInv, PTL DEF Spec

(* Every variable has its type: a step never takes a seat that is not there, and leaves every end
   of a pipe with an engine. *)
THEOREM TypeCorrect == Spec => []TypeOK
  <1>1. IInv => TypeOK
    BY DEF IInv
  <1> QED BY <1>1, AlwaysIInv, PTL

(* The engine that a worker waits for is in the list. *)
LEMMA UserIsListed ==
  ASSUME IInv, NEW w \in Workers, pc[w].at \in {"uciok", "search"}
  PROVE  pc[w].engine \in list
  <1>1. PICK i \in DOMAIN seats[w] : seats[w][i] = pc[w].engine
    BY DEF IInv, Ownership, UserIsSeated, SeatPlaces
  <1>2. life[pc[w].engine] # "none"
    BY ThreadFacts DEF IInv, Lives, LifeAt
  <1> QED BY <1>1, <1>2 DEF IInv, SeatIsListed, Started

(* writeToOpenPipes reaches every worker that waits for an engine, and touches no event that is
   closed: for any number of workers and engines, in every interleaving. *)
THEOREM StopReachesEveryReader == Spec => []EntriesAreLive
  <1>1. IInv => EntriesAreLive
    BY UserIsListed DEF EntriesAreLive, IInv, Listed
  <1> QED BY <1>1, AlwaysIInv, PTL

(* The death of an engine is seen by the worker that waits for its move, unless the process of
   another engine inherited the pipe. *)
THEOREM DeathHangsUp == Spec => []DeathIsSeen
  <1>1. IInv => DeathIsSeen
    <2> SUFFICES ASSUME IInv, NEW w \in Workers, Reaches(w, "search"),
                        life[pc[w].engine] # "running", <<pc[w].engine, "in">> \notin strangers
                 PROVE  HungUp(pc[w].engine)
      BY DEF DeathIsSeen
    <2> DEFINE e == pc[w].engine
    <2>1. e \in list
      BY UserIsListed DEF Reaches
    <2>2. <<"in", "w">> \notin ends[e] /\ e \in Engines
      BY <2>1 DEF IInv, Listed, TypeOK
    <2>3. ASSUME NEW f \in Engines, <<e, <<"in", "w">> >> \in held[f] PROVE FALSE
      <3>1. f # e
        BY <2>3 DEF IInv, Holdings, HeldByRunning
      <3>2. <<<<e, <<"in", "w">> >>[1], <<e, <<"in", "w">> >>[2][1]>> \in strangers
        BY <2>3, <3>1 DEF IInv, Holdings, HeldByStrangers
      <3> QED BY <3>2
    <2> QED BY <2>2, <2>3 DEF HungUp
  <1> QED BY <1>1, AlwaysIInv, PTL

(* When the program ends no process is left that was not waited for, the list is empty, and no
   pipe and no event is open. *)
THEOREM ShutdownLeavesNothing == Spec => []NothingLeftBehind
  <1>1. IInv => NothingLeftBehind
    <2> SUFFICES ASSUME IInv, pc[Main].at = "over"
                 PROVE  /\ list = {}
                        /\ \A e \in Engines : life[e] \in {"none", "reaped"} /\ ends[e] = {} /\ event[e] = "closed"
      BY DEF NothingLeftBehind
    <2>1. \A w \in Workers : pc[w].at = "done" /\ DOMAIN seats[w] = {}
      BY DEF IInv, OverIsEmpty
    <2>2. \A e : ~Owned(e)
      BY <2>1, ThreadFacts DEF Owned, InSeat, LoosePlaces
    <2>3. list = {}
      BY <2>2 DEF IInv, ListedIsOwned
    <2> QED BY <2>2, <2>3 DEF IInv, OrphansAreGone, Gone
  <1> QED BY <1>1, AlwaysIInv, PTL
=============================================================================

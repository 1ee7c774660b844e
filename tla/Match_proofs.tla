---------------------------- MODULE Match_proofs ----------------------------
(***************************************************************************)
(* Proofs about one game, for any set of configurations and games of any   *)
(* length. The trackers and the clocks are counters of the code; what the  *)
(* properties say is about the moves played and the time used. The         *)
(* invariant IInv says which of the two each counter stands for, and that  *)
(* a game in progress has no verdict yet.                                  *)
(***************************************************************************)
EXTENDS Match, FiniteSetTheorems, TLAPS

\* Before the first move a game may be lost already, by an engine that failed.
Opening == {"start", "refreshWhite", "refreshBlack", "ping"}

\* The verdict: what each kind of end comes with, and none before there is one.
Causes ==
    /\ phase = "done" /\ termination = "None" => stop
    /\ termination = "INTERRUPT" => stop \/ conf.throws
    /\ termination \notin {"None", "INTERRUPT"} => result \in Outcomes
    /\ broken => termination \in {"DISCONNECT", "STALL"} \/ (termination = "INTERRUPT" /\ stop)
    /\ termination \in {"DISCONNECT", "STALL"} => broken
Undecided ==
    /\ phase \in InGame => termination = "None"
    /\ phase # "done" /\ termination = "None" => reason = Because("none", "nobody")
    /\ phase # "done" => reason.text \in {"none", "interrupted", "disconnects"}

\* Every tracker counts the moves it is about.
DrawsCounted ==
    phase # "done" /\ conf.draw.move_count > 0 =>
        /\ drawMoves <= Len(moves)
        /\ \A n \in 0..Len(moves) : DrawRun(n) <=> n <= drawMoves
LengthCounted == phase # "done" => maxMoves = Len(moves)
ResignCounted ==
    phase # "done" =>
        IF conf.resign.twosided THEN DecisiveRun(resignMoves.both)
        ELSE \A c \in Colors :
                /\ LosingRun(c, resignMoves[c])
                /\ resignMoves[c] > 0 => Losing(conf.resign, lastScore[c])

\* Nobody has had reason to resign before its own last move.
NotResigned ==
    phase # "done" /\ conf.resign.enabled /\ ~conf.resign.twosided
        /\ conf.resign.score > 0 /\ conf.resign.move_count > 0 =>
            /\ phase \in Opening => \A c \in Colors : resignMoves[c] = 0
            /\ resignMoves[us] < conf.resign.move_count
            /\ phase # "turn" => resignMoves[them] < conf.resign.move_count

\* The clock of an engine: the moves to the next time control, and between which bounds
\* its time is.
ControlRuns(limits, k, n) ==
    limits.moves > 0 => /\ k.moves_left \in 1..limits.moves
                        /\ HasTimeControl(limits) => n % limits.moves = limits.moves - k.moves_left
TimeRuns(limits, k, u) ==
    IF limits.fixed_time # 0
    THEN /\ k.time_left = limits.fixed_time
         /\ u.time <= u.answers * (limits.fixed_time + limits.timemargin)
    ELSE /\ k.time_left >= limits.increment
         /\ HasTimeControl(limits) =>
                /\ k.time_left >= Budget(limits, u.answers) + limits.increment - u.time
                /\ k.time_left <= Budget(limits, u.answers) + limits.increment - u.time
                                  + u.answers * limits.timemargin
ClocksRun ==
    phase # "done" =>
        \A c \in Colors : /\ ControlRuns(conf.limits[c], clock[c], used[c].answers)
                          /\ TimeRuns(conf.limits[c], clock[c], used[c])

\* The command an engine searches by shows the clocks as they are.
ToldIsTrue == phase \in {"search", "answer"} => told = GoCommand

IInv == /\ TypeOK /\ Causes /\ Undecided
        /\ DrawsCounted /\ LengthCounted /\ ResignCounted /\ NotResigned
        /\ ClocksRun /\ ToldIsTrue
        /\ DrawIsExact /\ ResignIsEarned /\ TimeLossIsEarned

-----------------------------------------------------------------------------
(* Configurations, scores and colours.                                     *)

(* What is known of a configuration. *)
LEMMA ConfFacts ==
  ASSUME conf \in Configs
  PROVE  /\ conf.limits \in [Colors -> Limits] /\ conf.endless \in [Colors -> BOOLEAN]
         /\ \A c \in Colors : Playable(conf.limits[c])
         /\ conf.draw \in DrawConfig /\ conf.resign \in ResignConfig
         /\ conf.maxmoves \in MaxMovesConfig
         /\ conf.first \in Colors /\ conf.fullMove \in Nat \ {0} /\ conf.throws \in BOOLEAN
         /\ conf.scores \subseteq Score \cup {NoScore} /\ conf.elapsed \subseteq Nat
         /\ conf.zeroing \subseteq BOOLEAN
  BY MatchAssumption DEF Config

(* There are two colours. *)
LEMMA ColorFacts ==
  /\ "white" \in Colors /\ "black" \in Colors
  /\ \A c \in Colors : Other(c) \in Colors /\ Other(c) # c /\ Other(Other(c)) = c
  /\ \A c, d \in Colors : d = c \/ d = Other(c)
  BY DEF Colors, Other

-----------------------------------------------------------------------------
(* The clock.                                                              *)

(* Division by a positive number. *)
LEMMA DivMod ==
  ASSUME NEW n \in Nat, NEW m \in Nat \ {0}
  PROVE  n = m * (n \div m) + (n % m) /\ n % m \in 0..(m - 1) /\ n \div m \in Nat
  BY SMT

(* One time more. *)
LEMMA TimesNext == \A a, b \in Nat : a * b \in Nat /\ a * (b + 1) = a * b + a
  OBVIOUS

(* Quotient and remainder are unique. *)
LEMMA DivUnique ==
  ASSUME NEW n \in Nat, NEW m \in Nat \ {0}, NEW q \in Nat, NEW r \in 0..(m - 1), n = m * q + r
  PROVE  n \div m = q /\ n % m = r
  <1>1. n \div m = q
    BY SMT
  <1> QED BY <1>1, DivMod

(* The time that comes with the last move of a time control. *)
Credit(limits, k) == IF limits.moves > 0 /\ k.moves_left = 1 THEN limits.time ELSE 0

(* MovesPlayed counts the move and credits the time. *)
LEMMA MovesPlayedFacts ==
  ASSUME NEW limits \in Limits, NEW k \in Clock,
         limits.moves > 0 => k.moves_left \in 1..limits.moves
  PROVE  /\ MovesPlayed(limits, k) \in Clock
         /\ Credit(limits, k) \in Nat
         /\ MovesPlayed(limits, k).time_left = k.time_left + Credit(limits, k)
         /\ limits.moves > 0 =>
                /\ MovesPlayed(limits, k).moves_left \in 1..limits.moves
                /\ MovesPlayed(limits, k).moves_left =
                       IF k.moves_left = 1 THEN limits.moves ELSE k.moves_left - 1
  <1>1. CASE limits.moves = 0
    BY <1>1 DEF MovesPlayed, Limits, Clock, Credit
  <1>2. CASE limits.moves > 0 /\ k.moves_left = 1
    BY <1>2 DEF MovesPlayed, Limits, Clock, Credit
  <1>3. CASE limits.moves > 0 /\ k.moves_left # 1
    <2>1. MovesPlayed(limits, k) = [k EXCEPT !.moves_left = @ - 1]
      BY <1>3 DEF MovesPlayed, Limits
    <2> QED BY <1>3, <2>1 DEF Limits, Clock, Credit
  <1> QED BY <1>1, <1>2, <1>3 DEF Limits

(* The clock after a move, and whether it was in time. *)
LEMMA UpdateTimeFacts ==
  ASSUME NEW limits \in Limits, NEW k \in Clock,
         limits.moves > 0 => k.moves_left \in 1..limits.moves, NEW e \in Nat, HasTimeControl(limits)
  PROVE  LET spent == k.time_left + Credit(limits, k) - e
         IN  /\ UpdateTime(limits, k, e) \in Clock
             /\ UpdateTime(limits, k, e).moves_left = MovesPlayed(limits, k).moves_left
             /\ InTime(limits, k, e) <=> spent >= -limits.timemargin
             /\ InTime(limits, k, e) =>
                    UpdateTime(limits, k, e).time_left = TimeGranted(limits, spent)
  <1> DEFINE spent == k.time_left + Credit(limits, k) - e
  <1>1. ~Unlimited(limits)
    BY DEF HasTimeControl, Unlimited, Limits
  <1>2. MovesPlayed(limits, k) \in Clock /\ spent \in Int /\ TimeSpent(limits, k, e) = spent
    BY MovesPlayedFacts DEF TimeSpent, Clock
  <1>3. InTime(limits, k, e) <=> spent >= -limits.timemargin
    BY <1>1, <1>2 DEF InTime
  <1>4. TimeGranted(limits, spent) \in Int
    BY <1>2 DEF TimeGranted, Limits
  <1>5. UpdateTime(limits, k, e) =
          [MovesPlayed(limits, k) EXCEPT !.time_left =
              IF InTime(limits, k, e) THEN TimeGranted(limits, spent) ELSE spent]
    BY <1>1, <1>2 DEF UpdateTime
  <1> QED BY <1>2, <1>3, <1>4, <1>5 DEF Clock

(* One more move in the budget. *)
LEMMA BudgetGrows ==
  ASSUME NEW limits \in Limits, NEW k \in Clock, NEW n \in Nat,
         limits.moves > 0 => k.moves_left \in 1..limits.moves
             /\ n % limits.moves = limits.moves - k.moves_left
  PROVE  /\ Budget(limits, n) \in Nat
         /\ Budget(limits, n + 1) = Budget(limits, n) + limits.increment + Credit(limits, k)
         /\ limits.moves > 0 =>
                (n + 1) % limits.moves =
                    limits.moves - (IF k.moves_left = 1 THEN limits.moves ELSE k.moves_left - 1)
  <1> DEFINE m == limits.moves
  <1>0. limits.increment * n \in Nat
          /\ limits.increment * (n + 1) = limits.increment * n + limits.increment
    BY TimesNext DEF Limits
  <1>1. CASE m = 0
    BY <1>0, <1>1 DEF Budget, Credit, Limits
  <1>2. CASE m > 0
    <2> DEFINE q == n \div m
    <2>1. m \in Nat \ {0} /\ q \in Nat /\ n = m * q + (m - k.moves_left)
      <3>1. m \in Nat \ {0}
        BY <1>2 DEF Limits
      <3>2. n = m * (n \div m) + (n % m) /\ n \div m \in Nat
        BY <3>1, DivMod
      <3>3. n % m = m - k.moves_left
        BY <1>2
      <3> QED BY <3>1, <3>2, <3>3
    <2> HIDE DEF q
    <2>2. CASE k.moves_left = 1
      <3>1. n + 1 = m * (q + 1) + 0
        <4>1. m \in Nat /\ q \in Nat
          BY <2>1
        <4>2. m * q \in Nat /\ m * (q + 1) = m * q + m
          BY <4>1, TimesNext
        <4>3. n = m * q + (m - 1)
          BY <2>1, <2>2
        <4> DEFINE p == m * q
                   pp == m * (q + 1)
        <4> HIDE DEF m, p, pp
        <4>4. p \in Nat /\ pp = p + m /\ n = p + (m - 1) /\ m \in Nat
          BY <4>1, <4>2, <4>3 DEF p, pp
        <4>5. n + 1 = pp + 0
          BY <4>4
        <4> QED BY <4>5 DEF pp
      <3>2. (n + 1) \div m = q + 1 /\ (n + 1) % m = 0
        BY <2>1, <3>1, DivUnique
      <3>3. limits.time * (1 + (q + 1)) = limits.time * (1 + q) + limits.time
        BY <2>1 DEF Limits
      <3>4. limits.time * (1 + q) \in Nat /\ limits.increment * n \in Nat
        BY <2>1 DEF Limits
      <3>5. n \div m = q
        BY DEF q
      <3>6. Budget(limits, n) = limits.time * (1 + q) + limits.increment * n
        BY <1>2, <3>5 DEF Budget
      <3>7. Budget(limits, n + 1) = limits.time * (1 + (q + 1)) + limits.increment * (n + 1)
        BY <1>2, <3>2 DEF Budget
      <3> HIDE DEF q
      <3>8. Credit(limits, k) = limits.time
        BY <1>2, <2>2 DEF Credit
      <3>9. (n + 1) % limits.moves =
              limits.moves - (IF k.moves_left = 1 THEN limits.moves ELSE k.moves_left - 1)
        BY <2>1, <2>2, <3>2
      <3> QED BY <1>0, <3>3, <3>4, <3>6, <3>7, <3>8, <3>9 DEF Limits
    <2>3. CASE k.moves_left # 1
      <3> DEFINE r == m - (k.moves_left - 1)
                 p == m * q
      <3>1. n + 1 = p + r /\ r \in 0..(m - 1) /\ n + 1 \in Nat
        <4>1. p \in Nat /\ n = p + (m - k.moves_left) /\ m \in Nat
          BY <2>1, TimesNext
        <4>2. k.moves_left \in 2..m
          BY <1>2, <2>1, <2>3
        <4> HIDE DEF p, m
        <4> QED BY <4>1, <4>2
      <3> HIDE DEF r
      <3>2. (n + 1) \div m = q /\ (n + 1) % m = r
        BY <2>1, <3>1, DivUnique
      <3>3. limits.time * (1 + q) \in Nat
        BY <2>1 DEF Limits
      <3>4. n \div m = q
        BY DEF q
      <3>5. Budget(limits, n) = limits.time * (1 + q) + limits.increment * n
        BY <1>2, <3>4 DEF Budget
      <3>6. Budget(limits, n + 1) = limits.time * (1 + q) + limits.increment * (n + 1)
        BY <1>2, <3>2 DEF Budget
      <3>7. Credit(limits, k) = 0
        BY <2>3 DEF Credit
      <3>8. (n + 1) % limits.moves =
              limits.moves - (IF k.moves_left = 1 THEN limits.moves ELSE k.moves_left - 1)
        BY <2>3, <3>2 DEF r
      <3> QED BY <1>0, <3>3, <3>5, <3>6, <3>7, <3>8 DEF Limits
    <2> QED BY <2>2, <2>3
  <1> QED BY <1>1, <1>2 DEF Limits

\* What is kept of the answers of an engine.
UsedRecord == [answers : Nat, time : Nat, last : Nat]
OneMore(u, e) == [answers |-> u.answers + 1, time |-> u.time + e, last |-> e]

(* The margins of one more move. *)
LEMMA MarginGrows ==
  ASSUME NEW n \in Nat, NEW a \in Nat
  PROVE  n * a \in Nat /\ (n + 1) * a = n * a + a
  OBVIOUS

(* While an engine moves in time, its clock stays between the bounds. *)
LEMMA ClockRunsOn ==
  ASSUME NEW limits \in Limits, Playable(limits), NEW k \in Clock, NEW u \in UsedRecord,
         NEW e \in Nat,
         ControlRuns(limits, k, u.answers), TimeRuns(limits, k, u),
         HasTimeControl(limits), InTime(limits, k, e)
  PROVE  /\ ControlRuns(limits, UpdateTime(limits, k, e), u.answers + 1)
         /\ TimeRuns(limits, UpdateTime(limits, k, e), OneMore(u, e))
  <1> DEFINE next == UpdateTime(limits, k, e)
             n == u.answers
             spent == k.time_left + Credit(limits, k) - e
  <1>1. n \in Nat /\ u.time \in Nat /\ OneMore(u, e).answers = n + 1
          /\ OneMore(u, e).time = u.time + e
    BY DEF UsedRecord, OneMore
  <1>2. limits.moves > 0 => k.moves_left \in 1..limits.moves
          /\ n % limits.moves = limits.moves - k.moves_left
    BY DEF ControlRuns
  <1>3. /\ next \in Clock /\ next.moves_left = MovesPlayed(limits, k).moves_left
        /\ spent >= -limits.timemargin /\ next.time_left = TimeGranted(limits, spent)
    BY <1>2, UpdateTimeFacts
  <1>4. /\ Credit(limits, k) \in Nat
        /\ limits.moves > 0 =>
               /\ next.moves_left \in 1..limits.moves
               /\ next.moves_left = IF k.moves_left = 1 THEN limits.moves ELSE k.moves_left - 1
    BY <1>2, <1>3, MovesPlayedFacts
  <1>5. /\ Budget(limits, n) \in Nat
        /\ Budget(limits, n + 1) = Budget(limits, n) + limits.increment + Credit(limits, k)
        /\ limits.moves > 0 => (n + 1) % limits.moves =
                limits.moves - (IF k.moves_left = 1 THEN limits.moves ELSE k.moves_left - 1)
    BY <1>1, <1>2, BudgetGrows
  <1>6. ControlRuns(limits, next, n + 1)
    BY <1>4, <1>5 DEF ControlRuns
  <1>7. CASE limits.fixed_time # 0
    <2> DEFINE a == limits.fixed_time + limits.timemargin
    <2>1. next.time_left = limits.fixed_time
      BY <1>3, <1>7 DEF TimeGranted
    <2>2. Credit(limits, k) = 0
      BY <1>7 DEF Credit, Playable
    <2>3. e <= a
      BY <1>3, <1>7, <2>2 DEF TimeRuns, Limits, Clock
    <2>4. u.time <= n * a
      BY <1>7 DEF TimeRuns
    <2>5. n * a \in Nat /\ (n + 1) * a = n * a + a
      BY <1>1, MarginGrows DEF Limits
    <2>6. u.time + e <= (n + 1) * a
      <3>1. a \in Nat
        BY DEF Limits
      <3> HIDE DEF a
      <3> QED BY <1>1, <2>3, <2>4, <2>5, <3>1
    <2> QED BY <1>1, <1>6, <1>7, <2>1, <2>6 DEF TimeRuns
  <1>8. CASE limits.fixed_time = 0
    <2> DEFINE b == Budget(limits, n)
               bb == Budget(limits, n + 1)
               margins == n * limits.timemargin
               more == (n + 1) * limits.timemargin
               left == next.time_left
    <2>1. margins \in Nat /\ more = margins + limits.timemargin
      BY <1>1, MarginGrows DEF Limits
    <2>2. left = (IF spent < 0 THEN 0 ELSE spent) + limits.increment
      BY <1>3, <1>8 DEF TimeGranted
    <2>3. /\ k.time_left >= limits.increment
          /\ k.time_left >= b + limits.increment - u.time
          /\ k.time_left <= b + limits.increment - u.time + margins
      BY <1>8 DEF TimeRuns
    <2>4. limits.increment \in Nat /\ limits.timemargin \in Nat /\ k.time_left \in Int
      BY DEF Limits, Clock
    <2>5. b \in Nat /\ bb = b + limits.increment + Credit(limits, k)
      BY <1>5
    <2>6. /\ left >= limits.increment
          /\ left >= bb + limits.increment - (u.time + e)
          /\ left <= bb + limits.increment - (u.time + e) + more
      <3> HIDE DEF b, bb, margins, more, left
      <3> QED BY <1>1, <1>3, <1>4, <2>1, <2>2, <2>3, <2>4, <2>5
    <2> QED BY <1>1, <1>6, <1>8, <2>6 DEF TimeRuns
  <1> QED BY <1>7, <1>8 DEF Limits

(* An engine that moves too late has overrun its clock and its budget. *)
LEMMA LateIsLate ==
  ASSUME NEW limits \in Limits, Playable(limits), NEW k \in Clock, NEW u \in UsedRecord,
         NEW e \in Nat,
         ControlRuns(limits, k, u.answers), TimeRuns(limits, k, u),
         HasTimeControl(limits), ~InTime(limits, k, e)
  PROVE  /\ e > k.time_left + limits.timemargin
         /\ limits.fixed_time = 0 => u.time + e > Budget(limits, u.answers + 1) + limits.timemargin
  <1> DEFINE n == u.answers
             spent == k.time_left + Credit(limits, k) - e
  <1>1. n \in Nat /\ u.time \in Nat /\ k.time_left \in Int /\ limits.timemargin \in Nat
          /\ limits.increment \in Nat
    BY DEF UsedRecord, Clock, Limits
  <1>2. limits.moves > 0 => k.moves_left \in 1..limits.moves
          /\ n % limits.moves = limits.moves - k.moves_left
    BY DEF ControlRuns
  <1>3. ~(spent >= -limits.timemargin)
    BY <1>2, UpdateTimeFacts
  <1>4. Credit(limits, k) \in Nat
    BY <1>2, MovesPlayedFacts
  <1>5. /\ Budget(limits, n) \in Nat
        /\ Budget(limits, n + 1) = Budget(limits, n) + limits.increment + Credit(limits, k)
    BY <1>1, <1>2, BudgetGrows
  <1>6. e > k.time_left + limits.timemargin
    BY <1>1, <1>3, <1>4
  <1>7. ASSUME limits.fixed_time = 0 PROVE u.time + e > Budget(limits, n + 1) + limits.timemargin
    <2> DEFINE b == Budget(limits, n)
               bb == Budget(limits, n + 1)
    <2>1. k.time_left >= b + limits.increment - u.time
      BY <1>7 DEF TimeRuns
    <2> HIDE DEF b, bb
    <2>2. b \in Nat /\ bb = b + limits.increment + Credit(limits, k)
      BY <1>5 DEF b, bb
    <2>3. u.time + e > bb + limits.timemargin
      BY <1>1, <1>3, <1>4, <2>1, <2>2
    <2> QED BY <2>3 DEF bb
  <1> QED BY <1>6, <1>7

(* At first a clock shows the time of the first time control. *)
LEMMA ClockStarts ==
  ASSUME NEW limits \in Limits
  PROVE  LET zero == [answers |-> 0, time |-> 0, last |-> 0]
         IN  /\ NewClock(limits) \in Clock
             /\ ControlRuns(limits, NewClock(limits), 0)
             /\ TimeRuns(limits, NewClock(limits), zero)
  <1>1. NewClock(limits) \in Clock
    BY DEF NewClock, Limits, Clock
  <1>2. ASSUME limits.moves > 0 PROVE 0 % limits.moves = 0 /\ 0 \div limits.moves = 0
    <2>1. 0 = limits.moves * 0 + 0 /\ limits.moves \in Nat \ {0} /\ 0 \in 0..(limits.moves - 1)
      BY <1>2 DEF Limits
    <2> QED BY <2>1, DivUnique
  <1>3. ControlRuns(limits, NewClock(limits), 0)
    BY <1>2 DEF ControlRuns, NewClock, Limits
  <1>4. Budget(limits, 0) = limits.time
    <2>1. limits.time * 1 = limits.time /\ limits.increment * 0 = 0
      BY DEF Limits
    <2> QED BY <1>2, <2>1 DEF Budget, Limits
  <1>5. /\ 0 * (limits.fixed_time + limits.timemargin) = 0
        /\ 0 * limits.timemargin = 0
    BY DEF Limits
  <1> DEFINE zero == [answers |-> 0, time |-> 0, last |-> 0]
             k == NewClock(limits)
  <1>6. zero.answers = 0 /\ zero.time = 0
    OBVIOUS
  <1>7. k.time_left = IF limits.fixed_time # 0 THEN limits.fixed_time
                      ELSE limits.time + limits.increment
    BY DEF NewClock
  <1>8. TimeRuns(limits, k, zero)
    <2> HIDE DEF zero, k
    <2>1. CASE limits.fixed_time # 0
      BY <1>5, <1>6, <1>7, <2>1 DEF TimeRuns, Limits
    <2>2. CASE limits.fixed_time = 0
      <3>1. k.time_left = limits.time + limits.increment
        BY <1>7, <2>2
      <3>2. Budget(limits, zero.answers) = limits.time /\ zero.answers * limits.timemargin = 0
        BY <1>4, <1>5, <1>6
      <3>3. limits.time \in Nat /\ limits.increment \in Nat
        BY DEF Limits
      <3> QED BY <1>6, <2>2, <3>1, <3>2, <3>3 DEF TimeRuns
    <2> QED BY <2>1, <2>2
  <1> QED BY <1>1, <1>3, <1>8

-----------------------------------------------------------------------------
(* The verdict.                                                            *)

Results == {"none", "win", "lose", "draw"}

(* Who loses is told so, and the other one that it has won. *)
LEMMA LosesFacts ==
  ASSUME result \in [Colors -> Results], NEW c \in Colors, Loses(c)
  PROVE  /\ result' \in [Colors -> Results] /\ result' \in Outcomes
         /\ result'[c] = "lose" /\ result'[Other(c)] = "win"
  <1>1. result' \in [Colors -> Results] /\ result'[c] = "lose" /\ result'[Other(c)] = "win"
    BY ColorFacts DEF Loses, Results
  <1>2. CASE c = "white"
    <2>1. result' = [white |-> "lose", black |-> "win"]
      BY <1>1, <1>2 DEF Colors, Other
    <2> QED BY <1>1, <2>1 DEF Outcomes
  <1>3. CASE c = "black"
    <2>1. result' = [white |-> "win", black |-> "lose"]
      BY <1>1, <1>3 DEF Colors, Other
    <2> QED BY <1>1, <2>1 DEF Outcomes
  <1> QED BY <1>2, <1>3 DEF Colors

(* A draw is one for both. *)
LEMMA DrawsFacts ==
  ASSUME Draws
  PROVE  /\ result' \in [Colors -> Results] /\ result' \in Outcomes
         /\ \A c \in Colors : result'[c] = "draw"
  <1>1. result' \in [Colors -> Results] /\ \A c \in Colors : result'[c] = "draw"
    BY DEF Draws, Results
  <1>2. result' = [white |-> "draw", black |-> "draw"]
    BY <1>1 DEF Colors
  <1> QED BY <1>1, <1>2 DEF Outcomes

(* The texts and colours of the reasons given. *)
LEMMA BecauseFacts ==
  /\ \A text \in WinnerReasons \cup LoserReasons \cup DrawReasons \cup {"none", "interrupted"},
        color \in Colors \cup {"nobody"} :
        /\ Because(text, color) \in Reason
        /\ Because(text, color).text = text /\ Because(text, color).color = color
  BY DEF Because, Reason

VerdictOK ==
    /\ broken \in BOOLEAN
    /\ result \in [Colors -> Results]
    /\ termination \in Terminations
    /\ reason \in Reason

(* The end an engine without a connection makes. *)
LEMMA ConnectionFacts ==
  ASSUME result \in [Colors -> Results], side \in Colors, NEW c \in Colors,
         LosesConnection(c) \/ Crashes(c)
  PROVE  /\ broken' = TRUE
         /\ result' \in [Colors -> Results] /\ result' \in Outcomes
         /\ result'[c] = "lose" /\ result'[Other(c)] = "win"
         /\ reason' \in Reason
         /\ \/ termination' = "STALL" /\ reason' = Because("stalls", side) /\ LosesConnection(c)
            \/ termination' = "DISCONNECT" /\ reason' = Because("disconnects", side)
            \/ termination' = "INTERRUPT" /\ stop /\ reason' = Because("interrupted", "nobody")
  <1>1. Loses(c) /\ broken' = TRUE
    BY DEF LosesConnection, Stalls, Crashes
  <1>2. \/ termination' = "STALL" /\ reason' = Because("stalls", side) /\ LosesConnection(c)
        \/ termination' = "DISCONNECT" /\ reason' = Because("disconnects", side)
        \/ termination' = "INTERRUPT" /\ stop /\ reason' = Because("interrupted", "nobody")
    BY DEF LosesConnection, Stalls, Crashes, Terminates
  <1>3. reason' \in Reason
    <2>1. /\ Because("stalls", side) \in Reason /\ Because("disconnects", side) \in Reason
          /\ Because("interrupted", "nobody") \in Reason
      BY BecauseFacts DEF LoserReasons
    <2> QED BY <1>2, <2>1
  <1> QED BY <1>1, <1>2, <1>3, LosesFacts

\* The three ways a game ends from the first move on: by a result that fits its reason, by
\* an interruption, by an engine that is gone or does not answer.
Fits == /\ reason.text \in LoserReasons => reason.color \in Colors /\ result[reason.color] = "lose"
        /\ reason.text \in WinnerReasons => reason.color \in Colors /\ result[reason.color] = "win"
        /\ reason.text \in DrawReasons => \A c \in Colors : result[c] = "draw"
Decided ==
    /\ broken' = broken /\ termination' \in {"NORMAL", "ADJUDICATION", "TIMEOUT", "ILLEGAL_MOVE"}
    /\ result' \in Outcomes /\ Fits' /\ reason'.text \notin {"none", "interrupted"}
Interrupted ==
    /\ broken' = broken /\ termination' = "INTERRUPT" /\ (stop \/ conf.throws)
    /\ reason'.text \in {"none", "interrupted"} /\ Fits'
Unanswered ==
    /\ broken' = TRUE
    /\ termination' \in {"STALL", "DISCONNECT"} \/ (termination' = "INTERRUPT" /\ stop)
    /\ result' \in Outcomes /\ Fits'
    /\ reason'.text \in {"stalls", "disconnects", "interrupted"}

\* The reason of a loss names the loser, or the winner.
ReasonOf(text, loser) == Because(text, IF text \in LoserReasons THEN loser ELSE Other(loser))

(* A game that is lost by c for a reason that names c, or names the other as the winner. *)
LEMMA LossFits ==
  ASSUME TypeOK, NEW c \in Colors, Loses(c), NEW text, NEW kind \in Terminations,
         Terminates(kind, ReasonOf(text, c)),
         text \in LoserReasons \cup WinnerReasons
  PROVE  /\ result' \in [Colors -> Results] /\ result' \in Outcomes
         /\ termination' = kind /\ reason' \in Reason /\ reason'.text = text /\ Fits'
  <1> DEFINE who == IF text \in LoserReasons THEN c ELSE Other(c)
  <1>1. result \in [Colors -> Results] /\ who \in Colors
    BY ColorFacts DEF TypeOK, Results
  <1>2. result' \in [Colors -> Results] /\ result' \in Outcomes /\ result'[c] = "lose"
          /\ result'[Other(c)] = "win"
    BY <1>1, LosesFacts
  <1>3. termination' = kind /\ reason' = Because(text, who)
    BY DEF Terminates, ReasonOf
  <1>4. reason' \in Reason /\ reason'.text = text /\ reason'.color = who
    BY <1>1, <1>3, BecauseFacts
  <1>5. Fits'
    BY <1>1, <1>2, <1>4 DEF Fits, LoserReasons, WinnerReasons, DrawReasons
  <1> QED BY <1>2, <1>3, <1>4, <1>5

(* A draw. *)
LEMMA DrawFits ==
  ASSUME Draws, NEW text \in DrawReasons, NEW kind \in Terminations,
         Terminates(kind, Because(text, "nobody"))
  PROVE  /\ result' \in [Colors -> Results] /\ result' \in Outcomes
         /\ termination' = kind /\ reason' \in Reason /\ reason'.text = text /\ Fits'
  <1>1. result' \in [Colors -> Results] /\ result' \in Outcomes
          /\ \A c \in Colors : result'[c] = "draw"
    BY DrawsFacts
  <1>2. termination' = kind /\ reason' = Because(text, "nobody")
    BY DEF Terminates
  <1>3. reason' \in Reason /\ reason'.text = text
    BY <1>2, BecauseFacts
  <1>4. Fits'
    BY <1>1, <1>3 DEF Fits, LoserReasons, WinnerReasons, DrawReasons
  <1> QED BY <1>1, <1>2, <1>3, <1>4

(* An interruption. *)
LEMMA InterruptionFits ==
  ASSUME Terminates("INTERRUPT", Because("interrupted", "nobody"))
  PROVE  termination' = "INTERRUPT" /\ reason' \in Reason /\ reason'.text = "interrupted" /\ Fits'
  <1>1. termination' = "INTERRUPT" /\ reason' = Because("interrupted", "nobody")
    BY DEF Terminates
  <1>2. reason' \in Reason /\ reason'.text = "interrupted"
    BY <1>1, BecauseFacts
  <1> QED BY <1>1, <1>2 DEF Fits, LoserReasons, WinnerReasons, DrawReasons

\* The actions that end a game from the first move on.
EndOfMove ==
    \/ TurnInterrupted \/ GameOver \/ AdjudicateTb \/ AdjudicateResign \/ AdjudicateDraw
    \/ BreaksDown \/ Throws \/ SearchInterrupted \/ NoMove \/ IllegalMove \/ LateMove

(* Each of them ends the game in one of the three ways. *)
LEMMA EndsOneWay ==
  ASSUME TypeOK, phase \in InGame => reason = Because("none", "nobody"), EndOfMove
  PROVE  /\ phase \in InGame /\ phase' = "done" /\ VerdictOK'
         /\ Decided \/ Interrupted \/ Unanswered
  <1> USE ColorFacts DEF us, them
  <1>t. us \in Colors /\ them \in Colors /\ Other(them) = us /\ broken \in BOOLEAN
          /\ result \in [Colors -> Results]
    <2>1. side \in Colors /\ result \in [Colors -> Results]
      BY DEF TypeOK, Results
    <2>2. broken \in BOOLEAN
      BY DEF TypeOK
    <2> QED BY <2>1, <2>2
  <1>l. \A text \in WinnerReasons : text \notin LoserReasons
    BY DEF WinnerReasons, LoserReasons
  <1>k. {"NORMAL", "ADJUDICATION", "TIMEOUT", "ILLEGAL_MOVE", "INTERRUPT", "STALL", "DISCONNECT"}
          \subseteq Terminations
    BY DEF Terminations
  <1>a. ASSUME NEW c \in Colors, Loses(c), NEW text \in LoserReasons \cup WinnerReasons,
               NEW kind \in {"NORMAL", "ADJUDICATION", "TIMEOUT", "ILLEGAL_MOVE"},
               Terminates(kind, ReasonOf(text, c)),
               UNCHANGED broken
        PROVE  VerdictOK' /\ Decided
    <2>1. /\ result' \in [Colors -> Results] /\ result' \in Outcomes
          /\ termination' = kind /\ reason' \in Reason /\ reason'.text = text /\ Fits'
      BY <1>a, <1>k, LossFits
    <2>2. text \notin {"none", "interrupted"}
      BY <1>a DEF LoserReasons, WinnerReasons
    <2>3. VerdictOK'
      BY <1>a, <1>t, <1>k, <2>1 DEF VerdictOK
    <2> QED BY <1>a, <2>1, <2>2, <2>3 DEF Decided
  <1>b. ASSUME Draws, NEW text \in DrawReasons, NEW kind \in {"NORMAL", "ADJUDICATION"},
               Terminates(kind, Because(text, "nobody")), UNCHANGED broken
        PROVE  VerdictOK' /\ Decided
    <2>1. /\ result' \in [Colors -> Results] /\ result' \in Outcomes
          /\ termination' = kind /\ reason' \in Reason /\ reason'.text = text /\ Fits'
      BY <1>b, <1>k, DrawFits
    <2>2. text \notin {"none", "interrupted"}
      BY <1>b DEF DrawReasons
    <2>3. VerdictOK'
      BY <1>b, <1>t, <1>k, <2>1 DEF VerdictOK
    <2> QED BY <1>b, <2>1, <2>2, <2>3 DEF Decided
  <1>1. CASE TurnInterrupted
    <2>1. termination' = "INTERRUPT" /\ reason' \in Reason /\ reason'.text = "interrupted" /\ Fits'
      BY <1>1, InterruptionFits DEF TurnInterrupted
    <2>2. phase \in InGame /\ phase' = "done" /\ stop /\ UNCHANGED <<result, broken>>
      BY <1>1 DEF TurnInterrupted, Ends, InGame
    <2> QED BY <1>t, <1>k, <2>1, <2>2 DEF Interrupted, VerdictOK
  <1>2. CASE GameOver
    <2>1. phase \in InGame /\ phase' = "done" /\ UNCHANGED broken
      BY <1>2 DEF GameOver, Ends, InGame
    <2>2. CASE Loses(us) /\ Terminates("NORMAL", Because("mates", them))
      <3>1. "mates" \in WinnerReasons
        BY DEF WinnerReasons
      <3>2. Terminates("NORMAL", ReasonOf("mates", us))
        BY <2>2, <3>1, <1>l DEF ReasonOf
      <3> QED BY <1>a, <1>t, <2>1, <2>2, <3>1, <3>2
    <2>3. CASE Draws /\ Terminates("NORMAL", Because("draw by rule", "nobody"))
      <3>1. "draw by rule" \in DrawReasons
        BY DEF DrawReasons
      <3> QED BY <1>b, <2>1, <2>3, <3>1
    <2> QED BY <1>2, <2>2, <2>3 DEF GameOver
  <1>3. CASE AdjudicateTb
    <2>1. phase \in InGame /\ phase' = "done" /\ UNCHANGED broken
      BY <1>3 DEF AdjudicateTb, Ends, InGame
    <2>2. "tablebase" \in WinnerReasons /\ "tablebase" \notin LoserReasons
            /\ "draw by tablebase" \in DrawReasons
      BY DEF WinnerReasons, LoserReasons, DrawReasons
    <2>3. CASE Loses(them) /\ Terminates("ADJUDICATION", Because("tablebase", us))
      <3>1. Terminates("ADJUDICATION", ReasonOf("tablebase", them))
        BY <2>2, <2>3, <1>t DEF ReasonOf
      <3> QED BY <1>a, <1>t, <2>1, <2>2, <2>3, <3>1
    <2>4. CASE Loses(us) /\ Terminates("ADJUDICATION", Because("tablebase", them))
      <3>1. Terminates("ADJUDICATION", ReasonOf("tablebase", us))
        BY <2>2, <2>4 DEF ReasonOf
      <3> QED BY <1>a, <1>t, <2>1, <2>2, <2>4, <3>1
    <2>5. CASE Draws /\ Terminates("ADJUDICATION", Because("draw by tablebase", "nobody"))
      BY <1>b, <2>1, <2>2, <2>5
    <2> QED BY <1>3, <2>3, <2>4, <2>5 DEF AdjudicateTb
  <1>4. CASE AdjudicateResign
    <2>1. phase \in InGame /\ phase' = "done" /\ UNCHANGED broken
      BY <1>4 DEF AdjudicateResign, Ends, InGame
    <2>2. "adjudication" \in WinnerReasons /\ "adjudication" \notin LoserReasons
      BY DEF WinnerReasons, LoserReasons
    <2>3. Terminates("ADJUDICATION", ReasonOf("adjudication", them))
      BY <1>4, <2>2, <1>t DEF AdjudicateResign, ReasonOf
    <2>4. Loses(them)
      BY <1>4 DEF AdjudicateResign
    <2> QED BY <1>a, <1>t, <2>1, <2>2, <2>3, <2>4
  <1>5. CASE AdjudicateDraw
    <2>1. /\ phase \in InGame /\ phase' = "done" /\ UNCHANGED broken
          /\ Draws /\ Terminates("ADJUDICATION", Because("draw by adjudication", "nobody"))
      BY <1>5 DEF AdjudicateDraw, Ends, InGame
    <2>2. "draw by adjudication" \in DrawReasons
      BY DEF DrawReasons
    <2> QED BY <1>b, <2>1, <2>2
  <1>6. CASE BreaksDown
    <2>1. phase \in InGame /\ phase' = "done" /\ LosesConnection(us)
      BY <1>6 DEF BreaksDown, Ends, InGame
    <2>2. /\ broken' = TRUE /\ result' \in [Colors -> Results] /\ result' \in Outcomes
          /\ result'[us] = "lose" /\ result'[Other(us)] = "win" /\ reason' \in Reason
          /\ \/ termination' = "STALL" /\ reason' = Because("stalls", side) /\ LosesConnection(us)
             \/ termination' = "DISCONNECT" /\ reason' = Because("disconnects", side)
             \/ termination' = "INTERRUPT" /\ stop /\ reason' = Because("interrupted", "nobody")
      BY <1>t, <2>1, ConnectionFacts
    <2>3. /\ Because("stalls", us).text = "stalls" /\ Because("stalls", us).color = us
          /\ Because("disconnects", us).text = "disconnects"
               /\ Because("disconnects", us).color = us
          /\ Because("interrupted", "nobody").text = "interrupted"
      BY DEF Because
    <2>4. termination' \in Terminations
      BY <1>k, <2>2
    <2>5. VerdictOK'
      BY <2>2, <2>4 DEF VerdictOK
    <2>6. reason'.text \in {"stalls", "disconnects", "interrupted"}
      BY <2>2, <2>3
    <2>7. Fits'
      <3>1. CASE reason'.text \in {"stalls", "disconnects"}
        <4>1. reason'.color = us
          BY <2>2, <2>3, <3>1 DEF us
        <4> QED BY <1>t, <2>2, <3>1, <4>1 DEF Fits, LoserReasons, WinnerReasons, DrawReasons
      <3>2. CASE reason'.text = "interrupted"
        BY <3>2 DEF Fits, LoserReasons, WinnerReasons, DrawReasons
      <3> QED BY <2>6, <3>1, <3>2
    <2> QED BY <2>1, <2>2, <2>5, <2>6, <2>7 DEF Unanswered
  <1>7. CASE Throws
    <2>1. phase \in InGame /\ phase' = "done" /\ UNCHANGED broken /\ conf.throws /\ Loses(us)
      BY <1>7 DEF Throws, Ends, InGame
    <2>2. termination' = "INTERRUPT" /\ reason' \in Reason /\ reason'.text = "interrupted" /\ Fits'
      BY <1>7, InterruptionFits DEF Throws
    <2>3. result' \in [Colors -> Results]
      BY <1>t, <2>1, LosesFacts
    <2> QED BY <1>t, <1>k, <2>1, <2>2, <2>3 DEF Interrupted, VerdictOK
  <1>8. CASE SearchInterrupted
    <2>1. phase \in InGame /\ phase' = "done" /\ UNCHANGED <<result, reason, broken>> /\ stop
            /\ termination' = "INTERRUPT"
      BY <1>8 DEF SearchInterrupted, Ends, InGame
    <2>2. reason' \in Reason /\ reason'.text = "none"
      BY <2>1, BecauseFacts
    <2>3. Fits'
      BY <2>2 DEF Fits, LoserReasons, WinnerReasons, DrawReasons
    <2> QED BY <1>t, <1>k, <2>1, <2>2, <2>3 DEF Interrupted, VerdictOK
  <1>r. "time" \in LoserReasons /\ "illegal" \in LoserReasons
    BY DEF LoserReasons
  <1>m. ASSUME UNCHANGED broken, LosesOnTime \/ LosesByIllegalMove PROVE VerdictOK' /\ Decided
    <2>1. CASE LosesOnTime
      <3>1. Terminates("TIMEOUT", ReasonOf("time", us)) /\ Loses(us)
        BY <1>r, <2>1 DEF LosesOnTime, ReasonOf
      <3> QED BY <1>a, <1>m, <1>t, <1>r, <3>1
    <2>2. CASE LosesByIllegalMove
      <3>1. Terminates("ILLEGAL_MOVE", ReasonOf("illegal", us)) /\ Loses(us)
        BY <1>r, <2>2 DEF LosesByIllegalMove, ReasonOf
      <3> QED BY <1>a, <1>m, <1>t, <1>r, <3>1
    <2> QED BY <1>m, <2>1, <2>2
  <1>9. CASE NoMove \/ IllegalMove \/ LateMove
    <2>1. phase = "answer" /\ phase' = "done" /\ UNCHANGED broken
          /\ (LosesOnTime \/ LosesByIllegalMove)
      BY <1>9 DEF NoMove, IllegalMove, LateMove, Answers
    <2> QED BY <1>m, <2>1 DEF InGame
  <1> QED BY <1>1, <1>2, <1>3, <1>4, <1>5, <1>6, <1>7, <1>8, <1>9 DEF EndOfMove

-----------------------------------------------------------------------------
(* Types.                                                                  *)

(* An answer takes no negative time. *)
LEMMA ReplyFacts ==
  ASSUME TypeOK, ClocksRun, phase = "answer", NEW reply \in Replies
  PROVE  reply.status \in {"OK", "TIMEOUT"} /\ reply.elapsed \in Nat
  <1> DEFINE limits == conf.limits[us]
             k == clock[us]
  <1>1. us \in Colors /\ limits \in Limits /\ k \in Clock /\ conf.elapsed \subseteq Nat
    BY ConfFacts DEF TypeOK, us
  <1>2. TimeRuns(limits, k, used[us])
    BY <1>1 DEF ClocksRun
  <1>3. k.time_left >= 0
    BY <1>1, <1>2 DEF TimeRuns, Limits, Clock
  <1>4. Threshold \in Nat
    <2>1. Threshold = k.time_left + limits.timemargin + MARGIN
      BY DEF Threshold, TimeoutThreshold
    <2>2. limits.timemargin \in Nat /\ k.time_left \in Int
      BY <1>1 DEF Limits, Clock
    <2> HIDE DEF limits, k
    <2> QED BY <1>3, <2>1, <2>2, MarginAssumption
  <1>5. {e + Threshold : e \in conf.elapsed} \subseteq Nat
    BY <1>1, <1>4
  <1> QED BY <1>1, <1>5 DEF Replies

(* What an answer leaves has its types. *)
LEMMA AnswersTyped ==
  ASSUME TypeOK, ClocksRun, NEW reply \in Replies, NEW score \in conf.scores, Answers(reply, score)
  PROVE  /\ reply.elapsed \in Nat /\ score \in Score \cup {NoScore}
         /\ status' \in {"none", "OK", "TIMEOUT"}
         /\ lastScore' \in [Colors -> Score \cup {NoScore}]
         /\ clock' \in [Colors -> Clock]
         /\ used' \in [Colors -> UsedRecord]
         /\ used'[us] = OneMore(used[us], reply.elapsed)
         /\ clock'[us] = ClockAfter(reply.elapsed)
         /\ used'[them] = used[them] /\ clock'[them] = clock[them]
         /\ lastScore'[us] = score /\ lastScore'[them] = lastScore[them]
  <1>1. us \in Colors /\ them \in Colors /\ us # them
    BY ColorFacts DEF TypeOK, us, them
  <1>2. phase = "answer" /\ conf \in Configs
    BY DEF Answers, TypeOK
  <1>3. reply.status \in {"OK", "TIMEOUT"} /\ reply.elapsed \in Nat
          /\ score \in Score \cup {NoScore}
    BY <1>2, ReplyFacts, ConfFacts
  <1>4. clock \in [Colors -> Clock] /\ used \in [Colors -> UsedRecord]
          /\ lastScore \in [Colors -> Score \cup {NoScore}]
    BY DEF TypeOK, UsedRecord
  <1>5. ClockAfter(reply.elapsed) \in Clock
    <2>1. conf.limits[us] \in Limits /\ clock[us] \in Clock
      BY <1>1, <1>2, <1>4, ConfFacts
    <2>2. conf.limits[us].moves > 0 => clock[us].moves_left \in 1..conf.limits[us].moves
      BY <1>1, <1>2 DEF ClocksRun, ControlRuns
    <2> QED BY <1>3, <2>1, <2>2, UpdateTimeFacts DEF ClockAfter
  <1>6. OneMore(used[us], reply.elapsed) \in UsedRecord
    BY <1>1, <1>3, <1>4 DEF OneMore, UsedRecord
  <1>7. used' = [used EXCEPT ![us] = OneMore(used[us], reply.elapsed)]
    BY DEF Answers, OneMore
  <1>8. status' = reply.status /\ lastScore' = [lastScore EXCEPT ![us] = score]
        /\ clock' = [clock EXCEPT ![us] = ClockAfter(reply.elapsed)]
    BY DEF Answers
  <1> QED BY <1>1, <1>3, <1>4, <1>5, <1>6, <1>7, <1>8

\* The move recorded.
MoveOf(reply, legal, score, zeroing) ==
    [by |-> us, elapsed |-> reply.elapsed, legal |-> legal, score |-> score, zeroing |-> zeroing]

(* A recorded move is a move. *)
LEMMA RecordedTyped ==
  ASSUME TypeOK, ClocksRun, NEW reply \in Replies, NEW score \in conf.scores, Answers(reply, score),
         NEW legal \in BOOLEAN, NEW zeroing \in BOOLEAN, Recorded(reply, score, legal, zeroing)
  PROVE  /\ moves' \in Seq(Move) /\ Len(moves') = Len(moves) + 1
         /\ \A i \in 1..Len(moves) : moves'[i] = moves[i]
         /\ moves'[Len(moves) + 1] = MoveOf(reply, legal, score, zeroing)
  <1> DEFINE m == MoveOf(reply, legal, score, zeroing)
  <1>1. m \in Move
    BY AnswersTyped DEF Move, TypeOK, us, MoveOf
  <1>2. moves \in Seq(Move) /\ moves' = Append(moves, m)
    BY DEF TypeOK, Recorded, MoveOf
  <1> HIDE DEF m
  <1> QED BY <1>1, <1>2 DEF m

\* What the resign tracker counts.
ResignTracker == [both : Nat, white : Nat, black : Nat]

\* The parts of TypeOK that are not about the verdict.
GameOK ==
    /\ conf \in Configs
    /\ stop \in BOOLEAN /\ zeroed \in BOOLEAN
    /\ phase \in Phases
    /\ side \in Colors /\ fullMove \in Nat \ {0}
PlayersOK ==
    /\ clock \in [Colors -> Clock]
    /\ used \in [Colors -> UsedRecord]
    /\ lastScore \in [Colors -> Score \cup {NoScore}]
    /\ status \in {"none", "OK", "TIMEOUT"}
TrackersOK ==
    /\ drawMoves \in Nat /\ maxMoves \in Nat
    /\ resignMoves \in ResignTracker
    /\ moves \in Seq(Move)

(* TypeOK is the four of them. *)
LEMMA TypeParts == TypeOK <=> GameOK /\ PlayersOK /\ TrackersOK /\ VerdictOK
  BY DEF TypeOK, GameOK, PlayersOK, TrackersOK, VerdictOK, UsedRecord, Results, ResignTracker

(* The counters stay numbers. *)
LEMMA TrackersTyped ==
  ASSUME conf \in Configs, drawMoves \in Nat, resignMoves \in ResignTracker,
         NEW score, NEW zeroing \in BOOLEAN, NEW c \in Colors
  PROVE  /\ DrawMoves(conf.draw, drawMoves, score, zeroing) \in Nat
         /\ ResignMoves(conf.resign, resignMoves, score, c) \in ResignTracker
  <1>1. DrawMoves(conf.draw, drawMoves, score, zeroing) \in Nat
    BY DEF DrawMoves
  <1>2. resignMoves.both \in Nat /\ resignMoves[c] \in Nat
    BY DEF Colors, ResignTracker
  <1>3. \A n \in Nat : /\ [resignMoves EXCEPT !.both = n] \in ResignTracker
                      /\ [resignMoves EXCEPT ![c] = n] \in ResignTracker
    <2>1. CASE c = "white"
      BY <2>1 DEF ResignTracker
    <2>2. CASE c = "black"
      BY <2>2 DEF ResignTracker
    <2> QED BY <2>1, <2>2 DEF Colors
  <1>4. ResignMoves(conf.resign, resignMoves, score, c) \in ResignTracker
    <2> DEFINE n == IF Decisive(conf.resign, score) THEN resignMoves.both + 1 ELSE 0
               m == IF Losing(conf.resign, score) THEN resignMoves[c] + 1 ELSE 0
    <2>1. n \in Nat /\ m \in Nat
      BY <1>2
    <2>2. ResignMoves(conf.resign, resignMoves, score, c) =
            IF conf.resign.twosided THEN [resignMoves EXCEPT !.both = n]
            ELSE [resignMoves EXCEPT ![c] = m]
      BY DEF ResignMoves
    <2> HIDE DEF n, m
    <2> QED BY <1>3, <2>1, <2>2
  <1> QED BY <1>1, <1>4

(* A step keeps the types. *)
LEMMA StepTyped ==
  ASSUME TypeOK, Undecided, ClocksRun, [Next]_vars
  PROVE  TypeOK'
  <1>p. GameOK /\ PlayersOK /\ TrackersOK /\ VerdictOK
    BY TypeParts
  <1> SUFFICES GameOK' /\ PlayersOK' /\ TrackersOK' /\ VerdictOK'
    BY DEF TypeOK, GameOK, PlayersOK, TrackersOK, VerdictOK, UsedRecord, Results, ResignTracker
  <1>v. VerdictOK'
    <2>1. CASE EndOfMove
      <3>1. phase \in InGame => reason = Because("none", "nobody")
        BY DEF Undecided, InGame, Phases
      <3> QED BY <2>1, <3>1, EndsOneWay
    <2>2. ASSUME NEW c \in Colors, LosesConnection(c) \/ Crashes(c) PROVE VerdictOK'
      <3>1. result \in [Colors -> Results] /\ side \in Colors
        BY <1>p DEF VerdictOK, GameOK
      <3> QED BY <2>2, <3>1, ConnectionFacts DEF VerdictOK, Terminations
    <2>3. CASE RefreshEngines
      BY <1>p, <2>2, <2>3, ColorFacts DEF RefreshEngines, Refresh, VerdictOK, verdict
    <2>4. CASE FirstPing
      BY <1>p, <2>2, <2>4, ColorFacts DEF FirstPing, VerdictOK, verdict
    <2>5. CASE UNCHANGED verdict
      BY <1>p, <2>5 DEF VerdictOK, verdict
    <2>6. StartFails \/ EnginesStart \/ GoesOn \/ Prepare \/ SearchReturns \/ PlayMove \/ Stop
            \/ UNCHANGED vars => UNCHANGED verdict
      BY DEF StartFails, EnginesStart, GoesOn, Prepare, SearchReturns, PlayMove, Stop, vars
    <2> QED BY <2>1, <2>3, <2>4, <2>5, <2>6 DEF Next, EndOfMove
  <1>1. CASE EndOfMove /\ ~(NoMove \/ IllegalMove \/ LateMove)
    <2>1. phase' = "done" /\ UNCHANGED <<conf, stop, board, clock, lastScore, used, status,
            trackers, moves>>
      BY <1>1 DEF EndOfMove, TurnInterrupted, GameOver, AdjudicateTb, AdjudicateResign,
         AdjudicateDraw, BreaksDown, Throws, SearchInterrupted, Ends, timing
    <2> QED BY <1>p, <1>v, <2>1 DEF GameOK, PlayersOK, TrackersOK, board, trackers, Phases
  <1>2. ASSUME NEW reply \in Replies, NEW score \in conf.scores, Answers(reply, score)
          PROVE PlayersOK'
    BY <1>2, AnswersTyped DEF PlayersOK
  <1>3. CASE NoMove
    <2>1. PICK reply \in Replies, score \in conf.scores : Answers(reply, score)
      BY <1>3 DEF NoMove
    <2>2. phase' = "done" /\ UNCHANGED <<conf, stop, board, trackers, moves>>
      BY <1>3 DEF NoMove
    <2> QED BY <1>p, <1>v, <1>2, <2>1, <2>2 DEF GameOK, TrackersOK, board, trackers, Phases
  <1>4. CASE IllegalMove
    <2>1. PICK reply \in Replies, score \in conf.scores : Answers(reply, score)
            /\ Recorded(reply, score, FALSE, FALSE)
      BY <1>4 DEF IllegalMove
    <2>2. phase' = "done" /\ UNCHANGED <<conf, stop, board, trackers>>
      BY <1>4 DEF IllegalMove
    <2>3. moves' \in Seq(Move)
      BY <2>1, RecordedTyped
    <2> QED BY <1>p, <1>v, <1>2, <2>1, <2>2, <2>3 DEF GameOK, TrackersOK, board, trackers, Phases
  <1>5. CASE LateMove
    <2>1. PICK reply \in Replies, score \in conf.scores : Answers(reply, score)
            /\ Recorded(reply, score, TRUE, FALSE)
      BY <1>5 DEF LateMove
    <2>2. phase' = "done" /\ UNCHANGED <<conf, stop, board, trackers>>
      BY <1>5 DEF LateMove
    <2>3. moves' \in Seq(Move)
      BY <2>1, RecordedTyped
    <2> QED BY <1>p, <1>v, <1>2, <2>1, <2>2, <2>3 DEF GameOK, TrackersOK, board, trackers, Phases
  <1>6. CASE PlayMove
    <2>1. PICK reply \in Replies, score \in conf.scores, zeroing \in conf.zeroing :
            /\ Answers(reply, score) /\ Recorded(reply, score, TRUE, zeroing)
            /\ side' = them /\ fullMove' = fullMove + (IF us = "black" THEN 1 ELSE 0)
                 /\ zeroed' = zeroing
            /\ drawMoves' = DrawMoves(conf.draw, drawMoves, score, zeroing)
            /\ resignMoves' = ResignMoves(conf.resign, resignMoves, score, us)
            /\ maxMoves' = maxMoves + 1 /\ phase' = "turn" /\ UNCHANGED <<conf, stop>>
      BY <1>6 DEF PlayMove
    <2>2. zeroing \in BOOLEAN /\ us \in Colors /\ them \in Colors
      BY <1>p, <2>1, ConfFacts, ColorFacts DEF GameOK, us, them
    <2>3. moves' \in Seq(Move)
      BY <2>1, <2>2, RecordedTyped
    <2>4. TrackersOK'
      <3>1. drawMoves' \in Nat /\ resignMoves' \in ResignTracker
        BY <1>p, <2>1, <2>2, TrackersTyped DEF GameOK, TrackersOK
      <3>2. maxMoves' \in Nat
        BY <1>p, <2>1 DEF TrackersOK
      <3> QED BY <2>3, <3>1, <3>2 DEF TrackersOK
    <2>5. GameOK'
      <3>1. fullMove' \in Nat \ {0}
        BY <1>p, <2>1 DEF GameOK
      <3>2. side' \in Colors /\ phase' \in Phases
        BY <2>1, <2>2 DEF Phases, InGame
      <3>3. zeroed' \in BOOLEAN /\ stop' \in BOOLEAN /\ conf' \in Configs
        BY <1>p, <2>1, <2>2 DEF GameOK
      <3> QED BY <3>1, <3>2, <3>3 DEF GameOK
    <2> QED BY <1>v, <1>2, <2>1, <2>4, <2>5
  <1>7. CASE StartFails \/ EnginesStart \/ RefreshEngines \/ FirstPing \/ GoesOn \/ Prepare
          \/ SearchReturns \/ Stop \/ UNCHANGED vars
    <2>1. UNCHANGED <<conf, board, clock, used, lastScore, status, trackers, moves>>
      BY <1>7 DEF StartFails, EnginesStart, RefreshEngines, Refresh, FirstPing, GoesOn, Prepare,
         SearchReturns, Stop, vars, timing
    <2>2. phase' \in Phases /\ stop' \in BOOLEAN
      BY <1>7, <1>p DEF StartFails, EnginesStart, RefreshEngines, Refresh, FirstPing, GoesOn,
         Prepare, SearchReturns, Stop, vars, Phases, InGame, GameOK
    <2> QED BY <1>p, <1>v, <2>1, <2>2 DEF GameOK, PlayersOK, TrackersOK, board, trackers
  <1> QED BY <1>1, <1>3, <1>4, <1>5, <1>6, <1>7 DEF Next, EndOfMove

-----------------------------------------------------------------------------
(* Causes.                                                                 *)

(* The actions before the first move, and those that only go on. *)
LEMMA StepKinds ==
  ASSUME [Next]_vars
  PROVE  /\ phase = "done" => UNCHANGED vars
         /\ stop => stop'
         /\ EndOfMove => phase \in InGame /\ phase' = "done" /\ UNCHANGED <<conf, stop, side, told>>
         /\ \/ EndOfMove
            \/ PlayMove
            \/ /\ UNCHANGED <<conf, board, clock, used, lastScore, trackers, moves>>
               /\ StartFails \/ EnginesStart \/ RefreshEngines \/ FirstPing \/ GoesOn \/ Prepare
                  \/ SearchReturns \/ Stop \/ UNCHANGED vars
  <1>1. ASSUME EndOfMove PROVE phase \in InGame /\ phase' = "done"
          /\ UNCHANGED <<conf, stop, side, told>>
    BY <1>1 DEF EndOfMove, TurnInterrupted, GameOver, AdjudicateTb, AdjudicateResign,
       AdjudicateDraw, BreaksDown, Throws, SearchInterrupted, Ends, NoMove, IllegalMove, LateMove,
       Answers, InGame, board
  <1>2. ASSUME PlayMove PROVE phase = "answer" /\ UNCHANGED stop
    BY <1>2 DEF PlayMove, Answers
  <1>3. ASSUME StartFails \/ EnginesStart \/ RefreshEngines \/ FirstPing \/ GoesOn \/ Prepare
                 \/ SearchReturns \/ Stop \/ UNCHANGED vars
        PROVE  /\ UNCHANGED <<conf, board, clock, used, lastScore, trackers, moves>>
               /\ phase = "done" => UNCHANGED vars
               /\ stop => stop'
    BY <1>3 DEF StartFails, EnginesStart, RefreshEngines, Refresh, FirstPing, GoesOn, Prepare,
       SearchReturns, Stop, vars, timing
  <1> QED BY <1>1, <1>2, <1>3 DEF Next, EndOfMove, InGame

(* A step keeps what the verdict comes with. *)
LEMMA CausesKept ==
  ASSUME TypeOK, Causes, Undecided, [Next]_vars
  PROVE  Causes' /\ Undecided'
  <1>t. result \in [Colors -> Results] /\ side \in Colors
    BY DEF TypeOK, Results
  <1>1. CASE EndOfMove
    <2>1. phase \in InGame /\ phase' = "done" /\ UNCHANGED <<conf, stop>>
      BY <1>1, StepKinds
    <2>2. ~broken /\ termination = "None" /\ reason = Because("none", "nobody")
      BY <2>1 DEF Causes, Undecided, InGame
    <2>3. Decided \/ Interrupted \/ Unanswered
      BY <1>1, <2>2, EndsOneWay
    <2>4. Undecided'
      BY <2>1 DEF Undecided, InGame
    <2>5. CASE Decided
      BY <2>1, <2>2, <2>5, <2>4 DEF Decided, Causes
    <2>6. CASE Interrupted
      BY <2>1, <2>2, <2>6, <2>4 DEF Interrupted, Causes
    <2>7. CASE Unanswered
      BY <2>1, <2>7, <2>4 DEF Unanswered, Causes
    <2> QED BY <2>3, <2>5, <2>6, <2>7
  <1>2. CASE PlayMove
    BY <1>2 DEF PlayMove, Answers, verdict, Causes, Undecided, InGame
  <1>3. ASSUME NEW c \in Colors, Crashes(c), phase \in {"refreshWhite", "refreshBlack", "ping"},
               phase' \in {"refreshBlack", "ping", "done"}, UNCHANGED <<conf, stop>>
        PROVE  Causes' /\ Undecided'
    <2>1. /\ broken' = TRUE /\ result' \in Outcomes
          /\ \/ termination' = "DISCONNECT" /\ reason' = Because("disconnects", side)
             \/ termination' = "INTERRUPT" /\ stop /\ reason' = Because("interrupted", "nobody")
      BY <1>3, <1>t, LosesFacts DEF Crashes, Terminates
    <2>2. reason'.text \in {"disconnects", "interrupted"}
      BY <2>1 DEF Because
    <2> QED BY <1>3, <2>1, <2>2 DEF Causes, Undecided, InGame
  <1>4. CASE RefreshEngines
    <2>1. /\ phase \in {"refreshWhite", "refreshBlack"} /\ phase' \in {"refreshBlack", "ping"}
               /\ UNCHANGED <<conf, stop>>
          /\ UNCHANGED verdict \/ \E c \in Colors : Crashes(c)
      BY <1>4, ColorFacts DEF RefreshEngines, Refresh
    <2>2. CASE UNCHANGED verdict
      BY <2>1, <2>2 DEF verdict, Causes, Undecided, InGame
    <2> QED BY <1>3, <2>1, <2>2
  <1>5. CASE FirstPing
    <2>1. phase = "ping" /\ UNCHANGED <<conf, stop>>
      BY <1>5 DEF FirstPing
    <2>2. CASE UNCHANGED verdict /\ phase' = IF termination = "None" THEN "turn" ELSE "done"
      BY <2>1, <2>2 DEF verdict, Causes, Undecided, InGame
    <2>3. CASE LosesConnection("white") /\ phase' = "done"
      <3>1. /\ broken' = TRUE /\ result' \in Outcomes
            /\ termination' \in {"STALL", "DISCONNECT"} \/ (termination' = "INTERRUPT" /\ stop)
        BY <1>t, <2>3, ColorFacts, ConnectionFacts
      <3> QED BY <2>1, <2>3, <3>1 DEF Causes, Undecided, InGame
    <2> QED BY <1>5, <2>2, <2>3 DEF FirstPing
  <1>6. CASE StartFails \/ EnginesStart \/ GoesOn \/ Prepare \/ SearchReturns \/ Stop
          \/ UNCHANGED vars
    <2>1. /\ UNCHANGED verdict /\ UNCHANGED conf
          /\ stop => stop'
          /\ phase' = "done" /\ phase # "done" => stop'
          /\ phase' # "done" => phase # "done"
          /\ phase' \in InGame => phase \in InGame
      BY <1>6 DEF StartFails, EnginesStart, GoesOn, Prepare, SearchReturns, Stop, vars, InGame
    <2> QED BY <2>1 DEF verdict, Causes, Undecided
  <1> QED BY <1>1, <1>2, <1>4, <1>5, <1>6 DEF Next, EndOfMove

-----------------------------------------------------------------------------
(* The trackers.                                                           *)

(* What a move played leaves. *)
LEMMA Played ==
  ASSUME TypeOK, ClocksRun, PlayMove
  PROVE  /\ phase = "answer" /\ phase' = "turn" /\ conf' = conf /\ side' = them /\ told' = told
         /\ UNCHANGED <<stop, verdict>>
         /\ \E m \in Move :
              /\ m.by = us /\ ~TimedOut(m.elapsed)
              /\ moves' \in Seq(Move) /\ Len(moves') = Len(moves) + 1
              /\ \A i \in 1..Len(moves) : moves'[i] = moves[i]
              /\ moves'[Len(moves) + 1] = m
              /\ drawMoves' = DrawMoves(conf.draw, drawMoves, m.score, m.zeroing)
              /\ resignMoves' = ResignMoves(conf.resign, resignMoves, m.score, us)
              /\ maxMoves' = maxMoves + 1
              /\ lastScore'[us] = m.score /\ lastScore'[them] = lastScore[them]
              /\ used'[us] = OneMore(used[us], m.elapsed) /\ used'[them] = used[them]
              /\ clock'[us] = ClockAfter(m.elapsed) /\ clock'[them] = clock[them]
  <1>1. PICK reply \in Replies, score \in conf.scores, zeroing \in conf.zeroing :
            /\ Answers(reply, score) /\ ~TimedOut(reply.elapsed)
                 /\ Recorded(reply, score, TRUE, zeroing)
            /\ side' = them
            /\ drawMoves' = DrawMoves(conf.draw, drawMoves, score, zeroing)
            /\ resignMoves' = ResignMoves(conf.resign, resignMoves, score, us)
            /\ maxMoves' = maxMoves + 1 /\ phase' = "turn"
                 /\ UNCHANGED <<conf, stop, told, verdict>>
    BY DEF PlayMove
  <1> DEFINE m == MoveOf(reply, TRUE, score, zeroing)
  <1>2. zeroing \in BOOLEAN /\ us \in Colors
    BY ConfFacts DEF TypeOK, us
  <1>3. m \in Move
    BY <1>1, <1>2, AnswersTyped DEF Move, MoveOf
  <1>4. m.by = us /\ m.elapsed = reply.elapsed /\ m.score = score /\ m.zeroing = zeroing
    BY DEF MoveOf
  <1>5. /\ moves' \in Seq(Move) /\ Len(moves') = Len(moves) + 1
        /\ \A i \in 1..Len(moves) : moves'[i] = moves[i]
        /\ moves'[Len(moves) + 1] = m
    BY <1>1, <1>2, RecordedTyped
  <1>6. /\ lastScore'[us] = score /\ lastScore'[them] = lastScore[them]
        /\ used'[us] = OneMore(used[us], reply.elapsed) /\ used'[them] = used[them]
        /\ clock'[us] = ClockAfter(reply.elapsed) /\ clock'[them] = clock[them]
    BY <1>1, AnswersTyped
  <1> HIDE DEF m
  <1>7. phase = "answer"
    BY <1>1 DEF Answers
  <1> QED BY <1>1, <1>3, <1>4, <1>5, <1>6, <1>7

(* The run of moves that justify a draw, one move later. *)
LEMMA DrawRunGrows ==
  ASSUME moves \in Seq(Move), moves' \in Seq(Move), conf' = conf, Len(moves') = Len(moves) + 1,
         \A i \in 1..Len(moves) : moves'[i] = moves[i], NEW n \in 1..Len(moves) + 1
  PROVE  DrawRun(n)' <=> /\ Drawish(conf.draw, moves'[Len(moves) + 1].score)
                         /\ n > 1 => ~moves'[Len(moves) + 1].zeroing
                         /\ DrawRun(n - 1)
  <1> DEFINE l == Len(moves)
             Good(s, i, first) == Drawish(conf.draw, s[i].score) /\ (i > first => ~s[i].zeroing)
  <1>0. l \in Nat
    OBVIOUS
  <1>1. DrawRun(n)' <=> \A i \in l - n + 2 .. l + 1 : Good(moves', i, l - n + 2)
    <2>1. Len(moves') - n + 1 = l - n + 2
      OBVIOUS
    <2> QED BY <2>1 DEF DrawRun
  <1>2. DrawRun(n - 1) <=> \A i \in l - n + 2 .. l : Good(moves, i, l - n + 2)
    <2>1. l - (n - 1) + 1 = l - n + 2 /\ n - 1 <= l
      OBVIOUS
    <2> QED BY <2>1 DEF DrawRun
  <1>3. \A i \in l - n + 2 .. l : moves'[i] = moves[i]
    OBVIOUS
  <1>4. Good(moves', l + 1, l - n + 2) <=>
          Drawish(conf.draw, moves'[l + 1].score) /\ (n > 1 => ~moves'[l + 1].zeroing)
    OBVIOUS
  <1>5. \A i \in l - n + 2 .. l : Good(moves', i, l - n + 2) <=> Good(moves, i, l - n + 2)
    BY <1>3
  <1> HIDE DEF Good
  <1> QED BY <1>0, <1>1, <1>2, <1>4, <1>5

(* A step keeps the count of the draw tracker. *)
LEMMA DrawsKept ==
  ASSUME TypeOK, ClocksRun, DrawsCounted, [Next]_vars
  PROVE  DrawsCounted'
  <1> SUFFICES ASSUME phase' # "done", conf'.draw.move_count > 0
               PROVE  /\ drawMoves' <= Len(moves')
                      /\ \A n \in 0..Len(moves') : DrawRun(n)' <=> n <= drawMoves'
    BY DEF DrawsCounted
  <1>1. CASE PlayMove
    <2>1. phase = "answer" /\ conf' = conf
      BY <1>1, Played
    <2>2. PICK m \in Move :
              /\ moves' \in Seq(Move) /\ Len(moves') = Len(moves) + 1
              /\ \A i \in 1..Len(moves) : moves'[i] = moves[i]
              /\ moves'[Len(moves) + 1] = m
              /\ drawMoves' = DrawMoves(conf.draw, drawMoves, m.score, m.zeroing)
      BY <1>1, Played
    <2>3. drawMoves <= Len(moves) /\ \A n \in 0..Len(moves) : DrawRun(n) <=> n <= drawMoves
      BY <2>1 DEF DrawsCounted
    <2>4. moves \in Seq(Move) /\ Len(moves) \in Nat /\ drawMoves \in Nat /\ m.zeroing \in BOOLEAN
      BY DEF TypeOK, Move
    <2> DEFINE good == Drawish(conf.draw, m.score)
    <2>5. drawMoves' = IF good THEN (IF m.zeroing THEN 0 ELSE drawMoves) + 1 ELSE 0
      BY <2>1, <2>2, <2>4 DEF DrawMoves, Drawish
    <2>6. drawMoves' <= Len(moves')
      BY <2>2, <2>3, <2>4, <2>5
    <2>7. DrawRun(0)' <=> 0 <= drawMoves'
      <3>1. DrawRun(0)'
        BY <2>2 DEF DrawRun
      <3>2. 0 <= drawMoves'
        BY <2>4, <2>5
      <3> QED BY <3>1, <3>2
    <2>8. ASSUME NEW n \in 1..Len(moves) + 1 PROVE DrawRun(n)' <=> n <= drawMoves'
      <3>1. DrawRun(n)' <=> good /\ (n > 1 => ~m.zeroing) /\ DrawRun(n - 1)
        BY <2>1, <2>2, <2>4, DrawRunGrows
      <3>2. DrawRun(n - 1) <=> n - 1 <= drawMoves
        BY <2>3, <2>4
      <3> HIDE DEF good
      <3>3. n <= drawMoves' <=> good /\ (n > 1 => ~m.zeroing) /\ n - 1 <= drawMoves
        BY <2>4, <2>5
      <3> QED BY <3>1, <3>2, <3>3
    <2> QED BY <2>2, <2>4, <2>6, <2>7, <2>8
  <1>2. CASE UNCHANGED <<conf, drawMoves, moves>>
    <2>1. phase # "done"
      BY StepKinds DEF vars
    <2> QED BY <1>2, <2>1 DEF DrawsCounted, DrawRun
  <1> QED BY <1>1, <1>2, StepKinds DEF trackers

(* So does it that of the length. *)
LEMMA LengthKept ==
  ASSUME TypeOK, ClocksRun, LengthCounted, [Next]_vars
  PROVE  LengthCounted'
  <1> SUFFICES ASSUME phase' # "done" PROVE maxMoves' = Len(moves')
    BY DEF LengthCounted
  <1>1. CASE PlayMove
    BY <1>1, Played DEF LengthCounted
  <1>2. CASE UNCHANGED <<maxMoves, moves>>
    BY <1>2, StepKinds DEF LengthCounted, vars
  <1> QED BY <1>1, <1>2, StepKinds DEF trackers

(* The moves of an engine are finitely many. *)
LEMMA MovesByFinite ==
  ASSUME moves \in Seq(Move), NEW c
  PROVE  /\ IsFiniteSet(MovesBy(c)) /\ Cardinality(MovesBy(c)) \in Nat
         /\ \A i : IsFiniteSet({j \in MovesBy(c) : j > i})
              /\ Cardinality({j \in MovesBy(c) : j > i}) \in Nat
  <1>1. IsFiniteSet(1..Len(moves))
    BY FS_Interval
  <1>2. IsFiniteSet(MovesBy(c))
    BY <1>1, FS_Subset DEF MovesBy
  <1>3. \A i : IsFiniteSet({j \in MovesBy(c) : j > i})
    BY <1>2, FS_Subset
  <1> QED BY <1>2, <1>3, FS_CardinalityType

(* A run of losing moves contains the shorter ones. *)
LEMMA LosingRunShorter ==
  ASSUME moves \in Seq(Move), NEW c, NEW n \in Nat, NEW k \in Nat, n <= k, LosingRun(c, k)
  PROVE  LosingRun(c, n)
  <1>1. Cardinality(MovesBy(c)) >= n
    BY MovesByFinite DEF LosingRun
  <1>2. ASSUME NEW i \in MovesBy(c), Cardinality({j \in MovesBy(c) : j > i}) < n
        PROVE  Losing(conf.resign, moves[i].score)
    <2>1. Cardinality({j \in MovesBy(c) : j > i}) \in Nat
      BY MovesByFinite
    <2>2. Cardinality({j \in MovesBy(c) : j > i}) < k
      BY <1>2, <2>1
    <2> QED BY <2>2 DEF LosingRun
  <1> QED BY <1>1, <1>2 DEF LosingRun

(* A move of one engine leaves the run of the other as it was. *)
LEMMA LosingRunKept ==
  ASSUME moves \in Seq(Move), moves' \in Seq(Move), conf' = conf, Len(moves') = Len(moves) + 1,
         \A i \in 1..Len(moves) : moves'[i] = moves[i],
         NEW c, moves'[Len(moves) + 1].by # c, NEW n, LosingRun(c, n)
  PROVE  LosingRun(c, n)'
  <1>1. MovesBy(c)' = MovesBy(c)
    BY DEF MovesBy
  <1>2. \A i \in MovesBy(c) : moves'[i] = moves[i]
    BY DEF MovesBy
  <1> QED BY <1>1, <1>2 DEF LosingRun

(* A losing move of an engine makes its run longer by one. *)
LEMMA LosingRunGrows ==
  ASSUME moves \in Seq(Move), moves' \in Seq(Move), conf' = conf, Len(moves') = Len(moves) + 1,
         \A i \in 1..Len(moves) : moves'[i] = moves[i],
         NEW c, moves'[Len(moves) + 1].by = c, NEW n \in Nat, LosingRun(c, n),
         Losing(conf.resign, moves'[Len(moves) + 1].score)
  PROVE  LosingRun(c, n + 1)'
  <1> DEFINE new == Len(moves) + 1
             own == MovesBy(c)
             later(i) == {j \in own : j > i}
  <1>0. Len(moves) \in Nat
    OBVIOUS
  <1>1. MovesBy(c)' = own \cup {new} /\ new \notin own /\ \A i \in own : i \in Nat /\ i < new
    BY <1>0 DEF MovesBy
  <1>2. IsFiniteSet(own) /\ Cardinality(own) \in Nat
    BY MovesByFinite
  <1>3. Cardinality(MovesBy(c)') = Cardinality(own) + 1
    <2> HIDE DEF own, new
    <2>1. Cardinality(own \cup {new}) = Cardinality(own) + 1
      BY <1>1, <1>2, FS_AddElement
    <2> QED BY <1>1, <2>1
  <1>4. \A i \in own : IsFiniteSet(later(i)) /\ Cardinality(later(i)) \in Nat
    BY MovesByFinite
  <1>5. ASSUME NEW i \in own, Cardinality({j \in MovesBy(c)' : j > i}) < n + 1
        PROVE  Losing(conf.resign, moves'[i].score)
    <2>1. {j \in MovesBy(c)' : j > i} = later(i) \cup {new} /\ new \notin later(i)
      BY <1>1
    <2>2. Cardinality(later(i) \cup {new}) = Cardinality(later(i)) + 1
      BY <1>4, <2>1, FS_AddElement
    <2>3. Cardinality(later(i)) < n
      <3> DEFINE a == Cardinality(later(i))
                 b == Cardinality({j \in MovesBy(c)' : j > i})
      <3>1. a \in Nat /\ b = a + 1 /\ b < n + 1
        BY <1>4, <1>5, <2>1, <2>2
      <3> HIDE DEF a, b
      <3>2. a < n
        BY <3>1
      <3> QED BY <3>2 DEF a
    <2>4. Losing(conf.resign, moves[i].score)
      BY <2>3 DEF LosingRun
    <2>5. moves'[i] = moves[i]
      BY DEF MovesBy
    <2> QED BY <2>4, <2>5
  <1>6. \A i \in MovesBy(c)' : Cardinality({j \in MovesBy(c)' : j > i}) < n + 1
          => Losing(conf.resign, moves'[i].score)
    BY <1>1, <1>5
  <1>7. Cardinality(MovesBy(c)') >= n + 1
    <2>1. Cardinality(own) >= n
      BY DEF LosingRun
    <2> QED BY <1>2, <1>3, <2>1
  <1> QED BY <1>6, <1>7 DEF LosingRun

(* The empty run. *)
LEMMA NoLosingRun ==
  ASSUME moves \in Seq(Move), NEW c
  PROVE  LosingRun(c, 0)
  <1>1. Cardinality(MovesBy(c)) >= 0
    BY MovesByFinite
  <1>2. ASSUME NEW i \in MovesBy(c) PROVE ~(Cardinality({j \in MovesBy(c) : j > i}) < 0)
    <2>1. Cardinality({j \in MovesBy(c) : j > i}) \in Nat
      BY MovesByFinite
    <2> QED BY <2>1
  <1> QED BY <1>1, <1>2 DEF LosingRun

(* And in the next state. *)
LEMMA NoLosingRunNext ==
  ASSUME moves' \in Seq(Move), NEW c
  PROVE  LosingRun(c, 0)'
  <1>1. IsFiniteSet(1..Len(moves'))
    BY FS_Interval
  <1>2. IsFiniteSet(MovesBy(c)')
    BY <1>1, FS_Subset DEF MovesBy
  <1>3. \A i : IsFiniteSet({j \in MovesBy(c)' : j > i})
    BY <1>2, FS_Subset
  <1>4. Cardinality(MovesBy(c)') \in Nat /\ \A i : Cardinality({j \in MovesBy(c)' : j > i}) \in Nat
    BY <1>2, <1>3, FS_CardinalityType
  <1>5. Cardinality(MovesBy(c)') >= 0
    BY <1>4
  <1>6. ASSUME NEW i \in MovesBy(c)' PROVE ~(Cardinality({j \in MovesBy(c)' : j > i}) < 0)
    <2>1. Cardinality({j \in MovesBy(c)' : j > i}) \in Nat
      BY <1>4
    <2> QED BY <2>1
  <1> QED BY <1>5, <1>6 DEF LosingRun

(* How the resign tracker counts. *)
LEMMA ResignMovesFacts ==
  ASSUME resignMoves \in ResignTracker, NEW c \in Colors, NEW score
  PROVE  LET r == ResignMoves(conf.resign, resignMoves, score, c)
         IN  /\ conf.resign.twosided =>
                   r.both = IF Decisive(conf.resign, score) THEN resignMoves.both + 1 ELSE 0
             /\ ~conf.resign.twosided =>
                   /\ r[c] = IF Losing(conf.resign, score) THEN resignMoves[c] + 1 ELSE 0
                   /\ r[Other(c)] = resignMoves[Other(c)]
  <1>1. CASE conf.resign.twosided
    BY <1>1 DEF ResignMoves
  <1>2. CASE ~conf.resign.twosided
    <2> DEFINE v == IF Losing(conf.resign, score) THEN resignMoves[c] + 1 ELSE 0
    <2>1. ResignMoves(conf.resign, resignMoves, score, c) = [resignMoves EXCEPT ![c] = v]
      BY <1>2 DEF ResignMoves
    <2> HIDE DEF v
    <2>2. [resignMoves EXCEPT ![c] = v][c] = v
            /\ [resignMoves EXCEPT ![c] = v][Other(c)] = resignMoves[Other(c)]
      <3>1. CASE c = "white"
        BY <3>1 DEF Other, ResignTracker
      <3>2. CASE c = "black"
        BY <3>2 DEF Other, ResignTracker
      <3> QED BY <3>1, <3>2 DEF Colors
    <2> QED BY <1>2, <2>1, <2>2 DEF v
  <1> QED BY <1>1, <1>2

(* A step keeps the counts of the resign tracker. *)
LEMMA ResignKept ==
  ASSUME TypeOK, ClocksRun, ResignCounted, [Next]_vars
  PROVE  ResignCounted'
  <1> USE ColorFacts
  <1>t. us \in Colors /\ them \in Colors /\ them = Other(us) /\ moves \in Seq(Move)
        /\ resignMoves \in ResignTracker
    BY DEF TypeOK, us, them, ResignTracker
  <1>n. resignMoves.both \in Nat /\ \A c \in Colors : resignMoves[c] \in Nat
    BY <1>t DEF Colors, ResignTracker
  <1>1. CASE PlayMove
    <2>1. phase = "answer" /\ conf' = conf
      BY <1>1, Played
    <2>2. PICK m \in Move :
              /\ m.by = us
              /\ moves' \in Seq(Move) /\ Len(moves') = Len(moves) + 1
              /\ \A i \in 1..Len(moves) : moves'[i] = moves[i]
              /\ moves'[Len(moves) + 1] = m
              /\ resignMoves' = ResignMoves(conf.resign, resignMoves, m.score, us)
              /\ lastScore'[us] = m.score /\ lastScore'[them] = lastScore[them]
      BY <1>1, Played
    <2>3. CASE conf.resign.twosided
      <3>1. DecisiveRun(resignMoves.both)
        BY <2>1, <2>3 DEF ResignCounted
      <3>2. resignMoves'.both = IF Decisive(conf.resign, m.score) THEN resignMoves.both + 1 ELSE 0
        BY <1>t, <2>2, <2>3, ResignMovesFacts
      <3>3. DecisiveRun(resignMoves.both)'
        <4>1. CASE Decisive(conf.resign, m.score)
          <5>1. resignMoves'.both = resignMoves.both + 1
            BY <3>2, <4>1
          <5>2. \A i \in Len(moves) - resignMoves.both + 1 .. Len(moves) :
                  Decisive(conf.resign, moves'[i].score)
            <6>1. /\ resignMoves.both <= Len(moves) /\ Len(moves) \in Nat
                  /\ \A i \in Len(moves) - resignMoves.both + 1 .. Len(moves) :
                       Decisive(conf.resign, moves[i].score)
              BY <1>t, <3>1 DEF DecisiveRun
            <6>2. \A i \in Len(moves) - resignMoves.both + 1 .. Len(moves) : moves'[i] = moves[i]
              BY <1>n, <2>2, <6>1
            <6> QED BY <6>1, <6>2
          <5>3. Decisive(conf.resign, moves'[Len(moves) + 1].score)
            BY <2>2, <4>1
          <5>4. \A i \in Len(moves) - resignMoves.both + 1 .. Len(moves) + 1 :
                  Decisive(conf.resign, moves'[i].score)
            BY <1>n, <1>t, <5>2, <5>3
          <5>5. /\ resignMoves'.both <= Len(moves')
                /\ Len(moves') - resignMoves'.both + 1 = Len(moves) - resignMoves.both + 1
            BY <1>n, <1>t, <2>2, <3>1, <5>1 DEF DecisiveRun
          <5> QED BY <2>1, <2>2, <5>4, <5>5 DEF DecisiveRun
        <4>2. CASE ~Decisive(conf.resign, m.score)
          <5>1. resignMoves'.both = 0
            BY <3>2, <4>2
          <5> QED BY <2>2, <5>1 DEF DecisiveRun
        <4> QED BY <4>1, <4>2
      <3> QED BY <2>1, <2>3, <3>3 DEF ResignCounted
    <2>4. CASE ~conf.resign.twosided
      <3>1. \A c \in Colors : LosingRun(c, resignMoves[c]) /\ (resignMoves[c] > 0
              => Losing(conf.resign, lastScore[c]))
        BY <2>1, <2>4 DEF ResignCounted
      <3>2. /\ resignMoves'[us] = IF Losing(conf.resign, m.score) THEN resignMoves[us] + 1 ELSE 0
            /\ resignMoves'[them] = resignMoves[them]
        BY <1>t, <2>2, <2>4, ResignMovesFacts
      <3>3. ASSUME NEW c \in Colors, NEW n, n = resignMoves'[c] PROVE LosingRun(c, n)'
        <4>1. CASE c = them
          <5>1. LosingRun(c, n) /\ moves'[Len(moves) + 1].by # c
            BY <1>t, <2>2, <3>1, <3>2, <3>3, <4>1
          <5> QED BY <1>t, <2>1, <2>2, <5>1, LosingRunKept
        <4>2. CASE c = us /\ Losing(conf.resign, m.score)
          <5> DEFINE k == resignMoves[c]
          <5>1. LosingRun(c, k) /\ k \in Nat /\ n = k + 1 /\ moves'[Len(moves) + 1].by = c
            BY <1>n, <1>t, <2>2, <3>1, <3>2, <3>3, <4>2
          <5>2. ASSUME NEW h \in Nat, LosingRun(c, h) PROVE LosingRun(c, h + 1)'
            BY <1>t, <2>1, <2>2, <4>2, <5>1, <5>2, LosingRunGrows
          <5>3. PICK h \in Nat : h = k
            BY <5>1
          <5>4. LosingRun(c, h) /\ n = h + 1
            BY <5>1, <5>3
          <5>5. LosingRun(c, h + 1)'
            BY <5>2, <5>4
          <5> QED BY <5>4, <5>5
        <4>3. CASE c = us /\ ~Losing(conf.resign, m.score)
          <5>1. n = 0
            BY <3>2, <3>3, <4>3
          <5> QED BY <2>2, <5>1, NoLosingRunNext
        <4> QED BY <1>t, <4>1, <4>2, <4>3
      <3>4. \A c \in Colors : resignMoves'[c] > 0 => Losing(conf.resign, lastScore'[c])
        <4>1. resignMoves'[us] > 0 => Losing(conf.resign, lastScore'[us])
          BY <2>2, <3>2
        <4>2. resignMoves'[them] > 0 => Losing(conf.resign, lastScore'[them])
          BY <1>t, <2>2, <3>1, <3>2
        <4> QED BY <1>t, <4>1, <4>2
      <3>5. \A c \in Colors : LosingRun(c, resignMoves[c])'
        BY <3>3 DEF LosingRun
      <3> QED BY <2>1, <2>4, <3>4, <3>5 DEF ResignCounted
    <2> QED BY <2>3, <2>4
  <1>2. CASE UNCHANGED <<conf, resignMoves, moves, lastScore>>
    <2>1. phase' # "done" => phase # "done"
      BY StepKinds DEF vars
    <2>2. DecisiveRun(resignMoves.both)' <=> DecisiveRun(resignMoves.both)
      BY <1>2 DEF DecisiveRun
    <2>3. ASSUME NEW c PROVE LosingRun(c, resignMoves[c])' <=> LosingRun(c, resignMoves[c])
      BY <1>2 DEF LosingRun, MovesBy
    <2> QED BY <1>2, <2>1, <2>2, <2>3 DEF ResignCounted
  <1>3. CASE phase' = "done"
    BY <1>3 DEF ResignCounted
  <1> QED BY <1>1, <1>2, <1>3, StepKinds DEF trackers

(* Who has counted enough of its own moves resigns before the other one moves. *)
LEMMA NotResignedKept ==
  ASSUME TypeOK, ClocksRun, ResignCounted, NotResigned, [Next]_vars
  PROVE  NotResigned'
  <1> USE ColorFacts
  <1> SUFFICES ASSUME phase' # "done", conf'.resign.enabled, ~conf'.resign.twosided,
                      conf'.resign.score > 0, conf'.resign.move_count > 0
               PROVE  /\ phase' \in Opening => \A c \in Colors : resignMoves'[c] = 0
                      /\ resignMoves'[us'] < conf'.resign.move_count
                      /\ phase' # "turn" => resignMoves'[them'] < conf'.resign.move_count
    BY DEF NotResigned, us, them
  <1>t. us \in Colors /\ them \in Colors /\ them = Other(us) /\ us = side
        /\ resignMoves \in ResignTracker
        /\ lastScore \in [Colors -> Score \cup {NoScore}] /\ conf.resign \in ResignConfig
    BY ConfFacts DEF TypeOK, us, them, ResignTracker
  <1>0. phase # "done" /\ conf' = conf
    BY StepKinds, Played DEF vars
  <1>n. \A c \in Colors : resignMoves[c] \in Nat
    BY <1>t DEF Colors, ResignTracker
  <1>1. CASE PlayMove
    <2>1. phase = "answer" /\ phase' = "turn" /\ side' = them
      BY <1>1, Played
    <2>2. PICK m \in Move : resignMoves' = ResignMoves(conf.resign, resignMoves, m.score, us)
      BY <1>1, Played
    <2>3. resignMoves'[them] = resignMoves[them]
      BY <1>0, <1>t, <2>2, ResignMovesFacts
    <2>4. resignMoves[them] < conf.resign.move_count
      BY <1>0, <2>1 DEF NotResigned
    <2>5. us' = them
      BY <2>1 DEF us
    <2> QED BY <1>0, <2>1, <2>3, <2>4, <2>5 DEF Opening
  <1>2. CASE UNCHANGED <<resignMoves, side>>
    <2>1. us' = us /\ them' = them
      BY <1>2 DEF us, them
    <2>2. /\ phase \in Opening => \A c \in Colors : resignMoves[c] = 0
          /\ resignMoves[us] < conf.resign.move_count
          /\ phase # "turn" => resignMoves[them] < conf.resign.move_count
      BY <1>0 DEF NotResigned
    <2>3. phase' \in Opening => phase \in Opening
      BY <1>0, <1>2 DEF Next, vars, StartFails, EnginesStart, RefreshEngines, Refresh, FirstPing,
         TurnInterrupted, GameOver, AdjudicateTb, AdjudicateResign, AdjudicateDraw, GoesOn,
         Prepare, BreaksDown, Throws, SearchInterrupted, SearchReturns, NoMove, IllegalMove,
         LateMove, PlayMove, Stop, Ends, Opening
    <2>4. CASE GoesOn
      <3>1. ~Resigns /\ phase' = "prepare"
        BY <2>4 DEF GoesOn
      <3>2. ASSUME resignMoves[them] >= conf.resign.move_count PROVE FALSE
        <4>1. Resignable(conf.resign, resignMoves)
          <5>1. them = "white" \/ them = "black"
            BY <1>t DEF Colors
          <5>2. CASE them = "white"
            BY <1>0, <3>2, <5>2 DEF Resignable
          <5>3. CASE them = "black"
            BY <1>0, <3>2, <5>3 DEF Resignable
          <5> QED BY <5>1, <5>2, <5>3
        <4>2. resignMoves[them] > 0
          BY <1>0, <1>n, <1>t, <3>2 DEF ResignConfig
        <4>3. Losing(conf.resign, lastScore[them])
          BY <1>0, <1>t, <4>2 DEF ResignCounted
        <4>4. lastScore[them] # NoScore /\ lastScore[them] \in Score
          BY <1>t, <4>3 DEF Losing
        <4>5. lastScore[them].value < 0
          BY <1>0, <1>t, <4>3, <4>4 DEF Losing, Score, ResignConfig
        <4> QED BY <1>0, <3>1, <4>1, <4>4, <4>5 DEF Resigns
      <3>3. resignMoves[them] < conf.resign.move_count
        BY <1>n, <1>t, <3>2 DEF ResignConfig
      <3> QED BY <1>0, <1>2, <2>1, <2>2, <2>3, <3>3
    <2>5. CASE phase' # "turn" => phase # "turn"
      BY <1>0, <1>2, <2>1, <2>2, <2>3, <2>5
    <2>6. GoesOn \/ (phase' # "turn" => phase # "turn")
      BY <1>0, <1>2 DEF Next, vars, StartFails, EnginesStart, RefreshEngines, Refresh, FirstPing,
         TurnInterrupted, GameOver, AdjudicateTb, AdjudicateResign, AdjudicateDraw, GoesOn,
         Prepare, BreaksDown, Throws, SearchInterrupted, SearchReturns, NoMove, IllegalMove,
         LateMove, PlayMove, Stop, Ends
    <2> QED BY <2>4, <2>5, <2>6
  <1> QED BY <1>1, <1>2, StepKinds DEF trackers, board

-----------------------------------------------------------------------------
(* Clocks.                                                                 *)

(* A step keeps every clock between its bounds. *)
LEMMA ClocksKept ==
  ASSUME TypeOK, ClocksRun, [Next]_vars
  PROVE  ClocksRun'
  <1> SUFFICES ASSUME phase' # "done", NEW c \in Colors
               PROVE  /\ ControlRuns(conf'.limits[c], clock'[c], used'[c].answers)
                      /\ TimeRuns(conf'.limits[c], clock'[c], used'[c])
    BY DEF ClocksRun, ControlRuns, TimeRuns, Budget
  <1>0. phase # "done"
    BY StepKinds DEF vars
  <1>1. /\ ControlRuns(conf.limits[c], clock[c], used[c].answers)
        /\ TimeRuns(conf.limits[c], clock[c], used[c])
    BY <1>0 DEF ClocksRun
  <1>2. CASE PlayMove
    <2>1. conf' = conf
      BY <1>2, Played
    <2>2. PICK m \in Move :
              /\ ~TimedOut(m.elapsed)
              /\ used'[us] = OneMore(used[us], m.elapsed) /\ used'[them] = used[them]
              /\ clock'[us] = ClockAfter(m.elapsed) /\ clock'[them] = clock[them]
      BY <1>2, Played
    <2>3. CASE c = them
      BY <1>1, <2>1, <2>2, <2>3
    <2>4. CASE c = us
      <3> DEFINE limits == conf.limits[c]
                 k == clock[c]
                 u == used[c]
      <3>1. limits \in Limits /\ Playable(limits) /\ k \in Clock /\ u \in UsedRecord
              /\ m.elapsed \in Nat
        BY ConfFacts DEF TypeOK, UsedRecord, Move
      <3>2. used'[c] = OneMore(u, m.elapsed) /\ used'[c].answers = u.answers + 1
        BY <2>2, <2>4 DEF OneMore
      <3>3. CASE HasTimeControl(limits)
        <4>1. InTime(limits, k, m.elapsed) /\ clock'[c] = UpdateTime(limits, k, m.elapsed)
          BY <2>2, <2>4, <3>3 DEF TimedOut, ClockAfter
        <4>2. /\ ControlRuns(limits, UpdateTime(limits, k, m.elapsed), u.answers + 1)
              /\ TimeRuns(limits, UpdateTime(limits, k, m.elapsed), OneMore(u, m.elapsed))
          BY <1>1, <3>1, <3>3, <4>1, ClockRunsOn
        <4> QED BY <2>1, <3>2, <4>1, <4>2
      <3>4. CASE ~HasTimeControl(limits)
        <4>1. clock'[c] = k
          BY <2>2, <2>4, <3>4 DEF ClockAfter
        <4>2. limits.fixed_time = 0
          BY <3>4 DEF HasTimeControl
        <4>3. ControlRuns(limits, k, used'[c].answers)
          BY <1>1, <3>4 DEF ControlRuns
        <4>4. TimeRuns(limits, k, used'[c])
          BY <1>1, <3>4, <4>2 DEF TimeRuns
        <4> QED BY <2>1, <4>1, <4>3, <4>4
      <3> QED BY <3>3, <3>4
    <2>5. c = us \/ c = them
      BY ColorFacts DEF us, them, TypeOK
    <2> QED BY <2>3, <2>4, <2>5
  <1>3. CASE UNCHANGED <<conf, clock, used>>
    BY <1>1, <1>3
  <1> QED BY <1>2, <1>3, StepKinds

(* The command to search shows the clocks of the moment the search begins. *)
LEMMA ToldKept ==
  ASSUME TypeOK, ClocksRun, ToldIsTrue, [Next]_vars
  PROVE  ToldIsTrue'
  <1> SUFFICES ASSUME phase' \in {"search", "answer"} PROVE told' = GoCommand'
    BY DEF ToldIsTrue
  <1>1. UNCHANGED <<conf, side, clock>>
    BY StepKinds, Played DEF board
  <1>2. GoCommand' = GoCommand
    BY <1>1 DEF GoCommand, Keeps, us
  <1>3. told' = GoCommand
    BY DEF ToldIsTrue, Next, vars, StartFails, EnginesStart, RefreshEngines, Refresh, FirstPing,
       TurnInterrupted, GameOver, AdjudicateTb, AdjudicateResign, AdjudicateDraw, GoesOn, Prepare,
       BreaksDown, Throws, SearchInterrupted, SearchReturns, NoMove, IllegalMove, LateMove,
       PlayMove, Stop, Ends
  <1> QED BY <1>2, <1>3

-----------------------------------------------------------------------------
(* Adjudications and losses on time.                                       *)

(* The trackers adjudicate a draw exactly when the moves have earned it. *)
LEMMA DrawExactNow ==
  ASSUME TypeOK, phase # "done", DrawsCounted, LengthCounted
  PROVE  (DrawnByScores <=> DrawEarned) /\ (DrawnByLength <=> LengthReached)
  <1>1. DrawnByLength <=> LengthReached
    BY DEF LengthCounted, DrawnByLength, LengthReached, MaxMovesReached
  <1>t. /\ moves \in Seq(Move) /\ Len(moves) \in Nat /\ drawMoves \in Nat /\ fullMove \in Nat \ {0}
        /\ conf.draw.move_count \in Nat /\ conf.draw.move_number \in Nat
    <2>1. moves \in Seq(Move) /\ drawMoves \in Nat /\ fullMove \in Nat \ {0} /\ conf \in Configs
      BY DEF TypeOK
    <2>2. conf.draw \in DrawConfig
      BY <2>1, ConfFacts
    <2> QED BY <2>1, <2>2 DEF DrawConfig
  <1>2. fullMove - 1 >= conf.draw.move_number <=> fullMove > conf.draw.move_number
    BY <1>t
  <1>3. DrawRun(2 * conf.draw.move_count) <=> drawMoves >= 2 * conf.draw.move_count
    <2> DEFINE n == 2 * conf.draw.move_count
    <2>1. CASE conf.draw.move_count = 0
      <3>1. n = 0
        BY <2>1
      <3> QED BY <1>t, <3>1 DEF DrawRun
    <2>2. CASE conf.draw.move_count > 0
      <3>1. drawMoves <= Len(moves) /\ \A k \in 0..Len(moves) : DrawRun(k) <=> k <= drawMoves
        BY <2>2 DEF DrawsCounted
      <3>2. n \in Nat
        BY <1>t
      <3>3. DrawRun(n) => n <= Len(moves)
        BY DEF DrawRun
      <3> HIDE DEF n
      <3>4. DrawRun(n) <=> drawMoves >= n
        <4>1. CASE n <= Len(moves)
          BY <1>t, <3>1, <3>2, <4>1
        <4>2. CASE ~(n <= Len(moves))
          BY <1>t, <3>1, <3>2, <3>3, <4>2
        <4> QED BY <4>1, <4>2
      <3> QED BY <3>4 DEF n
    <2> QED BY <1>t, <2>1, <2>2
  <1>4. DrawnByScores <=> DrawEarned
    BY <1>2, <1>3 DEF DrawnByScores, DrawEarned, DrawAdjudicatable
  <1> QED BY <1>1, <1>4

(* Who resigns has counted enough of its own moves, or both have. *)
LEMMA ResignNow ==
  ASSUME TypeOK, phase = "turn", ResignCounted, NotResigned, Resigns
  PROVE  LET n == conf.resign.move_count
         IN  IF conf.resign.twosided THEN DecisiveRun(2 * n)
             ELSE \E c \in Colors : LosingRun(c, n) /\ (conf.resign.score > 0 => c = them)
  <1> DEFINE n == conf.resign.move_count
  <1>t. /\ moves \in Seq(Move) /\ Len(moves) \in Nat /\ n \in Nat /\ conf.resign.score \in Nat
        /\ resignMoves \in ResignTracker
        /\ us \in Colors /\ them \in Colors /\ them = Other(us)
    <2>1. us \in Colors /\ them \in Colors /\ them = Other(us)
      BY ColorFacts DEF TypeOK, us, them
    <2>2. conf.resign \in ResignConfig /\ moves \in Seq(Move)
          /\ resignMoves \in ResignTracker
      BY ConfFacts DEF TypeOK, ResignTracker
    <2> QED BY <2>1, <2>2 DEF ResignConfig
  <1>n. resignMoves.both \in Nat /\ \A c \in Colors : resignMoves[c] \in Nat
    BY <1>t DEF Colors, ResignTracker
  <1>1. CASE conf.resign.twosided
    <2>1. resignMoves.both >= 2 * n
      BY <1>1 DEF Resigns, Resignable
    <2>2. DecisiveRun(resignMoves.both)
      BY <1>1 DEF ResignCounted
    <2>3. DecisiveRun(2 * n)
      <3> DEFINE k == 2 * n
                 b == resignMoves.both
                 l == Len(moves)
      <3>1. k \in Nat /\ b \in Nat /\ l \in Nat /\ k <= b /\ b <= l
        BY <1>n, <1>t, <2>1, <2>2 DEF DecisiveRun
      <3>2. \A i \in l - b + 1 .. l : Decisive(conf.resign, moves[i].score)
        BY <2>2 DEF DecisiveRun
      <3> HIDE DEF k, b, l
      <3>3. l - k + 1 .. l \subseteq l - b + 1 .. l /\ k <= l
        BY <3>1
      <3>4. k <= l /\ \A i \in l - k + 1 .. l : Decisive(conf.resign, moves[i].score)
        BY <3>2, <3>3
      <3> QED BY <3>4 DEF DecisiveRun, k, l
    <2> QED BY <1>1, <2>3
  <1>2. CASE ~conf.resign.twosided
    <2>1. \A c \in Colors : LosingRun(c, resignMoves[c])
      BY <1>2 DEF ResignCounted
    <2>2. PICK c \in Colors : resignMoves[c] >= n
      BY <1>2 DEF Resigns, Resignable, Colors
    <2>3. ASSUME NEW d \in Colors, resignMoves[d] >= n PROVE LosingRun(d, n)
      <3>1. PICK k \in Nat : k = resignMoves[d]
        BY <1>n
      <3>2. LosingRun(d, k) /\ n <= k
        BY <2>1, <2>3, <3>1
      <3> QED BY <1>t, <3>2, LosingRunShorter
    <2>4. CASE conf.resign.score > 0
      <3>1. resignMoves[them] >= n
        <4>1. CASE n = 0
          BY <1>n, <1>t, <4>1
        <4>2. CASE n > 0
          <5>1. resignMoves[us] < n
            BY <1>2, <2>4, <4>2 DEF NotResigned, Resigns
          <5>2. c # us
            BY <1>n, <1>t, <2>2, <5>1
          <5> QED BY <1>t, <2>2, <5>2, ColorFacts
        <4> QED BY <1>t, <4>1, <4>2
      <3> QED BY <1>2, <1>t, <2>3, <3>1
    <2>5. CASE ~(conf.resign.score > 0)
      BY <1>2, <2>2, <2>3, <2>5
    <2> QED BY <2>4, <2>5
  <1> QED BY <1>1, <1>2

(* A reason that names an adjudication is of this step, or stands with the moves it is about. *)
LEMMA ReasonOfStep ==
  ASSUME TypeOK, Undecided, [Next]_vars, reason'.text \in {"draw by adjudication", "adjudication"}
  PROVE  \/ AdjudicateDraw /\ reason'.text = "draw by adjudication"
         \/ AdjudicateResign /\ reason'.text = "adjudication" /\ reason'.color = us
         \/ UNCHANGED <<reason, moves, conf, fullMove>>
  <1> USE DEF Terminates, Ends, board
  <1>a. \A text, color : Because(text, color).text = text /\ Because(text, color).color = color
    BY DEF Because
  <1>b. ASSUME NEW text, NEW color, reason' = Because(text, color)
          PROVE text \in {"draw by adjudication", "adjudication"}
    BY <1>a, <1>b
  <1>1. CASE AdjudicateDraw
    BY <1>a, <1>1 DEF AdjudicateDraw
  <1>2. CASE AdjudicateResign
    BY <1>a, <1>2 DEF AdjudicateResign
  <1>3. CASE TurnInterrupted \/ GameOver \/ AdjudicateTb \/ Throws
    <2>1. \E color : \E text \in {"interrupted", "mates", "draw by rule", "tablebase",
            "draw by tablebase"} :
            reason' = Because(text, color)
      BY <1>3 DEF TurnInterrupted, GameOver, AdjudicateTb, Throws
    <2> QED BY <1>b, <2>1
  <1>4. CASE BreaksDown \/ RefreshEngines \/ FirstPing
    <2>1. \/ UNCHANGED <<reason, moves, conf, fullMove>>
          \/ \E color : \E text \in {"interrupted", "disconnects", "stalls"} :
               reason' = Because(text, color)
      BY <1>4 DEF BreaksDown, RefreshEngines, Refresh, FirstPing, LosesConnection, Stalls,
         Crashes, verdict
    <2> QED BY <1>b, <2>1
  <1>5. CASE NoMove \/ IllegalMove \/ LateMove
    <2>1. \E color : \E text \in {"time", "illegal"} : reason' = Because(text, color)
      BY <1>5 DEF NoMove, IllegalMove, LateMove, LosesOnTime, LosesByIllegalMove
    <2> QED BY <1>b, <2>1
  <1>6. CASE SearchInterrupted \/ StartFails \/ EnginesStart \/ GoesOn \/ Prepare
          \/ SearchReturns \/ Stop \/ UNCHANGED vars
    BY <1>6 DEF SearchInterrupted, StartFails, EnginesStart, GoesOn, Prepare, SearchReturns, Stop,
       vars, verdict
  <1>7. CASE PlayMove
    <2>1. phase = "answer" /\ UNCHANGED reason
      BY <1>7 DEF PlayMove, Answers, verdict
    <2>2. reason.text \in {"none", "interrupted", "disconnects"}
      BY <2>1 DEF Undecided
    <2> QED BY <2>1, <2>2
  <1> QED BY <1>1, <1>2, <1>3, <1>4, <1>5, <1>6, <1>7 DEF Next

(* A step keeps the draws exact. *)
LEMMA DrawsExact ==
  ASSUME TypeOK, Undecided, DrawsCounted, LengthCounted, DrawIsExact, [Next]_vars
  PROVE  DrawIsExact'
  <1>1. ASSUME phase' = "prepare" PROVE ~DrawEarned' /\ ~LengthReached'
    <2>1. CASE GoesOn
      <3>1. phase = "turn" /\ ~DrawnByScores /\ ~DrawnByLength
        BY <2>1 DEF GoesOn
      <3>2. ~DrawEarned /\ ~LengthReached
        BY <3>1, DrawExactNow
      <3>3. UNCHANGED <<conf, fullMove, moves>>
        BY <2>1 DEF GoesOn, board
      <3> QED BY <3>2, <3>3 DEF DrawEarned, LengthReached, DrawRun
    <2>2. CASE phase = "prepare" /\ UNCHANGED <<conf, fullMove, moves>>
      BY <2>2 DEF DrawIsExact, DrawEarned, LengthReached, DrawRun
    <2>3. GoesOn \/ (phase = "prepare" /\ UNCHANGED <<conf, fullMove, moves>>)
      BY <1>1 DEF Next, vars, StartFails, EnginesStart, RefreshEngines, Refresh, FirstPing,
         TurnInterrupted, GameOver, AdjudicateTb, AdjudicateResign, AdjudicateDraw, GoesOn,
         Prepare, BreaksDown, Throws, SearchInterrupted, SearchReturns, NoMove, IllegalMove,
         LateMove, PlayMove, Stop, Ends, board
    <2> QED BY <2>1, <2>2, <2>3
  <1>2. ASSUME reason'.text = "draw by adjudication" PROVE DrawEarned' \/ LengthReached'
    <2>1. CASE AdjudicateDraw
      <3>1. phase = "turn" /\ (DrawnByScores \/ DrawnByLength)
              /\ UNCHANGED <<conf, fullMove, moves>>
        BY <2>1 DEF AdjudicateDraw, Ends, board
      <3>2. DrawEarned \/ LengthReached
        BY <3>1, DrawExactNow
      <3> QED BY <3>1, <3>2 DEF DrawEarned, LengthReached, DrawRun
    <2>2. CASE UNCHANGED <<reason, moves, conf, fullMove>>
      BY <1>2, <2>2 DEF DrawIsExact, DrawEarned, LengthReached, DrawRun
    <2> QED BY <1>2, <2>1, <2>2, ReasonOfStep
  <1> QED BY <1>1, <1>2 DEF DrawIsExact

(* And resignations earned. *)
LEMMA ResignsEarned ==
  ASSUME TypeOK, Undecided, ResignCounted, NotResigned, ResignIsEarned, [Next]_vars
  PROVE  ResignIsEarned'
  <1> SUFFICES ASSUME reason'.text = "adjudication" PROVE ResignIsEarned'
    BY DEF ResignIsEarned
  <1>1. CASE AdjudicateResign /\ reason'.color = us
    <2>1. phase = "turn" /\ Resigns /\ UNCHANGED <<conf, moves>>
      BY <1>1 DEF AdjudicateResign, Ends
    <2>2. Other(reason'.color) = them
      BY <1>1 DEF us, them
    <2> DEFINE n == conf.resign.move_count
    <2>3. IF conf.resign.twosided THEN DecisiveRun(2 * n)
          ELSE \E c \in Colors : LosingRun(c, n) /\ (conf.resign.score > 0 => c = them)
      BY <2>1, ResignNow
    <2>4. \A k : DecisiveRun(k)' <=> DecisiveRun(k)
      BY <2>1 DEF DecisiveRun
    <2>5. \A c, k : LosingRun(c, k)' <=> LosingRun(c, k)
      BY <2>1 DEF LosingRun, MovesBy
    <2>6. DecisiveRun(2 * conf.resign.move_count)' <=> DecisiveRun(2 * n)
      BY <2>1 DEF DecisiveRun
    <2>7. \A c : LosingRun(c, conf.resign.move_count)' <=> LosingRun(c, n)
      BY <2>1 DEF LosingRun, MovesBy
    <2> HIDE DEF n
    <2> QED BY <2>1, <2>2, <2>3, <2>6, <2>7 DEF ResignIsEarned
  <1>2. CASE UNCHANGED <<reason, moves, conf>>
    BY <1>2 DEF ResignIsEarned, DecisiveRun, LosingRun, MovesBy
  <1> QED BY <1>1, <1>2, ReasonOfStep

(* What an engine is told is what its clock shows. *)
LEMMA ToldTimeIs ==
  ASSUME TypeOK, phase = "answer", ToldIsTrue, ClocksRun, HasTimeControl(conf.limits[us])
  PROVE  ToldTime = clock[us].time_left
  <1>1. us \in Colors /\ conf.limits[us] \in Limits
    BY ConfFacts DEF TypeOK, us
  <1>2. told = GoCommand
    BY DEF ToldIsTrue
  <1>3. CASE conf.limits[us].fixed_time # 0
    <2>1. told.movetime = conf.limits[us].fixed_time
      BY <1>2, <1>3 DEF GoCommand
    <2>2. clock[us].time_left = conf.limits[us].fixed_time
      BY <1>1, <1>3 DEF ClocksRun, TimeRuns
    <2> QED BY <1>3, <2>1, <2>2 DEF ToldTime
  <1>4. CASE conf.limits[us].fixed_time = 0
    <2>1. Keeps(us)
      BY <1>1, <1>4 DEF Keeps, HasTimeControl, Limits
    <2>2. told.movetime = 0 /\ told.time = [c \in {d \in Colors : Keeps(d)} |-> clock[c].time_left]
      BY <1>2, <1>4, <2>1 DEF GoCommand
    <2>3. told.time[us] = clock[us].time_left
      BY <1>1, <2>1, <2>2
    <2> QED BY <2>2, <2>3 DEF ToldTime
  <1> QED BY <1>3, <1>4

(* A step keeps losses on time earned. *)
LEMMA TimeLossEarned ==
  ASSUME TypeOK, Undecided, ClocksRun, ToldIsTrue, TimeLossIsEarned, [Next]_vars
  PROVE  TimeLossIsEarned'
  <1> SUFFICES ASSUME termination' = "TIMEOUT"
               PROVE  /\ used'[us'].last > ToldTime' + conf'.limits[us'].timemargin
                      /\ conf'.limits[us'].fixed_time = 0 =>
                           used'[us'].time > Budget(conf.limits[us], used[us].answers)'
                                             + conf'.limits[us'].timemargin
    BY DEF TimeLossIsEarned
  <1>1. CASE NoMove \/ LateMove
    <2>1. PICK reply \in Replies, score \in conf.scores : Answers(reply, score)
            /\ TimedOut(reply.elapsed)
      BY <1>1 DEF NoMove, LateMove, LosesByIllegalMove, Terminates
    <2>2. UNCHANGED <<conf, side, told>> /\ phase = "answer"
      BY <1>1, <2>1 DEF NoMove, LateMove, board, Answers
    <2> DEFINE limits == conf.limits[us]
               k == clock[us]
               u == used[us]
               e == reply.elapsed
    <2>3. us \in Colors /\ e \in Nat /\ used'[us] = OneMore(u, e)
      BY <2>1, AnswersTyped DEF TypeOK, us
    <2>4. limits \in Limits /\ Playable(limits) /\ k \in Clock /\ u \in UsedRecord
      BY <2>3, ConfFacts DEF TypeOK, UsedRecord
    <2>5. ControlRuns(limits, k, u.answers) /\ TimeRuns(limits, k, u)
      BY <2>2, <2>3 DEF ClocksRun
    <2>6. HasTimeControl(limits) /\ ~InTime(limits, k, e)
      BY <2>1 DEF TimedOut
    <2>7. /\ e > k.time_left + limits.timemargin
          /\ limits.fixed_time = 0 => u.time + e > Budget(limits, u.answers + 1) + limits.timemargin
      BY <2>3, <2>4, <2>5, <2>6, LateIsLate
    <2>8. ToldTime = k.time_left
      BY <2>2, <2>6, ToldTimeIs
    <2>9. us' = us /\ ToldTime' = ToldTime
      BY <2>2 DEF us, ToldTime
    <2>10. used'[us].last = e /\ used'[us].time = u.time + e /\ used'[us].answers = u.answers + 1
      BY <2>3 DEF OneMore
    <2>11. Budget(conf.limits[us], used[us].answers)' = Budget(limits, u.answers + 1)
      BY <2>2, <2>9, <2>10 DEF Budget
    <2> QED BY <2>2, <2>7, <2>8, <2>9, <2>10, <2>11
  <1>2. CASE UNCHANGED <<termination, conf, side, used, told>>
    BY <1>2 DEF TimeLossIsEarned, ToldTime, us, Budget
  <1>3. NoMove \/ LateMove \/ UNCHANGED <<termination, conf, side, used, told>>
    <2> USE DEF Terminates, Ends, board, timing
    <2>1. CASE TurnInterrupted \/ GameOver \/ AdjudicateTb \/ AdjudicateResign \/ AdjudicateDraw
            \/ Throws
      BY <2>1 DEF TurnInterrupted, GameOver, AdjudicateTb, AdjudicateResign, AdjudicateDraw,
         Throws
    <2>2. CASE BreaksDown \/ RefreshEngines \/ FirstPing
      BY <2>2 DEF BreaksDown, RefreshEngines, Refresh, FirstPing, LosesConnection, Stalls,
         Crashes, verdict
    <2>3. CASE IllegalMove \/ SearchInterrupted
      BY <2>3 DEF IllegalMove, LosesByIllegalMove, SearchInterrupted
    <2>4. CASE StartFails \/ EnginesStart \/ GoesOn \/ SearchReturns \/ Stop \/ UNCHANGED vars
      BY <2>4 DEF StartFails, EnginesStart, GoesOn, SearchReturns, Stop, vars, verdict
    <2>5. CASE Prepare \/ PlayMove
      BY <2>5 DEF Prepare, PlayMove, Answers, verdict, Undecided, InGame
    <2> QED BY <2>1, <2>2, <2>3, <2>4, <2>5 DEF Next
  <1> QED BY <1>1, <1>2, <1>3

-----------------------------------------------------------------------------
(* The invariant.                                                          *)

(* It holds at first. *)
LEMMA InitIInv == Init => IInv
  <1> SUFFICES ASSUME Init PROVE IInv
    OBVIOUS
  <1> USE ColorFacts
  <1>0. conf \in Configs /\ phase = "start" /\ moves = <<>> /\ Len(moves) = 0 /\ moves \in Seq(Move)
    BY DEF Init
  <1>c. /\ conf.limits \in [Colors -> Limits] /\ conf.first \in Colors
             /\ conf.fullMove \in Nat \ {0}
        /\ conf.scores \subseteq Score \cup {NoScore}
    BY <1>0, ConfFacts
  <1>1. TypeOK
    <2>1. GameOK
      BY <1>0, <1>c DEF Init, GameOK, Phases
    <2>2. clock \in [Colors -> Clock]
      BY <1>c, ClockStarts DEF Init
    <2>3. used \in [Colors -> UsedRecord]
      BY DEF Init, UsedRecord
    <2>4. lastScore \in [Colors -> Score \cup {NoScore}]
      BY <1>c DEF Init
    <2>5. PlayersOK
      BY <2>2, <2>3, <2>4 DEF Init, PlayersOK
    <2>6. TrackersOK
      BY <1>0 DEF Init, TrackersOK, NewResignTracker, ResignTracker
    <2>7. VerdictOK
      BY BecauseFacts DEF Init, VerdictOK, Results, Terminations
    <2> QED BY <2>1, <2>5, <2>6, <2>7, TypeParts
  <1>2. reason.text = "none" /\ reason = Because("none", "nobody") /\ termination = "None"
          /\ ~broken
    BY BecauseFacts DEF Init
  <1>3. Causes /\ Undecided
    BY <1>0, <1>2 DEF Causes, Undecided, InGame
  <1>4. DrawsCounted
    BY <1>0 DEF Init, DrawsCounted, DrawRun
  <1>5. LengthCounted
    BY <1>0 DEF Init, LengthCounted
  <1>6. resignMoves.both = 0 /\ \A c \in Colors : resignMoves[c] = 0
    BY DEF Init, NewResignTracker, Colors
  <1>7. ResignCounted
    <2>1. DecisiveRun(resignMoves.both)
      BY <1>0, <1>6 DEF DecisiveRun
    <2>2. \A c \in Colors : LosingRun(c, resignMoves[c]) /\ ~(resignMoves[c] > 0)
      BY <1>0, <1>6, NoLosingRun
    <2> QED BY <2>1, <2>2 DEF ResignCounted
  <1>8. NotResigned
    <2>1. us \in Colors /\ them \in Colors
      BY <1>c DEF Init, us, them
    <2>2. conf.resign.move_count > 0 => \A c \in Colors : resignMoves[c] < conf.resign.move_count
      BY <1>0, <1>6, ConfFacts DEF ResignConfig
    <2> QED BY <1>6, <2>1, <2>2 DEF NotResigned
  <1>9. ClocksRun
    <2>1. ASSUME NEW c \in Colors
          PROVE  ControlRuns(conf.limits[c], clock[c], used[c].answers)
              /\ TimeRuns(conf.limits[c], clock[c], used[c])
      <3>1. conf.limits[c] \in Limits /\ clock[c] = NewClock(conf.limits[c])
              /\ used[c] = [answers |-> 0, time |-> 0, last |-> 0]
            /\ used[c].answers = 0
        BY <1>c DEF Init
      <3> QED BY <3>1, ClockStarts
    <2> QED BY <2>1 DEF ClocksRun
  <1>10. ToldIsTrue /\ DrawIsExact /\ ResignIsEarned /\ TimeLossIsEarned
    BY <1>0, <1>2 DEF ToldIsTrue, DrawIsExact, ResignIsEarned, TimeLossIsEarned
  <1> QED BY <1>1, <1>3, <1>4, <1>5, <1>7, <1>8, <1>9, <1>10 DEF IInv

(* And every step keeps it. *)
LEMMA StepIInv == IInv /\ [Next]_vars => IInv'
  <1> SUFFICES ASSUME IInv, [Next]_vars PROVE IInv'
    OBVIOUS
  <1> USE DEF IInv
  <1>1. TypeOK'
    BY StepTyped
  <1>2. Causes' /\ Undecided'
    BY CausesKept
  <1>3. DrawsCounted' /\ LengthCounted'
    BY DrawsKept, LengthKept
  <1>4. ResignCounted' /\ NotResigned'
    BY ResignKept, NotResignedKept
  <1>5. ClocksRun' /\ ToldIsTrue'
    BY ClocksKept, ToldKept
  <1>6. DrawIsExact' /\ ResignIsEarned' /\ TimeLossIsEarned'
    BY DrawsExact, ResignsEarned, TimeLossEarned
  <1> QED BY <1>1, <1>2, <1>3, <1>4, <1>5, <1>6

(* The invariant of every behaviour. *)
LEMMA Invariant == Spec => []IInv
  BY InitIInv, StepIInv, PTL DEF Spec

(* The variables of a match keep their types: no clock leaves the integers, no counter the *)
(* numbers, and a verdict is one of those the code has words for.                          *)
THEOREM TypeCorrect == Spec => []TypeOK
  <1>1. IInv => TypeOK
    BY DEF IInv
  <1> QED BY <1>1, Invariant, PTL

(* A match that has ended has a cause and a result that go together: without a result it *)
(* was interrupted, and whoever broke is known to be broken (start, gameLoop and the     *)
(* setEngine...Status functions).                                                        *)
THEOREM EveryEndHasACause == Spec => []EndIsAccountedFor
  <1>1. IInv => EndIsAccountedFor
    BY DEF IInv, Causes, EndIsAccountedFor
  <1> QED BY <1>1, Invariant, PTL

(* Draws are adjudicated exactly when the moves have earned them, and who resigns has made *)
(* the moves it resigns for (DrawTracker, ResignTracker, MaxMovesTracker, adjudicate).     *)
THEOREM TrackersAreFair == Spec => []AdjudicationIsEarned
  <1>1. IInv => AdjudicationIsEarned
    BY DEF IInv, AdjudicationIsEarned
  <1> QED BY <1>1, Invariant, PTL

(* However many time controls pass, a clock is not negative while the game goes on, and the *)
(* time used stays within what was given and the margins (TimeControl::updateTime).         *)
THEOREM ClocksAddUp == Spec => []ClockIsKept
  <1>1. IInv => ClockIsKept
    <2> SUFFICES ASSUME IInv, phase # "done", NEW c \in Colors, HasTimeControl(conf.limits[c])
                 PROVE  LET limits == conf.limits[c]
                            n == used[c].answers
                        IN  /\ clock[c].time_left >= 0
                            /\ IF limits.fixed_time # 0
                               THEN used[c].time <= n * (limits.fixed_time + limits.timemargin)
                               ELSE /\ used[c].time <= Budget(limits, n) + n * limits.timemargin
                                    /\ clock[c].time_left >=
                                         Budget(limits, n) + limits.increment - used[c].time
      BY DEF ClockIsKept
    <2> DEFINE limits == conf.limits[c]
               k == clock[c]
               u == used[c]
    <2>1. TimeRuns(limits, k, u) /\ ControlRuns(limits, k, u.answers)
      BY DEF IInv, ClocksRun
    <2>2. limits \in Limits /\ k \in Clock /\ u \in UsedRecord
      BY ConfFacts DEF IInv, TypeOK, UsedRecord
    <2>3. CASE limits.fixed_time # 0
      BY <2>1, <2>2, <2>3 DEF TimeRuns, Limits
    <2>4. CASE limits.fixed_time = 0
      <3> DEFINE b == Budget(limits, u.answers)
                 margins == u.answers * limits.timemargin
      <3>1. /\ k.time_left >= limits.increment
            /\ k.time_left >= b + limits.increment - u.time
            /\ k.time_left <= b + limits.increment - u.time + margins
        BY <2>1, <2>4 DEF TimeRuns
      <3>2. limits.increment \in Nat /\ k.time_left \in Int /\ u.time \in Nat /\ u.answers \in Nat
        BY <2>2 DEF Limits, Clock, UsedRecord
      <3>3. b \in Nat
        BY <2>1, <2>2, <3>2, BudgetGrows DEF ControlRuns
      <3>4. margins \in Nat
        BY <2>2, <3>2, MarginGrows DEF Limits
      <3>5. k.time_left >= 0 /\ u.time <= b + margins
        <4> HIDE DEF b, margins
        <4> QED BY <3>1, <3>2, <3>3, <3>4
      <3> QED BY <2>4, <3>1, <3>5
    <2> QED BY <2>3, <2>4
  <1> QED BY <1>1, Invariant, PTL

(* An engine that loses on time has overrun what it was told, what it was given, and the *)
(* margin (updateTime, getTimeoutThreshold, UciEngine::go).                              *)
THEOREM NobodyLosesEarly == Spec => []TimeLossIsEarned
  <1>1. IInv => TimeLossIsEarned
    BY DEF IInv
  <1> QED BY <1>1, Invariant, PTL

(* The step that ends a game after its first move has begun gives a reason that names the *)
(* engine the result is about, and the PGN has that result (gameLoop, playMove,           *)
(* adjudicate, getResultFromWhiteMatch).                                                  *)
THEOREM ReasonNamesTheLoser == Spec => ReasonIsTrue
  <1>1. IInv /\ [Next]_vars => [phase' = "done" /\ phase \in InGame => ReasonFits']_vars
    <2> SUFFICES ASSUME IInv, [Next]_vars, phase' = "done", phase \in InGame PROVE ReasonFits'
      OBVIOUS
    <2>1. EndOfMove
      BY DEF InGame, Next, EndOfMove, vars, StartFails, EnginesStart, RefreshEngines, Refresh,
         FirstPing, GoesOn, Prepare, SearchReturns, PlayMove, Stop
    <2>2. Decided \/ Interrupted \/ Unanswered
      BY <2>1, EndsOneWay DEF IInv, Undecided, InGame
    <2>3. Fits'
      BY <2>2 DEF Decided, Interrupted, Unanswered
    <2>4. result' \in Outcomes \/ reason'.text \in {"none", "interrupted"}
      BY <2>2 DEF Decided, Interrupted, Unanswered
    <2> DEFINE text == reason'.text
               color == reason'.color
               white == result'["white"]
               black == result'["black"]
    <2>5. /\ text \in LoserReasons => text \notin WinnerReasons \cup DrawReasons
          /\ text \in WinnerReasons => text \notin LoserReasons \cup DrawReasons
          /\ text \in DrawReasons => text \notin LoserReasons \cup WinnerReasons
          /\ text \in LoserReasons \cup WinnerReasons \cup DrawReasons =>
               text \notin {"none", "interrupted"}
      BY DEF LoserReasons, WinnerReasons, DrawReasons
    <2>6. result' \in Outcomes => \/ white = "win" /\ black = "lose"
                                  \/ white = "lose" /\ black = "win"
                                  \/ white = "draw" /\ black = "draw"
      BY DEF Outcomes
    <2>7. PgnResult' = CASE white = "win" -> "1-0" [] white = "lose" -> "0-1"
                         [] white = "draw" -> "1/2-1/2" [] OTHER -> "*"
      BY DEF PgnResult
    <2>8. CASE text \in LoserReasons
      <3>1. color \in Colors /\ result'[color] = "lose"
        BY <2>3, <2>8 DEF Fits
      <3>2. CASE color = "white"
        BY <2>4, <2>5, <2>6, <2>7, <2>8, <3>1, <3>2 DEF ReasonFits
      <3>3. CASE color = "black"
        BY <2>4, <2>5, <2>6, <2>7, <2>8, <3>1, <3>3 DEF ReasonFits
      <3> QED BY <3>1, <3>2, <3>3 DEF Colors
    <2>9. CASE text \in WinnerReasons
      <3>1. color \in Colors /\ result'[color] = "win"
        BY <2>3, <2>9 DEF Fits
      <3>2. CASE color = "white"
        BY <2>4, <2>5, <2>6, <2>7, <2>9, <3>1, <3>2 DEF ReasonFits
      <3>3. CASE color = "black"
        BY <2>4, <2>5, <2>6, <2>7, <2>9, <3>1, <3>3 DEF ReasonFits
      <3> QED BY <3>1, <3>2, <3>3 DEF Colors
    <2>10. CASE text \in DrawReasons
      <3>1. \A c \in Colors : result'[c] = "draw"
        BY <2>3, <2>10 DEF Fits
      <3>2. white = "draw"
        BY <3>1 DEF Colors
      <3> QED BY <2>5, <2>7, <2>10, <3>1, <3>2 DEF ReasonFits
    <2>11. CASE text \notin LoserReasons \cup WinnerReasons \cup DrawReasons
      BY <2>11 DEF ReasonFits
    <2> QED BY <2>8, <2>9, <2>10, <2>11
  <1> QED BY <1>1, Invariant, PTL DEF Spec, ReasonIsTrue

=============================================================================

---------------------------- MODULE TimeControl ----------------------------
(***************************************************************************)
(* The clock of one engine in one game. Limits are constant during a game: *)
(* time and increment, a fixed time per move, the number of moves of a     *)
(* time control (0: the whole game) and the margin by which the clock may  *)
(* be overrun. All in milliseconds.                                        *)
(***************************************************************************)
EXTENDS Integers

CONSTANT MARGIN     \* slack for the answer of an engine to arrive, 100 in the code

ASSUME MarginAssumption == MARGIN \in Nat

Limits == [time : Nat, increment : Nat, fixed_time : Nat, moves : Nat, timemargin : Nat]

Clock == [time_left : Int, moves_left : Nat]

NewClock(limits) ==
    [time_left |-> IF limits.fixed_time # 0 THEN limits.fixed_time ELSE limits.time + limits.increment,
     moves_left |-> limits.moves]

\* How long to wait for output; not the time an engine has.
TimeoutThreshold(limits, clock) == clock.time_left + limits.timemargin + MARGIN

HasTimeControl(limits) == limits.time # 0 \/ limits.fixed_time # 0

Unlimited(limits) == limits.fixed_time = 0 /\ limits.time + limits.increment = 0

\* The last move of a time control brings the time of the next one, before the time
\* the move took is subtracted.
MovesPlayed(limits, clock) ==
    CASE limits.moves = 0 -> clock
      [] limits.moves > 0 /\ clock.moves_left = 1 ->
            [time_left |-> clock.time_left + limits.time, moves_left |-> limits.moves]
      [] OTHER -> [clock EXCEPT !.moves_left = @ - 1]

TimeSpent(limits, clock, elapsed) == MovesPlayed(limits, clock).time_left - elapsed

\* Whether the move was made in time.
InTimeStrictly(limits, clock, elapsed) == Unlimited(limits) \/ TimeSpent(limits, clock, elapsed) >= 0
InTime(limits, clock, elapsed) ==
    Unlimited(limits) \/ TimeSpent(limits, clock, elapsed) >= -limits.timemargin

\* What is left for the next move, the margin used being forgiven.
TimeGrantedUncapped(limits, left) ==
    IF limits.fixed_time # 0 THEN limits.fixed_time ELSE left + limits.increment
TimeGranted(limits, left) ==
    IF limits.fixed_time # 0
    THEN limits.fixed_time
    ELSE (IF left < 0 THEN 0 ELSE left) + limits.increment

UpdateTime(limits, clock, elapsed) ==
    LET next == MovesPlayed(limits, clock)
        left == TimeSpent(limits, clock, elapsed)
    IN  CASE Unlimited(limits) -> next
          [] ~Unlimited(limits) /\ InTime(limits, clock, elapsed) ->
                [next EXCEPT !.time_left = TimeGranted(limits, left)]
          [] OTHER -> [next EXCEPT !.time_left = left]
=============================================================================

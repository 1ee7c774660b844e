---------------------------- MODULE MCUciSession ----------------------------
(* Two games of two moves of one engine.                                      *)
EXTENDS UciSession

Talker == [timed |-> TRUE, forgiving |-> FALSE, obeys |-> TRUE, chatty |-> TRUE, recover |-> TRUE]

\* An engine that may write without end, or be silent: with a clock; without one; and, without
\* -recover, one that does not stop when it is told to, under a clock that forgives.
MCConfigs ==
    { Talker,
      [Talker EXCEPT !.timed = FALSE],
      [Talker EXCEPT !.obeys = FALSE, !.forgiving = TRUE, !.recover = FALSE] }
=============================================================================

--------------------------- MODULE EngineProcess ---------------------------
(***************************************************************************)
(* The process of one engine and the two pipes that lead to it, as         *)
(* process_posix.hpp sees them: what the parent can do with them, and what *)
(* an engine may do at its end. A line is the unit of what is written; a   *)
(* read takes as many as there are or fewer, because the engine goes on    *)
(* writing and a buffer is finite.                                         *)
(***************************************************************************)
EXTENDS Naturals, Sequences, SequencesExt

CONSTANT MaxOutput   \* bound on the lines a pipe holds because of a chatty engine

VARIABLES
    life,        \* "none": not started or reaped
    stdin,       \* out_pipe_: commands the engine has not read yet
    stdout,      \* in_pipe_: lines nobody has read yet
    searching,   \* the "go" the engine works on, or 0
    interrupt    \* interrupt_ holds an event

pipes == <<stdin, stdout>>
process == <<life, pipes, searching, interrupt>>

\* An engine that ends closes its descriptors first; only then does waitpid see it.
Lives == {"none", "running", "closing", "exited"}

\* of: the "go" a line belongs to; 0 for the others.
Line(word) == [word |-> word, of |-> 0]
Go(n) == [word |-> "go", of |-> n]
Bestmove(n) == [word |-> "bestmove", of |-> n]

Commands == {"uci", "ucinewgame", "isready", "position", "go", "stop", "quit"}
Answers == {"uciok", "readyok", "info", "bestmove"}
Lines(words) == [word : words, of : Nat]

-----------------------------------------------------------------------------
(* The parent.                                                             *)

\* init: a process on new pipes, with an event of its own and an entry in process_list.
Spawn == life' = "running" /\ UNCHANGED <<pipes, searching, interrupt>>

\* alive: waitpid has nothing to report.
Alive == life \in {"running", "closing"}

\* terminate: out of process_list; waited for, and killed if that takes too long. The pipes
\* and the event go with the object.
Terminate ==
    /\ life' = "none"
    /\ stdin' = <<>> /\ stdout' = <<>>
    /\ searching' = 0 /\ interrupt' = FALSE

\* write; the parent keeps no end of the pipe the engine reads from.
Listening == life = "running"
Write(line) == Listening /\ stdin' = Append(stdin, line) /\ UNCHANGED <<life, stdout, searching, interrupt>>
BrokenPipe == ~Listening /\ UNCHANGED process

\* writeToOpenPipes, for one process.
Wake == interrupt' = (life # "none") /\ UNCHANGED <<life, pipes, searching>>

\* What poll finds, in the order of the tests: the event, a hang-up, lines, nothing.
Interrupted == interrupt /\ interrupt' = FALSE /\ UNCHANGED <<life, pipes, searching>>
HungUp == ~interrupt /\ ~Listening /\ UNCHANGED process
HasLines == ~interrupt /\ Listening /\ stdout # <<>>
Silent == ~interrupt /\ Listening /\ stdout = <<>>

\* One read: a chunk goes, also what comes after the line that is looked for. found is
\* that line, or Line("none").
ReadLines(word, found) ==
    /\ HasLines
    /\ \E n \in 1..Len(stdout) :
          LET first == SelectInSubSeq(stdout, 1, n, LAMBDA l : l.word = word) IN
          /\ found = IF first = 0 THEN Line("none") ELSE stdout[first]
          /\ stdout' = SubSeq(stdout, n + 1, Len(stdout))
    /\ UNCHANGED <<life, stdin, searching, interrupt>>

-----------------------------------------------------------------------------
(* The engine, which may do as little as it likes.                         *)

Says(lines) == stdout' = stdout \o lines

\* It reads a command. A search that is told to stop answers; one that is still going on
\* when another begins never does.
Obey ==
    /\ Listening /\ stdin # <<>>
    /\ stdin' = Tail(stdin)
    /\ LET word == Head(stdin).word IN
          /\ life' = IF word = "quit" THEN "closing" ELSE life
          /\ searching' = CASE word = "go" -> Head(stdin).of
                            [] word = "stop" -> 0
                            [] OTHER -> searching
          /\ Says(CASE word = "uci" -> <<Line("uciok")>>
                    [] word = "isready" -> <<Line("readyok")>>
                    [] word = "stop" /\ searching # 0 -> <<Bestmove(searching)>>
                    [] OTHER -> <<>>)
    /\ UNCHANGED interrupt

FinishSearch ==
    /\ Listening /\ searching # 0
    /\ Says(<<Line("info"), Bestmove(searching)>>)
    /\ searching' = 0
    /\ UNCHANGED <<life, stdin, interrupt>>

Chat ==
    /\ Listening /\ searching # 0 /\ Len(stdout) < MaxOutput
    /\ Says(<<Line("info")>>)
    /\ UNCHANGED <<life, stdin, searching, interrupt>>

Crash == Listening /\ life' = "closing" /\ UNCHANGED <<pipes, searching, interrupt>>
Exit == life = "closing" /\ life' = "exited" /\ UNCHANGED <<pipes, searching, interrupt>>
=============================================================================

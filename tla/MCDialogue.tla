----------------------------- MODULE MCDialogue -----------------------------
(* A game tree of two moves with an end of every kind, and four kinds of        *)
(* dialogue: about options, about variations, about which line counts, and      *)
(* about the record of games from different openings.                           *)
EXTENDS Dialogue

MCUciMoves == {"a", "b", "c"}
Ends == << <<"a", "a", "b">>, <<"b", "a">>, <<"b", "b">>, <<"a", "b", "a">>, <<"a", "b", "b">> >>
MCStatusOf(l) ==
    CASE l = Ends[1] -> "checkmate" [] l = Ends[2] -> "threefold" [] l = Ends[3] -> "stalemate"
      [] l = Ends[4] -> "insufficient" [] l = Ends[5] -> "fifty" [] OTHER -> "going on"
Final == {Ends[1], Ends[3]}
MCLines == {l \in BoundedSeq({"a", "b"}, 4) : \A f \in Final : f = l \/ ~IsPrefix(f, l)}
MCStatus == [l \in MCLines |-> MCStatusOf(l)]

MCNamed == [from : {STARTPOS}, moves : {<<"a">>, <<"b">>, <<"a", "b">>}]

MCTenths == [w \in {"1", "2", "2.5", "9"} |->
                CASE w = "1" -> 10 [] w = "2" -> 20 [] w = "2.5" -> 25 [] OTHER -> 90]

\* Lines of an engine.
Bare == [word |-> "info", string |-> FALSE, score |-> Absent, multipv |-> Absent,
         bound |-> FALSE, tokens |-> <<>>]
Best(tokens) == [Bare EXCEPT !.word = "bestmove", !.tokens = tokens]
Scores == {[type |-> "cp", value |-> 1]} \cup {[type |-> "mate", value |-> v] : v \in {-1, 0, 1, 2}}
Pv(pv, score, bound) == [Bare EXCEPT !.score = score, !.bound = bound, !.tokens = pv]
Pvs == BoundedSeq({"a", "b"}, 3) \cup {<<"c">>, <<"a", "c">>, <<"a", "x", "b">>}
Cp(n, multipv, bound) == [Bare EXCEPT !.score = [type |-> "cp", value |-> n], !.multipv = multipv, !.bound = bound]
Noise == {Cp(1, 1, FALSE), Cp(2, 1, TRUE), Cp(3, 2, FALSE), [Bare EXCEPT !.score = Unreadable],
          [Cp(4, Absent, FALSE) EXCEPT !.string = TRUE]}

BestOnly == {<<Best(<<m>>)>> : m \in MCUciMoves}
Silent == {<<>>, <<Bare>>, <<Best(<<>>)>>}
\* Every variation with every mate score; as a bound and with another move for one score.
Variations == {<<Pv(pv, score, FALSE), Best(<<"a">>)>> : pv \in Pvs, score \in Scores}
                  \cup {<<Pv(pv, [type |-> "mate", value |-> 1], TRUE), Best(<<"b">>)>> : pv \in Pvs}
Noises == {Append(ls, Best(<<"a">>)) : ls \in BoundedSeq(Noise, 2)}

\* Lines before uciok.
Declare(name, type, default) ==
    [name |-> name, type |-> type, default |-> default, min |-> <<"1">>, max |-> <<"2">>, vars |-> <<>>]
Threads == Declare("Threads", "spin", <<"1">>)
Rate == [Declare("Rate", "spin", <<"1">>) EXCEPT !.max = <<"2.5">>]
Chess == Declare("UCI_Chess960", "check", <<>>)
Style == [Declare("Style", "combo", <<"Solid">>) EXCEPT !.vars = << <<"Solid">>, <<"Very", "Wild">> >>]
Clear == Declare("Clear", "button", <<>>)
Book == Declare("Book", "string", <<"my", "book">>)
Id == Declare("id", "none", <<>>)
Huge == Declare("Hash", "spin", <<"9">>)

Declarations == {<<Id, Threads, Rate, Chess, Style, Clear, Book>>, <<Rate, Huge, Threads>>, <<Book, Threads>>}
Value(name, text) == [name |-> name, text |-> text]
Configurations ==
    {<<Value("Style", <<"Very", "Wild">>), Value("Rate", <<"2.5">>), Value("Threads", <<"2.5">>),
       Value("Clear", True)>>,
     <<Value("Book", <<"x">>), Value("Rate", <<"x">>), Value("Rate", <<"2">>), Value("Threads", <<"9">>),
       Value("Style", <<"Wild">>)>>,
     <<Value("Threads", <<"2">>), Value("UCI_Chess960", False), Value("Threads", <<"x">>),
       Value("Threads", <<"1">>), Value("Book", Empty)>>}

\* The usual position is the one of move 1 with White to move.
Start(number, black, frc) ==
    [fen |-> IF number = 1 /\ ~black THEN STARTPOS ELSE "middlegame", number |-> number, black |-> black, frc |-> frc]

Plain == [declared |-> <<Threads>>, configured |-> <<>>, book |-> <<>>, plies |-> -1,
          start |-> Start(1, FALSE, FALSE), outputs |-> BestOnly, mates |-> TRUE, min |-> FALSE]
MCSetups ==
    {[Plain EXCEPT !.declared = d, !.configured = c, !.start = Start(1, FALSE, f), !.outputs = {<<Best(<<"a">>)>>}] :
        d \in Declarations, c \in Configurations, f \in BOOLEAN}
    \cup {[Plain EXCEPT !.outputs = Variations, !.mates = m, !.book = b] : m \in BOOLEAN, b \in {<<>>, <<"a">>}}
    \cup {[Plain EXCEPT !.outputs = Noises \cup Silent]}
    \cup {[Plain EXCEPT !.book = b, !.plies = p, !.start = Start(n, k, FALSE), !.outputs = BestOnly \cup Silent] :
             b \in {<<"a">>, Ends[1], <<"a", "c", "b">>}, p \in {-1, 1}, n \in {1, 4}, k \in BOOLEAN}
=============================================================================

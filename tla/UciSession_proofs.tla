------------------------- MODULE UciSession_proofs -------------------------
(***************************************************************************)
(* Proofs about the session of one engine, for any number of games and     *)
(* moves, any length of what is in the pipes and every configuration.      *)
(*                                                                         *)
(* MoveIsFresh and AnswersInStep speak of the line that has just been      *)
(* read; that they hold depends on all the lines still under way. The      *)
(* argument follows the "go" and "isready" commands through the two pipes: *)
(*   PipesOrdered   searches are asked for, worked on and answered in      *)
(*                  order, so the answer to the last "go" is the last;     *)
(*   PingsAhead     while that answer is waited for, every ping is ahead   *)
(*                  of its "go", so reading it skips the answers to pings; *)
(*   InStep         no more answers to pings are under way than pings that *)
(*                  have failed, and the one in progress;                  *)
(*   Clean          if no ping has failed and the engine obeys, nothing of *)
(*                  an earlier search is under way when the next begins.   *)
(* The other parts of IInv say where the session may be and what it knows  *)
(* there; TLC finds IInv true in the states of the run of MCUciSession.    *)
(***************************************************************************)
EXTENDS UciSession, FiniteSetTheorems, NaturalsInduction, WellFoundedInduction,
        SequenceTheorems, TLAPS

-----------------------------------------------------------------------------
(* Sequences of lines, and how many of them are of a kind.                 *)

\* The least element of a set of numbers is one of its elements.
LEMMA MinOf ==
  ASSUME NEW S \in SUBSET Nat, S # {}
  PROVE  Min(S) \in S
  <1> DEFINE R == {ss \in Nat \X Nat : ss[1] < ss[2]}
  <1>1. IsWellFoundedOn(R, Nat)
    BY NatLessThanWellFounded DEF OpToRel
  <1> HIDE DEF R
  <1>2. PICK x \in S : \A y \in S : ~(<<y, x>> \in R)
    BY <1>1, WFMin
  <1>3. ASSUME NEW y \in S PROVE x =< y
    <2>1. <<y, x>> \in Nat \X Nat /\ <<y, x>>[1] = y /\ <<y, x>>[2] = x
      OBVIOUS
    <2>2. ~(y < x)
      BY <1>2, <2>1 DEF R
    <2> QED BY <2>2
  <1> QED BY <1>2, <1>3 DEF Min

\* r is s without its first n elements.
Without(r, s, n) ==
    /\ \A i \in DOMAIN r : i \in Nat /\ i > 0 /\ i + n \in DOMAIN s /\ r[i] = s[i + n]
    /\ \A i \in DOMAIN s : i > n => i - n \in DOMAIN r
\* r is s with e at its end.
With(r, s, e) ==
    /\ Len(s) + 1 \in DOMAIN r /\ r[Len(s) + 1] = e
    /\ \A i \in DOMAIN s : i \in DOMAIN r /\ r[i] = s[i] /\ i \in Nat /\ i =< Len(s) /\ i < Len(s) + 1
    /\ \A i \in DOMAIN r : i \in DOMAIN s \/ i = Len(s) + 1

\* What Append, SubSeq and Tail give, in these terms.
LEMMA AppendWith ==
  ASSUME NEW S, NEW s \in Seq(S), NEW e \in S
  PROVE  /\ Append(s, e) \in Seq(S) /\ s \o <<e>> = Append(s, e)
         /\ With(Append(s, e), s, e)
  <1>1. Append(s, e) \in Seq(S) /\ s \o <<e>> = Append(s, e)
    OBVIOUS
  <1>2. Len(s) \in Nat /\ DOMAIN s = 1..Len(s) /\ DOMAIN Append(s, e) = 1..(Len(s) + 1)
    OBVIOUS
  <1>3. Append(s, e)[Len(s) + 1] = e /\ \A i \in DOMAIN s : Append(s, e)[i] = s[i]
    OBVIOUS
  <1> QED BY <1>1, <1>2, <1>3 DEF With

LEMMA RestWithout ==
  ASSUME NEW S, NEW s \in Seq(S), NEW n \in 1..Len(s)
  PROVE  /\ SubSeq(s, n + 1, Len(s)) \in Seq(S)
         /\ Without(SubSeq(s, n + 1, Len(s)), s, n)
  <1> DEFINE r == SubSeq(s, n + 1, Len(s))
  <1>1. Len(s) \in Nat /\ DOMAIN s = 1..Len(s)
    OBVIOUS
  <1>2. r \in Seq(S)
    OBVIOUS
  <1>3. Len(r) = Len(s) - n /\ DOMAIN r = 1..(Len(s) - n)
    OBVIOUS
  <1>4. \A i \in DOMAIN r : r[i] = s[i + n]
    OBVIOUS
  <1> HIDE DEF r
  <1>5. Without(r, s, n)
    BY <1>1, <1>3, <1>4 DEF Without
  <1> QED BY <1>2, <1>5 DEF r

LEMMA TailWithout ==
  ASSUME NEW S, NEW s \in Seq(S), s # <<>>
  PROVE  /\ Tail(s) \in Seq(S) /\ Head(s) \in S /\ Head(s) = s[1] /\ 1 \in DOMAIN s
         /\ Without(Tail(s), s, 1)
  <1>1. Len(s) \in Nat /\ DOMAIN s = 1..Len(s) /\ Tail(s) \in Seq(S) /\ Head(s) \in S /\ Head(s) = s[1]
             /\ 1 \in DOMAIN s
    OBVIOUS
  <1>2. DOMAIN Tail(s) = 1..(Len(s) - 1)
    OBVIOUS
  <1>3. \A i \in DOMAIN Tail(s) : Tail(s)[i] = s[i + 1]
    OBVIOUS
  <1> QED BY <1>1, <1>2, <1>3 DEF Without

\* Count, and what becomes of it as a line is added, or lines are taken away.
LEMMA CountIsNat ==
  ASSUME NEW S, NEW s \in Seq(S), NEW word
  PROVE  Count(word, s) \in Nat /\ IsFiniteSet({i \in DOMAIN s : s[i].word = word})
  <1>1. DOMAIN s = 1..Len(s) /\ Len(s) \in Nat
    OBVIOUS
  <1>2. IsFiniteSet(DOMAIN s)
    BY <1>1, FS_Interval
  <1>3. IsFiniteSet({i \in DOMAIN s : s[i].word = word})
    BY <1>2, FS_Subset
  <1> QED BY <1>3, FS_CardinalityType DEF Count

LEMMA CountWith ==
  ASSUME NEW S, NEW s \in Seq(S), NEW r \in Seq(S), NEW e \in S, With(r, s, e), NEW word
  PROVE  Count(word, r) =< Count(word, s) + (IF e.word = word THEN 1 ELSE 0)
  <1> DEFINE A == {i \in DOMAIN s : s[i].word = word}
             B == {i \in DOMAIN r : r[i].word = word}
             k == Len(s) + 1
  <1>1. IsFiniteSet(A) /\ IsFiniteSet(B) /\ Cardinality(A) \in Nat /\ Cardinality(B) \in Nat
    BY CountIsNat, FS_CardinalityType
  <1>2. CASE e.word = word
    <2>1. B \subseteq A \cup {k}
      BY DEF With
    <2>2. IsFiniteSet(A \cup {k})
               /\ Cardinality(A \cup {k}) = IF k \in A THEN Cardinality(A) ELSE Cardinality(A) + 1
      BY <1>1, FS_AddElement
    <2>3. Cardinality(B) =< Cardinality(A \cup {k})
      BY <2>1, <2>2, FS_Subset
    <2> HIDE DEF A, B
    <2>4. Cardinality(B) =< Cardinality(A) + 1
      BY <1>1, <2>2, <2>3
    <2> QED BY <1>2, <2>4 DEF Count, A, B
  <1>3. CASE e.word # word
    <2>1. B \subseteq A
      BY <1>3 DEF With
    <2>2. Cardinality(B) =< Cardinality(A)
      BY <1>1, <2>1, FS_Subset
    <2> HIDE DEF A, B
    <2>3. Cardinality(B) =< Cardinality(A) + 0
      BY <1>1, <2>2
    <2> QED BY <1>3, <2>3 DEF Count, A, B
  <1> QED BY <1>2, <1>3

LEMMA CountWithout ==
  ASSUME NEW S, NEW s \in Seq(S), NEW r \in Seq(S), NEW n \in Nat, Without(r, s, n), NEW word
  PROVE  /\ Count(word, r) =< Count(word, s)
         /\ \A k \in DOMAIN s : k =< n /\ s[k].word = word => Count(word, r) =< Count(word, s) - 1
  <1> DEFINE A == {i \in DOMAIN s : s[i].word = word}
             B == {i \in DOMAIN r : r[i].word = word}
  <1>1. IsFiniteSet(A) /\ IsFiniteSet(B) /\ Cardinality(A) \in Nat /\ Cardinality(B) \in Nat
    BY CountIsNat, FS_CardinalityType
  <1>2. ASSUME NEW C, C \subseteq A, \A i \in B : i + n \in C PROVE Cardinality(B) =< Cardinality(C)
    <2> DEFINE f == [i \in B |-> i + n]
    <2>0. IsFiniteSet(C)
      BY <1>1, <1>2, FS_Subset
    <2>1. \A i \in B : i \in Nat
      BY DEF Without
    <2>2. f \in [B -> C]
      BY <1>2
    <2>3. \A i, j \in B : f[i] = f[j] => i = j
      BY <2>1
    <2> HIDE DEF B
    <2>4. f \in Injection(B, C)
      BY <2>2, <2>3 DEF Injection, IsInjective
    <2> QED BY <2>0, <2>4, FS_Injection
  <1>3. \A i \in B : i + n \in A
    BY DEF Without
  <1>4. Cardinality(B) =< Cardinality(A)
    BY <1>2, <1>3
  <1>5. ASSUME NEW k \in DOMAIN s, k =< n, s[k].word = word
        PROVE  Cardinality(B) =< Cardinality(A) - 1
    <2>1. \A i \in B : i + n \in A \ {k}
      <3>1. \A i \in B : i \in Nat /\ i > 0
        BY DEF Without
      <3>2. k \in Nat
        OBVIOUS
      <3>3. \A i \in B : i + n # k
        BY <1>5, <3>1, <3>2
      <3> QED BY <1>3, <3>3
    <2>2. Cardinality(B) =< Cardinality(A \ {k})
      BY <1>2, <2>1
    <2>3. k \in A
      BY <1>5
    <2>4. Cardinality(A \ {k}) = Cardinality(A) - 1
      BY <1>1, <2>3, FS_RemoveElement
    <2> QED BY <2>2, <2>4
  <1> QED BY <1>4, <1>5 DEF Count

LEMMA CountNone ==
  ASSUME NEW S, NEW s \in Seq(S), NEW word, \A i \in DOMAIN s : s[i].word # word
  PROVE  Count(word, s) = 0
  <1>1. {i \in DOMAIN s : s[i].word = word} = {}
    OBVIOUS
  <1> QED BY <1>1, FS_EmptySet DEF Count

-----------------------------------------------------------------------------
(* What the lines say: in are the commands under way to the engine, out its *)
(* answers, s the search it works on and a the last one asked for.          *)

\* Searches are asked for, worked on and answered in order.
Ordered(in, out, s, a) ==
    /\ \A i, j \in DOMAIN in : i < j /\ in[i].word = "go" /\ in[j].word = "go" => in[i].of < in[j].of
    /\ \A i \in DOMAIN in : in[i].word = "go" => in[i].of \in 1..a /\ s < in[i].of
    /\ \A i \in DOMAIN out : out[i].word = "bestmove" => out[i].of \in 1..a /\ (s # 0 => out[i].of < s)
    /\ \A i \in DOMAIN out, j \in DOMAIN in : out[i].word = "bestmove" /\ in[j].word = "go"
            => out[i].of < in[j].of
    /\ \A i, j \in DOMAIN out : i < j /\ out[i].word = "bestmove" /\ out[j].word = "bestmove"
            => out[i].of < out[j].of

\* Every ping under way is ahead of the "go" a, and its answer ahead of the answer to that.
PingsFirst(in, out, a) ==
    /\ \A i \in DOMAIN in : in[i].word = "isready"
            => \E j \in DOMAIN in : i < j /\ in[j].word = "go" /\ in[j].of = a
    /\ \A i, j \in DOMAIN out : i < j /\ out[i].word = "bestmove" /\ out[i].of = a
            => out[j].word # "readyok"

\* All that is under way of searches is of the search a.
OnlyAsked(in, out, s, a) ==
    /\ \A i \in DOMAIN in : in[i].word = "go" => in[i].of = a
    /\ s \in {0, a}
    /\ \A i \in DOMAIN out : out[i].word = "bestmove" => out[i].of = a

\* Nothing is under way of any search.
NothingAsked(in, out, s) ==
    /\ \A i \in DOMAIN in : in[i].word # "go"
    /\ s = 0
    /\ \A i \in DOMAIN out : out[i].word # "bestmove"

InType == Seq(Lines(Commands))
OutType == Seq(Lines(Answers))

LEMMA LineTypes ==
  /\ \A in \in InType : \A i \in DOMAIN in : in[i] \in Lines(Commands) /\ in[i].of \in Nat /\ i \in Nat
          /\ i > 0
  /\ \A out \in OutType : \A i \in DOMAIN out : out[i] \in Lines(Answers) /\ out[i].of \in Nat
          /\ i \in Nat /\ i > 0
  <1>1. \A in \in InType : DOMAIN in = 1..Len(in) /\ \A i \in DOMAIN in : in[i] \in Lines(Commands)
    BY DEF InType
  <1>2. \A out \in OutType : DOMAIN out = 1..Len(out) /\ \A i \in DOMAIN out : out[i] \in Lines(Answers)
    BY DEF OutType
  <1>3. \A W : \A l \in Lines(W) : l.of \in Nat /\ l.word \in W
    BY DEF Lines
  <1> QED BY <1>1, <1>2, <1>3

\* The order is kept by all that happens to a pipe or to a search.
LEMMA OrderKept ==
  ASSUME NEW in \in InType, NEW out \in OutType, NEW a \in Nat, NEW s \in 0..a, Ordered(in, out, s, a)
  PROVE  /\ Ordered(in, out, 0, a)
         /\ \A in2 \in InType, n \in Nat : Without(in2, in, n) => Ordered(in2, out, s, a)
         /\ \A out2 \in OutType, n \in Nat : Without(out2, out, n) => Ordered(in, out2, s, a)
         /\ \A in2 \in InType : \A l : With(in2, in, l) /\ l.word # "go" => Ordered(in2, out, s, a)
         /\ \A in2 \in InType : With(in2, in, Go(a + 1)) => Ordered(in2, out, s, a + 1)
         /\ \A out2 \in OutType : \A l : With(out2, out, l) /\ l.word # "bestmove"
                 => Ordered(in, out2, s, a)
         /\ \A out2 \in OutType : With(out2, out, Bestmove(s)) /\ s # 0 => Ordered(in, out2, 0, a)
         /\ \A in2 \in InType : Without(in2, in, 1) /\ 1 \in DOMAIN in /\ in[1].word = "go"
                 => Ordered(in2, out, in[1].of, a)
  <1> USE LineTypes
  <1>1. Ordered(in, out, 0, a)
    BY DEF Ordered
  <1>2. ASSUME NEW in2 \in InType, NEW n \in Nat, Without(in2, in, n) PROVE Ordered(in2, out, s, a)
    <2>1. \A i, j \in DOMAIN in2 : i < j => i + n < j + n
      OBVIOUS
    <2> QED BY <1>2, <2>1 DEF Ordered, Without
  <1>3. ASSUME NEW out2 \in OutType, NEW n \in Nat, Without(out2, out, n) PROVE Ordered(in, out2, s, a)
    <2>1. \A i, j \in DOMAIN out2 : i < j => i + n < j + n
      OBVIOUS
    <2> QED BY <1>3, <2>1 DEF Ordered, Without
  <1>4. ASSUME NEW in2 \in InType, NEW l, With(in2, in, l), l.word # "go" PROVE Ordered(in2, out, s, a)
    BY <1>4 DEF Ordered, With
  <1>5. ASSUME NEW in2 \in InType, With(in2, in, Go(a + 1)) PROVE Ordered(in2, out, s, a + 1)
    <2>0. Go(a + 1).word = "go" /\ Go(a + 1).of = a + 1
      BY DEF Go
    <2>k. Len(in) \in Nat
      BY DEF InType
    <2>1. \A i \in DOMAIN in2 : in2[i].word = "go" => in2[i].of \in 1..(a + 1) /\ s < in2[i].of
      BY <1>5, <2>0 DEF Ordered, With
    <2>2. \A i, j \in DOMAIN in2 : i < j /\ in2[i].word = "go" /\ in2[j].word = "go"
               => in2[i].of < in2[j].of
      <3> SUFFICES ASSUME NEW i \in DOMAIN in2, NEW j \in DOMAIN in2, i < j, in2[i].word = "go",
                          in2[j].word = "go"
                   PROVE  in2[i].of < in2[j].of
        OBVIOUS
      <3>1. CASE i \in DOMAIN in /\ j \in DOMAIN in
        BY <1>5, <3>1 DEF Ordered, With
      <3>2. CASE i \in DOMAIN in /\ j = Len(in) + 1
        BY <1>5, <2>0, <3>2 DEF Ordered, With
      <3>3. CASE i = Len(in) + 1 /\ j \in DOMAIN in
        BY <1>5, <2>k, <3>3 DEF With
      <3>4. CASE i = Len(in) + 1 /\ j = Len(in) + 1
        BY <2>k, <3>4
      <3> QED BY <1>5, <3>1, <3>2, <3>3, <3>4 DEF With
    <2>3. \A i \in DOMAIN out : out[i].word = "bestmove" => out[i].of \in 1..(a + 1) /\ (s # 0
               => out[i].of < s)
      BY DEF Ordered
    <2>4. \A i \in DOMAIN out, j \in DOMAIN in2 : out[i].word = "bestmove" /\ in2[j].word = "go"
               => out[i].of < in2[j].of
      BY <1>5, <2>0 DEF Ordered, With
    <2>5. \A i, j \in DOMAIN out : i < j /\ out[i].word = "bestmove" /\ out[j].word = "bestmove"
               => out[i].of < out[j].of
      BY DEF Ordered
    <2> QED BY <2>1, <2>2, <2>3, <2>4, <2>5 DEF Ordered
  <1>6. ASSUME NEW out2 \in OutType, NEW l, With(out2, out, l), l.word # "bestmove"
        PROVE  Ordered(in, out2, s, a)
    BY <1>6 DEF Ordered, With
  <1>7. ASSUME NEW out2 \in OutType, With(out2, out, Bestmove(s)), s # 0 PROVE Ordered(in, out2, 0, a)
    <2>0. Bestmove(s).word = "bestmove" /\ Bestmove(s).of = s
      BY DEF Bestmove
    <2>k. Len(out) \in Nat
      BY DEF OutType
    <2>1. \A i \in DOMAIN out2 : out2[i].word = "bestmove" => out2[i].of \in 1..a
      BY <1>7, <2>0 DEF Ordered, With
    <2>2. \A i, j \in DOMAIN out2 : i < j /\ out2[i].word = "bestmove" /\ out2[j].word = "bestmove"
               => out2[i].of < out2[j].of
      <3> SUFFICES ASSUME NEW i \in DOMAIN out2, NEW j \in DOMAIN out2, i < j,
                out2[i].word = "bestmove", out2[j].word = "bestmove"
                   PROVE  out2[i].of < out2[j].of
        OBVIOUS
      <3>1. CASE i \in DOMAIN out /\ j \in DOMAIN out
        BY <1>7, <3>1 DEF Ordered, With
      <3>2. CASE i \in DOMAIN out /\ j = Len(out) + 1
        BY <1>7, <2>0, <3>2 DEF Ordered, With
      <3>3. CASE i = Len(out) + 1 /\ j \in DOMAIN out
        BY <1>7, <2>k, <3>3 DEF With
      <3>4. CASE i = Len(out) + 1 /\ j = Len(out) + 1
        BY <2>k, <3>4
      <3> QED BY <1>7, <3>1, <3>2, <3>3, <3>4 DEF With
    <2>3. \A i \in DOMAIN out2, j \in DOMAIN in : out2[i].word = "bestmove" /\ in[j].word = "go"
               => out2[i].of < in[j].of
      BY <1>7, <2>0 DEF Ordered, With
    <2>4. \A i \in DOMAIN in : in[i].word = "go" => in[i].of \in 1..a /\ 0 < in[i].of
      BY DEF Ordered
    <2>5. \A i, j \in DOMAIN in : i < j /\ in[i].word = "go" /\ in[j].word = "go" => in[i].of < in[j].of
      BY DEF Ordered
    <2> QED BY <2>1, <2>2, <2>3, <2>4, <2>5 DEF Ordered
  <1>8. ASSUME NEW in2 \in InType, Without(in2, in, 1), 1 \in DOMAIN in, in[1].word = "go"
        PROVE  Ordered(in2, out, in[1].of, a)
    <2>0. in[1].of \in Nat /\ in[1].of # 0
      BY <1>8 DEF Ordered
    <2>1. \A i \in DOMAIN in2 : 1 < i + 1 /\ i + 1 \in DOMAIN in /\ in2[i] = in[i + 1]
      BY <1>8 DEF Without
    <2>2. \A i \in DOMAIN in2 : in2[i].word = "go" => in2[i].of \in 1..a /\ in[1].of < in2[i].of
      BY <1>8, <2>1 DEF Ordered
    <2>3. \A i, j \in DOMAIN in2 : i < j /\ in2[i].word = "go" /\ in2[j].word = "go"
               => in2[i].of < in2[j].of
      <3>1. \A i, j \in DOMAIN in2 : i < j => i + 1 < j + 1
        OBVIOUS
      <3> QED BY <2>1, <3>1 DEF Ordered
    <2>4. \A i \in DOMAIN out : out[i].word = "bestmove" => out[i].of \in 1..a /\ out[i].of < in[1].of
      BY <1>8 DEF Ordered
    <2>5. \A i \in DOMAIN out, j \in DOMAIN in2 : out[i].word = "bestmove" /\ in2[j].word = "go"
               => out[i].of < in2[j].of
      BY <2>1 DEF Ordered
    <2>6. \A i, j \in DOMAIN out : i < j /\ out[i].word = "bestmove" /\ out[j].word = "bestmove"
               => out[i].of < out[j].of
      BY DEF Ordered
    <2> QED BY <2>2, <2>3, <2>4, <2>5, <2>6 DEF Ordered
  <1> QED BY <1>1, <1>2, <1>3, <1>4, <1>5, <1>6, <1>7, <1>8

\* Behind the answer to the last "go" there is nothing of a search and, if pings were ahead of
\* it, no ping.
LEMMA AnswerIsLast ==
  ASSUME NEW in \in InType, NEW out \in OutType, NEW a \in Nat, NEW s \in 0..a, Ordered(in, out, s, a),
         NEW k \in DOMAIN out, out[k].word = "bestmove", out[k].of = a
  PROVE  /\ s = 0 /\ \A i \in DOMAIN in : in[i].word # "go"
         /\ \A i \in DOMAIN out : i > k => out[i].word # "bestmove"
         /\ PingsFirst(in, out, a) => /\ \A i \in DOMAIN in : in[i].word # "isready"
                                      /\ \A i \in DOMAIN out : i > k => out[i].word # "readyok"
  <1> USE LineTypes
  <1>1. s = 0
    BY DEF Ordered
  <1>2. \A i \in DOMAIN in : in[i].word # "go"
    BY DEF Ordered
  <1>3. \A i \in DOMAIN out : i > k => out[i].word # "bestmove"
    <2> SUFFICES ASSUME NEW i \in DOMAIN out, i > k, out[i].word = "bestmove" PROVE FALSE
      OBVIOUS
    <2>1. k < i
      OBVIOUS
    <2>2. out[k].of < out[i].of /\ out[i].of \in 1..a
      BY <2>1 DEF Ordered
    <2> QED BY <2>2
  <1>4. PingsFirst(in, out, a) => \A i \in DOMAIN in : in[i].word # "isready"
    BY <1>2 DEF PingsFirst
  <1>5. PingsFirst(in, out, a) => \A i \in DOMAIN out : i > k => out[i].word # "readyok"
    <2>1. \A i \in DOMAIN out : i > k => k < i
      OBVIOUS
    <2> QED BY <2>1 DEF PingsFirst
  <1> QED BY <1>1, <1>2, <1>3, <1>4, <1>5


\* Likewise for PingsFirst, OnlyAsked and NothingAsked.
LEMMA PingsFirstKept ==
  ASSUME NEW in \in InType, NEW out \in OutType, NEW a \in Nat, NEW s \in 0..a,
         Ordered(in, out, s, a), PingsFirst(in, out, a)
  PROVE  /\ \A in2 \in InType : Without(in2, in, 1) => PingsFirst(in2, out, a)
         /\ \A out2 \in OutType, n \in Nat : Without(out2, out, n) => PingsFirst(in, out2, a)
         /\ \A out2 \in OutType : \A l :
               With(out2, out, l) /\ l.word # "readyok" => PingsFirst(in, out2, a)
         /\ \A out2 \in OutType, in2 \in InType : \A l :
               With(out2, out, l) /\ Without(in2, in, 1) /\ 1 \in DOMAIN in /\ in[1].word = "isready"
                  => PingsFirst(in2, out2, a)
  <1> USE LineTypes
  <1>1. ASSUME NEW in2 \in InType, Without(in2, in, 1) PROVE PingsFirst(in2, out, a)
    <2>1. ASSUME NEW i \in DOMAIN in2, in2[i].word = "isready"
          PROVE  \E j \in DOMAIN in2 : i < j /\ in2[j].word = "go" /\ in2[j].of = a
      <3>1. i + 1 \in DOMAIN in /\ in[i + 1].word = "isready" /\ i \in Nat /\ i > 0
        BY <1>1, <2>1 DEF Without
      <3>2. PICK j \in DOMAIN in : i + 1 < j /\ in[j].word = "go" /\ in[j].of = a
        BY <3>1 DEF PingsFirst
      <3>3. j \in Nat /\ j > 1
        BY <3>1, <3>2
      <3>4. j - 1 \in DOMAIN in2
        BY <1>1, <3>3 DEF Without
      <3>5. in2[j - 1] = in[(j - 1) + 1] /\ (j - 1) + 1 = j
        BY <1>1, <3>3, <3>4 DEF Without
      <3>6. i < j - 1
        BY <3>1, <3>2, <3>3
      <3> QED BY <3>2, <3>4, <3>5, <3>6
    <2> QED BY <2>1 DEF PingsFirst
  <1>2. ASSUME NEW out2 \in OutType, NEW n \in Nat, Without(out2, out, n) PROVE PingsFirst(in, out2, a)
    <2>1. \A i, j \in DOMAIN out2 : i < j => i + n < j + n
      OBVIOUS
    <2>2. ASSUME NEW i \in DOMAIN out2, NEW j \in DOMAIN out2, i < j, out2[i].word = "bestmove",
                out2[i].of = a
          PROVE  out2[j].word # "readyok"
      BY <1>2, <2>1, <2>2 DEF PingsFirst, Without
    <2> QED BY <2>2 DEF PingsFirst
  <1>3. ASSUME NEW out2 \in OutType, NEW l, With(out2, out, l),
               l.word # "readyok" \/ \A i \in DOMAIN out : ~(out[i].word = "bestmove" /\ out[i].of = a)
        PROVE  PingsFirst(in, out2, a)
    <2>k. Len(out) \in Nat
      BY DEF OutType
    <2>1. ASSUME NEW i \in DOMAIN out2, NEW j \in DOMAIN out2, i < j, out2[i].word = "bestmove",
                out2[i].of = a
          PROVE  out2[j].word # "readyok"
      <3>1. CASE i \in DOMAIN out /\ j \in DOMAIN out
        BY <1>3, <2>1, <3>1 DEF PingsFirst, With
      <3>2. CASE i \in DOMAIN out /\ j = Len(out) + 1
        BY <1>3, <2>1, <3>2 DEF With
      <3>3. CASE i = Len(out) + 1 /\ j \in DOMAIN out
        BY <1>3, <2>1, <2>k, <3>3 DEF With
      <3>4. CASE i = Len(out) + 1 /\ j = Len(out) + 1
        BY <2>1, <2>k, <3>4
      <3> QED BY <1>3, <3>1, <3>2, <3>3, <3>4 DEF With
    <2> QED BY <2>1 DEF PingsFirst
  <1>4. ASSUME NEW out2 \in OutType, NEW in2 \in InType, NEW l, With(out2, out, l), Without(in2, in, 1),
               1 \in DOMAIN in, in[1].word = "isready"
        PROVE  PingsFirst(in2, out2, a)
    <2>1. \A i \in DOMAIN out : ~(out[i].word = "bestmove" /\ out[i].of = a)
      BY <1>4, AnswerIsLast
    <2>2. PingsFirst(in, out2, a)
      BY <1>3, <1>4, <2>1
    <2>3. PingsFirst(in2, out, a)
      BY <1>1, <1>4
    <2> QED BY <2>2, <2>3 DEF PingsFirst
  <1> QED BY <1>1, <1>2, <1>3, <1>4

LEMMA OnlyAskedKept ==
  ASSUME NEW in \in InType, NEW out \in OutType, NEW a \in Nat, NEW s \in 0..a, OnlyAsked(in, out, s, a)
  PROVE  /\ OnlyAsked(in, out, 0, a)
         /\ \A in2 \in InType, n \in Nat : Without(in2, in, n) => OnlyAsked(in2, out, s, a)
         /\ \A out2 \in OutType, n \in Nat : Without(out2, out, n) => OnlyAsked(in, out2, s, a)
         /\ \A in2 \in InType : \A l : With(in2, in, l) /\ l.word # "go" => OnlyAsked(in2, out, s, a)
         /\ \A out2 \in OutType : \A l : With(out2, out, l) /\ l.word # "bestmove"
                 => OnlyAsked(in, out2, s, a)
         /\ \A out2 \in OutType : With(out2, out, Bestmove(s)) /\ s # 0 => OnlyAsked(in, out2, 0, a)
         /\ \A in2 \in InType : Without(in2, in, 1) /\ 1 \in DOMAIN in /\ in[1].word = "go"
                                   => OnlyAsked(in2, out, in[1].of, a)
  BY DEF OnlyAsked, With, Without, Bestmove

LEMMA NothingAskedKept ==
  ASSUME NEW in \in InType, NEW out \in OutType, NEW s \in Nat, NothingAsked(in, out, s)
  PROVE  /\ \A in2 \in InType, n \in Nat : Without(in2, in, n) => NothingAsked(in2, out, s)
         /\ \A out2 \in OutType, n \in Nat : Without(out2, out, n) => NothingAsked(in, out2, s)
         /\ \A in2 \in InType : \A l : With(in2, in, l) /\ l.word # "go" => NothingAsked(in2, out, s)
         /\ \A out2 \in OutType : \A l : With(out2, out, l) /\ l.word # "bestmove"
                 => NothingAsked(in, out2, s)
         /\ \A in2 \in InType, a \in Nat : With(in2, in, Go(a)) => OnlyAsked(in2, out, s, a)
         /\ \A a : OnlyAsked(in, out, s, a)
  BY DEF NothingAsked, OnlyAsked, With, Without, Go

-----------------------------------------------------------------------------
(* The steps of a process in these terms.                                  *)

PipesTyped == stdin \in InType /\ stdout \in OutType /\ asked \in Nat /\ searching \in 0..asked

LEMMA CommandTyped ==
  ASSUME pc \in Pings \cup Writes, asked \in Nat
  PROVE  /\ Command \in Lines(Commands)
         /\ pc \in Pings => Command.word = "isready"
         /\ pc = "go" => Command = Go(asked + 1)
         /\ pc \notin Pings => Command.word # "isready"
         /\ pc # "go" => Command.word # "go"
  <1> USE DEF Command, Line, Go, Lines, Commands, Pings, Writes
  <1>1. CASE pc \in Pings
    BY <1>1
  <1>2. CASE pc = "go"
    BY <1>2
  <1>3. CASE pc \in Writes \ {"go"}
    BY <1>3
  <1> QED BY <1>1, <1>2, <1>3

LEMMA WriteFacts ==
  ASSUME PipesTyped, NEW line \in Lines(Commands), Write(line)
  PROVE  stdin' \in InType /\ With(stdin', stdin, line) /\ UNCHANGED <<stdout, searching>>
  BY AppendWith DEF Write, PipesTyped, InType

LEMMA ReadFacts ==
  ASSUME PipesTyped, NEW word \in Answers, NEW found, ReadLines(word, found)
  PROVE  \E n \in Nat : /\ stdout' \in OutType /\ Without(stdout', stdout, n)
                        /\ UNCHANGED <<stdin, searching>>
                        /\ found.word = word =>
                             \E k \in DOMAIN stdout : k =< n /\ stdout[k] = found
  <1> DEFINE first(n) == SelectInSubSeq(stdout, 1, n, LAMBDA l : l.word = word)
  <1>1. PICK n \in 1..Len(stdout) :
           /\ found = IF first(n) = 0 THEN Line("none") ELSE stdout[first(n)]
           /\ stdout' = SubSeq(stdout, n + 1, Len(stdout))
    BY DEF ReadLines
  <1>2. stdout \in Seq(Lines(Answers)) /\ Len(stdout) \in Nat /\ DOMAIN stdout = 1..Len(stdout)
    BY DEF PipesTyped, OutType
  <1>3. stdout' \in OutType /\ Without(stdout', stdout, n)
    BY <1>1, <1>2, RestWithout DEF OutType
  <1>4. n \in Nat
    BY <1>2
  <1>5. first(n) \in 0..n
    <2> DEFINE I == {i \in 1..n : stdout[i].word = word}
    <2>1. first(n) = IF I # {} THEN Min(I) ELSE 0
      BY DEF SelectInSubSeq
    <2>2. I \in SUBSET Nat /\ I \subseteq 1..n
      OBVIOUS
    <2> HIDE DEF I, first
    <2>3. I # {} => Min(I) \in 1..n
      BY <2>2, MinOf
    <2> QED BY <1>4, <2>1, <2>3
  <1> HIDE DEF first
  <1>6. ASSUME found.word = word PROVE \E k \in DOMAIN stdout : k =< n /\ stdout[k] = found
    <2>1. Line("none").word # word
      BY DEF Line, Answers
    <2>2. first(n) # 0 /\ found = stdout[first(n)]
      BY <1>1, <1>6, <2>1
    <2>3. first(n) \in DOMAIN stdout /\ first(n) =< n
      BY <1>2, <1>5, <2>2
    <2> QED BY <2>2, <2>3
  <1> QED BY <1>3, <1>4, <1>6 DEF ReadLines

LEMMA ObeyFacts ==
  ASSUME PipesTyped, Obey
  PROVE  /\ stdin' \in InType /\ stdout' \in OutType /\ Without(stdin', stdin, 1) /\ 1 \in DOMAIN stdin
         /\ \/ stdin[1].word = "go" /\ searching' = stdin[1].of /\ stdout' = stdout
            \/ /\ stdin[1].word = "isready" /\ searching' = searching
               /\ With(stdout', stdout, Line("readyok"))
            \/ /\ stdin[1].word = "stop" /\ searching # 0 /\ searching' = 0
               /\ With(stdout', stdout, Bestmove(searching))
            \/ /\ stdin[1].word = "uci" /\ searching' = searching
               /\ With(stdout', stdout, Line("uciok"))
            \/ /\ stdin[1].word \notin {"go", "isready"} /\ searching' \in {searching, 0}
               /\ stdout' = stdout
  <1>1. stdin \in Seq(Lines(Commands)) /\ stdin # <<>> /\ stdin' = Tail(stdin)
             /\ stdout \in Seq(Lines(Answers))
    BY DEF PipesTyped, InType, OutType, Obey
  <1>2. stdin' \in InType /\ Without(stdin', stdin, 1) /\ 1 \in DOMAIN stdin /\ Head(stdin) = stdin[1]
    BY <1>1, TailWithout DEF InType
  <1>3. Line("readyok") \in Lines(Answers) /\ Line("uciok") \in Lines(Answers)
             /\ Bestmove(searching) \in Lines(Answers)
    BY DEF Line, Bestmove, Lines, Answers, PipesTyped
  <1>4. \A e \in Lines(Answers) : stdout' = stdout \o <<e>>
             => stdout' \in OutType /\ With(stdout', stdout, e)
    BY <1>1, AppendWith DEF OutType
  <1>5. stdout \o <<>> = stdout /\ stdout \in OutType
    BY <1>1 DEF OutType
  <1>6. /\ searching' = CASE stdin[1].word = "go" -> stdin[1].of
                            [] stdin[1].word = "stop" -> 0
                            [] OTHER -> searching
        /\ stdout' = stdout \o (CASE stdin[1].word = "uci" -> <<Line("uciok")>>
                    [] stdin[1].word = "isready" -> <<Line("readyok")>>
                    [] stdin[1].word = "stop" /\ searching # 0 -> <<Bestmove(searching)>>
                    [] OTHER -> <<>>)
    BY <1>2 DEF Obey, Says
  <1>a. CASE stdin[1].word = "go"
    <2>1. searching' = stdin[1].of /\ stdout' = stdout \o <<>>
      BY <1>6, <1>a
    <2> QED BY <1>2, <1>5, <1>a, <2>1
  <1>b. CASE stdin[1].word = "isready"
    <2>1. searching' = searching /\ stdout' = stdout \o <<Line("readyok")>>
      BY <1>6, <1>b
    <2> QED BY <1>2, <1>3, <1>4, <1>b, <2>1
  <1>c. CASE stdin[1].word = "stop" /\ searching # 0
    <2>1. searching' = 0 /\ stdout' = stdout \o <<Bestmove(searching)>>
      BY <1>6, <1>c
    <2> QED BY <1>2, <1>3, <1>4, <1>c, <2>1
  <1>d. CASE stdin[1].word = "uci"
    <2>1. searching' = searching /\ stdout' = stdout \o <<Line("uciok")>>
      BY <1>6, <1>d
    <2> QED BY <1>2, <1>3, <1>4, <1>d, <2>1
  <1>e. CASE stdin[1].word \notin {"go", "isready", "uci"} /\ ~(stdin[1].word = "stop" /\ searching # 0)
    <2>1. searching' \in {0, searching} /\ stdout' = stdout \o <<>>
      BY <1>6, <1>e
    <2> QED BY <1>2, <1>5, <1>e, <2>1
  <1> QED BY <1>a, <1>b, <1>c, <1>d, <1>e

LEMMA SaysFacts ==
  ASSUME PipesTyped
  PROVE  /\ FinishSearch =>
               /\ stdout' \in OutType
               /\ \E mid \in OutType : With(mid, stdout, Line("info"))
                       /\ With(stdout', mid, Bestmove(searching))
         /\ Chat => stdout' \in OutType /\ With(stdout', stdout, Line("info"))
  <1>1. Line("info") \in Lines(Answers) /\ Bestmove(searching) \in Lines(Answers)
             /\ stdout \in Seq(Lines(Answers))
    BY DEF Line, Bestmove, Lines, Answers, PipesTyped, OutType
  <1> DEFINE mid == Append(stdout, Line("info"))
  <1>2. mid \in Seq(Lines(Answers)) /\ With(mid, stdout, Line("info"))
             /\ stdout \o <<Line("info")>> = mid
    BY <1>1, AppendWith
  <1>3. stdout \o <<Line("info"), Bestmove(searching)>> = Append(mid, Bestmove(searching))
    BY <1>1
  <1> HIDE DEF mid
  <1>4. Append(mid, Bestmove(searching)) \in Seq(Lines(Answers))
             /\ With(Append(mid, Bestmove(searching)), mid, Bestmove(searching))
    BY <1>1, <1>2, AppendWith
  <1>5. FinishSearch => stdout' = Append(mid, Bestmove(searching))
    BY <1>3 DEF FinishSearch, Says
  <1>6. Chat => stdout' = mid
    BY <1>2 DEF Chat, Says
  <1> QED BY <1>2, <1>4, <1>5, <1>6 DEF OutType

\* The steps that change the pipes, the search or the count of searches.
LEMMA Kinds ==
  ASSUME [Next]_vars
  PROVE  \/ UNCHANGED <<stdin, stdout, searching, asked>>
         \/ Send \/ ReadGoesOn \/ ReadFinds \/ ReadTimesOut \/ Reap
         \/ (Elsewhere /\ (Obey \/ FinishSearch \/ Chat))
  <1> USE DEF process, pipes
  <1>1. CheckAlive \/ TestWrite \/ ReadFails => UNCHANGED <<stdin, stdout, searching, asked>>
    BY DEF CheckAlive, TestWrite, ReadFails, Interrupted, HungUp
  <1>2. BeginGame \/ StartProcess \/ AskUci \/ ReadUciok \/ BothStarted \/ Ucinewgame \/ Refresh
           => UNCHANGED <<stdin, stdout, searching, asked>>
    BY DEF BeginGame, StartProcess, Spawn, AskUci, ReadUciok, BothStarted, Ucinewgame, Refresh
  <1>3. FirstPing \/ TurnInterrupted \/ GameOver \/ TakeTurn \/ Prepare \/ SearchReturns
           \/ StillReady \/ PlayMove \/ LosesOnTime \/ LosesByIllegalMove \/ Drain
           => UNCHANGED <<stdin, stdout, searching, asked>>
    BY DEF FirstPing, TurnInterrupted, GameOver, TakeTurn, Prepare, SearchReturns, StillReady, PlayMove,
           LosesOnTime, LosesByIllegalMove, Drain, Proceed
  <1>4. EndGame \/ Recover \/ CloseSession \/ Quit => UNCHANGED <<stdin, stdout, searching, asked>>
    BY DEF EndGame, Recover, CloseSession, Quit
  <1>5. StopTournament \/ WakeReaders \/ EngineExits \/ (Crash /\ Elsewhere)
             => UNCHANGED <<stdin, stdout, searching, asked>>
    BY DEF StopTournament, WakeReaders, Wake, EngineExits, Exit, Crash, Elsewhere
  <1>6. UNCHANGED vars => UNCHANGED <<stdin, stdout, searching, asked>>
    BY DEF vars
  <1> QED BY <1>1, <1>2, <1>3, <1>4, <1>5, <1>6 DEF Next, Session, Call, EngineObeys, EngineActs

-----------------------------------------------------------------------------
\* A call is only in the phases it has: a ping is tested for life, sent and waited for, a write
\* is not waited for, a read not sent.
ByPhase ==
    /\ pc \in Pings => phase \in {"alive", "test", "send", "read", "returned"}
    /\ pc \in Writes => phase \in {"test", "send", "returned"}
    /\ pc \in Reads => phase \in {"read", "returned"}
    /\ pc \notin Pings \cup Writes \cup Reads => phase = "none"

\* There is a move on record only in a game, and a game is not played beyond its last move.
Bounds ==
    /\ pc \notin Playing \cup {"ended", "killed"} => answer = 0
    /\ pc \in {"before_position", "position", "before_go", "go", "search", "after_search", "judge"} =>
          moves < MaxMoves

\* Readers are only woken when the tournament has been stopped.
Wakes == interrupt => stop

\* An engine that is not running has no pipes with lines in them.
EmptyWhenNone == life = "none" => stdin = <<>> /\ stdout = <<>> /\ searching = 0 /\ asked = 0

\* What has been said by the points of the session: nothing but a stopped tournament lets an
\* engine go on that has not said uciok, and a game begins with an answer to ucinewgame.
Greets ==
    /\ initialized /\ pc \notin {"uci", "uciok", "killed"} /\ ~greeted => stop
    /\ pc \in {"uci", "uciok", "started"} => initialized
    /\ pc = "start" => ~initialized
    /\ pc \in {"ucinewgame", "newgame", "connect"} \cup Playing => greeted
    /\ pc \in Playing \/ (pc = "connect" /\ verdict = "none") => refreshed

PipesOrdered == Ordered(stdin, stdout, searching, asked)

LEMMA TypedPipes == ASSUME TypeOK PROVE PipesTyped /\ answer \in 0..asked
  BY DEF TypeOK, PipesTyped, InType, OutType

LEMMA PointFacts ==
  /\ FirstPhase(pc) = IF pc \in Pings THEN "alive" ELSE IF pc \in Writes THEN "test"
                      ELSE IF pc \in Reads THEN "read" ELSE "none"
  /\ Pings \cap Writes = {} /\ Pings \cap Reads = {} /\ Writes \cap Reads = {}
  BY DEF FirstPhase, Pings, Writes, Reads

\* Lines, searches and their count keep their types.
LEMMA StepPipesTyped ==
  ASSUME PipesTyped, PipesOrdered, ByPhase, [Next]_vars
  PROVE  PipesTyped'
  <1> USE DEF PipesTyped, InType, OutType
  <1>1. CASE UNCHANGED <<stdin, stdout, searching, asked>>
    BY <1>1
  <1>2. CASE Send
    <2>1. pc \in Pings \cup Writes
      BY <1>2 DEF Send, ByPhase, Reads
    <2>2. CASE Write(Command)
      BY <1>2, <2>1, <2>2, CommandTyped, WriteFacts DEF Send
    <2>3. CASE BrokenPipe /\ UNCHANGED asked
      BY <2>3 DEF BrokenPipe, process, pipes
    <2> QED BY <1>2, <2>2, <2>3 DEF Send
  <1>3. CASE ReadGoesOn \/ ReadFinds
    <2>1. Awaited \in Answers
      BY DEF Awaited, Answers
    <2>2. PICK found : ReadLines(Awaited, found) /\ UNCHANGED asked
      BY <1>3 DEF ReadGoesOn, ReadFinds
    <2> QED BY <2>1, <2>2, ReadFacts
  <1>4. CASE ReadTimesOut
    BY <1>4 DEF ReadTimesOut, pipes
  <1>5. CASE Reap
    BY <1>5 DEF Reap, Terminate
  <1>6. CASE Elsewhere /\ Obey
    <2>1. asked' = asked
      BY <1>6 DEF Elsewhere
    <2>2. stdin[1].word = "go" => stdin[1].of \in 0..asked
      BY <1>6, ObeyFacts DEF PipesOrdered, Ordered
    <2> QED BY <1>6, <2>1, <2>2, ObeyFacts
  <1>7. CASE Elsewhere /\ (FinishSearch \/ Chat)
    BY <1>7, SaysFacts DEF Elsewhere, FinishSearch, Chat
  <1> QED BY <1>1, <1>2, <1>3, <1>4, <1>5, <1>6, <1>7, Kinds

\* PipesOrdered is kept.
LEMMA StepOrdered ==
  ASSUME PipesTyped, PipesOrdered, ByPhase, [Next]_vars
  PROVE  PipesOrdered'
  <1> SUFFICES Ordered(stdin', stdout', searching', asked')
    BY DEF PipesOrdered, Ordered
  <1>o. Ordered(stdin, stdout, searching, asked)
    BY DEF PipesOrdered
  <1>t. stdin' \in InType /\ stdout' \in OutType /\ asked' \in Nat /\ searching' \in 0..asked'
    BY StepPipesTyped DEF PipesTyped
  <1>u. stdin \in InType /\ stdout \in OutType /\ asked \in Nat /\ searching \in 0..asked
    BY DEF PipesTyped
  <1>1. CASE UNCHANGED <<stdin, stdout, searching, asked>>
    BY <1>1, <1>o
  <1>2. CASE Send
    <2>1. pc \in Pings \cup Writes
      BY <1>2 DEF Send, ByPhase, Reads
    <2>2. CASE Write(Command) /\ asked' = IF pc = "go" THEN asked + 1 ELSE asked
      <3>1. With(stdin', stdin, Command) /\ UNCHANGED <<stdout, searching>>
        BY <2>1, <2>2, CommandTyped, WriteFacts, <1>u
      <3>2. CASE pc = "go"
        BY <2>1, <2>2, <3>1, <3>2, <1>o, <1>t, <1>u, OrderKept, CommandTyped
      <3>3. CASE pc # "go"
        BY <2>1, <2>2, <3>1, <3>3, <1>o, <1>t, <1>u, OrderKept, CommandTyped
      <3> QED BY <3>2, <3>3
    <2>3. CASE BrokenPipe /\ UNCHANGED asked
      BY <2>3, <1>o DEF BrokenPipe, process, pipes
    <2> QED BY <1>2, <2>2, <2>3 DEF Send
  <1>3. CASE ReadGoesOn \/ ReadFinds
    <2>1. Awaited \in Answers
      BY DEF Awaited, Answers
    <2>2. PICK found : ReadLines(Awaited, found) /\ UNCHANGED asked
      BY <1>3 DEF ReadGoesOn, ReadFinds
    <2>3. PICK n \in Nat : Without(stdout', stdout, n) /\ UNCHANGED <<stdin, searching>>
      BY <2>1, <2>2, ReadFacts
    <2> QED BY <2>2, <2>3, <1>o, <1>t, <1>u, OrderKept
  <1>4. CASE ReadTimesOut
    <2>1. UNCHANGED <<stdin, stdout, asked>> /\ searching' \in {searching, 0}
      BY <1>4 DEF ReadTimesOut, pipes
    <2> QED BY <2>1, <1>o, <1>u, OrderKept
  <1>5. CASE Reap
    BY <1>5 DEF Reap, Terminate, Ordered
  <1>6. CASE Elsewhere /\ Obey
    <2>1. asked' = asked
      BY <1>6 DEF Elsewhere
    <2>2. Ordered(stdin', stdout, searching, asked) /\ Ordered(stdin', stdout, 0, asked)
      <3>1. Without(stdin', stdin, 1)
        BY <1>6, ObeyFacts
      <3>2. Ordered(stdin', stdout, searching, asked)
        BY <3>1, <1>o, <1>t, <1>u, OrderKept
      <3> QED BY <3>2, <1>t, <1>u, OrderKept
    <2>3. CASE stdin[1].word = "go" /\ searching' = stdin[1].of /\ stdout' = stdout
      <3>1. Without(stdin', stdin, 1) /\ 1 \in DOMAIN stdin
        BY <1>6, ObeyFacts
      <3> QED BY <2>1, <2>3, <3>1, <1>o, <1>t, <1>u, OrderKept
    <2>4. CASE searching' = searching /\ \E l : With(stdout', stdout, l) /\ l.word # "bestmove"
      BY <2>1, <2>2, <2>4, <1>t, <1>u, OrderKept
    <2>5. CASE searching # 0 /\ searching' = 0 /\ With(stdout', stdout, Bestmove(searching))
      BY <2>1, <2>2, <2>5, <1>t, <1>u, OrderKept
    <2>6. CASE searching' \in {searching, 0} /\ stdout' = stdout
      BY <2>1, <2>2, <2>6
    <2>7. Line("readyok").word # "bestmove" /\ Line("uciok").word # "bestmove"
      BY DEF Line
    <2> QED BY <1>6, <2>3, <2>4, <2>5, <2>6, <2>7, ObeyFacts
  <1>7. CASE Elsewhere /\ FinishSearch
    <2>1. PICK mid \in OutType : With(mid, stdout, Line("info"))
               /\ With(stdout', mid, Bestmove(searching))
      BY <1>7, SaysFacts
    <2>2. Ordered(stdin, mid, searching, asked)
      BY <2>1, <1>o, <1>u, OrderKept DEF Line
    <2>3. searching # 0 /\ searching' = 0 /\ UNCHANGED <<stdin, asked>>
      BY <1>7 DEF Elsewhere, FinishSearch
    <2> QED BY <2>1, <2>2, <2>3, <1>t, <1>u, OrderKept
  <1>8. CASE Elsewhere /\ Chat
    BY <1>8, SaysFacts, <1>o, <1>t, <1>u, OrderKept DEF Line, Elsewhere, Chat
  <1> QED BY <1>1, <1>2, <1>3, <1>4, <1>5, <1>6, <1>7, <1>8, Kinds

-----------------------------------------------------------------------------
(* Where steps lead.                                                       *)

Phases == {"none", "alive", "test", "send", "read", "returned"}
Codes == {"none", "OK", "ERR", "TIMEOUT"}

\* A call stays at its point, or the program is killed by the write.
LEMMA CallMoves ==
  ASSUME ByPhase, pc \in Points, phase \in Phases, code \in Codes, Call
  PROVE  /\ ByPhase' /\ pc' \in Points /\ phase' \in Phases /\ code' \in Codes
         /\ pc' \in {pc, "killed"}
         /\ pc \in Pings \cup Writes \cup Reads
         /\ pc' = "killed" => ~Listening /\ phase' = "none" /\ life' = life
  <1> USE DEF Call, ByPhase, Phases, Codes, Continue, Return
  <1>1. CASE CheckAlive
    BY <1>1 DEF CheckAlive, Writes, Reads, Pings
  <1>2. CASE TestWrite
    BY <1>2 DEF TestWrite, Writes, Reads, Pings
  <1>3. CASE Send
    BY <1>3 DEF Send, Goto, FirstPhase, Points, Writes, Reads, Pings, Playing, BrokenPipe, process,
       Write
  <1>4. CASE ReadFails \/ ReadGoesOn \/ ReadFinds \/ ReadTimesOut
    BY <1>4 DEF ReadFails, ReadGoesOn, ReadFinds, ReadTimesOut, Writes, Reads, Pings, call
  <1> QED BY <1>1, <1>2, <1>3, <1>4

LEMMA GotoFacts ==
  ASSUME NEW point \in Points, Goto(point)
  PROVE  ByPhase' /\ pc' \in Points /\ phase' \in Phases /\ code' \in Codes
  BY DEF Goto, FirstPhase, ByPhase, Phases, Codes, Pings, Writes, Reads

Control == {"idle", "start", "uci", "uciok", "started", "ucinewgame", "newgame", "connect", "ended",
            "recover", "terminate", "over", "close_stop", "close_quit"} \cup Playing

\* All other steps of the session begin a call, or go to a point without one.
LEMMA OutsideMoves ==
  ASSUME Session, ~Call
  PROVE  \E point \in Control : Goto(point)
  <1> USE DEF Control, Playing
  <1>1. CASE BeginGame \/ StartProcess \/ AskUci \/ ReadUciok \/ BothStarted
    BY <1>1 DEF BeginGame, StartProcess, AskUci, ReadUciok, BothStarted, StartFails
  <1>2. CASE Ucinewgame \/ Refresh
    BY <1>2 DEF Ucinewgame, Refresh, Connect
  <1>3. CASE FirstPing \/ Prepare \/ StillReady
    BY <1>3 DEF FirstPing, Prepare, StillReady, Proceed
  <1>4. CASE TurnInterrupted \/ GameOver \/ TakeTurn \/ SearchReturns
    BY <1>4 DEF TurnInterrupted, GameOver, TakeTurn, SearchReturns
  <1>5. CASE PlayMove \/ LosesOnTime \/ LosesByIllegalMove \/ Drain
    BY <1>5 DEF PlayMove, LosesOnTime, LosesByIllegalMove, Drain
  <1>6. CASE EndGame \/ Recover \/ CloseSession \/ Quit \/ Reap
    BY <1>6 DEF EndGame, Recover, CloseSession, Quit, Reap
  <1> QED BY <1>1, <1>2, <1>3, <1>4, <1>5, <1>6 DEF Session

Others == StopTournament \/ WakeReaders \/ EngineExits \/ (Elsewhere /\ (Obey \/ FinishSearch \/ Crash
     \/ Chat))

LEMMA NextFacts == ASSUME [Next]_vars PROVE Session \/ Others \/ UNCHANGED vars
  BY DEF Next, Others, EngineObeys, EngineActs

\* What the main thread and the engine do leaves the worker where it is.
LEMMA OthersElsewhere ==
  ASSUME Others \/ UNCHANGED vars
  PROVE  /\ UNCHANGED <<conf, pc, phase, code, initialized, answer, asked, white, verdict, broken,
                  games, moves,
                        greeted, refreshed, missed>>
         /\ stop => stop'
         /\ stop' # stop => stop' = TRUE
  BY DEF Others, StopTournament, WakeReaders, EngineExits, Elsewhere, call, game, history, vars

LEMMA StepByPhase ==
  ASSUME TypeOK, ByPhase, [Next]_vars
  PROVE  ByPhase' /\ pc' \in Points /\ phase' \in Phases /\ code' \in Codes
  <1>1. CASE Call
    BY <1>1, CallMoves DEF TypeOK, Phases, Codes
  <1>2. CASE Session /\ ~Call
    BY <1>2, OutsideMoves, GotoFacts DEF Control, Points, Playing, Pings, Writes, Reads
  <1>3. CASE Others \/ UNCHANGED vars
    BY <1>3, OthersElsewhere DEF ByPhase, TypeOK, Phases, Codes
  <1> QED BY <1>1, <1>2, <1>3, NextFacts

-----------------------------------------------------------------------------
(* Types.                                                                  *)

\* TypeOK, without the pipes and the call.
Typed ==
    /\ conf \in Configs /\ life \in Lives
    /\ interrupt \in BOOLEAN /\ stop \in BOOLEAN /\ torn \in BOOLEAN /\ initialized \in BOOLEAN
    /\ white \in BOOLEAN /\ broken \in BOOLEAN /\ greeted \in BOOLEAN /\ refreshed \in BOOLEAN
    /\ verdict \in {"none", "interrupted", "ended"}
    /\ games \in 0..MaxGames /\ moves \in 0..MaxMoves
    /\ missed \in Nat

LEMMA StepTyped ==
  ASSUME Typed, Bounds, [Next]_vars
  PROVE  Typed'
  <1> USE SessionAssumption DEF Typed, process, pipes, game, history, call
  <1>1. CASE Call
    <2>1. CASE CheckAlive \/ TestWrite
      BY <2>1 DEF CheckAlive, TestWrite, Return
    <2>2. CASE Send
      BY <2>2 DEF Send, Return, Write, BrokenPipe
    <2>3. CASE ReadFails
      <3>1. missed' \in Nat
        BY <2>3 DEF ReadFails, Return
      <3>2. life' = life /\ interrupt' \in BOOLEAN
        BY <2>3 DEF ReadFails, Interrupted, HungUp
      <3> QED BY <2>3, <3>1, <3>2 DEF ReadFails
    <2>4. CASE ReadTimesOut
      <3>1. missed' \in Nat
        BY <2>4 DEF ReadTimesOut, Return
      <3> QED BY <2>4, <3>1 DEF ReadTimesOut
    <2>5. CASE ReadGoesOn
      BY <2>5 DEF ReadGoesOn, ReadLines
    <2>6. CASE ReadFinds
      <3>1. missed' \in Nat /\ UNCHANGED <<conf, stop, torn, initialized, white, verdict, broken, games,
                  moves, greeted, refreshed>>
        BY <2>6 DEF ReadFinds
      <3>2. life' = life /\ interrupt' = interrupt
        BY <2>6 DEF ReadFinds, ReadLines
      <3> QED BY <3>1, <3>2
    <2> QED BY <1>1, <2>1, <2>2, <2>3, <2>4, <2>5, <2>6 DEF Call
  <1>2. CASE BeginGame \/ StartProcess \/ AskUci \/ ReadUciok \/ BothStarted
    <2>1. CASE BeginGame
      BY <2>1 DEF BeginGame
    <2>2. CASE StartProcess
      <3>1. life' \in Lives /\ interrupt' = interrupt
        BY <2>2 DEF StartProcess, Spawn, Lives
      <3>2. stop' \in BOOLEAN /\ initialized' \in BOOLEAN
        BY <2>2 DEF StartProcess, StartFails
      <3>3. UNCHANGED <<conf, torn, white, verdict, broken, games, moves, greeted, refreshed, missed>>
        BY <2>2 DEF StartProcess
      <3> QED BY <3>1, <3>2, <3>3
    <2>3. CASE AskUci
      BY <2>3 DEF AskUci, StartFails
    <2>4. CASE ReadUciok
      BY <2>4 DEF ReadUciok, StartFails
    <2>5. CASE BothStarted
      BY <2>5 DEF BothStarted
    <2> QED BY <1>2, <2>1, <2>2, <2>3, <2>4, <2>5
  <1>3. CASE Ucinewgame \/ Refresh \/ FirstPing \/ Prepare \/ StillReady
    <2>1. CASE Ucinewgame
      BY <2>1 DEF Ucinewgame, Breaks
    <2>2. CASE Refresh
      BY <2>2 DEF Refresh, Breaks
    <2>3. CASE FirstPing \/ Prepare \/ StillReady
      <3>1. PICK point, next : Proceed(point, next)
        BY <2>3 DEF FirstPing, Prepare, StillReady
      <3> QED BY <3>1 DEF Proceed, Breaks
    <2> QED BY <1>3, <2>1, <2>2, <2>3
  <1>4. CASE TurnInterrupted \/ GameOver \/ TakeTurn \/ SearchReturns
    <2>1. CASE TurnInterrupted \/ TakeTurn
      BY <2>1 DEF TurnInterrupted, TakeTurn, Ends
    <2>2. CASE GameOver \/ SearchReturns
      <3>1. verdict' \in {"none", "interrupted", "ended"} /\ broken' \in BOOLEAN
        BY <2>2 DEF GameOver, SearchReturns, Ends, Breaks
      <3>2. UNCHANGED <<conf, life, interrupt, stop, torn, initialized, greeted, refreshed, missed,
                  white, games, moves>>
        BY <2>2 DEF GameOver, SearchReturns, Ends, Breaks
      <3> QED BY <3>1, <3>2
    <2> QED BY <1>4, <2>1, <2>2
  <1>5. CASE PlayMove
    BY <1>5 DEF PlayMove, Bounds
  <1>6. CASE LosesOnTime \/ LosesByIllegalMove \/ Drain \/ Recover \/ CloseSession \/ Quit
    BY <1>6 DEF LosesOnTime, LosesByIllegalMove, Drain, Recover, CloseSession, Quit, Ends
  <1>7. CASE EndGame
    <2>1. stop' \in BOOLEAN
      BY <1>7 DEF EndGame
    <2>2. white' \in BOOLEAN /\ broken' \in BOOLEAN /\ refreshed' \in BOOLEAN
      BY <1>7 DEF EndGame
    <2>4. verdict' = "none" /\ moves' \in 0..MaxMoves
      <3>1. verdict' = "none" /\ moves' = 0
        BY <1>7 DEF EndGame
      <3> QED BY <3>1
    <2>3. UNCHANGED <<conf, life, interrupt, torn, initialized, games, greeted, missed>>
      BY <1>7 DEF EndGame
    <2> QED BY <2>1, <2>2, <2>3, <2>4
  <1>8. CASE Reap
    BY <1>8 DEF Reap, Terminate, Lives
  <1>9. CASE Others \/ UNCHANGED vars
    <2>1. life' \in Lives /\ interrupt' \in BOOLEAN /\ stop' \in BOOLEAN /\ torn' \in BOOLEAN
      BY <1>9 DEF Others, StopTournament, WakeReaders, EngineExits, Elsewhere, Wake, Obey,
         FinishSearch, Crash, Exit, Chat, Lives, vars
    <2> QED BY <1>9, <2>1, OthersElsewhere
  <1> QED BY <1>1, <1>2, <1>3, <1>4, <1>5, <1>6, <1>7, <1>8, <1>9, NextFacts DEF Session

\* A process is there as long as the engine is initialized.
LEMMA StepProcess ==
  ASSUME initialized <=> life # "none", life \in Lives, initialized \in BOOLEAN, [Next]_vars
  PROVE  initialized' <=> life' # "none"
  <1> USE DEF process
  <1>1. CASE Call
    BY <1>1 DEF Call, CheckAlive, TestWrite, Send, Write, BrokenPipe, ReadFails, Interrupted, HungUp,
                ReadGoesOn, ReadFinds, ReadLines, ReadTimesOut
  <1>2. CASE StartProcess
    BY <1>2 DEF StartProcess, Spawn
  <1>3. CASE Reap
    BY <1>3 DEF Reap, Terminate
  <1>4. CASE Session /\ ~Call /\ ~StartProcess /\ ~Reap
    <2>1. CASE BeginGame \/ AskUci \/ ReadUciok \/ BothStarted \/ Ucinewgame \/ Refresh
      BY <2>1 DEF BeginGame, AskUci, ReadUciok, BothStarted, Ucinewgame, Refresh
    <2>2. CASE FirstPing \/ TurnInterrupted \/ GameOver \/ TakeTurn \/ Prepare \/ SearchReturns
               \/ StillReady
      BY <2>2 DEF FirstPing, TurnInterrupted, GameOver, TakeTurn, Prepare, SearchReturns, StillReady,
         Proceed
    <2>3. CASE PlayMove \/ LosesOnTime \/ LosesByIllegalMove \/ Drain \/ EndGame \/ Recover
               \/ CloseSession \/ Quit
      BY <2>3 DEF PlayMove, LosesOnTime, LosesByIllegalMove, Drain, EndGame, Recover, CloseSession, Quit
    <2> QED BY <1>4, <2>1, <2>2, <2>3 DEF Session
  <1>5. CASE Others \/ UNCHANGED vars
    <2>1. life' = life \/ (life # "none" /\ life' # "none")
      BY <1>5 DEF Others, StopTournament, WakeReaders, EngineExits, Wake, Obey, FinishSearch, Crash,
         Exit, Chat, Listening, vars
    <2> QED BY <1>5, <2>1, OthersElsewhere
  <1> QED BY <1>1, <1>2, <1>3, <1>4, <1>5, NextFacts

\* Only a read, and the end of a game, change the move that is on record.
LEMMA StepAnswer ==
  ASSUME answer \in 0..asked, searching \in 0..asked, asked \in Nat, Bounds, [Next]_vars
  PROVE  answer' \in 0..asked'
  <1> USE DEF game
  <1>1. CASE Call
    <2>1. CASE CheckAlive \/ TestWrite \/ ReadFails \/ ReadGoesOn
      BY <2>1 DEF CheckAlive, TestWrite, ReadFails, ReadGoesOn
    <2>2. CASE Send
      BY <2>2 DEF Send
    <2>3. CASE ReadFinds
      <3>1. PICK n \in 0..asked : answer' = IF pc = "search" THEN n ELSE answer
        BY <2>3 DEF ReadFinds
      <3>2. asked' = asked
        BY <2>3 DEF ReadFinds
      <3> QED BY <3>1, <3>2
    <2>4. CASE ReadTimesOut
      <3>1. asked' = asked /\ answer' \in {0, answer, searching}
        BY <2>4 DEF ReadTimesOut
      <3> QED BY <3>1
    <2> QED BY <1>1, <2>1, <2>2, <2>3, <2>4 DEF Call
  <1>2. CASE Reap
    BY <1>2 DEF Reap, Bounds, Playing
  <1>3. CASE EndGame
    BY <1>3 DEF EndGame
  <1>4. CASE Session /\ ~Call /\ ~EndGame /\ ~Reap
    <2>1. CASE BeginGame \/ StartProcess \/ AskUci \/ ReadUciok \/ BothStarted \/ Ucinewgame \/ Refresh
      BY <2>1 DEF BeginGame, StartProcess, AskUci, ReadUciok, BothStarted, Ucinewgame, Refresh
    <2>2. CASE FirstPing \/ TurnInterrupted \/ GameOver \/ TakeTurn \/ Prepare \/ SearchReturns
               \/ StillReady
      BY <2>2 DEF FirstPing, TurnInterrupted, GameOver, TakeTurn, Prepare, SearchReturns, StillReady,
         Proceed
    <2>3. CASE PlayMove \/ LosesOnTime \/ LosesByIllegalMove \/ Drain \/ Recover \/ CloseSession \/ Quit
      BY <2>3 DEF PlayMove, LosesOnTime, LosesByIllegalMove, Drain, Recover, CloseSession, Quit
    <2> QED BY <1>4, <2>1, <2>2, <2>3 DEF Session
  <1>5. CASE Others \/ UNCHANGED vars
    BY <1>5, OthersElsewhere
  <1> QED BY <1>1, <1>2, <1>3, <1>4, <1>5, NextFacts

LEMMA StepTypeOK ==
  ASSUME TypeOK, ByPhase, Bounds, PipesOrdered, [Next]_vars
  PROVE  TypeOK'
  <1>1. PipesTyped /\ Typed /\ answer \in 0..asked
    BY DEF TypeOK, PipesTyped, Typed, InType, OutType
  <1>2. PipesTyped' /\ Typed' /\ answer' \in 0..asked' /\ (initialized' <=> life' # "none")
    BY <1>1, StepPipesTyped, StepTyped, StepAnswer, StepProcess DEF TypeOK, PipesTyped
  <1>3. pc' \in Points /\ phase' \in Phases /\ code' \in Codes
    BY StepByPhase
  <1> QED BY <1>2, <1>3 DEF TypeOK, PipesTyped, Typed, InType, OutType, Phases, Codes

-----------------------------------------------------------------------------
(* Points and flags.                                                       *)

\* Bounds is kept.
LEMMA StepBounds ==
  ASSUME TypeOK, ByPhase, Bounds, [Next]_vars
  PROVE  Bounds'
  <1> USE DEF Bounds, Playing, game
  <1>1. CASE Call
    <2>1. moves' = moves
      BY <1>1 DEF Call, CheckAlive, TestWrite, Send, ReadFails, ReadGoesOn, ReadFinds, ReadTimesOut
    <2>2. answer' = answer \/ pc = "search"
      BY <1>1 DEF Call, CheckAlive, TestWrite, Send, ReadFails, ReadGoesOn, ReadFinds, ReadTimesOut
    <2>3. pc' = pc \/ pc' = "killed"
      BY <1>1, CallMoves DEF TypeOK, Phases, Codes
    <2> QED BY <2>1, <2>2, <2>3
  <1>2. CASE BeginGame \/ StartProcess \/ AskUci \/ ReadUciok \/ BothStarted \/ Ucinewgame \/ Refresh
    <2>1. answer' = answer /\ answer = 0
      BY <1>2 DEF BeginGame, StartProcess, AskUci, ReadUciok, BothStarted, Ucinewgame, Refresh, Returned
    <2>2. pc' \in {"idle", "start", "started", "uci", "uciok", "ucinewgame", "newgame", "connect",
                "turn", "ended"}
      BY <1>2 DEF BeginGame, StartProcess, AskUci, ReadUciok, BothStarted, Ucinewgame, Refresh,
         StartFails, Goto, Connect
    <2> QED BY <2>1, <2>2
  <1>3. CASE FirstPing \/ TurnInterrupted \/ GameOver
    <2>1. pc' \in {"turn", "ended"} /\ answer' = answer
      BY <1>3 DEF FirstPing, TurnInterrupted, GameOver, Proceed, Goto
    <2> QED BY <2>1
  <1>4. CASE TakeTurn
    BY <1>4 DEF TakeTurn, Goto
  <1>5. CASE Prepare \/ StillReady \/ SearchReturns
    <2>1. moves' = moves
      BY <1>5 DEF Prepare, StillReady, Proceed, SearchReturns, Breaks, Ends
    <2>2. pc \in {"before_position", "position", "before_go", "go", "search", "after_search"}
      BY <1>5 DEF Prepare, StillReady, Proceed, SearchReturns, Returned
    <2>3. pc' \in {"before_position", "position", "before_go", "go", "search", "after_search", "judge",
                "ended"}
      BY <1>5 DEF Prepare, StillReady, Proceed, SearchReturns, Goto
    <2> QED BY <2>1, <2>2, <2>3
  <1>6. CASE PlayMove \/ LosesOnTime \/ LosesByIllegalMove \/ Drain
    <2>1. pc' \in {"turn", "ended", "stop", "drain"}
      BY <1>6 DEF PlayMove, LosesOnTime, LosesByIllegalMove, Drain, Goto
    <2> QED BY <2>1
  <1>7. CASE EndGame
    <2>1. pc' \in {"recover", "idle"} /\ answer' = 0
      BY <1>7 DEF EndGame, Goto
    <2> QED BY <2>1
  <1>8. CASE Recover \/ CloseSession \/ Quit \/ Reap
    <2>1. answer' = answer /\ answer = 0
      BY <1>8 DEF Recover, CloseSession, Quit, Reap, Returned
    <2>2. pc' \in {"idle", "close_stop", "over", "close_quit", "terminate"}
      BY <1>8 DEF Recover, CloseSession, Quit, Reap, Goto
    <2> QED BY <2>1, <2>2
  <1>9. CASE Others \/ UNCHANGED vars
    BY <1>9, OthersElsewhere
  <1> QED BY <1>1, <1>2, <1>3, <1>4, <1>5, <1>6, <1>7, <1>8, <1>9, NextFacts DEF Session

\* stop is never lowered.
LEMMA StepStop ==
  ASSUME [Next]_vars
  PROVE  stop => stop'
  <1>1. CASE Call
    BY <1>1 DEF Call, CheckAlive, TestWrite, Send, ReadFails, ReadGoesOn, ReadFinds, ReadTimesOut
  <1>2. CASE Session /\ ~Call
    <2>1. CASE BeginGame \/ StartProcess \/ AskUci \/ ReadUciok \/ BothStarted \/ Ucinewgame \/ Refresh
      BY <2>1 DEF BeginGame, StartProcess, AskUci, ReadUciok, BothStarted, Ucinewgame, Refresh,
         StartFails
    <2>2. CASE FirstPing \/ TurnInterrupted \/ GameOver \/ TakeTurn \/ Prepare \/ SearchReturns
               \/ StillReady
      BY <2>2 DEF FirstPing, TurnInterrupted, GameOver, TakeTurn, Prepare, SearchReturns, StillReady,
         Proceed
    <2>3. CASE PlayMove \/ LosesOnTime \/ LosesByIllegalMove \/ Drain \/ Recover \/ CloseSession
               \/ Quit \/ Reap
      BY <2>3 DEF PlayMove, LosesOnTime, LosesByIllegalMove, Drain, Recover, CloseSession, Quit, Reap
    <2>4. CASE EndGame
      BY <2>4 DEF EndGame
    <2> QED BY <1>2, <2>1, <2>2, <2>3, <2>4 DEF Session
  <1>3. CASE Others \/ UNCHANGED vars
    BY <1>3, OthersElsewhere
  <1> QED BY <1>1, <1>2, <1>3, NextFacts

\* An event in an interrupt pipe is raised by WakeReaders only.
LEMMA StepWakes ==
  ASSUME Wakes, [Next]_vars
  PROVE  Wakes'
  <1> SUFFICES interrupt' => interrupt \/ stop
    BY StepStop DEF Wakes
  <1> USE DEF process
  <1>1. CASE Call
    BY <1>1 DEF Call, CheckAlive, TestWrite, Send, Write, BrokenPipe, ReadFails, Interrupted, HungUp,
                ReadGoesOn, ReadFinds, ReadLines, ReadTimesOut
  <1>2. CASE Session /\ ~Call
    <2>1. CASE BeginGame \/ StartProcess \/ AskUci \/ ReadUciok \/ BothStarted \/ Ucinewgame \/ Refresh
      BY <2>1 DEF BeginGame, StartProcess, Spawn, AskUci, ReadUciok, BothStarted, Ucinewgame, Refresh
    <2>2. CASE FirstPing \/ TurnInterrupted \/ GameOver \/ TakeTurn \/ Prepare \/ SearchReturns
               \/ StillReady
      BY <2>2 DEF FirstPing, TurnInterrupted, GameOver, TakeTurn, Prepare, SearchReturns, StillReady,
         Proceed
    <2>3. CASE PlayMove \/ LosesOnTime \/ LosesByIllegalMove \/ Drain \/ EndGame \/ Recover
               \/ CloseSession \/ Quit
      BY <2>3 DEF PlayMove, LosesOnTime, LosesByIllegalMove, Drain, EndGame, Recover, CloseSession, Quit
    <2>4. CASE Reap
      BY <2>4 DEF Reap, Terminate
    <2> QED BY <1>2, <2>1, <2>2, <2>3, <2>4 DEF Session
  <1>3. CASE Others \/ UNCHANGED vars
    BY <1>3 DEF Others, StopTournament, WakeReaders, EngineExits, Obey, FinishSearch, Crash, Exit,
       Chat, vars
  <1> QED BY <1>1, <1>2, <1>3, NextFacts

\* EmptyWhenNone is kept: only a process that listens is written to and answers.
LEMMA StepEmptyWhenNone ==
  ASSUME TypeOK, EmptyWhenNone, [Next]_vars
  PROVE  EmptyWhenNone'
  <1>t. initialized' <=> life' # "none"
    BY StepProcess DEF TypeOK
  <1>1. CASE life = "none" /\ ~Reap
    <2>1. CASE UNCHANGED <<stdin, stdout, searching, asked>>
      BY <1>1, <2>1 DEF EmptyWhenNone
    <2>2. ~Write(Command) /\ ~Obey /\ ~FinishSearch /\ ~Chat /\ ~HasLines /\ ~Silent
      BY <1>1 DEF Write, Obey, FinishSearch, Chat, HasLines, Silent, Listening
    <2>3. CASE Send
      BY <1>1, <2>2, <2>3 DEF Send, BrokenPipe, process, pipes, EmptyWhenNone
    <2>4. ~ReadGoesOn /\ ~ReadFinds /\ ~ReadTimesOut
      BY <2>2 DEF ReadGoesOn, ReadFinds, ReadLines, ReadTimesOut, MayTimeOut
    <2> QED BY <1>1, <2>1, <2>2, <2>3, <2>4, Kinds
  <1>2. CASE Reap
    BY <1>2 DEF Reap, Terminate, EmptyWhenNone
  <1>3. CASE life # "none" /\ ~Reap
    <2>1. life' # "none"
      <3>1. initialized /\ initialized \in BOOLEAN
        BY <1>3 DEF TypeOK
      <3>2. CASE Session
        <4>1. CASE Call
          BY <4>1, <3>1, <1>t DEF Call, CheckAlive, TestWrite, Send, ReadFails, ReadGoesOn, ReadFinds,
             ReadTimesOut
        <4>2. CASE BeginGame \/ StartProcess \/ AskUci \/ ReadUciok \/ BothStarted \/ Ucinewgame
                   \/ Refresh
          BY <4>2, <3>1, <1>t DEF BeginGame, StartProcess, AskUci, ReadUciok, BothStarted, Ucinewgame,
             Refresh
        <4>3. CASE FirstPing \/ TurnInterrupted \/ GameOver \/ TakeTurn \/ Prepare \/ SearchReturns
                   \/ StillReady
          BY <4>3, <3>1, <1>t DEF FirstPing, TurnInterrupted, GameOver, TakeTurn, Prepare,
             SearchReturns, StillReady, Proceed
        <4>4. CASE PlayMove \/ LosesOnTime \/ LosesByIllegalMove \/ Drain \/ EndGame \/ Recover
                   \/ CloseSession \/ Quit
          BY <4>4, <3>1, <1>t DEF PlayMove, LosesOnTime, LosesByIllegalMove, Drain, EndGame, Recover,
             CloseSession, Quit
        <4> QED BY <1>3, <3>2, <4>1, <4>2, <4>3, <4>4 DEF Session
      <3>3. CASE Others \/ UNCHANGED vars
        BY <3>1, <3>3, <1>t, OthersElsewhere
      <3> QED BY <3>2, <3>3, NextFacts
    <2> QED BY <2>1 DEF EmptyWhenNone
  <1> QED BY <1>1, <1>2, <1>3

\* Greets is kept.
LEMMA StepGreets ==
  ASSUME TypeOK, ByPhase, Greets, [Next]_vars
  PROVE  Greets'
  <1> USE DEF Greets, Playing
  <1>1. CASE Call
    <2>1. UNCHANGED <<initialized, greeted, refreshed, verdict, stop>>
      BY <1>1 DEF Call, CheckAlive, TestWrite, Send, ReadFails, ReadGoesOn, ReadFinds, ReadTimesOut,
         game, history
    <2>2. pc' = pc \/ pc' = "killed"
      BY <1>1, CallMoves DEF TypeOK, Phases, Codes
    <2> QED BY <2>1, <2>2
  <1>2. CASE BeginGame
    BY <1>2 DEF BeginGame, Goto, history
  <1>3. CASE StartProcess
    BY <1>3 DEF StartProcess, Goto, StartFails, game, history
  <1>4. CASE AskUci \/ ReadUciok
    BY <1>4 DEF AskUci, ReadUciok, Returned, Goto, StartFails, game, history
  <1>5. CASE BothStarted
    BY <1>5 DEF BothStarted, Goto, game, history
  <1>6. CASE Ucinewgame
    BY <1>6 DEF Ucinewgame, Returned, Goto, Breaks, Connect, game, history
  <1>7. CASE Refresh
    BY <1>7 DEF Refresh, Returned, Goto, Breaks, Connect, game, history
  <1>8. CASE FirstPing
    BY <1>8 DEF FirstPing, Proceed, Returned, Goto, Breaks, game, history
  <1>9. CASE TurnInterrupted \/ GameOver \/ TakeTurn
    BY <1>9 DEF TurnInterrupted, GameOver, TakeTurn, Goto, game, history
  <1>10. CASE Prepare \/ StillReady
    BY <1>10 DEF Prepare, StillReady, Proceed, Returned, Goto, game, history
  <1>11. CASE SearchReturns
    BY <1>11 DEF SearchReturns, Returned, Goto, game, history
  <1>12. CASE PlayMove \/ LosesOnTime \/ LosesByIllegalMove \/ Drain
    BY <1>12 DEF PlayMove, LosesOnTime, LosesByIllegalMove, Drain, Returned, Goto, game, history
  <1>13. CASE EndGame \/ Recover \/ CloseSession \/ Quit \/ Reap
    <2>1. CASE EndGame
      <3>1. pc' \in {"recover", "idle"} /\ pc = "ended" /\ UNCHANGED <<initialized, greeted>>
        BY <2>1 DEF EndGame, Goto
      <3> QED BY <3>1, StepStop
    <2>2. CASE Recover \/ CloseSession \/ Quit
      <3>1. /\ pc' \in {"idle", "close_stop", "over", "close_quit", "terminate"}
            /\ pc \in {"idle", "recover", "close_stop", "close_quit"}
                    /\ UNCHANGED <<initialized, greeted>>
        BY <2>2 DEF Recover, CloseSession, Quit, Goto, Returned, history
      <3> QED BY <3>1, StepStop
    <2>3. CASE Reap
      <3>1. pc' = "idle" /\ initialized' = FALSE
        BY <2>3 DEF Reap, Goto
      <3> QED BY <3>1
    <2> QED BY <1>13, <2>1, <2>2, <2>3
  <1>14. CASE Others \/ UNCHANGED vars
    <2>1. UNCHANGED <<pc, initialized, greeted, refreshed, verdict>>
      BY <1>14, OthersElsewhere
    <2> QED BY <2>1, StepStop
  <1> QED BY <1>1, <1>2, <1>3, <1>4, <1>5, <1>6, <1>7, <1>8, <1>9, <1>10, <1>11, <1>12, <1>13, <1>14,
     NextFacts DEF Session

\* A ping that has failed is counted, and a read only fails if the tournament has been stopped
\* or the engine is gone.
Failures ==
    /\ pc \in Pings /\ phase = "returned" /\ code # "OK" => missed > 0
    /\ pc \in Reads /\ phase = "returned" /\ code = "ERR" => stop \/ ~Listening

\* The configuration stays, and failed pings are forgotten with an answer or with the process.
LEMMA StepMissed ==
  ASSUME missed \in Nat, [Next]_vars, ~Reap, ~(ReadFinds /\ pc = "search")
  PROVE  conf' = conf /\ missed' \in Nat /\ missed' >= missed
  <1> SUFFICES conf' = conf /\ (missed' = missed \/ missed' = missed + 1)
    OBVIOUS
  <1> USE DEF history
  <1>1. CASE Call
    <2>1. CASE CheckAlive \/ TestWrite \/ Send \/ ReadGoesOn
      BY <2>1 DEF CheckAlive, TestWrite, Send, ReadGoesOn, Return
    <2>2. CASE ReadFails \/ ReadTimesOut
      BY <2>2 DEF ReadFails, ReadTimesOut, Return
    <2>3. CASE ReadFinds
      BY <2>3 DEF ReadFinds
    <2> QED BY <1>1, <2>1, <2>2, <2>3 DEF Call
  <1>2. CASE Session /\ ~Call
    <2>1. CASE BeginGame \/ StartProcess \/ AskUci \/ ReadUciok \/ BothStarted \/ Ucinewgame \/ Refresh
      BY <2>1 DEF BeginGame, StartProcess, AskUci, ReadUciok, BothStarted, Ucinewgame, Refresh
    <2>2. CASE FirstPing \/ TurnInterrupted \/ GameOver \/ TakeTurn \/ Prepare \/ SearchReturns
               \/ StillReady
      BY <2>2 DEF FirstPing, TurnInterrupted, GameOver, TakeTurn, Prepare, SearchReturns, StillReady,
         Proceed
    <2>3. CASE PlayMove \/ LosesOnTime \/ LosesByIllegalMove \/ Drain \/ EndGame \/ Recover
               \/ CloseSession \/ Quit
      BY <2>3 DEF PlayMove, LosesOnTime, LosesByIllegalMove, Drain, EndGame, Recover, CloseSession, Quit
    <2> QED BY <1>2, <2>1, <2>2, <2>3 DEF Session
  <1>3. CASE Others \/ UNCHANGED vars
    BY <1>3, OthersElsewhere
  <1> QED BY <1>1, <1>2, <1>3, NextFacts

\* A process that listens has listened before, or it has just been started.
LEMMA StepListens ==
  ASSUME [Next]_vars, Listening'
  PROVE  Listening \/ StartProcess
  <1> USE DEF process, Listening
  <1>1. CASE Call
    BY <1>1 DEF Call, CheckAlive, TestWrite, Send, Write, BrokenPipe, ReadFails, Interrupted, HungUp,
                ReadGoesOn, ReadFinds, ReadLines, ReadTimesOut
  <1>2. CASE Session /\ ~Call
    <2>1. CASE BeginGame \/ AskUci \/ ReadUciok \/ BothStarted \/ Ucinewgame \/ Refresh
      BY <2>1 DEF BeginGame, AskUci, ReadUciok, BothStarted, Ucinewgame, Refresh
    <2>2. CASE FirstPing \/ TurnInterrupted \/ GameOver \/ TakeTurn \/ Prepare \/ SearchReturns
               \/ StillReady
      BY <2>2 DEF FirstPing, TurnInterrupted, GameOver, TakeTurn, Prepare, SearchReturns, StillReady,
         Proceed
    <2>3. CASE PlayMove \/ LosesOnTime \/ LosesByIllegalMove \/ Drain \/ EndGame \/ Recover
               \/ CloseSession \/ Quit
      BY <2>3 DEF PlayMove, LosesOnTime, LosesByIllegalMove, Drain, EndGame, Recover, CloseSession, Quit
    <2>4. CASE Reap
      BY <2>4 DEF Reap, Terminate
    <2> QED BY <1>2, <2>1, <2>2, <2>3, <2>4 DEF Session
  <1>3. CASE Others \/ UNCHANGED vars
    BY <1>3 DEF Others, StopTournament, WakeReaders, Wake, EngineExits, Obey, FinishSearch, Crash,
       Exit, Chat, vars
  <1> QED BY <1>1, <1>2, <1>3, NextFacts

\* Failures is kept.
LEMMA StepFailures ==
  ASSUME TypeOK, ByPhase, Wakes, Failures, [Next]_vars
  PROVE  Failures'
  <1> USE PointFacts
  <1>m. missed \in Nat
    BY DEF TypeOK
  <1>1. CASE Call
    <2>1. CASE CheckAlive \/ TestWrite
      BY <2>1, <1>m DEF CheckAlive, TestWrite, Continue, Return, Failures, ByPhase
    <2>2. CASE Send
      <3>1. pc' \notin Reads
        BY <2>2 DEF Send, Continue, Return, ByPhase, Goto, Reads
      <3>2. pc' \in Pings => phase' # "returned"
        BY <2>2 DEF Send, Continue, Return, ByPhase, Goto, FirstPhase
      <3> QED BY <3>1, <3>2 DEF Failures
    <2>3. CASE ReadFails
      <3>1. interrupt \/ ~Listening'
        BY <2>3 DEF ReadFails, Interrupted, HungUp, process, Listening
      <3>2. stop' \/ ~Listening'
        BY <3>1, StepStop DEF Wakes
      <3>3. pc' \in Pings => missed' > 0
        BY <2>3, <1>m DEF ReadFails, Return
      <3> QED BY <3>2, <3>3 DEF Failures
    <2>4. CASE ReadGoesOn
      <3>1. UNCHANGED <<pc, phase, code, missed, stop>> /\ phase = "read"
        BY <2>4 DEF ReadGoesOn, call, history
      <3> QED BY <3>1 DEF Failures
    <2>5. CASE ReadFinds
      BY <2>5 DEF ReadFinds, Failures
    <2>6. CASE ReadTimesOut
      BY <2>6, <1>m DEF ReadTimesOut, Return, Failures
    <2> QED BY <1>1, <2>1, <2>2, <2>3, <2>4, <2>5, <2>6 DEF Call
  <1>2. CASE Session /\ ~Call
    <2>1. phase' # "returned"
      BY <1>2, OutsideMoves DEF Goto, FirstPhase
    <2> QED BY <2>1 DEF Failures
  <1>3. CASE Others \/ UNCHANGED vars
    <2>1. Listening' => Listening
      BY <1>3 DEF Others, StopTournament, WakeReaders, Wake, EngineExits, Obey, FinishSearch, Crash,
         Exit, Chat, vars, process, Listening
    <2> QED BY <1>3, <2>1, OthersElsewhere DEF Failures
  <1> QED BY <1>1, <1>2, <1>3, NextFacts

-----------------------------------------------------------------------------
(* Pings and their answers.                                                *)

\* The answer to the last "go" is waited for.
Waiting == pc = "search" \/ (pc = "go" /\ phase = "returned" /\ code = "OK")

PingsAhead == Waiting => PingsFirst(stdin, stdout, asked)

\* That begins with the write of "go" and with nothing else.
LEMMA StepWaiting ==
  ASSUME TypeOK, ByPhase, [Next]_vars, Waiting'
  PROVE  Waiting \/ (Send /\ pc = "go" /\ phase = "send")
  <1> USE DEF Waiting
  <1>1. CASE Call
    <2>1. pc' = pc
      BY <1>1, CallMoves DEF TypeOK, Phases, Codes
    <2>2. CASE pc = "go"
      <3>1. phase \in {"test", "send", "returned"} /\ pc \notin Pings /\ pc \in Writes
        BY <2>2 DEF ByPhase, Pings, Writes
      <3> QED BY <1>1, <2>1, <2>2, <3>1 DEF Call, CheckAlive, TestWrite, Send, ReadFails, ReadGoesOn,
         ReadFinds, ReadTimesOut,
                                Continue, Return
    <2> QED BY <2>1, <2>2
  <1>2. CASE Session /\ ~Call
    <2>1. phase' # "returned"
      BY <1>2, OutsideMoves DEF Goto, FirstPhase
    <2>2. pc' = "search"
      BY <2>1
    <2>3. CASE BeginGame \/ StartProcess \/ AskUci \/ ReadUciok \/ BothStarted \/ Ucinewgame \/ Refresh
      BY <2>2, <2>3 DEF BeginGame, StartProcess, AskUci, ReadUciok, BothStarted, Ucinewgame, Refresh,
         StartFails, Goto, Connect
    <2>4. CASE FirstPing \/ TurnInterrupted \/ GameOver \/ TakeTurn \/ SearchReturns \/ StillReady
      BY <2>2, <2>4 DEF FirstPing, TurnInterrupted, GameOver, TakeTurn, SearchReturns, StillReady,
         Proceed, Goto
    <2>5. CASE Prepare
      BY <2>2, <2>5 DEF Prepare, Proceed, Goto, Returned
    <2>6. CASE PlayMove \/ LosesOnTime \/ LosesByIllegalMove \/ Drain
      BY <2>2, <2>6 DEF PlayMove, LosesOnTime, LosesByIllegalMove, Drain, Goto
    <2>7. CASE EndGame \/ Recover \/ CloseSession \/ Quit \/ Reap
      BY <2>2, <2>7 DEF EndGame, Recover, CloseSession, Quit, Reap, Goto
    <2> QED BY <1>2, <2>3, <2>4, <2>5, <2>6, <2>7 DEF Session
  <1>3. CASE Others \/ UNCHANGED vars
    BY <1>3, OthersElsewhere
  <1> QED BY <1>1, <1>2, <1>3, NextFacts

\* PingsAhead is kept.
LEMMA StepPingsAhead ==
  ASSUME TypeOK, ByPhase, PipesOrdered, PingsAhead, [Next]_vars
  PROVE  PingsAhead'
  <1> SUFFICES ASSUME Waiting' PROVE PingsFirst(stdin', stdout', asked')
    BY DEF PingsAhead, PingsFirst
  <1>o. Ordered(stdin, stdout, searching, asked)
    BY DEF PipesOrdered
  <1>u. PipesTyped /\ stdin \in InType /\ stdout \in OutType /\ asked \in Nat /\ searching \in 0..asked
    BY TypedPipes DEF PipesTyped
  <1>t. stdin' \in InType /\ stdout' \in OutType
    BY <1>u, StepPipesTyped DEF PipesTyped
  <1>0. CASE Send /\ pc = "go" /\ phase = "send"
    <2>2. Write(Command) /\ asked' = asked + 1
      <3>1. pc' # "killed"
        BY DEF Waiting
      <3> QED BY <1>0, <3>1 DEF Send, Goto
    <2>3. Command \in Lines(Commands) /\ Command = Go(asked + 1)
      BY <1>0, <1>u, CommandTyped DEF Writes
    <2>4. With(stdin', stdin, Go(asked + 1)) /\ stdout' = stdout
      BY <1>u, <2>2, <2>3, WriteFacts
    <2>5. Len(stdin) \in Nat /\ Go(asked + 1).word = "go" /\ Go(asked + 1).of = asked + 1
      BY <1>u DEF InType, Go
    <2>6. \A i \in DOMAIN stdin' : stdin'[i].word = "isready" =>
             i < Len(stdin) + 1 /\ Len(stdin) + 1 \in DOMAIN stdin'
             /\ stdin'[Len(stdin) + 1].word = "go" /\ stdin'[Len(stdin) + 1].of = asked'
      BY <2>2, <2>4, <2>5 DEF With
    <2>7. \A i \in DOMAIN stdout : stdout[i].word = "bestmove" => stdout[i].of # asked + 1
      BY <1>o, <1>u DEF Ordered
    <2> QED BY <2>2, <2>4, <2>6, <2>7 DEF PingsFirst
  <1> SUFFICES ASSUME Waiting PROVE PingsFirst(stdin', stdout', asked')
    BY <1>0, StepWaiting
  <1>p. PingsFirst(stdin, stdout, asked)
    BY DEF PingsAhead
  <1>1. CASE UNCHANGED <<stdin, stdout, searching, asked>>
    BY <1>1, <1>p
  <1>2. ~Send /\ ~Reap
    BY DEF Send, Reap, Waiting, ByPhase, Reads, Writes, Pings
  <1>3. CASE ReadGoesOn \/ ReadFinds
    <2>1. Awaited \in Answers
      BY DEF Awaited, Answers
    <2>2. PICK found : ReadLines(Awaited, found) /\ UNCHANGED asked
      BY <1>3 DEF ReadGoesOn, ReadFinds
    <2>3. PICK n \in Nat : Without(stdout', stdout, n) /\ UNCHANGED <<stdin, searching>>
      BY <1>u, <2>1, <2>2, ReadFacts
    <2> QED BY <2>2, <2>3, <1>o, <1>p, <1>t, <1>u, PingsFirstKept
  <1>4. CASE ReadTimesOut
    BY <1>4, <1>p DEF ReadTimesOut, pipes
  <1>6. CASE Elsewhere /\ Obey
    <2>1. asked' = asked
      BY <1>6 DEF Elsewhere
    <2>2. Without(stdin', stdin, 1) /\ 1 \in DOMAIN stdin
      BY <1>6, <1>u, ObeyFacts
    <2>3. PingsFirst(stdin', stdout, asked)
      BY <2>2, <1>o, <1>p, <1>t, <1>u, PingsFirstKept
    <2>4. CASE stdin[1].word = "isready" /\ With(stdout', stdout, Line("readyok"))
      BY <2>1, <2>2, <2>4, <1>o, <1>p, <1>t, <1>u, PingsFirstKept
    <2>5. ASSUME NEW l, With(stdout', stdout, l), l.word # "readyok"
          PROVE  PingsFirst(stdin', stdout', asked')
      <3>1. Ordered(stdin', stdout, searching, asked)
        BY <2>2, <1>o, <1>t, <1>u, OrderKept
      <3> QED BY <2>1, <2>3, <2>5, <3>1, <1>t, <1>u, PingsFirstKept
    <2>6. CASE stdout' = stdout
      BY <2>1, <2>3, <2>6
    <2>7. Line("uciok").word # "readyok" /\ Bestmove(searching).word # "readyok"
      BY DEF Line, Bestmove
    <2> QED BY <1>6, <1>u, <2>4, <2>5, <2>6, <2>7, ObeyFacts
  <1>7. CASE Elsewhere /\ FinishSearch
    <2>1. PICK mid \in OutType : With(mid, stdout, Line("info"))
               /\ With(stdout', mid, Bestmove(searching))
      BY <1>7, <1>u, SaysFacts
    <2>2. Ordered(stdin, mid, searching, asked) /\ PingsFirst(stdin, mid, asked)
      BY <2>1, <1>o, <1>p, <1>u, OrderKept, PingsFirstKept DEF Line
    <2>3. UNCHANGED <<stdin, asked>> /\ Bestmove(searching).word # "readyok"
      BY <1>7 DEF Elsewhere, FinishSearch, Bestmove
    <2> QED BY <2>1, <2>2, <2>3, <1>t, <1>u, PingsFirstKept
  <1>8. CASE Elsewhere /\ Chat
    <2>1. UNCHANGED <<stdin, asked>> /\ Line("info").word # "readyok"
      BY <1>8 DEF Line, Elsewhere, Chat
    <2> QED BY <1>8, <2>1, SaysFacts, <1>o, <1>p, <1>t, <1>u, PingsFirstKept
  <1> QED BY <1>1, <1>2, <1>3, <1>4, <1>6, <1>7, <1>8, Kinds

-----------------------------------------------------------------------------
\* No more answers to pings are under way than pings have failed, and the one in progress.
Pinging == IF pc \in Pings /\ phase = "read" THEN 1 ELSE 0
InStep == Owed =< missed + Pinging

\* Outside calls nothing is forgotten; within, a failed ping is counted.
LEMMA StepPinging ==
  ASSUME TypeOK, ByPhase, [Next]_vars, ~Reap, ~ReadFinds
  PROVE  \/ missed' = missed /\ Pinging =< Pinging'
         \/ missed' = missed + 1
  <1> SUFFICES \/ /\ missed' = missed
                  /\ pc \in Pings /\ phase = "read" => pc' \in Pings /\ phase' = "read"
               \/ missed' = missed + 1
    BY DEF Pinging
  <1>1. CASE Call
    <2>1. CASE CheckAlive
      BY <2>1 DEF CheckAlive, Return
    <2>2. CASE TestWrite
      BY <2>2 DEF TestWrite, Return
    <2>3. CASE Send
      BY <2>3 DEF Send, Return
    <2>4. CASE ReadFails \/ ReadTimesOut
      BY <2>4 DEF ReadFails, ReadTimesOut, Return
    <2>5. CASE ReadGoesOn
      BY <2>5 DEF ReadGoesOn, call, history
    <2> QED BY <1>1, <2>1, <2>2, <2>3, <2>4, <2>5 DEF Call
  <1>2. CASE Session /\ ~Call
    <2>0. phase # "read" \/ pc \notin Pings
      BY <1>2 DEF Session, BeginGame, StartProcess, AskUci, ReadUciok, BothStarted, Ucinewgame,
         Refresh, FirstPing,
           TurnInterrupted, GameOver, TakeTurn, Prepare, SearchReturns, StillReady, Proceed, PlayMove,
                 LosesOnTime,
           LosesByIllegalMove, Drain, EndGame, Recover, CloseSession, Quit, Reap, Returned, Pings
    <2>1. CASE BeginGame \/ StartProcess \/ AskUci \/ ReadUciok \/ BothStarted \/ Ucinewgame \/ Refresh
      BY <2>0, <2>1 DEF BeginGame, StartProcess, AskUci, ReadUciok, BothStarted, Ucinewgame, Refresh,
         history
    <2>2. CASE FirstPing \/ TurnInterrupted \/ GameOver \/ TakeTurn \/ Prepare \/ SearchReturns
               \/ StillReady
      BY <2>0, <2>2 DEF FirstPing, TurnInterrupted, GameOver, TakeTurn, Prepare, SearchReturns,
         StillReady, Proceed, history
    <2>3. CASE PlayMove \/ LosesOnTime \/ LosesByIllegalMove \/ Drain \/ EndGame \/ Recover
               \/ CloseSession \/ Quit
      BY <2>0, <2>3 DEF PlayMove, LosesOnTime, LosesByIllegalMove, Drain, EndGame, Recover,
         CloseSession, Quit, history
    <2> QED BY <1>2, <2>1, <2>2, <2>3 DEF Session
  <1>3. CASE Others \/ UNCHANGED vars
    BY <1>3, OthersElsewhere
  <1> QED BY <1>1, <1>2, <1>3, NextFacts

\* What a read finds, and what it leaves behind when that is the answer to the last "go".
LEMMA FindsFacts ==
  ASSUME PipesTyped, PipesOrdered, ReadFinds
  PROVE  \E n \in 0..asked, m \in Nat, k \in DOMAIN stdout :
            /\ k =< m /\ stdout[k].word = Awaited /\ stdout[k].of = n
            /\ Without(stdout', stdout, m) /\ stdout' \in OutType
                    /\ UNCHANGED <<stdin, searching, asked>>
            /\ answer' = IF pc = "search" THEN n ELSE answer
            /\ missed' = IF pc = "search" /\ n = asked THEN 0 ELSE missed
            /\ phase = "read" /\ phase' = "returned" /\ code' = "OK" /\ pc' = pc
            /\ Listening /\ UNCHANGED <<conf, stop>>
  <1>1. PICK n \in 0..asked :
           /\ ReadLines(Awaited, [word |-> Awaited, of |-> n])
           /\ answer' = IF pc = "search" THEN n ELSE answer
           /\ missed' = IF pc = "search" /\ n = asked THEN 0 ELSE missed
    BY DEF ReadFinds
  <1>2. phase = "read" /\ phase' = "returned" /\ code' = "OK" /\ pc' = pc
             /\ UNCHANGED <<conf, stop, asked>>
    BY DEF ReadFinds
  <1>3. Awaited \in Answers
    BY DEF Awaited, Answers
  <1>4. Listening
    BY <1>1 DEF ReadLines, HasLines
  <1> DEFINE found == [word |-> Awaited, of |-> n]
  <1>5. found.word = Awaited /\ found.of = n
    OBVIOUS
  <1> HIDE DEF found
  <1>6. PICK m \in Nat : /\ stdout' \in OutType /\ Without(stdout', stdout, m)
                         /\ UNCHANGED <<stdin, searching>>
                         /\ \E k \in DOMAIN stdout : k =< m /\ stdout[k] = found
    BY <1>1, <1>3, <1>5, ReadFacts DEF found
  <1> QED BY <1>1, <1>2, <1>4, <1>5, <1>6

\* Once the answer to the last "go" is read, nothing of a search is under way, and nothing of a
\* ping that was ahead of it.
LEMMA NothingLeft ==
  ASSUME NEW in \in InType, NEW out \in OutType, NEW a \in Nat, NEW s \in 0..a, Ordered(in, out, s, a),
         NEW k \in DOMAIN out, out[k].word = "bestmove", out[k].of = a,
         NEW m \in Nat, k =< m, NEW out2 \in OutType, Without(out2, out, m)
  PROVE  /\ NothingAsked(in, out2, s)
         /\ PingsFirst(in, out, a) => /\ \A i \in DOMAIN in : in[i].word # "isready"
                                      /\ \A i \in DOMAIN out2 : out2[i].word # "readyok"
  <1>1. \A i \in DOMAIN out2 : i + m \in DOMAIN out /\ out2[i] = out[i + m] /\ i + m > k
    BY LineTypes DEF Without
  <1> QED BY <1>1, AnswerIsLast DEF NothingAsked

\* InStep is kept.
LEMMA StepInStep ==
  ASSUME TypeOK, ByPhase, PipesOrdered, PingsAhead, InStep, [Next]_vars
  PROVE  InStep'
  <1>o. Ordered(stdin, stdout, searching, asked)
    BY DEF PipesOrdered
  <1>u. PipesTyped /\ stdin \in InType /\ stdout \in OutType /\ asked \in Nat /\ searching \in 0..asked
             /\ missed \in Nat
    BY TypedPipes DEF PipesTyped, TypeOK
  <1>v. PipesTyped'
    BY <1>u, StepPipesTyped
  <1>t. stdin' \in InType /\ stdout' \in OutType
    BY <1>v DEF PipesTyped
  <1> DEFINE i == Count("isready", stdin)
             r == Count("readyok", stdout)
             i2 == Count("isready", stdin')
             r2 == Count("readyok", stdout')
  <1>n. i \in Nat /\ r \in Nat /\ i2 \in Nat /\ r2 \in Nat
    BY <1>u, <1>t, CountIsNat DEF InType, OutType
  <1>g. i + r =< missed + Pinging
    BY DEF InStep, Owed
  <1>s. SUFFICES ASSUME NEW m2, m2 = missed', NEW p2, p2 = Pinging'
               PROVE  i2 + r2 =< m2 + p2
    BY DEF InStep, Owed
  <1>b. Pinging \in {0, 1} /\ p2 \in {0, 1}
    BY <1>s DEF Pinging
  <1> HIDE DEF i, r, i2, r2
  <1>m. m2 \in Nat
    <2>1. CASE Reap
      BY <1>s, <2>1 DEF Reap
    <2>2. CASE ReadFinds
      BY <1>s, <2>2, <1>u DEF ReadFinds
    <2> QED BY <1>s, <1>u, <2>1, <2>2, StepMissed
  <1>q. ~Reap /\ ~ReadFinds => (m2 = missed /\ Pinging =< p2) \/ m2 = missed + 1
    BY <1>s, StepPinging
  <1>1. CASE UNCHANGED <<stdin, stdout, searching, asked>> /\ ~Reap /\ ~ReadFinds
    <2>1. i2 = i /\ r2 = r
      BY <1>1 DEF i, r, i2, r2
    <2> QED BY <1>1, <1>g, <1>q, <1>n, <1>b, <1>m, <1>u, <2>1
  <1>2. CASE Send
    <2>1. pc \in Pings \cup Writes /\ phase = "send" /\ ~Reap /\ ~ReadFinds
      <3>1. pc \in Pings \cup Writes /\ phase = "send"
        BY <1>2 DEF Send, ByPhase, Reads
      <3>2. ~Reap
        BY <3>1 DEF Reap, Pings, Writes
      <3>3. ~ReadFinds
        BY <3>1 DEF ReadFinds
      <3> QED BY <3>1, <3>2, <3>3
    <2>2. CASE Write(Command)
      <3>1. Command \in Lines(Commands) /\ With(stdin', stdin, Command) /\ stdout' = stdout
        BY <1>u, <2>1, <2>2, CommandTyped, WriteFacts
      <3>2. r2 = r
        BY <3>1 DEF r, r2
      <3>3. i2 =< i + (IF Command.word = "isready" THEN 1 ELSE 0)
        BY <3>1, <1>t, <1>u, CountWith DEF i, i2, InType
      <3>4. CASE pc \in Pings
        <4>1. pc' \in Pings /\ phase' = "read" /\ m2 = missed
          <5>1. pc' # "killed"
            BY <1>2, <2>2, <3>4 DEF Send, Continue, BrokenPipe, Write, Goto, Pings
          <5> QED BY <1>s, <1>2, <3>4, <5>1 DEF Send, Continue, Goto
        <4>2. Pinging = 0 /\ p2 = 1
          BY <1>s, <2>1, <4>1 DEF Pinging
        <4>3. i2 =< i + 1
          BY <3>3, <1>n
        <4> QED BY <1>g, <1>n, <1>u, <3>2, <4>1, <4>2, <4>3
      <3>5. CASE pc \notin Pings
        <4>1. i2 =< i
          BY <1>u, <1>n, <2>1, <3>3, <3>5, CommandTyped
        <4> QED BY <1>g, <1>q, <1>n, <1>b, <1>m, <1>u, <2>1, <3>2, <4>1
      <3> QED BY <3>4, <3>5
    <2>3. CASE BrokenPipe
      <3>1. i2 = i /\ r2 = r
        BY <2>3 DEF BrokenPipe, process, pipes, i, r, i2, r2
      <3> QED BY <1>g, <1>q, <1>n, <1>b, <1>m, <1>u, <2>1, <3>1
    <2> QED BY <1>2, <2>2, <2>3 DEF Send
  <1>3. CASE ReadGoesOn
    <2>1. Awaited \in Answers
      BY DEF Awaited, Answers
    <2>2. PICK n \in Nat : Without(stdout', stdout, n) /\ UNCHANGED <<stdin, searching>>
      BY <1>3, <1>u, <2>1, ReadFacts DEF ReadGoesOn
    <2>3. i2 = i /\ r2 =< r
      BY <1>t, <1>u, <2>2, CountWithout DEF i, i2, r, r2, OutType
    <2>4. UNCHANGED <<pc, phase, missed>> /\ m2 = missed
      BY <1>s, <1>3 DEF ReadGoesOn, call, history
    <2>5. p2 = Pinging
      BY <1>s, <2>4 DEF Pinging
    <2> QED BY <1>g, <1>n, <1>b, <1>u, <2>3, <2>4, <2>5
  <1>4. CASE ReadFinds
    <2>1. PICK n \in 0..asked, m \in Nat, k \in DOMAIN stdout :
            /\ k =< m /\ stdout[k].word = Awaited /\ stdout[k].of = n
            /\ Without(stdout', stdout, m) /\ UNCHANGED <<stdin, searching, asked>>
            /\ m2 = IF pc = "search" /\ n = asked THEN 0 ELSE missed
            /\ phase = "read" /\ phase' = "returned" /\ pc' = pc
      BY <1>s, <1>4, <1>u, FindsFacts
    <2>2. i2 = i /\ r2 =< r
      BY <1>t, <1>u, <2>1, CountWithout DEF i, i2, r, r2, OutType
    <2>3. p2 = 0
      BY <1>s, <2>1 DEF Pinging
    <2>4. CASE pc \in Pings
      <3>1. stdout[k].word = "readyok" /\ pc # "search"
        BY <2>1, <2>4 DEF Awaited, Pings
      <3>2. r2 =< r - 1
        BY <1>t, <1>u, <2>1, <3>1, CountWithout DEF r, r2, OutType
      <3>3. m2 = missed /\ Pinging = 1
        BY <2>1, <2>4, <3>1 DEF Pinging
      <3> QED BY <1>g, <1>n, <1>u, <2>2, <2>3, <3>2, <3>3
    <2>5. CASE pc = "search" /\ n = asked
      <3>1. stdout[k].word = "bestmove" /\ PingsFirst(stdin, stdout, asked)
        BY <2>1, <2>5 DEF Awaited, Pings, PingsAhead, Waiting
      <3>2. /\ \A j \in DOMAIN stdin : stdin[j].word # "isready"
            /\ \A j \in DOMAIN stdout' : stdout'[j].word # "readyok"
        BY <1>o, <1>t, <1>u, <2>1, <2>5, <3>1, NothingLeft
      <3>3. i = 0 /\ r2 = 0
        BY <1>t, <1>u, <3>2, CountNone DEF i, r2, InType, OutType
      <3> QED BY <1>m, <2>2, <2>3, <3>3
    <2>6. CASE pc \notin Pings /\ ~(pc = "search" /\ n = asked)
      <3>1. m2 = missed /\ Pinging = 0
        BY <2>1, <2>6 DEF Pinging
      <3> QED BY <1>g, <1>n, <1>u, <2>2, <2>3, <3>1
    <2> QED BY <2>4, <2>5, <2>6
  <1>5. CASE ReadTimesOut
    <2>1. i2 = i /\ r2 = r
      BY <1>5 DEF ReadTimesOut, pipes, i, i2, r, r2
    <2>2. ~Reap /\ ~ReadFinds
      BY <1>5 DEF Reap, ReadFinds, ReadTimesOut, ByPhase, Return, Pings, Writes, Reads, MayTimeOut,
         Silent, ReadLines, HasLines
    <2> QED BY <1>g, <1>q, <1>n, <1>b, <1>m, <1>u, <2>1, <2>2
  <1>6. CASE Reap
    <2>1. stdin' = <<>> /\ stdout' = <<>>
      BY <1>6 DEF Reap, Terminate
    <2>2. i2 = 0 /\ r2 = 0
      <3>1. DOMAIN stdin' = {} /\ DOMAIN stdout' = {}
        BY <2>1
      <3> QED BY <1>t, <3>1, CountNone DEF i2, r2, InType, OutType
    <2> QED BY <1>m, <1>b, <2>2
  <1>7. CASE Elsewhere /\ (Obey \/ FinishSearch \/ Chat)
    <2>1. UNCHANGED <<pc, phase, missed>> /\ m2 = missed
      BY <1>s, <1>7 DEF Elsewhere, call, history
    <2>2. p2 = Pinging
      BY <1>s, <2>1 DEF Pinging
    <2>3. SUFFICES i2 + r2 =< i + r
      BY <1>g, <1>n, <1>b, <1>u, <2>1, <2>2
    <2>4. CASE Obey
      <3>1. Without(stdin', stdin, 1) /\ 1 \in DOMAIN stdin
        BY <2>4, <1>u, ObeyFacts
      <3>2. i2 =< i /\ (stdin[1].word = "isready" => i2 =< i - 1)
        BY <1>t, <1>u, <3>1, CountWithout DEF i, i2, InType
      <3>3. ASSUME NEW l \in Lines(Answers), With(stdout', stdout, l)
            PROVE  r2 =< r + (IF l.word = "readyok" THEN 1 ELSE 0)
        BY <1>t, <1>u, <3>3, CountWith DEF r, r2, OutType
      <3>4. CASE stdin[1].word = "isready" /\ With(stdout', stdout, Line("readyok"))
        <4>1. Line("readyok") \in Lines(Answers) /\ Line("readyok").word = "readyok"
          BY DEF Line, Lines, Answers
        <4>2. r2 =< r + 1
          BY <3>3, <3>4, <4>1
        <4> QED BY <1>n, <3>2, <3>4, <4>2
      <3>5. CASE With(stdout', stdout, Bestmove(searching))
        <4>1. Bestmove(searching) \in Lines(Answers) /\ Bestmove(searching).word # "readyok"
          BY <1>u DEF Bestmove, Lines, Answers
        <4>2. r2 =< r
          BY <1>n, <3>3, <3>5, <4>1
        <4> QED BY <1>n, <3>2, <4>2
      <3>6. CASE With(stdout', stdout, Line("uciok"))
        <4>1. Line("uciok") \in Lines(Answers) /\ Line("uciok").word # "readyok"
          BY DEF Line, Lines, Answers
        <4>2. r2 =< r
          BY <1>n, <3>3, <3>6, <4>1
        <4> QED BY <1>n, <3>2, <4>2
      <3>7. CASE stdout' = stdout
        <4>1. r2 = r
          BY <3>7 DEF r, r2
        <4> QED BY <1>n, <3>2, <4>1
      <3> QED BY <2>4, <1>u, <3>4, <3>5, <3>6, <3>7, ObeyFacts
    <2>5. Line("info") \in Lines(Answers) /\ Bestmove(searching) \in Lines(Answers)
          /\ Line("info").word # "readyok" /\ Bestmove(searching).word # "readyok"
      BY <1>u DEF Line, Bestmove, Lines, Answers
    <2>6. CASE FinishSearch
      <3>1. PICK mid \in OutType : With(mid, stdout, Line("info"))
                 /\ With(stdout', mid, Bestmove(searching))
        BY <2>6, <1>u, SaysFacts
      <3>2. Count("readyok", mid) =< r + 0 /\ Count("readyok", mid) \in Nat
        BY <1>u, <2>5, <3>1, CountWith, CountIsNat DEF r, OutType
      <3>3. r2 =< Count("readyok", mid) + 0
        BY <1>t, <2>5, <3>1, CountWith DEF r2, OutType
      <3>4. i2 = i
        BY <2>6 DEF FinishSearch, i, i2
      <3> QED BY <1>n, <3>2, <3>3, <3>4
    <2>7. CASE Chat
      <3>1. r2 =< r + 0
        BY <2>7, <1>t, <1>u, <2>5, SaysFacts, CountWith DEF r, r2, OutType
      <3>2. i2 = i
        BY <2>7 DEF Chat, i, i2
      <3> QED BY <1>n, <3>1, <3>2
    <2> QED BY <1>7, <2>4, <2>6, <2>7
  <1> QED BY <1>1, <1>2, <1>3, <1>4, <1>5, <1>6, <1>7, Kinds

-----------------------------------------------------------------------------
(* Searches and their answers.                                             *)

\* The last search belongs to the move in hand; its answer is in, or has been waited for in
\* vain; nothing more is to come of it.
AskedNow == pc \in {"search", "after_search", "judge", "stop", "drain"} \/ Waiting
Judged == pc \in {"after_search", "judge", "stop", "drain"} \/ (pc = "search" /\ phase = "returned")
Answered == ~AskedNow \/ (Judged /\ answer # 0) \/ (pc = "drain" /\ phase = "returned")

\* The conditions MoveIsFresh names.
Good == conf.obeys /\ ~conf.forgiving /\ missed = 0

\* As long as they hold and the engine listens, only the last search is under way, and nothing
\* at all once it has been answered.
Clean ==
    Good /\ Listening /\ ~stop =>
        /\ OnlyAsked(stdin, stdout, searching, asked)
        /\ Answered => NothingAsked(stdin, stdout, searching)

\* A step that leaves the pipes alone does not take a search for answered that was not.
LEMMA StepAnswered ==
  ASSUME TypeOK, ByPhase, Wakes, Failures, Good, ~stop, ~stop', Listening', missed' = 0,
         [Next]_vars, ~Send, ~ReadGoesOn, ~ReadFinds, ~ReadTimesOut, ~Reap, Answered'
  PROVE  Answered
  <1> USE DEF Answered, AskedNow, Judged, Waiting, game, history
  <1>m. missed = 0
    BY DEF Good
  <1>1. CASE Call
    <2>1. CASE CheckAlive
      BY <2>1, <1>m DEF CheckAlive, Continue, Return, ByPhase, Pings, Writes, Reads
    <2>2. CASE TestWrite
      BY <2>2, <1>m DEF TestWrite, Continue, Return, ByPhase, Pings, Writes, Reads
    <2>3. CASE ReadFails
      BY <2>3 DEF ReadFails, Interrupted, HungUp, Wakes, process, Listening
    <2> QED BY <1>1, <2>1, <2>2, <2>3 DEF Call
  <1>2. CASE BeginGame \/ StartProcess \/ AskUci \/ ReadUciok \/ BothStarted \/ Ucinewgame \/ Refresh
    BY <1>2 DEF BeginGame, StartProcess, AskUci, ReadUciok, BothStarted, Ucinewgame, Refresh, Returned
  <1>3. CASE FirstPing \/ TurnInterrupted \/ GameOver \/ TakeTurn
    BY <1>3 DEF FirstPing, TurnInterrupted, GameOver, TakeTurn, Proceed, Returned
  <1>4. CASE Prepare
    BY <1>4 DEF Prepare, Proceed, Goto, FirstPhase, Returned, Reads
  <1>5. CASE SearchReturns
    <2>1. code # "ERR"
      <3>1. Listening
        BY <1>5 DEF SearchReturns, process, Listening
      <3>2. pc = "search" /\ phase = "returned"
        BY <1>5 DEF SearchReturns, Returned
      <3> QED BY <3>1, <3>2 DEF Failures, Reads
    <2>2. pc' = "after_search" /\ answer' = answer /\ pc = "search" /\ phase = "returned"
      BY <1>5, <2>1 DEF SearchReturns, Goto, Returned
    <2> QED BY <2>2
  <1>6. CASE StillReady
    <2>1. code = "OK"
      BY <1>6, <1>m DEF StillReady, Proceed, Returned, Failures, Pings
    <2>2. pc' = "judge" /\ answer' = answer /\ pc = "after_search"
      BY <1>6, <2>1 DEF StillReady, Proceed, Goto, Returned
    <2> QED BY <2>2
  <1>7. CASE PlayMove \/ LosesByIllegalMove
    BY <1>7 DEF PlayMove, LosesByIllegalMove, Good
  <1>8. CASE LosesOnTime
    BY <1>8 DEF LosesOnTime, Goto, FirstPhase, Pings, Writes
  <1>9. CASE Drain
    BY <1>9 DEF Drain, Goto, FirstPhase, Pings, Writes, Reads, Returned
  <1>10. CASE EndGame \/ Recover \/ CloseSession \/ Quit
    BY <1>10 DEF EndGame, Recover, CloseSession, Quit, Returned
  <1>11. CASE Others \/ UNCHANGED vars
    BY <1>11, OthersElsewhere
  <1> QED BY <1>1, <1>2, <1>3, <1>4, <1>5, <1>6, <1>7, <1>8, <1>9, <1>10, <1>11, NextFacts DEF Session

\* Nothing under way is less than one search under way.
LEMMA NothingIsOnly ==
  \A in \in InType, out \in OutType, s, a \in Nat : NothingAsked(in, out, s) => OnlyAsked(in, out, s, a)
  BY DEF NothingAsked, OnlyAsked

\* Clean is kept.
LEMMA StepClean ==
  ASSUME TypeOK, ByPhase, Wakes, EmptyWhenNone, Greets, Failures, PipesOrdered, Clean, [Next]_vars
  PROVE  Clean'
  <1> SUFFICES ASSUME Good', Listening', ~stop'
               PROVE  /\ OnlyAsked(stdin', stdout', searching', asked')
                      /\ Answered' => NothingAsked(stdin', stdout', searching')
    BY DEF Clean, OnlyAsked, NothingAsked
  <1>o. Ordered(stdin, stdout, searching, asked)
    BY DEF PipesOrdered
  <1>u. PipesTyped /\ stdin \in InType /\ stdout \in OutType /\ asked \in Nat /\ searching \in 0..asked
        /\ searching \in Nat /\ missed \in Nat
    BY TypedPipes DEF PipesTyped, TypeOK
  <1>t. stdin' \in InType /\ stdout' \in OutType /\ asked' \in Nat /\ searching' \in Nat
    BY <1>u, StepPipesTyped DEF PipesTyped
  <1>n. NothingAsked(stdin', stdout', searching') => OnlyAsked(stdin', stdout', searching', asked')
    BY <1>t, NothingIsOnly
  <1>s. ~stop
    BY StepStop
  <1>g. ~Reap /\ ~(ReadFinds /\ pc = "search") => Good /\ missed' = 0
    BY <1>u, StepMissed DEF Good
  <1>1. CASE Reap
    BY <1>1, <1>n DEF Reap, Terminate, NothingAsked
  <1>2. CASE StartProcess
    <2>1. life = "none"
      BY <1>2 DEF StartProcess, Greets, TypeOK
    <2>2. stdin' = <<>> /\ stdout' = <<>> /\ searching' = 0
      <3>1. Spawn
        BY <1>2, <2>1 DEF StartProcess, Listening, process
      <3> QED BY <2>1, <3>1 DEF Spawn, EmptyWhenNone, pipes
    <2> QED BY <2>2, <1>n DEF NothingAsked
  <1>3. CASE ReadFinds
    <2>1. PICK n \in 0..asked, m \in Nat, k \in DOMAIN stdout :
            /\ k =< m /\ stdout[k].word = Awaited /\ stdout[k].of = n
            /\ Without(stdout', stdout, m) /\ stdout' \in OutType
                    /\ UNCHANGED <<stdin, searching, asked>>
            /\ answer' = IF pc = "search" THEN n ELSE answer
            /\ missed' = IF pc = "search" /\ n = asked THEN 0 ELSE missed
            /\ phase = "read" /\ phase' = "returned" /\ code' = "OK" /\ pc' = pc
            /\ Listening /\ UNCHANGED <<conf, stop>>
      BY <1>3, <1>u, FindsFacts
    <2>2. ASSUME n = asked, stdout[k].word = "bestmove" PROVE NothingAsked(stdin', stdout', searching')
      BY <1>o, <1>u, <2>1, <2>2, NothingLeft
    <2>3. CASE pc = "search" /\ n = asked
      <3>1. stdout[k].word = "bestmove"
        BY <2>1, <2>3 DEF Awaited, Pings
      <3> QED BY <1>n, <2>2, <2>3, <3>1
    <2>4. CASE ~(pc = "search" /\ n = asked)
      <3>1. Good
        BY <2>1, <2>4 DEF Good
      <3>2. OnlyAsked(stdin, stdout, searching, asked) /\ (Answered
                 => NothingAsked(stdin, stdout, searching))
        BY <1>s, <2>1, <3>1 DEF Clean
      <3>3. CASE pc \in {"search", "drain"}
        <4>1. stdout[k].word = "bestmove"
          BY <2>1, <3>3 DEF Awaited, Pings
        <4>2. n = asked
          BY <2>1, <3>2, <4>1 DEF OnlyAsked
        <4> QED BY <1>n, <2>2, <4>1, <4>2
      <3>4. CASE pc \notin {"search", "drain"}
        <4>1. Answered' => Answered
          BY <2>1, <3>4 DEF Answered, AskedNow, Judged, Waiting, ByPhase, Pings, Writes
        <4> QED BY <1>u, <1>t, <2>1, <3>2, <4>1, OnlyAskedKept, NothingAskedKept
      <3> QED BY <3>3, <3>4
    <2> QED BY <2>3, <2>4
  <1> SUFFICES ASSUME ~Reap, ~StartProcess, ~ReadFinds, Good, missed' = 0, Listening
               PROVE  /\ OnlyAsked(stdin', stdout', searching', asked')
                      /\ Answered' => NothingAsked(stdin', stdout', searching')
    BY <1>1, <1>2, <1>3, <1>g, StepListens
  <1>c. OnlyAsked(stdin, stdout, searching, asked) /\ (Answered
             => NothingAsked(stdin, stdout, searching))
    BY <1>s DEF Clean
  <1>4. CASE Send
    <2>1. pc \in Pings \cup Writes /\ phase = "send"
      BY <1>4 DEF Send, ByPhase, Reads
    <2>2. Write(Command)
      BY <1>4 DEF Send, BrokenPipe
    <2>3. Command \in Lines(Commands) /\ With(stdin', stdin, Command) /\ UNCHANGED <<stdout, searching>>
      BY <1>u, <2>1, <2>2, CommandTyped, WriteFacts
    <2>4. asked' = IF pc = "go" THEN asked + 1 ELSE asked
      BY <1>4, <2>2 DEF Send, BrokenPipe, Listening
    <2>5. pc' = pc /\ answer' = answer
      BY <1>4 DEF Send, BrokenPipe, Continue, Return
    <2>6. CASE pc = "go"
      <3>1. ~AskedNow
        BY <2>1, <2>6 DEF AskedNow, Waiting
      <3>2. Command = Go(asked + 1)
        BY <1>u, <2>1, <2>6, CommandTyped
      <3>3. OnlyAsked(stdin', stdout', searching', asked')
        BY <1>c, <1>u, <1>t, <2>3, <2>4, <2>6, <3>1, <3>2, NothingAskedKept DEF Answered
      <3>4. ~Answered'
        <4>1. phase' = "returned" /\ code' = "OK"
          BY <1>4, <2>6 DEF Send, BrokenPipe, Return, Pings
        <4> QED BY <2>5, <2>6, <4>1 DEF Answered, AskedNow, Judged, Waiting
      <3> QED BY <3>3, <3>4
    <2>7. CASE pc # "go"
      <3>1. Command.word # "go"
        BY <1>u, <2>1, <2>7, CommandTyped
      <3>2. OnlyAsked(stdin', stdout', searching', asked')
        BY <1>c, <1>u, <1>t, <2>3, <2>4, <2>7, <3>1, OnlyAskedKept
      <3>3. Answered' => Answered
        BY <2>1, <2>5, <2>7 DEF Answered, AskedNow, Judged, Waiting, Pings, Writes
      <3> QED BY <1>c, <1>u, <1>t, <2>3, <3>1, <3>2, <3>3, NothingAskedKept
    <2> QED BY <2>6, <2>7
  <1>5. CASE ReadGoesOn
    <2>1. Awaited \in Answers
      BY DEF Awaited, Answers
    <2>2. PICK n \in Nat : Without(stdout', stdout, n) /\ UNCHANGED <<stdin, searching, asked>>
      BY <1>5, <1>u, <2>1, ReadFacts DEF ReadGoesOn
    <2>3. UNCHANGED <<pc, phase, code, answer>>
      BY <1>5 DEF ReadGoesOn, call
    <2>4. Answered' => Answered
      BY <2>3 DEF Answered, AskedNow, Judged, Waiting
    <2> QED BY <1>c, <1>u, <1>t, <2>2, <2>4, OnlyAskedKept, NothingAskedKept
  <1>6. CASE ReadTimesOut
    <2>1. UNCHANGED <<stdin, stdout, asked, pc>> /\ phase' = "returned" /\ code' = "TIMEOUT"
               /\ phase = "read" /\ stdout = <<>>
      BY <1>6 DEF ReadTimesOut, pipes, Return, MayTimeOut, Silent
    <2>2. searching' = searching \/ searching' = 0
      BY <1>6 DEF ReadTimesOut
    <2>3. OnlyAsked(stdin', stdout', searching', asked')
      BY <1>c, <1>u, <2>1, <2>2, OnlyAskedKept
    <2>4. CASE pc = "search"
      <3>1. CASE answer' = 0
        BY <2>1, <2>3, <2>4, <3>1 DEF Answered, AskedNow, Judged
      <3>2. CASE searching # 0 /\ searching' = 0
        <4>1. searching = asked
          BY <1>c, <3>2 DEF OnlyAsked
        <4>2. \A i \in DOMAIN stdin : stdin[i].word # "go"
          BY <1>o, <1>u, <4>1 DEF Ordered
        <4>3. NothingAsked(stdin', stdout', searching')
          BY <2>1, <3>2, <4>2 DEF NothingAsked
        <4> QED BY <2>3, <4>3
      <3> QED BY <1>6, <2>4, <3>1, <3>2 DEF ReadTimesOut
    <2>5. CASE pc = "drain"
      <3>1. stdin = <<>> /\ searching = 0
        BY <1>6, <2>5 DEF ReadTimesOut, MayTimeOut, Good
      <3> QED BY <2>1, <2>2, <2>3, <3>1 DEF NothingAsked
    <2>6. CASE pc \notin {"search", "drain"}
      <3>1. searching' = searching /\ answer' = answer
        BY <1>6, <2>6 DEF ReadTimesOut
      <3>2. Answered' => Answered
        BY <2>1, <2>6, <3>1 DEF Answered, AskedNow, Judged, Waiting, ByPhase, Pings, Writes
      <3> QED BY <1>c, <2>1, <2>3, <3>1, <3>2
    <2> QED BY <2>4, <2>5, <2>6
  <1>7. CASE Elsewhere /\ (Obey \/ FinishSearch \/ Chat)
    <2>1. UNCHANGED <<pc, phase, code, answer, asked>>
      BY <1>7 DEF Elsewhere, call
    <2>2. Answered' => Answered
      BY <2>1 DEF Answered, AskedNow, Judged, Waiting
    <2>3. CASE Obey
      <3>1. Without(stdin', stdin, 1) /\ 1 \in DOMAIN stdin
        BY <2>3, <1>u, ObeyFacts
      <3>2. /\ OnlyAsked(stdin', stdout, searching, asked) /\ OnlyAsked(stdin', stdout, 0, asked)
            /\ Answered => NothingAsked(stdin', stdout, searching)
        <4>1. OnlyAsked(stdin', stdout, searching, asked)
          BY <1>c, <1>t, <1>u, <3>1, OnlyAskedKept
        <4>2. Answered => NothingAsked(stdin', stdout, searching)
          BY <1>c, <1>t, <1>u, <3>1, NothingAskedKept
        <4> QED BY <1>t, <1>u, <4>1, <4>2, OnlyAskedKept
      <3>3. Answered => searching = 0 /\ stdin[1].word # "go"
        BY <1>c, <3>1 DEF NothingAsked
      <3>4. CASE stdin[1].word = "go" /\ searching' = stdin[1].of /\ stdout' = stdout
        <4>1. OnlyAsked(stdin', stdout, stdin[1].of, asked)
          BY <1>c, <1>t, <1>u, <3>1, <3>4, OnlyAskedKept
        <4> QED BY <2>1, <2>2, <3>3, <3>4, <4>1
      <3>5. ASSUME NEW l, l.word # "bestmove", With(stdout', stdout, l), searching' = searching
            PROVE  /\ OnlyAsked(stdin', stdout', searching', asked')
                   /\ Answered' => NothingAsked(stdin', stdout', searching')
        BY <1>t, <1>u, <2>1, <2>2, <3>2, <3>5, OnlyAskedKept, NothingAskedKept
      <3>6. CASE searching # 0 /\ searching' = 0 /\ With(stdout', stdout, Bestmove(searching))
        <4>1. OnlyAsked(stdin', stdout', 0, asked)
          BY <1>t, <1>u, <3>2, <3>6, OnlyAskedKept
        <4> QED BY <2>1, <2>2, <3>3, <3>6, <4>1
      <3>7. CASE searching' \in {searching, 0} /\ stdout' = stdout
        BY <2>1, <2>2, <3>2, <3>3, <3>7
      <3>8. Line("readyok").word # "bestmove" /\ Line("uciok").word # "bestmove"
        BY DEF Line
      <3> QED BY <1>u, <2>3, <3>4, <3>5, <3>6, <3>7, <3>8, ObeyFacts
    <2>4. CASE FinishSearch
      <3>1. PICK mid \in OutType : With(mid, stdout, Line("info"))
                 /\ With(stdout', mid, Bestmove(searching))
        BY <2>4, <1>u, SaysFacts
      <3>2. searching # 0 /\ searching' = 0 /\ stdin' = stdin
        BY <2>4 DEF FinishSearch
      <3>3. OnlyAsked(stdin, mid, searching, asked)
        BY <1>c, <1>u, <3>1, OnlyAskedKept DEF Line
      <3>4. OnlyAsked(stdin, stdout', 0, asked)
        BY <1>t, <1>u, <3>1, <3>2, <3>3, OnlyAskedKept
      <3>5. ~Answered
        BY <1>c, <3>2 DEF NothingAsked
      <3> QED BY <2>1, <2>2, <3>2, <3>4, <3>5
    <2>5. CASE Chat
      <3>1. With(stdout', stdout, Line("info")) /\ UNCHANGED <<stdin, searching>>
                 /\ Line("info").word # "bestmove"
        BY <2>5, <1>u, SaysFacts DEF Chat, Line
      <3> QED BY <1>c, <1>t, <1>u, <2>1, <2>2, <3>1, OnlyAskedKept, NothingAskedKept
    <2> QED BY <1>7, <2>3, <2>4, <2>5
  <1>8. CASE UNCHANGED <<stdin, stdout, searching, asked>> /\ ~Send /\ ~ReadGoesOn /\ ~ReadTimesOut
    <2>1. Answered' => Answered
      BY <1>8, <1>s, StepAnswered
    <2> QED BY <1>8, <1>c, <2>1
  <1> QED BY <1>4, <1>5, <1>6, <1>7, <1>8, Kinds

\* A move on record is of the last search.
Fresh ==
    /\ Good /\ pc \in {"after_search", "judge"} /\ answer # 0 => answer = asked
    /\ Good /\ pc = "search" /\ phase = "returned" /\ answer # 0 => answer = asked \/ stop

\* Fresh is kept: what a read finds under Clean is the answer to the last search.
LEMMA StepFresh ==
  ASSUME TypeOK, ByPhase, PipesOrdered, Clean, Fresh, [Next]_vars
  PROVE  Fresh'
  <1>u. PipesTyped /\ missed \in Nat
    BY TypedPipes DEF TypeOK
  <1>g. Good' /\ ~Reap /\ ~(ReadFinds /\ pc = "search") => Good
    BY <1>u, StepMissed DEF Good
  <1>1. CASE ReadFinds
    <2>1. PICK n \in 0..asked, m \in Nat, k \in DOMAIN stdout :
            /\ stdout[k].word = Awaited /\ stdout[k].of = n /\ asked' = asked
            /\ answer' = IF pc = "search" THEN n ELSE answer
            /\ missed' = IF pc = "search" /\ n = asked THEN 0 ELSE missed
            /\ pc' = pc /\ Listening /\ UNCHANGED <<conf, stop>>
      BY <1>1, <1>u, FindsFacts
    <2>2. CASE pc = "search"
      <3>1. stdout[k].word = "bestmove"
        BY <2>1, <2>2 DEF Awaited, Pings
      <3>2. Good' => n = asked \/ stop
        <4>1. Good' /\ n # asked => Good
          BY <2>1 DEF Good
        <4> QED BY <2>1, <3>1, <4>1 DEF Clean, OnlyAsked
      <3> QED BY <2>1, <2>2, <3>2 DEF Fresh
    <2>3. CASE pc # "search"
      <3>1. Good' => Good
        BY <2>1, <2>3 DEF Good
      <3> QED BY <2>1, <2>3, <3>1 DEF Fresh
    <2> QED BY <2>2, <2>3
  <1>2. CASE Call /\ ~ReadFinds
    <2>0. ~Reap
      BY <1>2, CallMoves DEF TypeOK, Phases, Codes, Reap, Pings, Writes, Reads
    <2>1. Good' => Good
      BY <1>2, <1>g, <2>0
    <2>2. CASE pc = "search"
      <3>1. CASE ReadFails
        <4>1. answer' = 0
          BY <2>2, <3>1 DEF ReadFails
        <4> QED BY <4>1 DEF Fresh
      <3>2. CASE ReadGoesOn
        <4>1. UNCHANGED <<pc, phase, answer, asked, stop>>
          BY <3>2 DEF ReadGoesOn, call
        <4> QED BY <2>1, <4>1 DEF Fresh
      <3>3. CASE ReadTimesOut
        <4>1. asked' = asked /\ stop' = stop /\ pc' = pc /\ Listening
          BY <3>3 DEF ReadTimesOut, Return, MayTimeOut, Silent
        <4>2. CASE answer' = 0
          BY <4>2 DEF Fresh
        <4>3. CASE searching # 0 /\ answer' = searching
          <5>1. Good /\ ~stop => searching = asked
            BY <4>1, <4>3 DEF Clean, OnlyAsked
          <5> QED BY <2>1, <2>2, <4>1, <4>3, <5>1 DEF Fresh
        <4> QED BY <2>2, <3>3, <4>2, <4>3 DEF ReadTimesOut
      <3>4. ~CheckAlive /\ ~TestWrite /\ ~Send
        BY <2>2 DEF CheckAlive, TestWrite, Send, ByPhase, Reads
      <3> QED BY <1>2, <3>1, <3>2, <3>3, <3>4 DEF Call
    <2>3. CASE pc # "search"
      <3>1. answer' = answer
        BY <1>2, <2>3 DEF Call, CheckAlive, TestWrite, Send, ReadFails, ReadGoesOn, ReadTimesOut
      <3>2. pc' = pc \/ pc' = "killed"
        BY <1>2, CallMoves DEF TypeOK, Phases, Codes
      <3>3. pc # "go" => asked' = asked
        BY <1>2, <2>3 DEF Call, CheckAlive, TestWrite, Send, ReadFails, ReadGoesOn, ReadTimesOut
      <3> QED BY <2>1, <2>3, <3>1, <3>2, <3>3 DEF Fresh
    <2> QED BY <2>2, <2>3
  <1>3. CASE Session /\ ~Call
    <2>1. phase' # "returned"
      BY <1>3, OutsideMoves DEF Goto, FirstPhase
    <2>2. CASE pc' \in {"after_search", "judge"}
      <3>1. SearchReturns \/ StillReady
        <4>1. CASE BeginGame \/ StartProcess \/ AskUci \/ ReadUciok \/ BothStarted \/ Ucinewgame
                   \/ Refresh
          BY <2>2, <4>1 DEF BeginGame, StartProcess, AskUci, ReadUciok, BothStarted, Ucinewgame,
             Refresh, StartFails, Goto, Connect
        <4>2. CASE FirstPing \/ TurnInterrupted \/ GameOver \/ TakeTurn \/ Prepare
          BY <2>2, <4>2 DEF FirstPing, TurnInterrupted, GameOver, TakeTurn, Prepare, Proceed, Goto
        <4>3. CASE PlayMove \/ LosesOnTime \/ LosesByIllegalMove \/ Drain
          BY <2>2, <4>3 DEF PlayMove, LosesOnTime, LosesByIllegalMove, Drain, Goto
        <4>4. CASE EndGame \/ Recover \/ CloseSession \/ Quit \/ Reap
          BY <2>2, <4>4 DEF EndGame, Recover, CloseSession, Quit, Reap, Goto
        <4> QED BY <1>3, <4>1, <4>2, <4>3, <4>4 DEF Session
      <3>2. UNCHANGED <<answer, asked>> /\ ~Reap
        BY <3>1 DEF SearchReturns, StillReady, Proceed, Reap, Returned
      <3>3. Good' => Good
        BY <1>3, <1>g, <3>2 DEF Call
      <3>4. CASE SearchReturns
        <4>1. ~stop /\ pc = "search" /\ phase = "returned"
          BY <2>2, <3>4 DEF SearchReturns, Goto, Returned
        <4> QED BY <2>1, <2>2, <3>2, <3>3, <4>1 DEF Fresh
      <3>5. CASE StillReady
        <4>1. pc = "after_search"
          BY <3>5 DEF StillReady, Proceed, Returned
        <4> QED BY <2>1, <2>2, <3>2, <3>3, <4>1 DEF Fresh
      <3> QED BY <3>1, <3>4, <3>5
    <2>3. CASE pc' \notin {"after_search", "judge"}
      BY <2>1, <2>3 DEF Fresh
    <2> QED BY <2>2, <2>3
  <1>4. CASE Others \/ UNCHANGED vars
    <2>1. UNCHANGED <<pc, phase, answer, asked, conf, missed>>
      BY <1>4, OthersElsewhere
    <2>2. Good' => Good
      BY <2>1 DEF Good
    <2> QED BY <2>1, <2>2, StepStop DEF Fresh
  <1> QED BY <1>1, <1>2, <1>3, <1>4, NextFacts

-----------------------------------------------------------------------------
(* The inductive invariant and the theorems.                               *)

IInv ==
    /\ TypeOK /\ ByPhase /\ Bounds /\ Wakes /\ EmptyWhenNone /\ Greets /\ Failures
    /\ PipesOrdered /\ PingsAhead /\ InStep /\ Clean /\ Fresh

LEMMA InitIInv == Init => IInv
  <1> SUFFICES ASSUME Init PROVE IInv
    OBVIOUS
  <1> USE DEF Init
  <1>1. TypeOK
    <2>1. pc \in Points
      BY DEF Points
    <2>2. stdin \in Seq(Lines(Commands)) /\ stdout \in Seq(Lines(Answers))
      OBVIOUS
    <2>3. games \in 0..MaxGames /\ moves \in 0..MaxMoves
      BY SessionAssumption
    <2>4. searching \in 0..asked /\ answer \in 0..asked /\ asked \in Nat /\ missed \in Nat
      OBVIOUS
    <2>5. /\ interrupt \in BOOLEAN /\ stop \in BOOLEAN /\ torn \in BOOLEAN /\ initialized \in BOOLEAN
          /\ white \in BOOLEAN /\ broken \in BOOLEAN /\ greeted \in BOOLEAN /\ refreshed \in BOOLEAN
          /\ (initialized <=> life # "none")
      OBVIOUS
    <2>6. /\ conf \in Configs /\ life \in Lives /\ phase = "none" /\ code = "none" /\ verdict = "none"
      BY DEF Lives
    <2> QED BY <2>1, <2>2, <2>3, <2>4, <2>5, <2>6 DEF TypeOK
  <1>2. ByPhase /\ Bounds /\ Wakes /\ EmptyWhenNone /\ Greets /\ Failures /\ Fresh
    BY DEF ByPhase, Bounds, Wakes, EmptyWhenNone, Greets, Failures, Fresh, Pings, Writes, Reads, Playing
  <1>3. DOMAIN stdin = {} /\ DOMAIN stdout = {}
    OBVIOUS
  <1>4. PipesOrdered
    BY <1>3 DEF PipesOrdered, Ordered
  <1>5. PingsAhead
    BY DEF PingsAhead, Waiting
  <1>6. Clean
    BY DEF Clean, Listening
  <1>7. InStep
    <2>1. stdin \in Seq(Lines(Commands)) /\ stdout \in Seq(Lines(Answers))
      OBVIOUS
    <2>2. Count("isready", stdin) = 0 /\ Count("readyok", stdout) = 0
      BY <1>3, <2>1, CountNone
    <2>3. Pinging = 0
      BY DEF Pinging
    <2> QED BY <2>2, <2>3 DEF InStep, Owed
  <1> QED BY <1>1, <1>2, <1>4, <1>5, <1>6, <1>7 DEF IInv

LEMMA NextIInv == IInv /\ [Next]_vars => IInv'
  <1> SUFFICES ASSUME IInv, [Next]_vars PROVE IInv'
    OBVIOUS
  <1>1. TypeOK /\ ByPhase /\ Bounds /\ Wakes /\ EmptyWhenNone /\ Greets /\ Failures
        /\ PipesOrdered /\ PingsAhead /\ InStep /\ Clean /\ Fresh
    BY DEF IInv
  <1>2. PipesTyped
    BY <1>1, TypedPipes
  <1>3. TypeOK' /\ ByPhase' /\ Bounds' /\ Wakes' /\ EmptyWhenNone' /\ Greets' /\ Failures'
    BY <1>1, StepTypeOK, StepByPhase, StepBounds, StepWakes, StepEmptyWhenNone, StepGreets, StepFailures
  <1>4. PipesOrdered' /\ PingsAhead' /\ InStep' /\ Clean' /\ Fresh'
    BY <1>1, <1>2, StepOrdered, StepPingsAhead, StepInStep, StepClean, StepFresh
  <1> QED BY <1>3, <1>4 DEF IInv

\* Every variable has its type in every session; above all, the move on record is the answer to
\* a search this process was asked for, and the engine is initialized as long as it has a process.
THEOREM TypeCorrect == Spec => []TypeOK
  <1>1. IInv => TypeOK
    BY DEF IInv
  <1> QED BY InitIInv, NextIInv, <1>1, PTL DEF Spec

\* UciEngine::isready: the readyok it takes is the answer to its own ping, up to as many as have
\* failed since the last answer to a "go"; and UciEngine::go is only called of a process that has
\* said uciok and has answered in this game to ucinewgame.
THEOREM PingsStayInStep == Spec => []AnswersInStep
  <1>1. IInv => AnswersInStep
    BY DEF IInv, InStep, Pinging, Greets, AnswersInStep
  <1> QED BY InitIInv, NextIInv, <1>1, PTL DEF Spec

\* Match::playMove: the first line that begins with bestmove answers the "go" of this move, if the
\* engine stops when told to, no clock forgives a missing answer and no ping has failed since.
THEOREM MoveAnswersItsGo == Spec => []MoveIsFresh
  <1>1. IInv => MoveIsFresh
    BY DEF IInv, Fresh, Good, MoveIsFresh
  <1> QED BY InitIInv, NextIInv, <1>1, PTL DEF Spec
=============================================================================

-------------------------- MODULE Dialogue_proofs ---------------------------
(***************************************************************************)
(* Proofs about the dialogue with an engine, for any set of setups: what   *)
(* the engine is told of the game, which score is taken from what it       *)
(* writes, what the EPD file gets, and the options it holds.               *)
(*                                                                         *)
(* RecordInv ties the record of the game to the board: every move of the   *)
(* record but an illegal last one is on the line, in order. With it go     *)
(* what the opening of a book is (ReadPgn is a fold, so the induction is   *)
(* over the tokens) and the score as the text of the lines finds it        *)
(* against the score as their numbers do.                                  *)
(*                                                                         *)
(* OptionsInv says it of every moment of refreshUci: an option holds the   *)
(* last of the values sent so far that suits it, or its default. LastValue *)
(* then says that sending Threads first does not change which value that   *)
(* is.                                                                     *)
(***************************************************************************)
EXTENDS Dialogue, FiniteSetTheorems, NaturalsInduction, WellFoundedInduction, TLAPS

\* Induction over the numbers, as the least element of what is left out.
LEMMA NatSetInduction ==
  ASSUME NEW T, 0 \in T, \A n \in Nat : n \in T => n + 1 \in T
  PROVE  Nat \subseteq T
  <1> SUFFICES ASSUME Nat \ T # {} PROVE FALSE
    OBVIOUS
  <1> DEFINE R == OpToRel(<, Nat)
  <1>1. IsWellFoundedOn(R, Nat)
    BY NatLessThanWellFounded
  <1>2. \A i, j \in Nat : i < j => <<i, j>> \in R
    BY DEF OpToRel
  <1> HIDE DEF R
  <1>3. PICK m \in Nat \ T : \A n \in Nat \ T : ~(<<n, m>> \in R)
    <2>1. Nat \ T \subseteq Nat
      OBVIOUS
    <2> QED BY <1>1, <2>1, WFMin
  <1>4. m # 0 /\ m - 1 \in Nat /\ m - 1 < m
    BY <1>3
  <1>5. m - 1 \notin T
    BY <1>3, <1>4
  <1>6. <<m - 1, m>> \in R
    BY <1>2, <1>3, <1>4
  <1>7. m - 1 \in Nat \ T
    BY <1>4, <1>5
  <1> QED BY <1>3, <1>6, <1>7

\* The ends of a finite set of numbers.
LEMMA MaxFacts ==
  ASSUME NEW n \in Nat, NEW S \in SUBSET (1..n), S # {}
  PROVE  Max(S) \in S /\ \A i \in S : i <= Max(S)
  <1> DEFINE Has(X) == \E i \in X : \A j \in X : j <= i
             T == {m \in Nat : \A X \in SUBSET (1..m) : X # {} => Has(X)}
  <1>1. 0 \in T
    <2>1. \A X \in SUBSET (1..0) : X = {}
      OBVIOUS
    <2> QED BY <2>1
  <1>2. ASSUME NEW m \in Nat, m \in T PROVE m + 1 \in T
    <2> SUFFICES ASSUME NEW X \in SUBSET (1..(m + 1)), X # {} PROVE Has(X)
      OBVIOUS
    <2>1. CASE m + 1 \in X
      <3>1. \A j \in X : j <= m + 1
        OBVIOUS
      <3> QED BY <2>1, <3>1
    <2>2. CASE m + 1 \notin X
      <3>1. X \in SUBSET (1..m)
        BY <2>2
      <3> QED BY <3>1, <1>2
    <2> QED BY <2>1, <2>2
  <1>3. n \in T
    <2> HIDE DEF T
    <2> QED BY <1>1, <1>2, NatSetInduction
  <1>4. PICK i \in S : \A j \in S : j <= i
    BY <1>3
  <1>5. \A j \in S : i >= j
    BY <1>4
  <1> QED BY <1>4, <1>5 DEF Max

LEMMA MinFacts ==
  ASSUME NEW n \in Nat, NEW S \in SUBSET (1..n), S # {}
  PROVE  Min(S) \in S /\ \A i \in S : Min(S) <= i
  <1> DEFINE R == {n + 1 - i : i \in S}
  <1>1. R \in SUBSET (1..n) /\ R # {}
    <2>1. \A i \in S : n + 1 - i \in 1..n
      OBVIOUS
    <2> QED BY <2>1
  <1>2. Max(R) \in R /\ \A j \in R : j <= Max(R)
    BY <1>1, MaxFacts
  <1>3. PICK i \in S : Max(R) = n + 1 - i
    BY <1>2
  <1>4. \A k \in S : i <= k
    <2> SUFFICES ASSUME NEW k \in S PROVE i <= k
      OBVIOUS
    <2>1. n + 1 - k <= n + 1 - i
      BY <1>2, <1>3
    <2> QED BY <2>1
  <1> QED BY <1>4 DEF Min

-----------------------------------------------------------------------------
(* Sequences.                                                              *)

LEMMA AnySeq == ASSUME NEW T, NEW s \in Seq(T) PROVE IsSeq(s)
  BY DEF IsSeq, ToSet

LEMMA AppendFacts ==
  ASSUME NEW s, IsSeq(s), NEW x
  PROVE  /\ IsSeq(Append(s, x))
         /\ Len(Append(s, x)) = Len(s) + 1
         /\ DOMAIN Append(s, x) = 1..(Len(s) + 1)
         /\ \A i \in 1..Len(s) : Append(s, x)[i] = s[i]
         /\ Append(s, x)[Len(s) + 1] = x
         /\ Front(Append(s, x)) = s
         /\ Last(Append(s, x)) = x
  <1> DEFINE T == ToSet(s) \cup {x}
  <1>1. s \in Seq(T) /\ x \in T
    BY DEF IsSeq
  <1>2. Append(s, x) \in Seq(T) /\ Len(Append(s, x)) = Len(s) + 1 /\ Len(s) \in Nat
    BY <1>1
  <1>3. \A i \in 1..Len(s) : Append(s, x)[i] = s[i]
    BY <1>1
  <1>4. Append(s, x)[Len(s) + 1] = x
    BY <1>1
  <1>5. Front(Append(s, x)) = s
    <2>1. Front(Append(s, x)) = SubSeq(Append(s, x), 1, Len(s))
      BY <1>2 DEF Front
    <2>2. SubSeq(Append(s, x), 1, Len(s)) = [i \in 1..Len(s) |-> Append(s, x)[i]]
      BY <1>2
    <2> QED BY <1>1, <1>3, <2>1, <2>2
  <1> HIDE DEF T
  <1>6. IsSeq(Append(s, x))
    BY <1>2, AnySeq
  <1>7. DOMAIN Append(s, x) = 1..(Len(s) + 1)
    BY <1>2
  <1>8. Last(Append(s, x)) = x
    BY <1>2, <1>4 DEF Last
  <1> QED BY <1>2, <1>3, <1>4, <1>5, <1>6, <1>7, <1>8

LEMMA LineOfFacts ==
  ASSUME NEW s, IsSeq(s)
  PROVE  /\ IsSeq(LineOf(s)) /\ Len(LineOf(s)) = Len(s)
         /\ \A m : LineOf(Append(s, m)) = Append(LineOf(s), m.move)
  <1> DEFINE T == {s[i].move : i \in DOMAIN s}
  <1>1. s \in Seq(ToSet(s)) /\ Len(s) \in Nat /\ DOMAIN s = 1..Len(s)
    BY DEF IsSeq
  <1>2. LineOf(s) \in Seq(T) /\ Len(LineOf(s)) = Len(s) /\ DOMAIN LineOf(s) = 1..Len(s)
    BY <1>1 DEF LineOf
  <1>3. IsSeq(LineOf(s))
    <2> HIDE DEF T
    <2> QED BY <1>2, AnySeq
  <1>4. ASSUME NEW m PROVE LineOf(Append(s, m)) = Append(LineOf(s), m.move)
    <2> DEFINE a == Append(s, m)
               b == Append(LineOf(s), m.move)
    <2>1. DOMAIN a = 1..(Len(s) + 1) /\ (\A i \in 1..Len(s) : a[i] = s[i]) /\ a[Len(s) + 1] = m
      BY AppendFacts
    <2>2. /\ DOMAIN b = 1..(Len(s) + 1) /\ IsSeq(b)
          /\ \A i \in 1..Len(s) : b[i] = LineOf(s)[i]
          /\ b[Len(s) + 1] = m.move
      BY <1>2, <1>3, AppendFacts
    <2>3. \A i \in 1..Len(s) : LineOf(s)[i] = s[i].move
      BY <1>1 DEF LineOf
    <2>4. LineOf(a) = [i \in 1..(Len(s) + 1) |-> a[i].move]
      BY <2>1 DEF LineOf
    <2>5. b = [i \in 1..(Len(s) + 1) |-> b[i]]
      BY <2>2 DEF IsSeq
    <2>6. \A i \in 1..(Len(s) + 1) : a[i].move = b[i]
      <3> SUFFICES ASSUME NEW i \in 1..(Len(s) + 1) PROVE a[i].move = b[i]
        OBVIOUS
      <3>1. i \in 1..Len(s) \/ i = Len(s) + 1
        BY <1>1
      <3> HIDE DEF a, b
      <3> QED BY <2>1, <2>2, <2>3, <3>1
    <2> HIDE DEF a, b
    <2>7. LineOf(a) = b
      BY <2>4, <2>5, <2>6
    <2> QED BY <2>7 DEF a, b
  <1> QED BY <1>2, <1>3, <1>4

AllLegal(s) == \A i \in DOMAIN s : s[i].legal

LEMMA LegalPartOfLegal ==
  ASSUME NEW s, IsSeq(s), AllLegal(s) PROVE LegalPart(s) = s
  <1> DEFINE I == {i \in 1..Len(s) : ~s[i].legal}
  <1>1. DOMAIN s = 1..Len(s)
    BY DEF IsSeq
  <1>2. I = {}
    BY <1>1 DEF AllLegal
  <1>3. SelectInSeq(s, LAMBDA m : ~m.legal) = 0
    BY <1>2 DEF SelectInSeq
  <1> QED BY <1>3 DEF LegalPart

LEMMA LegalPartToIllegal ==
  ASSUME NEW s, IsSeq(s), AllLegal(s), NEW m, ~m.legal PROVE LegalPart(Append(s, m)) = s
  <1> DEFINE a == Append(s, m)
             n == Len(s)
             I == {i \in 1..Len(a) : ~a[i].legal}
  <1>1. DOMAIN s = 1..n /\ n \in Nat
    BY DEF IsSeq
  <1>2. /\ Len(a) = n + 1 /\ Front(a) = s
        /\ \A i \in 1..n : a[i] = s[i]
        /\ a[n + 1] = m
    BY AppendFacts
  <1> HIDE DEF a
  <1>3. I = {n + 1}
    <2>1. n + 1 \in I
      BY <1>1, <1>2
    <2>2. \A i \in I : i = n + 1
      BY <1>1, <1>2 DEF AllLegal
    <2> QED BY <2>1, <2>2
  <1>4. Min(I) = n + 1
    BY <1>1, <1>3 DEF Min
  <1>5. SelectInSeq(a, LAMBDA x : ~x.legal) = n + 1
    BY <1>3, <1>4 DEF SelectInSeq
  <1>6. LegalPart(a) = SubSeq(a, 1, n)
    BY <1>1, <1>5 DEF LegalPart
  <1> QED BY <1>1, <1>2, <1>6 DEF Front, a

-----------------------------------------------------------------------------
(* The opening of a book is a sequence of moves: the fold of ReadPgn.      *)

IsRead(base, sans, plies, f) ==
    f = [s \in SUBSET DOMAIN sans |->
            IF s = {} THEN base ELSE ReadMove(f[s \ {Max(s)}], sans[Max(s)], plies)]

LEMMA ReadExists ==
  ASSUME NEW sans, IsSeq(sans), NEW base, NEW plies
  PROVE  \E f : IsRead(base, sans, plies, f)
  <1> DEFINE n == Len(sans)
             D == DOMAIN sans
             Val(f, s) == IF s = {} THEN base ELSE ReadMove(f[s \ {Max(s)}], sans[Max(s)], plies)
             Below(k) == SUBSET (1..k)
             T == {k \in Nat : \E f : f = [s \in Below(k) |-> Val(f, s)]}
  <1>1. n \in Nat /\ D = 1..n
    BY DEF IsSeq
  <1>2. ASSUME NEW k \in Nat, NEW s \in Below(k + 1), s # {} PROVE s \ {Max(s)} \in Below(k)
    <2>1. k + 1 \in Nat /\ s \in SUBSET (1..(k + 1))
      OBVIOUS
    <2>2. Max(s) \in s /\ \A i \in s : i <= Max(s)
      BY <1>2, <2>1, MaxFacts
    <2>3. \A i \in s \ {Max(s)} : i \in 1..k
      <3> SUFFICES ASSUME NEW i \in s, i # Max(s) PROVE i \in 1..k
        OBVIOUS
      <3> DEFINE m == Max(s)
      <3>1. i \in 1..(k + 1) /\ m \in 1..(k + 1) /\ i <= m /\ i # m
        BY <2>1, <2>2
      <3> HIDE DEF m
      <3> QED BY <3>1
    <2> QED BY <2>3
  <1>3. 0 \in T
    <2> DEFINE f == [s \in Below(0) |-> base]
    <2>1. \A s \in Below(0) : s = {}
      OBVIOUS
    <2>2. f = [s \in Below(0) |-> Val(f, s)]
      BY <2>1
    <2> QED BY <2>2
  <1>4. ASSUME NEW k \in Nat, k \in T PROVE k + 1 \in T
    <2>1. PICK g : g = [s \in Below(k) |-> Val(g, s)]
      BY <1>4
    <2> DEFINE f == [s \in Below(k + 1) |-> IF s \in Below(k) THEN g[s] ELSE Val(g, s)]
    <2>2. Below(k) \subseteq Below(k + 1)
      OBVIOUS
    <2>3. \A s \in Below(k + 1) : s # {} => s \ {Max(s)} \in Below(k)
      BY <1>2
    <2>4. \A s \in Below(k + 1) : Val(f, s) = Val(g, s)
      BY <2>2, <2>3
    <2>5. \A s \in Below(k + 1) : f[s] = Val(g, s)
      BY <2>1
    <2>6. f = [s \in Below(k + 1) |-> Val(f, s)]
      <3> HIDE DEF Val, Below
      <3> QED BY <2>4, <2>5
    <2>7. \E h : h = [s \in Below(k + 1) |-> Val(h, s)]
      <3> HIDE DEF Val, Below, f
      <3> QED BY <2>6
    <2> HIDE DEF Val, Below, f
    <2> QED BY <2>7
  <1>5. n \in T
    <2> HIDE DEF T
    <2> QED BY <1>1, <1>3, <1>4, NatSetInduction
  <1>6. PICK f : f = [s \in Below(n) |-> Val(f, s)]
    BY <1>5
  <1> QED BY <1>1, <1>6 DEF IsRead

IsReader(T, r) == DOMAIN r = DOMAIN NewReader /\ r.moves \in Seq(T)

LEMMA ReadKeepsReader ==
  ASSUME NEW T, NEW r, IsReader(T, r), NEW move \in T, NEW plies
  PROVE  IsReader(T, ReadMove(r, move, plies))
  <1>1. DOMAIN r = {"from", "line", "moves", "count", "stopped"}
    BY DEF IsReader, NewReader
  <1>2. Append(r.moves, move) \in Seq(T)
    BY DEF IsReader
  <1> QED BY <1>1, <1>2 DEF IsReader, ReadMove

LEMMA ReadPgnSeq ==
  ASSUME NEW headers, NEW sans, IsSeq(sans), NEW plies
  PROVE  IsSeq(ReadPgn(headers, sans, plies).moves)
  <1> DEFINE T == ToSet(sans)
             base == ReadHeaders(NewReader, headers)
             S == SUBSET DOMAIN sans
             f == CHOOSE g : IsRead(base, sans, plies, g)
             K == {k \in Nat : \A s \in S : s \subseteq 1..k => IsReader(T, f[s])}
             Sum(g) == g = [s \in SUBSET DOMAIN sans |->
                               IF s = {} THEN base ELSE ReadMove(g[s \ {Max(s)}], sans[Max(s)], plies)]
  <1>1. ReadPgn(headers, sans, plies).moves = f[DOMAIN sans].moves
    <2>1. ReadPgn(headers, sans, plies).moves = ((CHOOSE g : Sum(g))[DOMAIN sans]).moves
      BY DEF ReadPgn, FoldLeft, MapThenFoldSet
    <2>2. \A g : Sum(g) <=> IsRead(base, sans, plies, g)
      BY DEF IsRead
    <2> HIDE DEF Sum
    <2>3. (CHOOSE g : Sum(g)) = f
      BY <2>2
    <2> QED BY <2>1, <2>3
  <1>2. IsRead(base, sans, plies, f)
    BY ReadExists
  <1>3. \A s \in S : f[s] = IF s = {} THEN base ELSE ReadMove(f[s \ {Max(s)}], sans[Max(s)], plies)
    <2> HIDE DEF f, base
    <2> QED BY <1>2 DEF IsRead
  <1>4. Len(sans) \in Nat /\ DOMAIN sans = 1..Len(sans)
    BY DEF IsSeq
  <1>5. IsReader(T, base)
    <2>1. DOMAIN base = DOMAIN NewReader /\ base.moves = <<>>
      BY DEF ReadHeaders, NewReader
    <2> QED BY <2>1 DEF IsReader
  <1> HIDE DEF f, base, T
  <1>6. 0 \in K
    <2>1. \A s \in S : s \subseteq 1..0 => s = {}
      OBVIOUS
    <2> QED BY <1>3, <1>5, <2>1
  <1>7. ASSUME NEW k \in Nat, k \in K PROVE k + 1 \in K
    <2> SUFFICES ASSUME NEW s \in S, s \subseteq 1..(k + 1) PROVE IsReader(T, f[s])
      OBVIOUS
    <2>e. CASE s = {}
      BY <1>3, <1>5, <2>e
    <2> SUFFICES ASSUME s # {} PROVE IsReader(T, f[s])
      BY <2>e
    <2>0. k + 1 \in Nat
      OBVIOUS
    <2>1. Max(s) \in s /\ \A i \in s : i <= Max(s)
      BY <2>0, MaxFacts
    <2>2. s \ {Max(s)} \in S /\ s \ {Max(s)} \subseteq 1..k
      <3> SUFFICES ASSUME NEW i \in s, i # Max(s) PROVE i \in 1..k
        OBVIOUS
      <3> DEFINE m == Max(s)
      <3>1. i \in 1..(k + 1) /\ m \in 1..(k + 1) /\ i <= m /\ i # m
        BY <2>1
      <3> HIDE DEF m
      <3> QED BY <3>1
    <2>3. IsReader(T, f[s \ {Max(s)}])
      BY <1>7, <2>2
    <2>4. sans[Max(s)] \in T
      BY <2>1 DEF T, ToSet
    <2> QED BY <1>3, <2>3, <2>4, ReadKeepsReader
  <1>8. Len(sans) \in K
    <2> HIDE DEF K
    <2> QED BY <1>4, <1>6, <1>7, NatSetInduction
  <1>9. IsReader(T, f[DOMAIN sans])
    BY <1>4, <1>8
  <1> QED BY <1>1, <1>9, AnySeq DEF IsReader

-----------------------------------------------------------------------------
(* The score of a search.                                                  *)

LEMMA LastWhere ==
  ASSUME NEW n \in Nat, NEW I \in SUBSET (1..n), I # {}
  PROVE  LastOf(I) = Max(I) /\ Max(I) \in I
  <1>1. Max(I) \in I /\ \A i \in I : i <= Max(I)
    BY MaxFacts
  <1> DEFINE m == Max(I)
  <1>2. \A i \in I : (\A j \in I : j <= i) => i = m
    <2> SUFFICES ASSUME NEW i \in I, \A j \in I : j <= i PROVE i = m
      OBVIOUS
    <2>1. m <= i /\ i <= m /\ i \in 1..n /\ m \in 1..n
      BY <1>1
    <2> HIDE DEF m
    <2> QED BY <2>1
  <1> HIDE DEF m
  <1>3. LastOf(I) = m
    BY <1>1, <1>2 DEF LastOf, m
  <1> QED BY <1>1, <1>3 DEF m

\* The last line of the first variation, by its text and by its number.
ExactLines(output) == {i \in 1..Len(output) : Scored(output[i]) /\ FirstPvByText(output[i]) /\ ~output[i].bound}
FirstLines(output) == {i \in 1..Len(output) : Scored(output[i]) /\ FirstPvByText(output[i])}

LEMMA LastScoreFacts ==
  ASSUME NEW output, IsSeq(output)
  PROVE  LastScore(output) = IF ExactLines(output) # {} THEN ScoreOf(output[Max(ExactLines(output))])
                             ELSE IF FirstLines(output) # {} THEN ScoreOf(output[Max(FirstLines(output))])
                             ELSE Absent
  <1> DEFINE E == ExactLines(output)
             F == FirstLines(output)
             Found(I) == IF I # {} THEN Max(I) ELSE 0
  <1>1. Len(output) \in Nat /\ E \in SUBSET (1..Len(output)) /\ F \in SUBSET (1..Len(output))
    BY DEF IsSeq, ExactLines, FirstLines
  <1>2. SelectLastInSeq(output, LAMBDA l : Scored(l) /\ FirstPvByText(l) /\ ~l.bound) = Found(E)
    BY DEF SelectLastInSeq, ExactLines
  <1>3. SelectLastInSeq(output, LAMBDA l : Scored(l) /\ FirstPvByText(l)) = Found(F)
    BY DEF SelectLastInSeq, FirstLines
  <1>4. LastInfoLine(output) = IF Found(E) # 0 THEN Found(E) ELSE Found(F)
    BY <1>2, <1>3 DEF LastInfoLine
  <1>5. \A I \in SUBSET (1..Len(output)) : I # {} => Max(I) \in 1..Len(output)
    BY <1>1, MaxFacts
  <1> HIDE DEF E, F
  <1>6. LastInfoLine(output) = IF E # {} THEN Max(E) ELSE IF F # {} THEN Max(F) ELSE 0
    BY <1>1, <1>4, <1>5
  <1>7. (E # {} => Max(E) # 0) /\ (F # {} => Max(F) # 0)
    BY <1>1, <1>5
  <1> QED BY <1>6, <1>7 DEF LastScore, E, F

PvsIn(output, bounds) ==
    {i \in DOMAIN output : Scored(output[i]) /\ FirstPv(output[i]) /\ output[i].bound \in bounds}
Few(output) == \A i \in DOMAIN output : output[i].multipv = Absent \/ output[i].multipv \in 1..9
IsOutput(output) == IsSeq(output) /\ \A i \in DOMAIN output : output[i].bound \in BOOLEAN

LEMMA ScoreByNumber ==
  ASSUME NEW output, IsOutput(output), Few(output)
  PROVE  LastScore(output) =
            CASE PvsIn(output, {FALSE}) # {} -> ScoreOf(output[LastOf(PvsIn(output, {FALSE}))])
              [] PvsIn(output, {FALSE}) = {} /\ PvsIn(output, {TRUE}) # {} ->
                    ScoreOf(output[LastOf(PvsIn(output, {TRUE}))])
              [] OTHER -> Absent
  <1> DEFINE E == PvsIn(output, {FALSE})
             B == PvsIn(output, {TRUE})
  <1>1. Len(output) \in Nat /\ DOMAIN output = 1..Len(output)
    BY DEF IsOutput, IsSeq
  <1>2. \A i \in DOMAIN output : FirstPvByText(output[i]) <=> FirstPv(output[i])
    <2> SUFFICES ASSUME NEW i \in DOMAIN output, output[i].multipv # Absent
                 PROVE  FirstPvByText(output[i]) <=> FirstPv(output[i])
      BY DEF FirstPvByText, FirstPv
    <2>1. output[i].multipv \in 1..9
      BY DEF Few
    <2> QED BY <2>1 DEF FirstPvByText, FirstPv, FirstDigit
  <1>3. ExactLines(output) = E
    BY <1>1, <1>2 DEF ExactLines, PvsIn, IsOutput
  <1>4. E = {} => FirstLines(output) = B
    BY <1>1, <1>2 DEF FirstLines, PvsIn, IsOutput
  <1>5. E \in SUBSET (1..Len(output)) /\ B \in SUBSET (1..Len(output))
    BY <1>1 DEF PvsIn
  <1> HIDE DEF E, B
  <1>6. (E # {} => LastOf(E) = Max(E)) /\ (B # {} => LastOf(B) = Max(B))
    BY <1>1, <1>5, LastWhere
  <1>7. LastScore(output) = IF E # {} THEN ScoreOf(output[LastOf(E)])
                            ELSE IF B # {} THEN ScoreOf(output[LastOf(B)]) ELSE Absent
    BY <1>3, <1>4, <1>6, LastScoreFacts DEF IsOutput
  <1> QED BY <1>7 DEF E, B

\* What is recorded of a search that gave a move is its last score.
LEMMA RecordedScore ==
  ASSUME NEW output, IsSeq(output), BestMove(output) \in UciMoves, NEW legal \in BOOLEAN
  PROVE  LET data == MoveData(output, BestMove(output), legal) IN
            data.move = BestMove(output) /\ ~data.book /\ (data.legal <=> legal) /\ data.score = LastScore(output)
  <1> DEFINE n == Len(output)
             i == LastInfoLine(output)
  <1>1. n \in Nat /\ DOMAIN output = 1..n
    BY DEF IsSeq
  <1>2. output # <<>> /\ output[n].word = "bestmove"
    BY AbsentAssumption DEF BestMove, Last
  <1>3. n = 1 => ExactLines(output) = {} /\ FirstLines(output) = {}
    <2> SUFFICES ASSUME n = 1 PROVE ~Scored(output[1])
      BY DEF ExactLines, FirstLines
    <2> QED BY <1>2 DEF Scored, Searching
  <1>4. n # 0
    BY <1>2 DEF IsSeq
  <1>5. LastScore(output) = IF i = 0 THEN Absent ELSE ScoreOf(output[i])
    BY DEF LastScore
  <1>6. n <= 1 => LastScore(output) = Absent
    BY <1>1, <1>3, <1>4, LastScoreFacts
  <1> HIDE DEF i, n
  <1>7. \A d, m : d = [NoInfo EXCEPT !.move = m, !.legal = legal] =>
            /\ d.move = m /\ ~d.book /\ (d.legal <=> legal) /\ d.score = Absent
            /\ DOMAIN d = {"move", "book", "legal", "score"}
    BY DEF NoInfo
  <1>8. n <= 1 \/ ~(n <= 1)
    OBVIOUS
  <1> DEFINE base == [NoInfo EXCEPT !.move = BestMove(output), !.legal = legal]
             data == MoveData(output, BestMove(output), legal)
  <1>9. data = IF n <= 1 \/ i = 0 THEN base ELSE [base EXCEPT !.score = ScoreOf(output[i])]
    BY DEF MoveData, i, n
  <1>10. /\ base.move = BestMove(output) /\ ~base.book /\ (base.legal <=> legal) /\ base.score = Absent
         /\ DOMAIN base = {"move", "book", "legal", "score"}
    <2> HIDE DEF data
    <2> QED BY <1>7
  <1> HIDE DEF base
  <1>11. data.move = BestMove(output) /\ ~data.book /\ (data.legal <=> legal) /\ data.score = LastScore(output)
    <2> HIDE DEF data
    <2> QED BY <1>5, <1>6, <1>8, <1>9, <1>10
  <1> QED BY <1>11

-----------------------------------------------------------------------------
(* The record of the game and the board.                                   *)

Phases == {"idle", "uciok", "refresh", "turn", "over"}
AllBook(s) == \A i \in DOMAIN s : s[i].book
EpdOfLine ==
    \/ Epd(moves) = line
    \/ reason = "time" /\ Len(moves) > Len(line) /\ Front(Epd(moves)) = line

RecordInv ==
    /\ setup \in Setups /\ phase \in Phases
    /\ IsSeq(line) /\ IsSeq(moves)
    /\ phase \notin {"idle", "over"} => LineOf(moves) = line /\ AllLegal(moves)
    /\ phase \in {"uciok", "refresh"} => AllBook(moves)
    /\ phase = "over" => EpdOfLine
    /\ ToldIsPlayed /\ ScoreIsOfFirstPv

LEMMA InitRecordInv == Init => RecordInv
  <1> SUFFICES ASSUME Init PROVE RecordInv
    OBVIOUS
  <1>1. IsSeq(<<>>)
    BY DEF IsSeq
  <1> QED BY <1>1 DEF Init, RecordInv, Phases, ToldIsPlayed, ScoreIsOfFirstPv, JustMoved

\* With no illegal move the EPD is the line of the board.
LEMMA EpdOfLegal ==
  ASSUME NEW s, IsSeq(s), AllLegal(s) PROVE Epd(s) = LineOf(s)
  BY LegalPartOfLegal DEF Epd

LEMMA BookRecord ==
  ASSUME NEW l, IsSeq(l)
  PROVE  LET m == [i \in DOMAIN l |-> BookMove(l[i])]
         IN IsSeq(m) /\ LineOf(m) = l /\ AllLegal(m) /\ AllBook(m)
  <1> DEFINE m == [i \in DOMAIN l |-> BookMove(l[i])]
             T == {BookMove(l[i]) : i \in DOMAIN l}
  <1>1. \A x : BookMove(x).move = x /\ BookMove(x).legal /\ BookMove(x).book
    BY DEF BookMove, NoInfo
  <1>2. Len(l) \in Nat /\ DOMAIN l = 1..Len(l) /\ l = [i \in 1..Len(l) |-> l[i]]
    BY DEF IsSeq
  <1>3. DOMAIN m = DOMAIN l /\ \A i \in DOMAIN l : m[i] = BookMove(l[i])
    OBVIOUS
  <1>4. IsSeq(m)
    <2>1. m \in Seq(T)
      BY <1>2
    <2> HIDE DEF m, T
    <2> QED BY <2>1, AnySeq
  <1> HIDE DEF m
  <1>5. LineOf(m) = l
    BY <1>1, <1>2, <1>3 DEF LineOf
  <1>6. AllLegal(m) /\ AllBook(m)
    BY <1>1, <1>3 DEF AllLegal, AllBook
  <1> QED BY <1>4, <1>5, <1>6 DEF m

LEMMA LastOfBook == ASSUME NEW s, IsSeq(s), AllBook(s), s # <<>> PROVE Last(s).book
  <1>1. Len(s) \in DOMAIN s
    BY DEF IsSeq
  <1> QED BY <1>1 DEF AllBook, Last

LEMMA KeepsRecord ==
  ASSUME RecordInv, UNCHANGED <<setup, game>>,
         \/ phase' = phase
         \/ phase' = "idle"
         \/ phase \in {"uciok", "refresh"} /\ phase' \in {"uciok", "refresh"}
         \/ phase \in {"uciok", "refresh", "turn"} /\ phase' = "over"
  PROVE  RecordInv'
  <1> USE DEF RecordInv, game
  <1>1. setup' \in Setups /\ phase' \in Phases /\ IsSeq(line') /\ IsSeq(moves')
    BY DEF Phases
  <1>2. phase' \notin {"idle", "over"} => LineOf(moves') = line' /\ AllLegal(moves')
    OBVIOUS
  <1>3. phase' \in {"uciok", "refresh"} => AllBook(moves')
    OBVIOUS
  <1>4. phase' = "over" => EpdOfLine'
    <2>1. CASE phase = "over"
      BY <2>1 DEF EpdOfLine
    <2>2. CASE phase # "over" /\ phase' = "over"
      BY <2>2, EpdOfLegal DEF EpdOfLine
    <2> QED BY <2>1, <2>2
  <1>5. ToldIsPlayed' /\ ScoreIsOfFirstPv'
    <2>1. CASE phase' # "turn"
      BY <2>1 DEF ToldIsPlayed, ScoreIsOfFirstPv, JustMoved
    <2>2. CASE phase' = phase
      BY <2>2 DEF ToldIsPlayed, ScoreIsOfFirstPv, JustMoved, FewVariations, FirstPvs, FromStart
    <2> QED BY <2>1, <2>2
  <1> QED BY <1>1, <1>2, <1>3, <1>4, <1>5

LEMMA BeginGameRecord == ASSUME RecordInv, BeginGame PROVE RecordInv'
  <1>1. IsSeq(line')
    <2>1. IsSeq(setup.book)
      BY SetupsAssumption DEF RecordInv, IsSetup
    <2> QED BY <2>1, ReadPgnSeq DEF BeginGame
  <1>2. moves' = [i \in DOMAIN line' |-> BookMove(line'[i])] /\ setup' = setup /\ phase' \in {"refresh", "uciok"}
    BY DEF BeginGame
  <1>3. IsSeq(moves') /\ LineOf(moves') = line' /\ AllLegal(moves') /\ AllBook(moves')
    BY <1>1, <1>2, BookRecord
  <1> QED BY <1>1, <1>2, <1>3
          DEF RecordInv, Phases, ToldIsPlayed, ScoreIsOfFirstPv, JustMoved, EpdOfLine

LEMMA NewGameRecord == ASSUME RecordInv, NewGame PROVE RecordInv'
  <1>1. phase' \in {"turn", "over"} /\ UNCHANGED <<setup, line, moves, told, lines, judged>> /\ AllBook(moves)
        /\ LineOf(moves) = line /\ AllLegal(moves) /\ IsSeq(moves) /\ IsSeq(line) /\ setup \in Setups
    BY DEF NewGame, RecordInv
  <1>2. moves # <<>> => Last(moves).book
    BY <1>1, LastOfBook
  <1>3. Epd(moves) = line
    BY <1>1, EpdOfLegal
  <1> QED BY <1>1, <1>2, <1>3 DEF RecordInv, Phases, ToldIsPlayed, ScoreIsOfFirstPv, JustMoved, EpdOfLine

LEMMA EndGameRecord == ASSUME RecordInv, EndGame PROVE RecordInv'
  <1>1. phase' = "over" /\ UNCHANGED <<setup, line, moves>>
        /\ LineOf(moves) = line /\ AllLegal(moves) /\ IsSeq(moves) /\ IsSeq(line) /\ setup \in Setups
    BY DEF EndGame, RecordInv
  <1>2. Epd(moves) = line
    BY <1>1, EpdOfLegal
  <1> QED BY <1>1, <1>2 DEF RecordInv, Phases, ToldIsPlayed, ScoreIsOfFirstPv, JustMoved, EpdOfLine

LEMMA NoMoveRecord == ASSUME RecordInv, NoMove PROVE RecordInv'
  <1>1. phase' = "over" /\ UNCHANGED <<setup, line, moves>>
        /\ LineOf(moves) = line /\ AllLegal(moves) /\ IsSeq(moves) /\ IsSeq(line) /\ setup \in Setups
    BY DEF NoMove, Searches, RecordInv
  <1>2. Epd(moves) = line
    BY <1>1, EpdOfLegal
  <1> QED BY <1>1, <1>2 DEF RecordInv, Phases, ToldIsPlayed, ScoreIsOfFirstPv, JustMoved, EpdOfLine

LEMMA MoveDataLegal ==
  ASSUME NEW output, NEW best, NEW legal \in BOOLEAN
  PROVE  MoveData(output, best, legal).legal <=> legal
  BY DEF MoveData, NoInfo

LEMMA IllegalMoveRecord == ASSUME RecordInv, IllegalMove PROVE RecordInv'
  <1>1. PICK output \in setup.outputs : Searches(output) /\ Records(output, FALSE)
    BY DEF IllegalMove
  <1> DEFINE data == MoveData(output, BestMove(output), FALSE)
  <1>2. phase' = "over" /\ UNCHANGED <<setup, line>> /\ moves' = Append(moves, data)
        /\ LineOf(moves) = line /\ AllLegal(moves) /\ IsSeq(moves) /\ IsSeq(line) /\ setup \in Setups
    BY <1>1 DEF IllegalMove, Searches, Records, RecordInv
  <1>3. ~data.legal
    BY MoveDataLegal
  <1> HIDE DEF data
  <1>4. IsSeq(moves') /\ Epd(moves') = line
    BY <1>2, <1>3, AppendFacts, LegalPartToIllegal DEF Epd
  <1> QED BY <1>2, <1>4 DEF RecordInv, Phases, ToldIsPlayed, ScoreIsOfFirstPv, JustMoved, EpdOfLine

\* A legal move becomes the last of the record.
LEMMA LegalRecord ==
  ASSUME NEW s, IsSeq(s), AllLegal(s), NEW data, data.legal
  PROVE  LET a == Append(s, data) IN
            IsSeq(a) /\ AllLegal(a) /\ LineOf(a) = Append(LineOf(s), data.move) /\ Len(a) = Len(s) + 1
  <1> DEFINE a == Append(s, data)
  <1>1. DOMAIN s = 1..Len(s) /\ Len(s) \in Nat
    BY DEF IsSeq
  <1>2. /\ IsSeq(a) /\ Len(a) = Len(s) + 1 /\ DOMAIN a = 1..(Len(s) + 1)
        /\ \A i \in 1..Len(s) : a[i] = s[i]
        /\ a[Len(s) + 1] = data
    BY AppendFacts
  <1>3. LineOf(a) = Append(LineOf(s), data.move)
    BY LineOfFacts
  <1> HIDE DEF a
  <1>4. AllLegal(a)
    <2> SUFFICES ASSUME NEW i \in 1..(Len(s) + 1) PROVE a[i].legal
      BY <1>2 DEF AllLegal
    <2>1. i \in 1..Len(s) \/ i = Len(s) + 1
      BY <1>1
    <2> QED BY <1>1, <1>2, <2>1 DEF AllLegal
  <1> QED BY <1>2, <1>3, <1>4 DEF a

LEMMA LateMoveRecord == ASSUME RecordInv, LateMove PROVE RecordInv'
  <1>1. PICK output \in setup.outputs : Searches(output) /\ Records(output, TRUE)
    BY DEF LateMove
  <1> DEFINE data == MoveData(output, BestMove(output), TRUE)
  <1>2. phase' = "over" /\ reason' = "time" /\ UNCHANGED <<setup, line>> /\ moves' = Append(moves, data)
        /\ LineOf(moves) = line /\ AllLegal(moves) /\ IsSeq(moves) /\ IsSeq(line) /\ setup \in Setups
    BY <1>1 DEF LateMove, Searches, Records, RecordInv
  <1>3. data.legal
    BY MoveDataLegal
  <1> HIDE DEF data
  <1>4. IsSeq(moves') /\ AllLegal(moves') /\ LineOf(moves') = Append(line, data.move) /\ Len(moves') = Len(moves) + 1
    BY <1>2, <1>3, LegalRecord
  <1>5. Epd(moves') = Append(line, data.move)
    BY <1>4, EpdOfLegal
  <1>6. Front(Epd(moves')) = line
    BY <1>2, <1>5, AppendFacts
  <1>7. Len(moves') > Len(line)
    <2>1. Len(line) = Len(moves) /\ Len(moves) \in Nat
      BY <1>2, LineOfFacts DEF IsSeq
    <2> QED BY <1>4, <2>1
  <1> QED BY <1>2, <1>4, <1>6, <1>7 DEF RecordInv, Phases, ToldIsPlayed, ScoreIsOfFirstPv, JustMoved, EpdOfLine

LEMMA PlayMoveRecord == ASSUME RecordInv, PlayMove PROVE RecordInv'
  <1>1. PICK output \in setup.outputs :
           /\ Searches(output) /\ IsLegal(BestMove(output))
           /\ moves' = Append(moves, MoveData(output, BestMove(output), TRUE))
           /\ line' = Append(line, BestMove(output))
           /\ judged' = LastScore(output)
           /\ UNCHANGED <<phase, reason>>
    BY DEF PlayMove
  <1> DEFINE best == BestMove(output)
             data == MoveData(output, best, TRUE)
  <1>2. phase = "turn" /\ setup' = setup /\ lines' = output /\ told' = Position(setup.start, moves)
        /\ LineOf(moves) = line /\ AllLegal(moves) /\ IsSeq(moves) /\ IsSeq(line) /\ setup \in Setups
    BY <1>1 DEF Searches, RecordInv
  <1>3. IsOutput(output)
    BY <1>2, SetupsAssumption DEF IsSetup, IsOutput
  <1>4. data.move = best /\ ~data.book /\ data.legal /\ data.score = LastScore(output)
    BY <1>1, <1>3, RecordedScore DEF IsOutput, IsLegal
  <1>5. moves' = Append(moves, data) /\ line' = Append(line, best) /\ phase' = "turn"
    BY <1>1, <1>2
  <1> HIDE DEF data, best
  <1>6. IsSeq(moves') /\ AllLegal(moves') /\ LineOf(moves') = line'
    BY <1>2, <1>4, <1>5, LegalRecord
  <1>7. IsSeq(line') /\ Front(line') = line /\ Last(moves') = data
    BY <1>2, <1>5, AppendFacts
  <1>8. ToldIsPlayed'
    <2>1. FromStart' = Position(setup.start, moves)
      BY <1>2, <1>7 DEF FromStart, Position
    <2> QED BY <1>2, <2>1 DEF ToldIsPlayed
  <1>9. ScoreIsOfFirstPv'
    <2> SUFFICES ASSUME FewVariations'
                 PROVE  /\ judged' = Last(moves').score
                        /\ judged' = CASE FirstPvs({FALSE})' # {} -> ScoreOf(lines'[LastOf(FirstPvs({FALSE})')])
                             [] FirstPvs({FALSE})' = {} /\ FirstPvs({TRUE})' # {} ->
                                   ScoreOf(lines'[LastOf(FirstPvs({TRUE})')])
                             [] OTHER -> Absent
      BY DEF ScoreIsOfFirstPv
    <2>1. Few(output)
      BY <1>2 DEF FewVariations, Few
    <2>2. FirstPvs({FALSE})' = PvsIn(output, {FALSE}) /\ FirstPvs({TRUE})' = PvsIn(output, {TRUE})
      BY <1>2 DEF FirstPvs, PvsIn
    <2>3. judged' = Last(moves').score
      BY <1>1, <1>4, <1>7
    <2> QED BY <1>1, <1>2, <1>3, <2>1, <2>2, <2>3, ScoreByNumber
  <1> QED BY <1>2, <1>5, <1>6, <1>7, <1>8, <1>9 DEF RecordInv, Phases

LEMMA NextRecordInv == ASSUME RecordInv, [Next]_vars PROVE RecordInv'
  <1>1. CASE BeginGame BY <1>1, BeginGameRecord
  <1>2. CASE ParseLine BY <1>2, KeepsRecord DEF ParseLine
  <1>3. CASE AllParsed BY <1>3, KeepsRecord DEF AllParsed
  <1>4. CASE SendOption BY <1>4, KeepsRecord DEF SendOption
  <1>5. CASE NewGame BY <1>5, NewGameRecord
  <1>6. CASE EngineDies BY <1>6, KeepsRecord DEF EngineDies
  <1>7. CASE EndGame BY <1>7, EndGameRecord
  <1>8. CASE NoMove BY <1>8, NoMoveRecord
  <1>9. CASE IllegalMove BY <1>9, IllegalMoveRecord
  <1>10. CASE LateMove BY <1>10, LateMoveRecord
  <1>11. CASE PlayMove BY <1>11, PlayMoveRecord
  <1>12. CASE Return BY <1>12, KeepsRecord DEF Return
  <1>13. CASE UNCHANGED vars BY <1>13, KeepsRecord DEF vars
  <1> QED BY <1>1, <1>2, <1>3, <1>4, <1>5, <1>6, <1>7, <1>8, <1>9, <1>10, <1>11, <1>12, <1>13 DEF Next

\* At every moment the record of the game is the line of the board, in order, up to an
\* illegal last move; what the engine was told, its score and the EPD follow from that.
THEOREM RecordInvariance == Spec => []RecordInv
  BY InitRecordInv, NextRecordInv, PTL DEF Spec

\* The score playMove records and judges by is that of the last exact line of the first
\* variation, else of its last bound, for engines that show fewer than ten variations.
THEOREM ScoreIsTrue == Spec => []ScoreIsOfFirstPv
  <1>1. RecordInv => ScoreIsOfFirstPv
    BY DEF RecordInv
  <1> QED BY <1>1, RecordInvariance, PTL

\* "position" names the start of the game and the moves that were made, from the opening
\* and from both engines, and no other: whatever the openings and the outputs are.
THEOREM EngineIsToldTheGame == Spec => []ToldIsPlayed
  <1>1. RecordInv => ToldIsPlayed
    BY DEF RecordInv
  <1> QED BY <1>1, RecordInvariance, PTL

\* The EPD written after a game is of its last position, or, when a move came too late, of
\* the position that move would have led to.
THEOREM EpdIsTheGame == Spec => []EpdIsPlayed
  <1>1. RecordInv => EpdIsPlayed
    BY DEF RecordInv, EpdIsPlayed, Written, EpdOfLine
  <1> QED BY <1>1, RecordInvariance, PTL

-----------------------------------------------------------------------------
(* What is sent.                                                           *)

LinesIn(s) == {l \in ToSet(s.declared) : l.type \in Types}
DeclaredIn(s, name) == CHOOSE l \in LinesIn(s) : l.name = name
Sending(s) == OrderOfSending(s.configured, s.start.frc)
GivenIn(s) == s.configured \o Chess960(s.start.frc)

\* The values among the first k that are sent which suit an option, and those the user gave.
Sent(s, k, option) == {n \in 1..k : Sending(s)[n] # Skipped /\ Suits(Sending(s)[n], option)}
ValidIn(s, option) == {n \in DOMAIN GivenIn(s) : Suits(GivenIn(s)[n], option)}

LEMMA ConcatFacts ==
  ASSUME NEW T, NEW a \in Seq(T), NEW b \in Seq(T)
  PROVE  /\ a \o b \in Seq(T) /\ Len(a \o b) = Len(a) + Len(b)
         /\ \A n \in 1..Len(a) : (a \o b)[n] = a[n]
         /\ \A n \in 1..Len(b) : (a \o b)[Len(a) + n] = b[n]
  OBVIOUS

LEMMA SendingFacts ==
  ASSUME NEW s \in Setups
  PROVE  LET l == Len(s.configured)
             c == IF s.start.frc THEN 1 ELSE 0
         IN /\ l \in Nat /\ c \in {0, 1}
            /\ Len(Sending(s)) = 2 * l + c
            /\ DOMAIN GivenIn(s) = 1..(l + c)
            /\ \A n \in 1..l : /\ Sending(s)[n] = IF s.configured[n].name = "Threads" THEN s.configured[n] ELSE Skipped
                               /\ Sending(s)[n + l] = IF s.configured[n].name = "Threads" THEN Skipped ELSE s.configured[n]
                               /\ GivenIn(s)[n] = s.configured[n]
                               /\ s.configured[n] # Skipped
            /\ c = 1 => /\ Sending(s)[2 * l + 1] = [name |-> "UCI_Chess960", text |-> True]
                        /\ GivenIn(s)[l + 1] = [name |-> "UCI_Chess960", text |-> True]
                        /\ Sending(s)[2 * l + 1] # Skipped
  <1> DEFINE q == s.configured
             l == Len(q)
             c == IF s.start.frc THEN 1 ELSE 0
             chess == [name |-> "UCI_Chess960", text |-> True]
             A == Pass(q, TRUE)
             B == Pass(q, FALSE)
             C == Chess960(s.start.frc)
             Items == ToSet(q) \cup {Skipped, chess}
  <1>1. q \in Seq(ToSet(q)) /\ \A n \in DOMAIN q : DOMAIN q[n] = {"name", "text"}
    BY SetupsAssumption DEF IsSetup, IsSeq
  <1>2. l \in Nat /\ DOMAIN q = 1..l
    BY <1>1
  <1>3. A \in Seq(Items) /\ Len(A) = l /\ \A n \in 1..l : A[n] = IF q[n].name = "Threads" THEN q[n] ELSE Skipped
    BY <1>1, <1>2 DEF Pass, ToSet
  <1>4. B \in Seq(Items) /\ Len(B) = l /\ \A n \in 1..l : B[n] = IF q[n].name = "Threads" THEN Skipped ELSE q[n]
    BY <1>1, <1>2 DEF Pass, ToSet
  <1>5. c \in {0, 1} /\ C \in Seq(Items) /\ Len(C) = c /\ (c = 1 => C[1] = chess)
    <2>1. CASE s.start.frc
      BY <2>1 DEF Chess960
    <2>2. CASE ~s.start.frc
      BY <2>2 DEF Chess960
    <2> QED BY <2>1, <2>2
  <1>n. DOMAIN Skipped # {"name", "text"}
    BY DEF Skipped
  <1>6. \A n \in 1..l : q[n] # Skipped
    BY <1>1, <1>2, <1>n
  <1>7. chess # Skipped
    <2>1. DOMAIN chess = {"name", "text"}
      OBVIOUS
    <2> QED BY <2>1, <1>n
  <1>8. q \in Seq(Items)
    BY <1>1
  <1> HIDE DEF A, B, C, Items, q, chess, c
  <1>9. /\ (A \o B) \in Seq(Items) /\ Len(A \o B) = 2 * l
        /\ \A n \in 1..l : (A \o B)[n] = A[n] /\ (A \o B)[n + l] = B[n]
    <2>1. \A n \in 1..l : l + n = n + l
      BY <1>2
    <2>2. /\ A \o B \in Seq(Items) /\ Len(A \o B) = Len(A) + Len(B)
          /\ \A n \in 1..Len(A) : (A \o B)[n] = A[n]
          /\ \A n \in 1..Len(B) : (A \o B)[Len(A) + n] = B[n]
      <3>1. A \in Seq(Items) /\ B \in Seq(Items)
        BY <1>3, <1>4
      <3> QED BY ONLY <3>1, ConcatFacts
    <2> QED BY <1>2, <1>3, <1>4, <2>1, <2>2
  <1>10. /\ (A \o B) \o C \in Seq(Items) /\ Len((A \o B) \o C) = 2 * l + c
         /\ \A n \in 1..l : ((A \o B) \o C)[n] = A[n] /\ ((A \o B) \o C)[n + l] = B[n]
         /\ c = 1 => ((A \o B) \o C)[2 * l + 1] = C[1]
    <2>1. \A n \in 1..l : n \in 1..(2 * l) /\ n + l \in 1..(2 * l)
      BY <1>2
    <2>2. c = 1 => 1 \in 1..c
      OBVIOUS
    <2> DEFINE D == A \o B
    <2>3. D \in Seq(Items) /\ Len(D) = 2 * l
      BY <1>9
    <2> HIDE DEF D
    <2>a. /\ D \o C \in Seq(Items) /\ Len(D \o C) = Len(D) + Len(C)
          /\ \A n \in 1..Len(D) : (D \o C)[n] = D[n]
          /\ \A n \in 1..Len(C) : (D \o C)[Len(D) + n] = C[n]
      <3>1. D \in Seq(Items) /\ C \in Seq(Items)
        BY <1>5, <2>3
      <3> QED BY ONLY <3>1, ConcatFacts
    <2>4. /\ D \o C \in Seq(Items) /\ Len(D \o C) = 2 * l + c
          /\ \A n \in 1..(2 * l) : (D \o C)[n] = D[n]
          /\ \A n \in 1..c : (D \o C)[2 * l + n] = C[n]
      BY <1>5, <2>3, <2>a
    <2> QED BY <1>9, <2>1, <2>2, <2>4 DEF D
  <1>11. /\ q \o C \in Seq(Items) /\ DOMAIN (q \o C) = 1..(l + c)
         /\ \A n \in 1..l : (q \o C)[n] = q[n]
         /\ c = 1 => (q \o C)[l + 1] = C[1]
    <2>1. /\ q \o C \in Seq(Items) /\ Len(q \o C) = l + c
          /\ \A n \in 1..l : (q \o C)[n] = q[n]
          /\ \A n \in 1..c : (q \o C)[l + n] = C[n]
      BY <1>5, <1>8, ConcatFacts
    <2>2. c = 1 => 1 \in 1..c
      OBVIOUS
    <2> QED BY <2>1, <2>2
  <1>12. Sending(s) = (A \o B) \o C /\ GivenIn(s) = q \o C
    BY DEF Sending, OrderOfSending, GivenIn, A, B, C, q
  <1>13. /\ l \in Nat /\ c \in {0, 1}
         /\ Len(Sending(s)) = 2 * l + c
         /\ DOMAIN GivenIn(s) = 1..(l + c)
         /\ \A n \in 1..l : /\ Sending(s)[n] = IF q[n].name = "Threads" THEN q[n] ELSE Skipped
                            /\ Sending(s)[n + l] = IF q[n].name = "Threads" THEN Skipped ELSE q[n]
                            /\ GivenIn(s)[n] = q[n]
                            /\ q[n] # Skipped
         /\ c = 1 => /\ Sending(s)[2 * l + 1] = chess
                     /\ GivenIn(s)[l + 1] = chess
                     /\ Sending(s)[2 * l + 1] # Skipped
    BY <1>2, <1>3, <1>4, <1>5, <1>6, <1>7, <1>10, <1>11, <1>12
  <1> QED BY <1>13 DEF q, chess, c

\* The order of sending does not change which value of an option is the last.
LEMMA LastValue ==
  ASSUME NEW s \in Setups, NEW option
  PROVE  LET sent == Sent(s, Len(Sending(s)), option)
             valid == ValidIn(s, option)
         IN /\ sent = {} <=> valid = {}
            /\ valid # {} => Sending(s)[Max(sent)].text = GivenIn(s)[Max(valid)].text
  <1> DEFINE l == Len(s.configured)
             c == IF s.start.frc THEN 1 ELSE 0
             sent == Sent(s, Len(Sending(s)), option)
             valid == ValidIn(s, option)
             d == IF option.name = "Threads" THEN 0 ELSE l
             q == s.configured
             chess == [name |-> "UCI_Chess960", text |-> True]
  <1>1. /\ l \in Nat /\ c \in {0, 1} /\ d \in Nat
        /\ Len(Sending(s)) = 2 * l + c
        /\ DOMAIN GivenIn(s) = 1..(l + c)
        /\ \A n \in 1..l : /\ Sending(s)[n] = IF q[n].name = "Threads" THEN q[n] ELSE Skipped
                           /\ Sending(s)[n + l] = IF q[n].name = "Threads" THEN Skipped ELSE q[n]
                           /\ GivenIn(s)[n] = q[n]
                           /\ q[n] # Skipped
        /\ c = 1 => /\ Sending(s)[2 * l + 1] = chess
                    /\ GivenIn(s)[l + 1] = chess
                    /\ Sending(s)[2 * l + 1] # Skipped
    BY SendingFacts
  <1>2. chess.name # "Threads"
    OBVIOUS
  <1> HIDE DEF l, c, q, chess
  <1>3. \A n \in valid : n + d \in sent /\ Sending(s)[n + d] = GivenIn(s)[n]
    <2> SUFFICES ASSUME NEW n \in valid PROVE n + d \in sent /\ Sending(s)[n + d] = GivenIn(s)[n]
      OBVIOUS
    <2>1. n \in 1..(l + c) /\ Suits(GivenIn(s)[n], option)
      BY <1>1 DEF ValidIn
    <2>2. GivenIn(s)[n].name = option.name
      BY <2>1 DEF Suits
    <2>3. CASE n \in 1..l
      <3>1. Sending(s)[n + d] = GivenIn(s)[n] /\ Sending(s)[n + d] # Skipped /\ n + d \in 1..(2 * l + c)
        BY <1>1, <2>2, <2>3
      <3> QED BY <1>1, <2>1, <3>1 DEF Sent
    <2>4. CASE n \notin 1..l
      <3>1. c = 1 /\ n = l + 1
        BY <1>1, <2>1, <2>4
      <3>2. option.name # "Threads"
        BY <1>1, <1>2, <2>2, <3>1
      <3>3. n + d = 2 * l + 1 /\ n + d \in 1..(2 * l + c)
        BY <1>1, <3>1, <3>2
      <3>4. Sending(s)[n + d] = GivenIn(s)[n] /\ Sending(s)[n + d] # Skipped
        BY <1>1, <3>1, <3>3
      <3> QED BY <1>1, <2>1, <3>3, <3>4 DEF Sent
    <2> QED BY <2>3, <2>4
  <1>4. \A m \in sent : m - d \in valid
    <2> SUFFICES ASSUME NEW m \in sent PROVE m - d \in valid
      OBVIOUS
    <2>1. m \in 1..(2 * l + c) /\ Sending(s)[m] # Skipped /\ Suits(Sending(s)[m], option)
      BY <1>1 DEF Sent
    <2>2. Sending(s)[m].name = option.name
      BY <2>1 DEF Suits
    <2>3. CASE m \in 1..l
      <3>1. option.name = "Threads" /\ GivenIn(s)[m] = Sending(s)[m] /\ m - d = m
        BY <1>1, <2>1, <2>2, <2>3
      <3>2. m \in 1..(l + c)
        BY <1>1, <2>3
      <3> QED BY <1>1, <2>1, <3>1, <3>2 DEF ValidIn
    <2>4. CASE m \in (l + 1)..(2 * l)
      <3>1. m - l \in 1..l /\ (m - l) + l = m
        BY <1>1, <2>4
      <3>2. Sending(s)[m] = q[m - l] /\ q[m - l].name # "Threads" /\ GivenIn(s)[m - l] = q[m - l]
        BY <1>1, <2>1, <3>1
      <3>3. m - d = m - l /\ m - l \in 1..(l + c)
        BY <1>1, <2>2, <3>1, <3>2
      <3> QED BY <1>1, <2>1, <3>2, <3>3 DEF ValidIn
    <2>5. CASE m \notin 1..(2 * l)
      <3>1. c = 1 /\ m = 2 * l + 1
        BY <1>1, <2>1, <2>5
      <3>2. option.name # "Threads"
        BY <1>1, <1>2, <2>2, <3>1
      <3>3. m - d = l + 1 /\ m - d \in 1..(l + c)
        BY <1>1, <3>1, <3>2
      <3>4. Sending(s)[m] = GivenIn(s)[m - d]
        BY <1>1, <3>1, <3>3
      <3> QED BY <1>1, <2>1, <3>3, <3>4 DEF ValidIn
    <2> QED BY <1>1, <2>3, <2>4, <2>5
  <1>5. sent \in SUBSET (1..(2 * l + c)) /\ valid \in SUBSET (1..(l + c)) /\ 2 * l + c \in Nat /\ l + c \in Nat
    BY <1>1 DEF Sent, ValidIn
  <1> HIDE DEF sent, valid, d
  <1>6. sent = {} <=> valid = {}
    BY <1>3, <1>4
  <1>7. valid # {} => Max(sent) = Max(valid) + d
    <2> SUFFICES ASSUME valid # {} PROVE Max(sent) = Max(valid) + d
      OBVIOUS
    <2> DEFINE a == Max(sent)
               b == Max(valid)
    <2>1. a \in sent /\ \A m \in sent : m <= a
      BY <1>5, <1>6, MaxFacts
    <2>2. b \in valid /\ \A m \in valid : m <= b
      BY <1>5, MaxFacts
    <2> HIDE DEF a, b
    <2>3. b + d <= a /\ a - d <= b
      BY <1>3, <1>4, <2>1, <2>2
    <2>4. a \in Int /\ b \in Int /\ d \in Int
      BY <1>1, <1>5, <2>1, <2>2
    <2>5. a = b + d
      BY <2>3, <2>4
    <2> QED BY <2>5 DEF a, b
  <1>8. valid # {} => Max(valid) \in valid
    BY <1>5, MaxFacts
  <1>9. valid # {} => Sending(s)[Max(sent)].text = GivenIn(s)[Max(valid)].text
    BY <1>3, <1>7, <1>8
  <1> QED BY <1>6, <1>9 DEF sent, valid

-----------------------------------------------------------------------------
(* The options of an engine and what it holds.                             *)

OptionFields == {"name", "type", "value", "choices", "kind", "min", "max"}

\* The value of an option is the last one sent that suits it, or was never changed.
IsUpTo(s, k, option, held) ==
    Sent(s, k, option) # {} =>
        /\ held[option.name] = Sending(s)[Max(Sent(s, k, option))].text
        /\ option.value = ValueOf(option, held[option.name])
IsDefault(s, option, held) ==
    Sent(s, Len(Sending(s)), option) = {} => held[option.name] = DefaultOf(DeclaredIn(s, option.name))

\* options_ come from the first k lines, one from a line.
AreOptions(opts) ==
    /\ IsSeq(opts)
    /\ \A i \in DOMAIN opts : DOMAIN opts[i] = OptionFields
    /\ \A i, j \in DOMAIN opts : opts[i].name = opts[j].name => i = j
ComeFrom(s, k, opts) ==
    \A i \in DOMAIN opts : \E n \in 1..k :
        s.declared[n].type \in Types /\ s.declared[n].name = opts[i].name
NamesIn(s) == {l.name : l \in LinesIn(s)}
FreshOf(s) == [n \in NamesIn(s) |-> DefaultOf(DeclaredIn(s, n))]

OptionsInv ==
    /\ setup \in Setups /\ step \in Nat
    /\ AreOptions(options)
    /\ ComeFrom(setup, IF phase = "uciok" THEN step ELSE Len(setup.declared), options)
    /\ ~initialized => options = <<>>
    /\ phase = "uciok" => step <= Len(setup.declared) /\ holds = FreshOf(setup) /\ initialized
    /\ phase = "refresh" => step <= Len(Sending(setup))
    /\ phase = "turn" => step = Len(Sending(setup))
    /\ DOMAIN holds = NamesIn(setup)
    /\ \A i \in DOMAIN options : IsDefault(setup, options[i], holds)
    /\ phase = "turn" \/ (phase = "refresh" /\ alive) =>
          \A i \in DOMAIN options : IsUpTo(setup, step, options[i], holds)

LEMMA DialogueDefs ==
  /\ ToSend = Sending(setup) /\ Given = GivenIn(setup)
  /\ \A name : Declared(name) = DeclaredIn(setup, name)
  /\ Fresh = FreshOf(setup)
  BY DEF ToSend, Sending, Given, GivenIn, Declared, DeclaredIn, OptionLines, LinesIn, Fresh, FreshOf, NamesIn

LEMMA NoOptions == IsSeq(<<>>) /\ AreOptions(<<>>) /\ \A s, k : ComeFrom(s, k, <<>>)
  <1>1. IsSeq(<<>>) /\ DOMAIN <<>> = {}
    BY DEF IsSeq
  <1> QED BY <1>1 DEF AreOptions, ComeFrom

LEMMA SetupFacts ==
  ASSUME NEW s \in Setups
  PROVE  /\ Len(s.declared) \in Nat /\ DOMAIN s.declared = 1..Len(s.declared)
         /\ \A n \in 1..Len(s.declared) : s.declared[n].type \in Types =>
               s.declared[n] \in LinesIn(s) /\ s.declared[n].name \in NamesIn(s)
         /\ \A m, n \in 1..Len(s.declared) : s.declared[m].name = s.declared[n].name => m = n
         /\ Len(Sending(s)) \in Nat
  <1>1. Len(s.declared) \in Nat /\ DOMAIN s.declared = 1..Len(s.declared)
    BY SetupsAssumption DEF IsSetup, IsSeq
  <1>2. \A n \in 1..Len(s.declared) : s.declared[n].type \in Types =>
           s.declared[n] \in LinesIn(s) /\ s.declared[n].name \in NamesIn(s)
    BY <1>1 DEF LinesIn, NamesIn, ToSet
  <1>3. \A m, n \in 1..Len(s.declared) : s.declared[m].name = s.declared[n].name => m = n
    BY <1>1, SetupsAssumption DEF IsSetup
  <1>4. Len(Sending(s)) \in Nat
    BY SendingFacts
  <1> QED BY <1>1, <1>2, <1>3, <1>4

LEMMA InitOptionsInv == Init => OptionsInv
  <1> SUFFICES ASSUME Init PROVE OptionsInv
    OBVIOUS
  <1>1. DOMAIN holds = NamesIn(setup)
    BY DialogueDefs DEF Init, FreshOf
  <1>2. DOMAIN options = {}
    BY DEF Init
  <1> QED BY <1>1, <1>2, NoOptions DEF Init, OptionsInv

LEMMA NothingSent == ASSUME NEW s, NEW option PROVE Sent(s, 0, option) = {}
  BY DEF Sent

\* The steps that leave the options alone.
LEMMA KeepsOptions ==
  ASSUME OptionsInv, UNCHANGED <<setup, initialized, options, holds>>,
         \/ phase' = phase /\ step' = step /\ (alive' = alive \/ ~alive')
         \/ phase # "uciok" /\ step' \in Nat /\ phase' \in {"idle", "over"}
         \/ phase = "uciok" /\ phase' = "over" /\ step' = step
  PROVE  OptionsInv'
  <1> USE DEF OptionsInv
  <1>1. ComeFrom(setup', IF phase' = "uciok" THEN step' ELSE Len(setup'.declared), options')
    <2>1. CASE phase = "uciok" /\ phase' = "over"
      <3>1. ComeFrom(setup, step, options) /\ step \in Nat /\ step <= Len(setup.declared) /\ Len(setup.declared) \in Nat
        BY <2>1, SetupFacts
      <3>2. 1..step \subseteq 1..Len(setup.declared)
        BY <3>1
      <3>3. ComeFrom(setup, Len(setup.declared), options)
        BY <3>1, <3>2 DEF ComeFrom
      <3> QED BY <2>1, <3>3
    <2> QED BY <2>1
  <1>2. phase' = "turn" \/ (phase' = "refresh" /\ alive') =>
           \A i \in DOMAIN options' : IsUpTo(setup', step', options'[i], holds')
    OBVIOUS
  <1> QED BY <1>1, <1>2

LEMMA BeginGameOptions == ASSUME OptionsInv, BeginGame PROVE OptionsInv'
  <1>1. UNCHANGED <<setup, options>> /\ phase = "idle" /\ step' = 0 /\ setup \in Setups
    BY DEF BeginGame, OptionsInv
  <1>2. CASE initialized
    <2>1. phase' = "refresh" /\ UNCHANGED <<initialized, holds>>
      BY <1>2 DEF BeginGame
    <2>2. 0 <= Len(Sending(setup))
      BY <1>1, SetupFacts
    <2>3. \A i \in DOMAIN options : IsUpTo(setup, 0, options[i], holds)
      BY NothingSent DEF IsUpTo
    <2> QED BY <1>1, <1>2, <2>1, <2>2, <2>3 DEF OptionsInv
  <1>3. CASE ~initialized
    <2>1. phase' = "uciok" /\ initialized' = TRUE /\ holds' = FreshOf(setup) /\ options = <<>>
      BY <1>3, DialogueDefs DEF BeginGame, OptionsInv
    <2>2. 0 <= Len(setup.declared)
      BY <1>1, SetupFacts
    <2>3. DOMAIN holds' = NamesIn(setup) /\ DOMAIN options = {}
      BY <2>1 DEF FreshOf
    <2> QED BY <1>1, <2>1, <2>2, <2>3, NoOptions DEF OptionsInv
  <1> QED BY <1>2, <1>3

LEMMA OptionsOfShape ==
  ASSUME NEW l, NEW option \in OptionsOf(l)
  PROVE  l.type \in Types /\ option.name = l.name /\ DOMAIN option = OptionFields
  <1>1. \E v : option = Option(l, v)
    BY DEF OptionsOf
  <1>2. l.type \in Types
    BY DEF OptionsOf, Types
  <1>3. option.name = l.name /\ DOMAIN option = OptionFields
    BY <1>1 DEF Option, OptionFields
  <1> QED BY <1>2, <1>3

LEMMA ParseLineOptions == ASSUME OptionsInv, ParseLine PROVE OptionsInv'
  <1> DEFINE l == setup.declared[step + 1]
  <1>1. /\ UNCHANGED <<setup, alive, initialized, holds>> /\ setup \in Setups /\ phase = "uciok"
        /\ step \in Nat /\ step < Len(setup.declared) /\ Len(setup.declared) \in Nat
    BY SetupFacts DEF ParseLine, OptionsInv
  <1>2. CASE phase' = "over" /\ UNCHANGED <<step, options>>
    BY <1>1, <1>2, KeepsOptions
  <1>3. ASSUME phase' = phase, step' = step + 1, UNCHANGED options
        PROVE  OptionsInv'
    <2>1. ComeFrom(setup, step + 1, options)
      <3>1. 1..step \subseteq 1..(step + 1)
        BY <1>1
      <3> QED BY <1>1, <3>1 DEF OptionsInv, ComeFrom
    <2>2. step + 1 \in Nat /\ step + 1 <= Len(setup.declared)
      BY <1>1
    <2> QED BY <1>1, <1>3, <2>1, <2>2 DEF OptionsInv
  <1>4. ASSUME phase' = phase, step' = step + 1,
               NEW option \in OptionsOf(l), options' = Append(options, option)
        PROVE  OptionsInv'
    <2>1. l.type \in Types /\ option.name = l.name /\ DOMAIN option = OptionFields
      BY <1>4, OptionsOfShape
    <2>2. /\ AreOptions(options) /\ ComeFrom(setup, step, options) /\ holds = FreshOf(setup)
          /\ DOMAIN options = 1..Len(options) /\ Len(options) \in Nat /\ IsSeq(options)
      BY <1>1 DEF OptionsInv, AreOptions, IsSeq
    <2>3. /\ IsSeq(options') /\ DOMAIN options' = 1..(Len(options) + 1)
          /\ \A i \in 1..Len(options) : options'[i] = options[i]
          /\ options'[Len(options) + 1] = option
      BY <1>4, <2>2, AppendFacts
    <2>4. \A i \in DOMAIN options' : i \in 1..Len(options) \/ i = Len(options) + 1
      BY <2>2, <2>3
    <2>5. \A i \in 1..Len(options) : options[i].name # option.name
      <3> SUFFICES ASSUME NEW i \in 1..Len(options), options[i].name = option.name PROVE FALSE
        OBVIOUS
      <3>1. PICK n \in 1..step : setup.declared[n].name = options[i].name
        BY <2>2 DEF ComeFrom
      <3>2. n \in 1..Len(setup.declared) /\ step + 1 \in 1..Len(setup.declared) /\ n # step + 1
        BY <1>1
      <3> QED BY <1>1, <2>1, <3>1, <3>2, SetupFacts
    <2>6. AreOptions(options')
      <3>1. \A i \in DOMAIN options' : DOMAIN options'[i] = OptionFields
        BY <2>1, <2>2, <2>3, <2>4 DEF AreOptions
      <3>2. \A i, j \in DOMAIN options' : options'[i].name = options'[j].name => i = j
        BY <2>2, <2>3, <2>4, <2>5 DEF AreOptions
      <3> QED BY <2>3, <3>1, <3>2 DEF AreOptions
    <2>7. ComeFrom(setup, step + 1, options')
      <3> SUFFICES ASSUME NEW i \in DOMAIN options'
                   PROVE  \E n \in 1..(step + 1) : setup.declared[n].type \in Types /\ setup.declared[n].name = options'[i].name
        BY DEF ComeFrom
      <3>1. CASE i \in 1..Len(options)
        <4>1. PICK n \in 1..step : setup.declared[n].type \in Types /\ setup.declared[n].name = options[i].name
          BY <2>2, <3>1 DEF ComeFrom
        <4>2. n \in 1..(step + 1)
          BY <1>1
        <4> QED BY <2>3, <3>1, <4>1, <4>2
      <3>2. CASE i = Len(options) + 1
        <4>1. step + 1 \in 1..(step + 1)
          BY <1>1
        <4> QED BY <2>1, <2>3, <3>2, <4>1
      <3> QED BY <2>4, <3>1, <3>2
    <2>8. \A i \in DOMAIN options' : IsDefault(setup, options'[i], holds)
      <3> SUFFICES ASSUME NEW i \in DOMAIN options' PROVE holds[options'[i].name] = DefaultOf(DeclaredIn(setup, options'[i].name))
        BY DEF IsDefault
      <3>1. PICK n \in 1..(step + 1) : setup.declared[n].type \in Types /\ setup.declared[n].name = options'[i].name
        BY <2>7 DEF ComeFrom
      <3>2. n \in 1..Len(setup.declared)
        BY <1>1
      <3>3. options'[i].name \in NamesIn(setup)
        BY <1>1, <3>1, <3>2, SetupFacts
      <3> QED BY <2>2, <3>3 DEF FreshOf
    <2>9. step + 1 \in Nat /\ step + 1 <= Len(setup.declared)
      BY <1>1
    <2>10. /\ UNCHANGED <<setup, alive, initialized, holds>> /\ setup \in Setups /\ phase' = "uciok" /\ initialized
           /\ DOMAIN holds = NamesIn(setup) /\ holds = FreshOf(setup)
      BY <1>1, <1>4 DEF OptionsInv
    <2> HIDE DEF l
    <2> QED BY <1>4, <2>6, <2>7, <2>8, <2>9, <2>10 DEF OptionsInv
  <1>5. \/ phase' = "over" /\ UNCHANGED <<step, options>>
        \/ phase' = phase /\ step' = step + 1 /\ UNCHANGED options
        \/ phase' = phase /\ step' = step + 1 /\ \E option \in OptionsOf(l) : options' = Append(options, option)
    BY DEF ParseLine
  <1> QED BY <1>2, <1>3, <1>4, <1>5

LEMMA AllParsedOptions == ASSUME OptionsInv, AllParsed PROVE OptionsInv'
  <1>1. UNCHANGED <<setup, alive, initialized, options, holds>> /\ phase = "uciok" /\ phase' = "refresh" /\ step' = 0
        /\ step = Len(setup.declared) /\ setup \in Setups
    BY DEF AllParsed, engine, OptionsInv
  <1>2. 0 <= Len(Sending(setup))
    BY <1>1, SetupFacts
  <1>3. \A i \in DOMAIN options : IsUpTo(setup, 0, options[i], holds)
    BY NothingSent DEF IsUpTo
  <1> QED BY <1>1, <1>2, <1>3 DEF OptionsInv

LEMMA NewGameOptions == ASSUME OptionsInv, NewGame PROVE OptionsInv'
  <1>1. /\ UNCHANGED <<setup, step, alive, initialized, options, holds>> /\ phase = "refresh"
        /\ step = Len(Sending(setup)) /\ (phase' = "over" \/ (alive /\ phase' = "turn"))
    BY DialogueDefs DEF NewGame, engine
  <1> QED BY <1>1 DEF OptionsInv

LEMMA ReturnOptions == ASSUME OptionsInv, Return PROVE OptionsInv'
  <1>1. setup' = setup /\ phase = "over" /\ phase' = "idle" /\ step' = 0
    BY DEF Return
  <1>2. CASE UNCHANGED engine
    BY <1>1, <1>2, KeepsOptions DEF engine
  <1>3. CASE initialized' = FALSE /\ options' = <<>> /\ UNCHANGED <<alive, holds>>
    <2>1. DOMAIN options' = {}
      BY <1>3
    <2> QED BY <1>1, <1>3, <2>1, NoOptions DEF OptionsInv
  <1> QED BY <1>2, <1>3 DEF Return

LEMMA FindFacts ==
  ASSUME NEW opts, AreOptions(opts), NEW name
  PROVE  /\ Find(opts, name) = 0 => \A i \in DOMAIN opts : opts[i].name # name
         /\ Find(opts, name) # 0 => Find(opts, name) \in DOMAIN opts /\ opts[Find(opts, name)].name = name
  <1> DEFINE I == {i \in 1..Len(opts) : opts[i].name = name}
  <1>1. Len(opts) \in Nat /\ DOMAIN opts = 1..Len(opts)
    BY DEF AreOptions, IsSeq
  <1>2. Find(opts, name) = IF I # {} THEN Min(I) ELSE 0
    BY DEF Find, SelectInSeq
  <1>3. I # {} => Min(I) \in I
    BY <1>1, MinFacts
  <1> QED BY <1>1, <1>2, <1>3

\* Setting the value of an option does not change which values suit it.
LEMMA SetValue ==
  ASSUME NEW option, DOMAIN option = OptionFields, NEW v
  PROVE  LET o == [option EXCEPT !.value = v]
         IN /\ DOMAIN o = OptionFields /\ o.name = option.name /\ o.value = v
            /\ \A sent : Suits(sent, o) <=> Suits(sent, option)
            /\ \A text : ValueOf(o, text) = ValueOf(option, text)
  <1> DEFINE o == [option EXCEPT !.value = v]
  <1>1. /\ DOMAIN o = OptionFields /\ o.name = option.name /\ o.value = v /\ o.type = option.type
        /\ o.choices = option.choices /\ o.kind = option.kind /\ o.min = option.min /\ o.max = option.max
    BY DEF OptionFields
  <1> HIDE DEF o
  <1>2. \A text : UCIOption(o, text) = UCIOption(option, text)
    BY <1>1 DEF UCIOption, ButtonOption, CheckOption, ComboOption, StringOption, SpinOption
  <1>3. \A text : ValueOf(o, text) = ValueOf(option, text)
    BY <1>2 DEF ValueOf
  <1>4. \A sent : Suits(sent, o) <=> Suits(sent, option)
    BY <1>1, <1>2 DEF Suits, IsValid, Throws
  <1> QED BY <1>1, <1>3, <1>4 DEF o

LEMMA NotSent ==
  ASSUME NEW s, NEW option, NEW k \in Nat,
         ~(Sending(s)[k + 1] # Skipped /\ Suits(Sending(s)[k + 1], option))
  PROVE  Sent(s, k + 1, option) = Sent(s, k, option)
  <1>1. 1..(k + 1) = (1..k) \cup {k + 1}
    OBVIOUS
  <1> QED BY <1>1 DEF Sent

LEMMA SendOptionOptions == ASSUME OptionsInv, SendOption PROVE OptionsInv'
  <1> DEFINE sent == Sending(setup)[step + 1]
             n == Len(Sending(setup))
             m == Find(options, sent.name)
  <1>1. /\ UNCHANGED <<setup, phase, alive, initialized>> /\ setup \in Setups /\ phase = "refresh"
        /\ step \in Nat /\ step < n /\ n \in Nat /\ step' = step + 1
        /\ AreOptions(options) /\ DOMAIN holds = NamesIn(setup)
        /\ ComeFrom(setup, Len(setup.declared), options)
        /\ \A i \in DOMAIN options : IsDefault(setup, options[i], holds)
        /\ alive => \A i \in DOMAIN options : IsUpTo(setup, step, options[i], holds)
    BY DialogueDefs, SetupFacts DEF SendOption, OptionsInv
  <1>2. step + 1 \in Nat /\ step + 1 <= n /\ step + 1 \in 1..n
    BY <1>1
  <1>3. IF Accepted(sent) /\ alive THEN Set(sent) ELSE UNCHANGED <<holds, options>>
    BY DialogueDefs DEF SendOption
  <1> HIDE DEF sent, n, m
  <1>4. CASE ~alive
    BY <1>1, <1>2, <1>3, <1>4 DEF OptionsInv, n
  <1>5. CASE alive /\ ~Accepted(sent)
    <2>1. ASSUME NEW i \in DOMAIN options PROVE IsUpTo(setup, step + 1, options[i], holds)
      <3>1. ~(sent # Skipped /\ Suits(sent, options[i]))
        <4> SUFFICES ASSUME sent # Skipped, Suits(sent, options[i]) PROVE FALSE
          OBVIOUS
        <4>1. m = 0 \/ Throws(options[m], sent.text) \/ ~IsValid(options[m], sent.text)
          BY <1>5 DEF Accepted, Rejected, m
        <4>2. sent.name = options[i].name
          BY DEF Suits
        <4>3. m # 0 /\ m \in DOMAIN options /\ options[m].name = sent.name
          BY <1>1, <4>2, FindFacts DEF m
        <4>4. m = i
          BY <1>1, <4>2, <4>3 DEF AreOptions
        <4> QED BY <4>1, <4>3, <4>4 DEF Suits
      <3>2. Sent(setup, step + 1, options[i]) = Sent(setup, step, options[i])
        BY <1>1, <3>1, NotSent DEF sent
      <3> QED BY <1>1, <1>5, <3>2 DEF IsUpTo
    <2>2. UNCHANGED <<holds, options>>
      BY <1>3, <1>5
    <2> QED BY <1>1, <1>2, <2>1, <2>2 DEF OptionsInv, n
  <1>6. CASE alive /\ Accepted(sent)
    <2> DEFINE new == [options[m] EXCEPT !.value = ValueOf(options[m], sent.text)]
    <2>1. /\ holds' = [holds EXCEPT ![sent.name] = sent.text]
          /\ options' = [options EXCEPT ![m] = new]
      BY <1>3, <1>6 DEF Set, m
    <2>2. m # 0 /\ sent # Skipped /\ ~Throws(options[m], sent.text) /\ IsValid(options[m], sent.text)
      BY <1>6 DEF Accepted, Rejected, m
    <2>3. m \in DOMAIN options /\ options[m].name = sent.name
      BY <1>1, <2>2, FindFacts DEF m
    <2>4. DOMAIN options[m] = OptionFields
      BY <1>1, <2>3 DEF AreOptions
    <2>5. /\ DOMAIN new = OptionFields /\ new.name = sent.name /\ new.value = ValueOf(options[m], sent.text)
          /\ \A x : Suits(x, new) <=> Suits(x, options[m])
          /\ \A text : ValueOf(new, text) = ValueOf(options[m], text)
      BY <2>3, <2>4, SetValue
    <2> HIDE DEF new
    <2>6. /\ DOMAIN options' = DOMAIN options /\ options'[m] = new
          /\ \A i \in DOMAIN options : i # m => options'[i] = options[i]
          /\ \A i \in DOMAIN options : options'[i].name = options[i].name
      BY <2>1, <2>3, <2>5
    <2>7. IsSeq(options')
      <3>1. Len(options) \in Nat /\ DOMAIN options = 1..Len(options)
        BY <1>1 DEF AreOptions, IsSeq
      <3> DEFINE T == ToSet(options) \cup {new}
      <3>2. options' = [i \in 1..Len(options) |-> IF i = m THEN new ELSE options[i]]
        BY <2>1, <3>1
      <3>3. \A i \in 1..Len(options) : options[i] \in T
        BY <3>1 DEF ToSet
      <3> HIDE DEF T
      <3>4. options' \in Seq(T)
        <4>1. new \in T
          BY DEF T
        <4> QED BY <3>1, <3>2, <3>3, <4>1
      <3> QED BY <3>4, AnySeq
    <2>8. AreOptions(options')
      <3>1. \A i \in DOMAIN options' : DOMAIN options'[i] = OptionFields
        BY <1>1, <2>5, <2>6 DEF AreOptions
      <3> QED BY <1>1, <2>6, <2>7, <3>1 DEF AreOptions
    <2>9. ComeFrom(setup, Len(setup.declared), options')
      BY <1>1, <2>6 DEF ComeFrom
    <2>10. sent.name \in NamesIn(setup)
      <3>1. PICK k \in 1..Len(setup.declared) :
               setup.declared[k].type \in Types /\ setup.declared[k].name = options[m].name
        BY <1>1, <2>3 DEF ComeFrom
      <3> QED BY <1>1, <2>3, <3>1, SetupFacts
    <2>11. /\ DOMAIN holds' = NamesIn(setup) /\ holds'[sent.name] = sent.text
           /\ \A name \in NamesIn(setup) : name # sent.name => holds'[name] = holds[name]
      BY <1>1, <2>1, <2>10
    <2>12. ASSUME NEW i \in DOMAIN options, i # m
           PROVE  /\ options[i].name # sent.name
                  /\ holds'[options[i].name] = holds[options[i].name]
                  /\ Sent(setup, step + 1, options[i]) = Sent(setup, step, options[i])
      <3>1. options[i].name # sent.name
        BY <1>1, <2>3, <2>12 DEF AreOptions
      <3>2. options[i].name \in NamesIn(setup)
        <4>1. PICK k \in 1..Len(setup.declared) :
                 setup.declared[k].type \in Types /\ setup.declared[k].name = options[i].name
          BY <1>1 DEF ComeFrom
        <4> QED BY <1>1, <4>1, SetupFacts
      <3>3. ~Suits(sent, options[i])
        BY <3>1 DEF Suits
      <3>4. Sent(setup, step + 1, options[i]) = Sent(setup, step, options[i])
        BY <1>1, <3>3, NotSent DEF sent
      <3> QED BY <2>11, <3>1, <3>2, <3>4
    <2>13. Suits(sent, new)
      BY <2>2, <2>3, <2>5 DEF Suits
    <2>14. step + 1 \in Sent(setup, step + 1, new) /\ step + 1 \in Sent(setup, n, new)
      BY <1>2, <2>2, <2>13 DEF Sent, sent
    <2>15. Max(Sent(setup, step + 1, new)) = step + 1
      <3> DEFINE S == Sent(setup, step + 1, new)
      <3>1. S \in SUBSET (1..(step + 1)) /\ S # {}
        BY <2>14 DEF Sent
      <3> HIDE DEF S
      <3>2. Max(S) \in S /\ \A i \in S : i <= Max(S)
        BY <1>2, <3>1, MaxFacts
      <3> DEFINE a == Max(S)
      <3>3. a \in 1..(step + 1) /\ step + 1 <= a
        BY <2>14, <3>1, <3>2 DEF S
      <3> HIDE DEF a
      <3>4. a = step + 1
        BY <1>1, <3>3
      <3> QED BY <3>4 DEF a, S
    <2>16. ASSUME NEW i \in DOMAIN options
           PROVE  IsDefault(setup, options'[i], holds') /\ IsUpTo(setup, step + 1, options'[i], holds')
      <3>1. CASE i = m
        <4>1. IsDefault(setup, new, holds')
          BY <2>14 DEF IsDefault, n
        <4>2. IsUpTo(setup, step + 1, new, holds')
          BY <2>5, <2>11, <2>15 DEF IsUpTo, sent
        <4> QED BY <2>6, <3>1, <4>1, <4>2
      <3>2. CASE i # m
        <4>1. options'[i] = options[i]
          BY <2>6, <3>2
        <4>2. IsDefault(setup, options[i], holds')
          BY <1>1, <2>12, <3>2 DEF IsDefault
        <4>3. IsUpTo(setup, step + 1, options[i], holds')
          BY <1>1, <1>6, <2>12, <3>2 DEF IsUpTo
        <4> QED BY <4>1, <4>2, <4>3
      <3> QED BY <3>1, <3>2
    <2>17. initialized
      <3> SUFFICES ASSUME ~initialized PROVE FALSE
        OBVIOUS
      <3>1. options = <<>>
        BY DEF OptionsInv
      <3> QED BY <2>3, <3>1
    <2> QED BY <1>1, <1>2, <2>6, <2>8, <2>9, <2>11, <2>16, <2>17 DEF OptionsInv, n
  <1> QED BY <1>4, <1>5, <1>6

LEMMA NextOptionsInv == ASSUME OptionsInv, [Next]_vars PROVE OptionsInv'
  <1>1. CASE BeginGame BY <1>1, BeginGameOptions
  <1>2. CASE ParseLine BY <1>2, ParseLineOptions
  <1>3. CASE AllParsed BY <1>3, AllParsedOptions
  <1>4. CASE SendOption BY <1>4, SendOptionOptions
  <1>5. CASE NewGame BY <1>5, NewGameOptions
  <1>6. CASE EngineDies BY <1>6, KeepsOptions DEF EngineDies
  <1>7. CASE EndGame BY <1>7, KeepsOptions DEF EndGame, engine, OptionsInv
  <1>8. CASE NoMove BY <1>8, KeepsOptions DEF NoMove, Searches, engine, OptionsInv
  <1>9. CASE IllegalMove BY <1>9, KeepsOptions DEF IllegalMove, Searches, engine, OptionsInv
  <1>10. CASE LateMove BY <1>10, KeepsOptions DEF LateMove, Searches, engine, OptionsInv
  <1>11. CASE PlayMove BY <1>11, KeepsOptions DEF PlayMove, Searches, engine
  <1>12. CASE Return BY <1>12, ReturnOptions
  <1>13. CASE UNCHANGED vars BY <1>13, KeepsOptions DEF vars, engine
  <1> QED BY <1>1, <1>2, <1>3, <1>4, <1>5, <1>6, <1>7, <1>8, <1>9, <1>10, <1>11, <1>12, <1>13 DEF Next

LEMMA OptionsFromInv == OptionsInv => OptionsReachEngine
  <1> SUFFICES ASSUME OptionsInv, phase = "turn", NEW i \in DOMAIN options
               PROVE  LET valid == {n \in DOMAIN Given : Suits(Given[n], options[i])}
                          name == options[i].name
                      IN /\ holds[name] = IF valid = {} THEN DefaultOf(Declared(name)) ELSE Given[Max(valid)].text
                         /\ valid # {} => options[i].value = ValueOf(options[i], holds[name])
    BY DEF OptionsReachEngine
  <1> DEFINE o == options[i]
             n == Len(Sending(setup))
  <1>1. setup \in Setups /\ IsDefault(setup, o, holds) /\ IsUpTo(setup, n, o, holds)
    BY DEF OptionsInv
  <1>2. /\ Given = GivenIn(setup) /\ Declared(o.name) = DeclaredIn(setup, o.name)
        /\ {k \in DOMAIN Given : Suits(Given[k], o)} = ValidIn(setup, o)
    BY DialogueDefs DEF ValidIn
  <1>3. /\ Sent(setup, n, o) = {} <=> ValidIn(setup, o) = {}
        /\ ValidIn(setup, o) # {} =>
              Sending(setup)[Max(Sent(setup, n, o))].text = GivenIn(setup)[Max(ValidIn(setup, o))].text
    BY <1>1, LastValue
  <1> QED BY <1>1, <1>2, <1>3 DEF IsDefault, IsUpTo

\* While the options are sent each one holds the last value so far that suits it, every
\* option came from a line the engine declared, and no two have a name in common.
THEOREM OptionsInvariance == Spec => []OptionsInv
  BY InitOptionsInv, NextOptionsInv, PTL DEF Spec

\* When a game begins every option of the engine holds the last suitable value of the user
\* or its default, for all declarations and configurations: refreshUci drops none, whatever
\* the order it sends them in and whichever engine process it sends them to.
THEOREM OptionsAreSet == Spec => []OptionsReachEngine
  BY OptionsFromInv, OptionsInvariance, PTL
=============================================================================

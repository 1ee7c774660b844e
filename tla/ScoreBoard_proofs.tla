------------------------- MODULE ScoreBoard_proofs -------------------------
(***************************************************************************)
(* Proofs about the scoreboard, for any engines, any number of pairings    *)
(* and any order in which their games finish.                              *)
(***************************************************************************)
EXTENDS ScoreBoard, FiniteSetTheorems, SequenceTheorems, TLAPS

\* The stats of exactly one game, with no pair counted yet.
IsOneGame(s) ==
    /\ s \in StatsType
    /\ PairsOf(s) = 0
    /\ \/ s.wins = 1 /\ s.losses = 0 /\ s.draws = 0
       \/ s.wins = 0 /\ s.losses = 1 /\ s.draws = 0
       \/ s.wins = 0 /\ s.losses = 0 /\ s.draws = 1

CacheHoldsSingleGames ==
    \A p \in DOMAIN game_pair_cache : IsOneGame(game_pair_cache[p])

IInv == TypeOK /\ CacheHoldsSingleGames /\ PentaMatchesGames

-----------------------------------------------------------------------------
(* The algebra of Stats.                                                   *)

LEMMA StatsFieldTypes ==
  ASSUME NEW s \in StatsType
  PROVE  /\ s.wins \in Nat /\ s.losses \in Nat /\ s.draws \in Nat
         /\ s.WW \in Nat /\ s.WD \in Nat /\ s.WL \in Nat
         /\ s.DD \in Nat /\ s.LD \in Nat /\ s.LL \in Nat
  BY DEF StatsType, StatsFields

LEMMA ZeroStatsConsistent == ZeroStats \in StatsType /\ PentaConsistent(ZeroStats)
  BY DEF ZeroStats, StatsType, StatsFields, PentaConsistent, GamesOf, PairsOf,
         HalfPoints, PentaHalfPoints

LEMMA AddStatsType ==
  ASSUME NEW s \in StatsType, NEW t \in StatsType
  PROVE  /\ AddStats(s, t) \in StatsType
         /\ \A f \in StatsFields : AddStats(s, t)[f] = s[f] + t[f]
  BY DEF AddStats, StatsType

LEMMA AddStatsConsistent ==
  ASSUME NEW s \in StatsType, NEW t \in StatsType, PentaConsistent(s), PentaConsistent(t)
  PROVE  PentaConsistent(AddStats(s, t))
  <1> DEFINE u == AddStats(s, t)
  <1>1. /\ u.wins = s.wins + t.wins /\ u.losses = s.losses + t.losses
        /\ u.draws = s.draws + t.draws
        /\ u.WW = s.WW + t.WW /\ u.WD = s.WD + t.WD /\ u.WL = s.WL + t.WL
        /\ u.DD = s.DD + t.DD /\ u.LD = s.LD + t.LD /\ u.LL = s.LL + t.LL
    BY AddStatsType DEF StatsFields
  <1> HIDE DEF u
  <1>2. PentaConsistent(u)
    BY <1>1, StatsFieldTypes DEF PentaConsistent, GamesOf, PairsOf, HalfPoints, PentaHalfPoints
  <1> QED BY <1>2 DEF u

LEMMA InvertStatsFields ==
  ASSUME NEW s \in StatsType
  PROVE  LET u == InvertStats(s)
         IN /\ u \in StatsType
            /\ u.wins = s.losses /\ u.losses = s.wins /\ u.draws = s.draws
            /\ u.WW = s.LL /\ u.LL = s.WW /\ u.WD = s.LD /\ u.LD = s.WD
            /\ u.WL = s.WL /\ u.DD = s.DD
  BY DEF InvertStats, Mirror, StatsType, StatsFields

\* Seen by the opponent, consistent stats stay consistent.
LEMMA InvertStatsConsistent ==
  ASSUME NEW s \in StatsType, PentaConsistent(s)
  PROVE  PentaConsistent(InvertStats(s))
  <1> DEFINE u == InvertStats(s)
  <1>1. /\ u.wins = s.losses /\ u.losses = s.wins /\ u.draws = s.draws
        /\ u.WW = s.LL /\ u.LL = s.WW /\ u.WD = s.LD /\ u.LD = s.WD
        /\ u.WL = s.WL /\ u.DD = s.DD
    BY InvertStatsFields
  <1> HIDE DEF u
  <1>2. /\ s.wins \in Nat /\ s.losses \in Nat /\ s.draws \in Nat
        /\ s.WW \in Nat /\ s.WD \in Nat /\ s.WL \in Nat
        /\ s.DD \in Nat /\ s.LD \in Nat /\ s.LL \in Nat
    BY StatsFieldTypes
  <1>3. /\ s.wins + s.losses + s.draws = 2 * (s.WW + s.WD + s.WL + s.DD + s.LD + s.LL)
        /\ 2 * s.wins + s.draws = 4 * s.WW + 3 * s.WD + 2 * s.WL + 2 * s.DD + s.LD
    BY DEF PentaConsistent, GamesOf, PairsOf, HalfPoints, PentaHalfPoints
  <1>4. GamesOf(u) = 2 * PairsOf(u)
    BY <1>1, <1>2, <1>3 DEF GamesOf, PairsOf
  <1>5. HalfPoints(u) = PentaHalfPoints(u)
    <2> DEFINE w == s.wins   l == s.losses   d == s.draws   ww == s.WW   wd == s.WD
               wl == s.WL    dd == s.DD      ld == s.LD     ll == s.LL
    <2>2. /\ w \in Nat /\ l \in Nat /\ d \in Nat /\ ww \in Nat /\ wd \in Nat
          /\ wl \in Nat /\ dd \in Nat /\ ld \in Nat /\ ll \in Nat
          /\ w + l + d = 2 * (ww + wd + wl + dd + ld + ll)
          /\ 2 * w + d = 4 * ww + 3 * wd + 2 * wl + 2 * dd + ld
      BY <1>2, <1>3
    <2> HIDE DEF w, l, d, ww, wd, wl, dd, ld, ll
    <2>3. 2 * l + d = 4 * ll + 3 * ld + 2 * wl + 2 * dd + wd
      BY <2>2
    <2>1. 2 * s.losses + s.draws = 4 * s.LL + 3 * s.LD + 2 * s.WL + 2 * s.DD + s.WD
      BY <2>3 DEF w, l, d, ww, wd, wl, dd, ld, ll
    <2> QED BY <1>1, <2>1 DEF HalfPoints, PentaHalfPoints
  <1> QED BY <1>4, <1>5 DEF u, PentaConsistent

LEMMA OneGameIsOneGame ==
  ASSUME NEW r \in GameResults PROVE IsOneGame(OneGame(r))
  BY DEF IsOneGame, OneGame, GameField, GameResults, ZeroStats, StatsType, StatsFields, PairsOf

LEMMA InvertOneGame ==
  ASSUME NEW s, IsOneGame(s) PROVE IsOneGame(InvertStats(s))
  <1> DEFINE u == InvertStats(s)
  <1>1. /\ u \in StatsType
        /\ u.wins = s.losses /\ u.losses = s.wins /\ u.draws = s.draws
        /\ u.WW = s.LL /\ u.LL = s.WW /\ u.WD = s.LD /\ u.LD = s.WD
        /\ u.WL = s.WL /\ u.DD = s.DD
    BY InvertStatsFields DEF IsOneGame
  <1> HIDE DEF u
  <1>2. IsOneGame(u)
    BY <1>1, StatsFieldTypes DEF IsOneGame, PairsOf
  <1> QED BY <1>2 DEF u

\* updatePair looks at the sum of two games and counts it in one class or none.
LEMMA WithPentaFields ==
  ASSUME NEW u \in StatsType
  PROVE  LET v == WithPenta(u)
             inc(cond) == IF cond THEN 1 ELSE 0
         IN /\ v \in StatsType
            /\ v.wins = u.wins /\ v.losses = u.losses /\ v.draws = u.draws
            /\ v.WW = u.WW + inc(u.wins = 2)
            /\ v.WD = u.WD + inc(u.wins = 1 /\ u.draws = 1)
            /\ v.WL = u.WL + inc(u.wins = 1 /\ u.losses = 1)
            /\ v.DD = u.DD + inc(u.draws = 2)
            /\ v.LD = u.LD + inc(u.losses = 1 /\ u.draws = 1)
            /\ v.LL = u.LL + inc(u.losses = 2)
  <1> DEFINE v == WithPenta(u)
             inc(cond) == IF cond THEN 1 ELSE 0
  <1>1. /\ v.wins = u.wins /\ v.losses = u.losses /\ v.draws = u.draws
        /\ v.WW = u.WW + inc(u.wins = 2)
        /\ v.WD = u.WD + inc(u.wins = 1 /\ u.draws = 1)
        /\ v.WL = u.WL + inc(u.wins = 1 /\ u.losses = 1)
        /\ v.DD = u.DD + inc(u.draws = 2)
        /\ v.LD = u.LD + inc(u.losses = 1 /\ u.draws = 1)
        /\ v.LL = u.LL + inc(u.losses = 2)
    <2>1. /\ DOMAIN u = StatsFields
          /\ {"WW", "WD", "WL", "DD", "LD", "LL"} \subseteq DOMAIN u
      BY DEF StatsType, StatsFields
    <2> QED BY <2>1 DEF WithPenta
  <1>2. v \in StatsType
    <2>1. \A f \in StatsFields : v[f] \in Nat
      BY <1>1, StatsFieldTypes DEF StatsFields
    <2>2. v = [f \in StatsFields |-> v[f]]
      BY DEF WithPenta, StatsType
    <2> QED BY <2>1, <2>2 DEF StatsType
  <1> QED BY <1>1, <1>2

\* The sum of two single games: no pair is counted in it yet.
LEMMA SumOfTwoGames ==
  ASSUME NEW s, NEW t, IsOneGame(s), IsOneGame(t)
  PROVE  LET u == AddStats(s, t)
         IN /\ u \in StatsType
            /\ u.wins = s.wins + t.wins /\ u.losses = s.losses + t.losses
            /\ u.draws = s.draws + t.draws
            /\ u.WW = 0 /\ u.WD = 0 /\ u.WL = 0 /\ u.DD = 0 /\ u.LD = 0 /\ u.LL = 0
            /\ \/ u.wins = 2 /\ u.losses = 0 /\ u.draws = 0
               \/ u.wins = 1 /\ u.losses = 1 /\ u.draws = 0
               \/ u.wins = 1 /\ u.losses = 0 /\ u.draws = 1
               \/ u.wins = 0 /\ u.losses = 2 /\ u.draws = 0
               \/ u.wins = 0 /\ u.losses = 1 /\ u.draws = 1
               \/ u.wins = 0 /\ u.losses = 0 /\ u.draws = 2
  <1> DEFINE u == AddStats(s, t)
  <1>1. s \in StatsType /\ t \in StatsType
    BY DEF IsOneGame
  <1>2. /\ u \in StatsType
        /\ u.wins = s.wins + t.wins /\ u.losses = s.losses + t.losses
        /\ u.draws = s.draws + t.draws
        /\ u.WW = s.WW + t.WW /\ u.WD = s.WD + t.WD /\ u.WL = s.WL + t.WL
        /\ u.DD = s.DD + t.DD /\ u.LD = s.LD + t.LD /\ u.LL = s.LL + t.LL
    BY <1>1, AddStatsType DEF StatsFields
  <1> HIDE DEF u
  <1>3. u.WW = 0 /\ u.WD = 0 /\ u.WL = 0 /\ u.DD = 0 /\ u.LD = 0 /\ u.LL = 0
    <2>1. ASSUME NEW g, IsOneGame(g)
          PROVE  g.WW = 0 /\ g.WD = 0 /\ g.WL = 0 /\ g.DD = 0 /\ g.LD = 0 /\ g.LL = 0
      <3> DEFINE ww == g.WW   wd == g.WD   wl == g.WL   dd == g.DD   ld == g.LD   ll == g.LL
      <3>1. /\ ww \in Nat /\ wd \in Nat /\ wl \in Nat /\ dd \in Nat /\ ld \in Nat /\ ll \in Nat
            /\ ww + wd + wl + dd + ld + ll = 0
        BY <2>1, StatsFieldTypes DEF IsOneGame, PairsOf
      <3> HIDE DEF ww, wd, wl, dd, ld, ll
      <3>2. ww = 0 /\ wd = 0 /\ wl = 0 /\ dd = 0 /\ ld = 0 /\ ll = 0
        BY <3>1
      <3> QED BY <3>2 DEF ww, wd, wl, dd, ld, ll
    <2> QED BY <2>1, <1>2
  <1>4. \/ u.wins = 2 /\ u.losses = 0 /\ u.draws = 0
        \/ u.wins = 1 /\ u.losses = 1 /\ u.draws = 0
        \/ u.wins = 1 /\ u.losses = 0 /\ u.draws = 1
        \/ u.wins = 0 /\ u.losses = 2 /\ u.draws = 0
        \/ u.wins = 0 /\ u.losses = 1 /\ u.draws = 1
        \/ u.wins = 0 /\ u.losses = 0 /\ u.draws = 2
    BY <1>2 DEF IsOneGame
  <1> QED BY <1>2, <1>3, <1>4 DEF u

\* It is counted as exactly one pair, of the right worth.
LEMMA WithPentaConsistent ==
  ASSUME NEW s, NEW t, IsOneGame(s), IsOneGame(t)
  PROVE  /\ WithPenta(AddStats(s, t)) \in StatsType
         /\ PentaConsistent(WithPenta(AddStats(s, t)))
  <1> DEFINE u == AddStats(s, t)
  <1>1. /\ u \in StatsType
        /\ u.WW = 0 /\ u.WD = 0 /\ u.WL = 0 /\ u.DD = 0 /\ u.LD = 0 /\ u.LL = 0
        /\ \/ u.wins = 2 /\ u.losses = 0 /\ u.draws = 0
           \/ u.wins = 1 /\ u.losses = 1 /\ u.draws = 0
           \/ u.wins = 1 /\ u.losses = 0 /\ u.draws = 1
           \/ u.wins = 0 /\ u.losses = 2 /\ u.draws = 0
           \/ u.wins = 0 /\ u.losses = 1 /\ u.draws = 1
           \/ u.wins = 0 /\ u.losses = 0 /\ u.draws = 2
    BY SumOfTwoGames
  <1> HIDE DEF u
  <1> DEFINE v == WithPenta(u)
             inc(cond) == IF cond THEN 1 ELSE 0
  <1>2. /\ v.wins = u.wins /\ v.losses = u.losses /\ v.draws = u.draws
        /\ v.WW = u.WW + inc(u.wins = 2)
        /\ v.WD = u.WD + inc(u.wins = 1 /\ u.draws = 1)
        /\ v.WL = u.WL + inc(u.wins = 1 /\ u.losses = 1)
        /\ v.DD = u.DD + inc(u.draws = 2)
        /\ v.LD = u.LD + inc(u.losses = 1 /\ u.draws = 1)
        /\ v.LL = u.LL + inc(u.losses = 2)
        /\ v \in StatsType
    BY <1>1, WithPentaFields
  <1> HIDE DEF v
  <1>3. PentaConsistent(v)
    BY <1>1, <1>2 DEF PentaConsistent, GamesOf, PairsOf, HalfPoints, PentaHalfPoints
  <1> QED BY <1>2, <1>3 DEF u, v

-----------------------------------------------------------------------------
LEMMA GameStatsIsOneGame ==
  ASSUME NEW id, NEW out \in Outcomes PROVE IsOneGame(GameStats(id, out))
  <1>1. WhiteResult(id, out) \in GameResults
    BY DEF WhiteResult, Outcomes, GameResults
  <1> QED BY <1>1, OneGameIsOneGame DEF GameStats

LEMMA OutcomeType ==
  ASSUME TypeOK, NEW id \in DOMAIN outcome, NEW out \in Outcomes, Played(id, out)
  PROVE  /\ opt' = opt /\ opt' \in Options /\ restarts' = restarts /\ restarts' \in Nat
         /\ outcome' \in [GameIds(opt') -> Outcomes \cup {NotPlayed}]
  BY DEF TypeOK, Played

LEMMA FinishSingleIInv ==
  ASSUME IInv, NEW id \in DOMAIN outcome, NEW out \in Outcomes, FinishSingle(id, out)
  PROVE  IInv'
  <1>1. GameStats(id, out) \in StatsType
    BY GameStatsIsOneGame DEF IsOneGame
  <1>2. results' \in [Engines \X Engines -> StatsType]
    BY <1>1, AddStatsType DEF FinishSingle, UpdateNonPair, IInv, TypeOK
  <1>3. TypeOK' /\ opt' = opt
    BY <1>2, OutcomeType DEF FinishSingle, IInv, TypeOK
  <1> QED BY <1>3 DEF IInv, FinishSingle, CacheHoldsSingleGames, PentaMatchesGames

LEMMA FinishFirstOfPairIInv ==
  ASSUME IInv, NEW id \in DOMAIN outcome, NEW out \in Outcomes, FinishFirstOfPair(id, out)
  PROVE  IInv'
  <1>1. IsOneGame(Cached(id, out))
    BY GameStatsIsOneGame, InvertOneGame DEF Cached
  <1>2. \A p \in DOMAIN game_pair_cache' : IsOneGame(game_pair_cache'[p])
    BY <1>1 DEF FinishFirstOfPair, IInv, CacheHoldsSingleGames
  <1>3. \A p \in DOMAIN game_pair_cache' : game_pair_cache'[p] \in StatsType
    BY <1>2 DEF IsOneGame
  <1>4. TypeOK' /\ opt' = opt
    BY <1>3, OutcomeType DEF FinishFirstOfPair, IInv, TypeOK
  <1> QED BY <1>2, <1>4 DEF IInv, FinishFirstOfPair, CacheHoldsSingleGames, PentaMatchesGames

LEMMA FinishSecondOfPairIInv ==
  ASSUME IInv, NEW id \in DOMAIN outcome, NEW out \in Outcomes, FinishSecondOfPair(id, out)
  PROVE  IInv'
  <1> DEFINE pair == WithPenta(AddStats(game_pair_cache[PairingId(id)], GameStats(id, out)))
  <1>1. IsOneGame(game_pair_cache[PairingId(id)])
    BY DEF FinishSecondOfPair, IsPairCompleted, IInv, CacheHoldsSingleGames
  <1>2. pair \in StatsType /\ PentaConsistent(pair)
    BY <1>1, GameStatsIsOneGame, WithPentaConsistent
  <1>3. results' = [results EXCEPT ![<<White(id), Black(id)>>] = AddStats(@, pair)]
    BY DEF FinishSecondOfPair, UpdateNonPair
  <1> HIDE DEF pair
  <1>4. results' \in [Engines \X Engines -> StatsType]
    BY <1>2, <1>3, AddStatsType DEF IInv, TypeOK
  <1>5. \A p \in DOMAIN game_pair_cache' :
            p \in DOMAIN game_pair_cache /\ game_pair_cache'[p] = game_pair_cache[p]
    BY DEF FinishSecondOfPair
  <1>6. TypeOK' /\ opt' = opt
    BY <1>4, <1>5, OutcomeType DEF FinishSecondOfPair, IInv, TypeOK
  <1>7. CacheHoldsSingleGames'
    BY <1>5 DEF IInv, CacheHoldsSingleGames
  <1>8. PentaMatchesGames'
    <2> SUFFICES ASSUME opt'.penta, NEW key \in DOMAIN results'
                 PROVE  PentaConsistent(results'[key])
      BY DEF PentaMatchesGames
    <2>1. key \in DOMAIN results /\ PentaConsistent(results[key]) /\ results[key] \in StatsType
      BY <1>3, <1>6 DEF IInv, TypeOK, PentaMatchesGames
    <2>2. CASE key = <<White(id), Black(id)>>
      <3>1. results'[key] = AddStats(results[key], pair)
        BY <1>3, <2>1, <2>2 DEF IInv, TypeOK
      <3> QED BY <3>1, <2>1, <1>2, AddStatsConsistent
    <2>3. CASE key # <<White(id), Black(id)>>
      <3>1. results'[key] = results[key]
        BY <1>3, <2>1, <2>3 DEF IInv, TypeOK
      <3> QED BY <3>1, <2>1
    <2> QED BY <2>2, <2>3
  <1> QED BY <1>6, <1>7, <1>8 DEF IInv

\* The words of all names, and of the text between two of them.
Words == (UNION {{e[k] : k \in DOMAIN e} : e \in Engines}) \cup {"vs"}

LEMMA NamesAreTexts ==
  ASSUME NEW e \in Engines
  PROVE  /\ e \in Seq(Words) /\ Len(e) \in Nat /\ DOMAIN e = 1..Len(e)
         /\ \A k \in 1..Len(e) : e[k] # "vs"
  <1>1. e \in Seq({e[k] : k \in DOMAIN e}) /\ \A k \in DOMAIN e : e[k] # "vs"
    BY NamesAssumption
  <1>2. {e[k] : k \in DOMAIN e} \subseteq Words
    BY DEF Words
  <1>3. e \in Seq(Words)
    BY <1>1, <1>2, SeqMonotonic
  <1> QED BY <1>1, <1>3, LenProperties

\* The text of a pair is split where it was joined.
LEMMA SplitKeyText ==
  ASSUME NEW a \in Engines, NEW b \in Engines
  PROVE  SplitText(KeyText(<<a, b>>)) = <<a, b>>
  <1> DEFINE t == KeyText(<<a, b>>)
             m == Len(a)
             n == Len(b)
  <1>0. /\ a \in Seq(Words) /\ b \in Seq(Words) /\ m \in Nat /\ n \in Nat
        /\ (\A k \in 1..m : a[k] # "vs") /\ (\A k \in 1..n : b[k] # "vs")
    BY NamesAreTexts
  <1>v. <<"vs">> \in Seq(Words) /\ Len(<<"vs">>) = 1
    <2>1. "vs" \in Words
      BY DEF Words
    <2> QED BY <2>1
  <1>1. /\ a \in Seq(Words) /\ b \in Seq(Words) /\ <<"vs">> \in Seq(Words) /\ m \in Nat /\ n \in Nat
        /\ (\A k \in 1..m : a[k] # "vs") /\ (\A k \in 1..n : b[k] # "vs")
        /\ Len(a) = m /\ Len(b) = n
    BY <1>0, <1>v
  <1>2. t = (a \o <<"vs">>) \o b
    BY DEF KeyText
  <1>3. /\ a \o <<"vs">> \in Seq(Words) /\ Len(a \o <<"vs">>) = m + 1
        /\ \A i \in 1..(m + 1) : (a \o <<"vs">>)[i] = IF i <= m THEN a[i] ELSE <<"vs">>[i - m]
    BY <1>1, <1>v, ConcatProperties
  <1>4. /\ t \in Seq(Words) /\ Len(t) = m + 1 + n
        /\ \A i \in 1..(m + 1 + n) : t[i] = IF i <= m + 1 THEN (a \o <<"vs">>)[i] ELSE b[i - (m + 1)]
    <2> DEFINE c == a \o <<"vs">>
    <2>1. c \in Seq(Words) /\ Len(c) = m + 1 /\ t = c \o b
      BY <1>2, <1>3
    <2> HIDE DEF c, t, m, n
    <2>2. /\ t \in Seq(Words) /\ Len(t) = Len(c) + Len(b)
          /\ \A i \in 1..(Len(c) + Len(b)) : t[i] = IF i <= Len(c) THEN c[i] ELSE b[i - Len(c)]
      BY <1>1, <2>1, ConcatProperties
    <2>3. Len(c) + Len(b) = m + 1 + n
      BY <1>1, <2>1
    <2> QED BY <2>1, <2>2, <2>3 DEF c
  <1> HIDE DEF t, m, n
  <1>5. /\ \A i \in 1..m : t[i] = a[i]
        /\ t[m + 1] = "vs"
        /\ \A i \in 1..n : t[m + 1 + i] = b[i]
    <2>1. <<"vs">>[1] = "vs"
      OBVIOUS
    <2>2. \A i \in 1..m : t[i] = a[i]
      BY <1>1, <1>3, <1>4
    <2>3. t[m + 1] = <<"vs">>[(m + 1) - m] /\ (m + 1) - m = 1
      BY <1>1, <1>3, <1>4
    <2>4. \A i \in 1..n : t[m + 1 + i] = b[i]
      <3> SUFFICES ASSUME NEW i \in 1..n PROVE t[m + 1 + i] = b[i]
        OBVIOUS
      <3>1. m + 1 + i \in 1..(m + 1 + n) /\ ~(m + 1 + i <= m + 1) /\ (m + 1 + i) - (m + 1) = i
        BY <1>1
      <3> QED BY <1>4, <3>1
    <2> QED BY <2>1, <2>2, <2>3, <2>4
  <1>6. DOMAIN t = 1..(m + 1 + n)
    BY <1>4, LenProperties
  <1>7. \A k \in DOMAIN t : t[k] = "vs" => k = m + 1
    <2> SUFFICES ASSUME NEW k \in 1..(m + 1 + n), t[k] = "vs" PROVE k = m + 1
      BY <1>6
    <2>1. CASE k <= m
      BY <1>1, <1>5, <2>1
    <2>2. CASE k > m + 1
      <3>1. PICK i \in 1..n : k = m + 1 + i
        <4>1. k - (m + 1) \in 1..n /\ k = m + 1 + (k - (m + 1))
          BY <1>1, <2>2
        <4> QED BY <4>1
      <3>2. t[k] = b[i] /\ b[i] # "vs"
        BY <1>1, <1>5, <3>1
      <3> QED BY <3>2
    <2> QED BY <1>1, <2>1, <2>2
  <1> DEFINE Cut(k) == t[k] = "vs" /\ \A j \in 1..(k - 1) : t[j] # "vs"
             at == CHOOSE k \in DOMAIN t : Cut(k)
  <1>8. at = m + 1
    <2>1. m + 1 \in DOMAIN t /\ Cut(m + 1)
      BY <1>1, <1>5, <1>6
    <2>2. at \in DOMAIN t /\ Cut(at)
      BY <2>1
    <2> QED BY <1>7, <2>2
  <1>9. SplitText(t) = <<SubSeq(t, 1, m), SubSeq(t, m + 2, m + 1 + n)>>
    <2>1. SplitText(t) = <<SubSeq(t, 1, at - 1), SubSeq(t, at + 1, Len(t))>>
      BY DEF SplitText
    <2> HIDE DEF at
    <2>2. at - 1 = m /\ at + 1 = m + 2
      BY <1>1, <1>8
    <2> QED BY <1>4, <2>1, <2>2
  <1>10. SubSeq(t, 1, m) = a
    <2>1. \A i \in 1..m : t[i] \in Words
      BY <1>1, <1>5, ElementOfSeq DEF m
    <2>2. /\ SubSeq(t, 1, m) \in Seq(Words) /\ Len(SubSeq(t, 1, m)) = m
          /\ \A i \in 1..m : SubSeq(t, 1, m)[i] = t[i]
      <3>1. /\ SubSeq(t, 1, m) \in Seq(Words)
            /\ Len(SubSeq(t, 1, m)) = IF 1 <= m THEN m - 1 + 1 ELSE 0
            /\ \A i \in 1..(m - 1 + 1) : SubSeq(t, 1, m)[i] = t[1 + i - 1]
        BY <1>1, <2>1, SubSeqProperties
      <3>2. \A i \in 1..m : 1 + i - 1 = i
        OBVIOUS
      <3> QED BY <1>1, <3>1, <3>2
    <2> QED BY <1>1, <1>5, <2>2, SeqEqual DEF m
  <1>11. SubSeq(t, m + 2, m + 1 + n) = b
    <2> DEFINE u == SubSeq(t, m + 2, m + 1 + n)
    <2>1. \A i \in (m + 2)..(m + 1 + n) : t[i] \in Words
      <3> SUFFICES ASSUME NEW i \in (m + 2)..(m + 1 + n) PROVE t[i] \in Words
        OBVIOUS
      <3>1. i \in 1..Len(t)
        BY <1>1, <1>4
      <3> QED BY <1>4, <3>1, ElementOfSeq
    <2>2. /\ u \in Seq(Words)
          /\ Len(u) = IF m + 2 <= m + 1 + n THEN m + 1 + n - (m + 2) + 1 ELSE 0
          /\ \A i \in 1..(m + 1 + n - (m + 2) + 1) : u[i] = t[m + 2 + i - 1]
      BY <1>1, <2>1, SubSeqProperties
    <2>3. m + 1 + n - (m + 2) + 1 = n /\ (\A i \in 1..n : m + 2 + i - 1 = m + 1 + i)
          /\ (m + 2 <= m + 1 + n <=> n >= 1)
      BY <1>1
    <2> HIDE DEF u
    <2>4. Len(u) = n /\ \A i \in 1..n : u[i] = b[i]
      <3>1. Len(u) = n
        BY <1>1, <2>2, <2>3
      <3>2. ASSUME NEW i \in 1..n PROVE u[i] = b[i]
        <4>1. u[i] = t[m + 2 + i - 1] /\ m + 2 + i - 1 = m + 1 + i
          BY <2>2, <2>3
        <4>2. u[i] = t[m + 1 + i]
          BY <4>1
        <4> QED BY <1>5, <4>2
      <3> QED BY <3>1, <3>2
    <2> QED BY <1>1, <2>2, <2>4, SeqEqual DEF n, u
  <1> QED BY <1>9, <1>10, <1>11 DEF t

\* Written to a file and read again, results are what they were.
LEMMA ReloadExact ==
  ASSUME NEW D \in SUBSET (Engines \X Engines), NEW map, DOMAIN map = D
  PROVE  LET read == FromJson(ToJson(map))
         IN DOMAIN read = D /\ \A key \in D : read[key] = map[key]
  <1> DEFINE file == ToJson(map)
             read == FromJson(file)
  <1>1. \A key \in D : SplitText(KeyText(key)) = key
    BY SplitKeyText
  <1>2. DOMAIN file = {KeyText(key) : key \in D}
    BY DEF ToJson
  <1>3. ASSUME NEW key \in D PROVE file[KeyText(key)] = map[key]
    <2> DEFINE at == CHOOSE k \in DOMAIN map : KeyText(k) = KeyText(key)
    <2>1. at \in D /\ KeyText(at) = KeyText(key)
      OBVIOUS
    <2>2. file[KeyText(key)] = map[at]
      BY DEF ToJson
    <2> HIDE DEF at
    <2>3. at = key
      BY <1>1, <2>1
    <2> QED BY <2>2, <2>3
  <1> HIDE DEF file
  <1>4. DOMAIN read = D
    BY <1>1, <1>2 DEF FromJson
  <1>5. ASSUME NEW key \in D PROVE read[key] = map[key]
    <2> DEFINE at == CHOOSE text \in DOMAIN file : SplitText(text) = key
    <2>1. at \in DOMAIN file /\ SplitText(at) = key
      BY <1>1, <1>2
    <2>2. read[key] = file[at]
      BY <1>4 DEF FromJson
    <2> HIDE DEF at
    <2>3. at = KeyText(key)
      BY <1>1, <1>2, <2>1
    <2> QED BY <1>3, <2>2, <2>3
  <1> QED BY <1>4, <1>5 DEF file

\* What a resumed tournament starts with.
LEMMA LoadedResults ==
  ASSUME NEW a \in Engines, NEW b \in Engines
  PROVE  Loaded(Resumed, <<a, b>>) =
             IF ~StatsDropped /\ EngineBefore(a, b) THEN GetStats(a, b) ELSE ZeroStats
  <1> DEFINE D == {k \in Engines \X Engines : EngineBefore(k[1], k[2])}
  <1>1. CASE StatsDropped
    <2>1. Resumed = EmptyMap /\ DOMAIN EmptyMap = {}
      BY <1>1 DEF Resumed, EmptyMap
    <2> QED BY <1>1, <2>1 DEF Loaded
  <1>2. CASE ~StatsDropped
    <2>1. DOMAIN MergedResults = D /\ Resumed = FromJson(ToJson(MergedResults))
      BY <1>2 DEF MergedResults, Resumed
    <2>2. DOMAIN Resumed = D /\ \A key \in D : Resumed[key] = MergedResults[key]
      BY <2>1, ReloadExact
    <2>3. <<a, b>> \in D <=> EngineBefore(a, b)
      OBVIOUS
    <2>4. <<a, b>> \in D => MergedResults[<<a, b>>] = GetStats(a, b)
      BY DEF MergedResults
    <2> QED BY <1>2, <2>2, <2>3, <2>4 DEF Loaded
  <1> QED BY <1>1, <1>2

LEMMA SaveAndResumeIInv == ASSUME IInv, SaveAndResume PROVE IInv'
  <1> DEFINE Entry(key) == Loaded(Resumed, key)
  <1>e. \A a, b \in Engines : Entry(<<a, b>>) \in {GetStats(a, b), ZeroStats}
    BY LoadedResults
  <1>1. \A a, b \in Engines : /\ results[<<a, b>>] \in StatsType
                              /\ InvertStats(results[<<b, a>>]) \in StatsType
    BY InvertStatsFields DEF IInv, TypeOK
  <1>2. \A a, b \in Engines : Entry(<<a, b>>) \in StatsType
    <2>1. \A a, b \in Engines : GetStats(a, b) \in StatsType
      BY <1>1, AddStatsType DEF GetStats
    <2> QED BY <1>e, <2>1, ZeroStatsConsistent
  <1>3. results' = [key \in Engines \X Engines |-> Entry(key)] /\ opt' = opt
    BY DEF SaveAndResume
  <1> HIDE DEF Entry
  <1>4. TypeOK'
    <2>1. outcome' \in [GameIds(opt') -> Outcomes \cup {NotPlayed}]
      BY DEF SaveAndResume, IInv, TypeOK
    <2>2. results' \in [Engines \X Engines -> StatsType]
      <3>1. \A key \in Engines \X Engines : Entry(key) \in StatsType
        BY <1>2
      <3> QED BY <1>3, <3>1
    <2>3. DOMAIN game_pair_cache' = {}
      BY DEF SaveAndResume, EmptyMap
    <2>4. opt' \in Options /\ restarts' \in Nat
      BY DEF SaveAndResume, IInv, TypeOK
    <2> QED BY <2>1, <2>2, <2>3, <2>4 DEF TypeOK
  <1>5. CacheHoldsSingleGames'
    BY DEF SaveAndResume, EmptyMap, CacheHoldsSingleGames
  <1>6. PentaMatchesGames'
    <2> SUFFICES ASSUME opt.penta, NEW a \in Engines, NEW b \in Engines
                 PROVE  PentaConsistent(Entry(<<a, b>>))
      BY <1>3 DEF PentaMatchesGames
    <2>1. /\ PentaConsistent(results[<<a, b>>])
          /\ PentaConsistent(InvertStats(results[<<b, a>>]))
      BY InvertStatsConsistent DEF IInv, TypeOK, PentaMatchesGames
    <2>2. PentaConsistent(GetStats(a, b))
      BY <2>1, <1>1, AddStatsConsistent DEF GetStats
    <2> QED BY <2>2, <1>e, ZeroStatsConsistent
  <1> QED BY <1>4, <1>5, <1>6 DEF IInv

LEMMA InitIInv == Init => IInv
  <1> SUFFICES ASSUME Init PROVE IInv OBVIOUS
  <1>1. results \in [Engines \X Engines -> StatsType]
    BY ZeroStatsConsistent DEF Init
  <1>2. DOMAIN game_pair_cache = {}
    BY DEF Init, EmptyMap
  <1>3. TypeOK
    BY <1>1, <1>2 DEF Init, TypeOK
  <1>4. PentaMatchesGames
    BY ZeroStatsConsistent DEF Init, PentaMatchesGames
  <1> QED BY <1>2, <1>3, <1>4 DEF IInv, CacheHoldsSingleGames

THEOREM Invariance == Spec => []IInv
  <1>1. IInv /\ [Next]_vars => IInv'
    <2> SUFFICES ASSUME IInv, [Next]_vars PROVE IInv' OBVIOUS
    <2>1. ASSUME NEW id \in DOMAIN outcome, NEW out \in Outcomes, Finish(id, out)
          PROVE  IInv'
      BY <2>1, FinishSingleIInv, FinishFirstOfPairIInv, FinishSecondOfPairIInv DEF Finish
    <2>2. CASE SaveAndResume
      BY <2>2, SaveAndResumeIInv
    <2>3. CASE UNCHANGED vars
      BY <2>3 DEF vars, IInv, TypeOK, CacheHoldsSingleGames, PentaMatchesGames
    <2> QED BY <2>1, <2>2, <2>3 DEF Next
  <1> QED BY InitIInv, <1>1, PTL DEF Spec

-----------------------------------------------------------------------------
\* The scoreboard is well typed: no count ever becomes negative.
THEOREM TypeCorrect == Spec => []TypeOK
  <1>1. IInv => TypeOK BY DEF IInv
  <1> QED BY <1>1, Invariance, PTL

\* In pentanomial mode every stored entry has two games for each pair it counts,
\* and the points of its pairs are the points of its games: the two likelihoods
\* the SPRT can be asked to compute are about the same games.
THEOREM PentaIsConsistent == Spec => []PentaMatchesGames
  <1>1. IInv => PentaMatchesGames BY DEF IInv
  <1> QED BY <1>1, Invariance, PTL

-----------------------------------------------------------------------------
(* The score is the tally: which games of a pair are counted, and what a     *)
(* counted game adds to the score of its two engines.                        *)

\* The games of a pair are counted together; while one waits for the other, it is the
\* one in the cache.
PairsTogether ==
    /\ ~opt.penta => DOMAIN game_pair_cache = {}
    /\ opt.penta => \A i \in DOMAIN outcome :
         IF IsPairCompleted(PairingId(i))
         THEN \A j \in DOMAIN outcome :
                 PairingId(j) = PairingId(i) => (outcome[i] = NotPlayed <=> outcome[j] = NotPlayed)
         ELSE \E j \in DOMAIN outcome :
                 /\ PairingId(j) = PairingId(i) /\ outcome[j] # NotPlayed
                 /\ game_pair_cache[PairingId(i)] = Cached(j, outcome[j])
                 /\ \A k \in DOMAIN outcome :
                       PairingId(k) = PairingId(i) /\ k # j => outcome[k] = NotPlayed

TallyInv == IInv /\ PairsTogether /\ ScoreIsTally

\* Of the games D with outcomes o: those a won against b, and those they drew.
GameWon(i, out, a, b) ==
    \/ <<First(i), Second(i)>> = <<a, b>> /\ out = "first"
    \/ <<First(i), Second(i)>> = <<b, a>> /\ out = "second"
GameDrawn(i, out, a, b) == {First(i), Second(i)} = {a, b} /\ out = "draw"
Won(D, o, a, b) == {i \in D : GameWon(i, o[i], a, b)}
Drawn(D, o, a, b) == {i \in D : GameDrawn(i, o[i], a, b)}

CountedGames == {i \in DOMAIN outcome : Counted(i)}

LEMMA TallySets ==
  ASSUME NEW a, NEW b
  PROVE  /\ WonBy(a, b) = Won(CountedGames, outcome, a, b)
         /\ DrawnBetween(a, b) = Drawn(CountedGames, outcome, a, b)
  BY DEF WonBy, DrawnBetween, Won, Drawn, GameWon, GameDrawn, CountedGames

\* The two engines of a game are different, and no other game has them in the other order.
LEMMA GameFacts ==
  ASSUME TypeOK, NEW i \in DOMAIN outcome
  PROVE  /\ i \in Nat \ {0} /\ PairingId(i) \in Nat
         /\ First(i) \in Engines /\ Second(i) \in Engines
         /\ White(i) \in Engines /\ Black(i) \in Engines
         /\ EngineBefore(First(i), Second(i))
         /\ \A a, b \in Engines : EngineBefore(a, b) => ~EngineBefore(b, a) /\ a # b
  <1> DEFINE enc == opt.encounters
             g == opt.games
             l == Len(enc)
             q == (i - 1) \div g
  <1>1. /\ g \in Nat \ {0} /\ enc \in Seq(Engines \X Engines)
        /\ \A k, m \in DOMAIN enc : enc[k] # <<enc[m][2], enc[m][1]>>
    BY OptionsAssumption DEF TypeOK, OptionOK
  <1>2. l \in Nat /\ DOMAIN enc = 1..l /\ \A k \in 1..l : enc[k] \in Engines \X Engines
    BY <1>1, LenProperties, ElementOfSeq
  <1>3. i \in 1..(l * g)
    BY DEF TypeOK, GameIds
  <1> HIDE DEF enc, g, l, q
  <1>4. l * g \in Nat /\ i \in Nat \ {0} /\ i - 1 \in Nat /\ i <= l * g
    BY <1>1, <1>2, <1>3
  <1>5. q \in Nat /\ q * g <= i - 1
    <2>1. \A x \in Nat, y \in Nat \ {0} : x \div y \in Nat /\ (x \div y) * y <= x
      OBVIOUS
    <2> QED BY <1>1, <1>4, <2>1 DEF q
  <1>6. q + 1 \in 1..l
    <2> SUFFICES ASSUME q >= l PROVE FALSE
      BY <1>2, <1>5
    <2>1. q * g >= l * g
      BY <1>1, <1>2, <1>5
    <2> DEFINE x == q * g
               y == l * g
    <2>2. x >= y /\ x <= i - 1 /\ i <= y /\ x \in Int /\ y \in Int
      BY <1>1, <1>2, <1>4, <1>5, <2>1
    <2> HIDE DEF x, y
    <2> QED BY <1>4, <2>2
  <1>7. PairingId(i) = q /\ First(i) = enc[q + 1][1] /\ Second(i) = enc[q + 1][2]
    BY DEF PairingId, First, Second, enc, q, g
  <1>8. enc[q + 1] \in Engines \X Engines /\ enc[q + 1] = <<First(i), Second(i)>>
    BY <1>2, <1>6, <1>7
  <1>9. First(i) \in Engines /\ Second(i) \in Engines
    BY <1>8
  <1>10. EngineBefore(First(i), Second(i))
    BY <1>2, <1>6, <1>8 DEF EngineBefore, enc
  <1>11. \A a, b \in Engines : EngineBefore(a, b) => ~EngineBefore(b, a) /\ a # b
    BY <1>1 DEF EngineBefore, enc
  <1> QED BY <1>4, <1>5, <1>7, <1>9, <1>10, <1>11 DEF White, Black

\* What a finished game says of White.
LEMMA GameStatsFields ==
  ASSUME TypeOK, NEW i \in DOMAIN outcome, NEW out \in Outcomes
  PROVE  LET s == GameStats(i, out)
         IN /\ s \in StatsType
            /\ s.wins = IF GameWon(i, out, White(i), Black(i)) THEN 1 ELSE 0
            /\ s.losses = IF GameWon(i, out, Black(i), White(i)) THEN 1 ELSE 0
            /\ s.draws = IF GameDrawn(i, out, White(i), Black(i)) THEN 1 ELSE 0
  <1> DEFINE r == WhiteResult(i, out)
  <1>1. First(i) # Second(i)
    BY GameFacts
  <1>2. \/ out = "draw" /\ r = "draw"
        \/ out = "first" /\ Swapped(i) /\ r = "lose"
        \/ out = "first" /\ ~Swapped(i) /\ r = "win"
        \/ out = "second" /\ Swapped(i) /\ r = "win"
        \/ out = "second" /\ ~Swapped(i) /\ r = "lose"
    BY DEF WhiteResult, Outcomes
  <1>3. /\ r = "win" <=> GameWon(i, out, White(i), Black(i))
        /\ r = "lose" <=> GameWon(i, out, Black(i), White(i))
        /\ r = "draw" <=> GameDrawn(i, out, White(i), Black(i))
    BY <1>1, <1>2 DEF GameWon, GameDrawn, White, Black
  <1>4. r \in GameResults
    BY <1>2 DEF GameResults
  <1> HIDE DEF r
  <1>5. /\ OneGame(r) \in StatsType
        /\ OneGame(r).wins = IF r = "win" THEN 1 ELSE 0
        /\ OneGame(r).losses = IF r = "lose" THEN 1 ELSE 0
        /\ OneGame(r).draws = IF r = "draw" THEN 1 ELSE 0
    BY <1>4 DEF OneGame, GameField, GameResults, ZeroStats, StatsType, StatsFields
  <1> QED BY <1>3, <1>5 DEF GameStats, r

\* Counted games are finitely many, and newly counted ones add to those of each kind.
LEMMA MoreGames ==
  ASSUME TypeOK, NEW D \in SUBSET DOMAIN outcome, D \cap CountedGames = {}, NEW o,
         \A i \in CountedGames : o[i] = outcome[i], NEW a, NEW b
  PROVE  /\ IsFiniteSet(CountedGames) /\ IsFiniteSet(D)
         /\ Cardinality(Won(CountedGames \cup D, o, a, b))
              = Cardinality(WonBy(a, b)) + Cardinality(Won(D, o, a, b))
         /\ Cardinality(Drawn(CountedGames \cup D, o, a, b))
              = Cardinality(DrawnBetween(a, b)) + Cardinality(Drawn(D, o, a, b))
         /\ Cardinality(WonBy(a, b)) \in Nat /\ Cardinality(Won(D, o, a, b)) \in Nat
         /\ Cardinality(DrawnBetween(a, b)) \in Nat /\ Cardinality(Drawn(D, o, a, b)) \in Nat
  <1>1. IsFiniteSet(DOMAIN outcome)
    <2>1. Len(opt.encounters) \in Nat /\ opt.games \in Nat
      BY OptionsAssumption, LenProperties DEF TypeOK, OptionOK
    <2>2. Len(opt.encounters) * opt.games \in Int
      BY <2>1
    <2>3. IsFiniteSet(1..(Len(opt.encounters) * opt.games))
      BY <2>2, FS_Interval
    <2> QED BY <2>3 DEF TypeOK, GameIds
  <1>2. IsFiniteSet(CountedGames) /\ IsFiniteSet(D)
    BY <1>1, FS_Subset DEF CountedGames
  <1>3. ASSUME NEW S, NEW T, NEW U, S \subseteq CountedGames, T \subseteq D, U = S \cup T
        PROVE  /\ Cardinality(U) = Cardinality(S) + Cardinality(T)
               /\ Cardinality(S) \in Nat /\ Cardinality(T) \in Nat
    <2>1. IsFiniteSet(S) /\ IsFiniteSet(T) /\ S \cap T = {}
      BY <1>2, <1>3, FS_Subset
    <2>2. Cardinality(S) \in Nat /\ Cardinality(T) \in Nat /\ Cardinality({}) = 0
      BY <2>1, FS_CardinalityType, FS_EmptySet
    <2>3. Cardinality(U) = Cardinality(S) + Cardinality(T) - Cardinality(S \cap T)
      BY <1>3, <2>1, FS_Union
    <2>4. Cardinality(S \cap T) = 0
      BY <2>1, <2>2
    <2>5. Cardinality(U) = Cardinality(S) + Cardinality(T)
      BY <2>2, <2>3, <2>4
    <2> QED BY <2>2, <2>5
  <1>4. /\ WonBy(a, b) = Won(CountedGames, outcome, a, b)
        /\ DrawnBetween(a, b) = Drawn(CountedGames, outcome, a, b)
    BY TallySets
  <1>5. /\ WonBy(a, b) \subseteq CountedGames /\ Won(D, o, a, b) \subseteq D
        /\ Won(CountedGames \cup D, o, a, b) = WonBy(a, b) \cup Won(D, o, a, b)
    BY <1>4 DEF Won
  <1>6. /\ DrawnBetween(a, b) \subseteq CountedGames /\ Drawn(D, o, a, b) \subseteq D
        /\ Drawn(CountedGames \cup D, o, a, b) = DrawnBetween(a, b) \cup Drawn(D, o, a, b)
    BY <1>4 DEF Drawn
  <1>7. /\ Cardinality(Won(CountedGames \cup D, o, a, b))
             = Cardinality(WonBy(a, b)) + Cardinality(Won(D, o, a, b))
        /\ Cardinality(WonBy(a, b)) \in Nat /\ Cardinality(Won(D, o, a, b)) \in Nat
    BY <1>3, <1>5
  <1>8. /\ Cardinality(Drawn(CountedGames \cup D, o, a, b))
             = Cardinality(DrawnBetween(a, b)) + Cardinality(Drawn(D, o, a, b))
        /\ Cardinality(DrawnBetween(a, b)) \in Nat /\ Cardinality(Drawn(D, o, a, b)) \in Nat
    BY <1>3, <1>6
  <1> QED BY <1>2, <1>7, <1>8

\* Games between w and b are counted, and their tally is added to the entry of one of them.
LEMMA NewGamesTally ==
  ASSUME IInv, ScoreIsTally, opt' = opt, DOMAIN outcome' = DOMAIN outcome,
         NEW D \in SUBSET DOMAIN outcome, D \cap CountedGames = {},
         \A i \in DOMAIN outcome : Counted(i)' <=> i \in CountedGames \cup D,
         \A i \in CountedGames : outcome'[i] = outcome[i],
         NEW w \in Engines, NEW b \in Engines, w # b,
         \A i \in D : {First(i), Second(i)} = {w, b},
         NEW s \in StatsType,
         s.wins = Cardinality(Won(D, outcome', w, b)),
         s.losses = Cardinality(Won(D, outcome', b, w)),
         s.draws = Cardinality(Drawn(D, outcome', w, b)),
         results' = [results EXCEPT ![<<w, b>>] = AddStats(@, s)]
  PROVE  ScoreIsTally'
  <1> SUFFICES ASSUME PairsSwap, NEW x \in Engines, NEW y \in Engines, x # y
               PROVE  /\ GetStats(x, y)'.wins = Cardinality(WonBy(x, y)')
                      /\ GetStats(x, y)'.losses = Cardinality(WonBy(y, x)')
                      /\ GetStats(x, y)'.draws = Cardinality(DrawnBetween(x, y)')
    BY DEF ScoreIsTally, PairsSwap
  <1>t. TypeOK
    BY DEF IInv
  <1>1. ASSUME NEW u \in Engines, NEW v \in Engines
        PROVE  /\ WonBy(u, v)' = Won(CountedGames \cup D, outcome', u, v)
               /\ DrawnBetween(u, v)' = Drawn(CountedGames \cup D, outcome', u, v)
    <2>1. \A i : First(i)' = First(i) /\ Second(i)' = Second(i)
      BY DEF First, Second, PairingId
    <2>2. CountedGames \cup D \subseteq DOMAIN outcome
      BY DEF CountedGames
    <2> QED BY <2>1, <2>2 DEF WonBy, DrawnBetween, Won, Drawn, GameWon, GameDrawn
  <1>2. ASSUME NEW u \in Engines, NEW v \in Engines
        PROVE  /\ Cardinality(WonBy(u, v)')
                    = Cardinality(WonBy(u, v)) + Cardinality(Won(D, outcome', u, v))
               /\ Cardinality(DrawnBetween(u, v)')
                    = Cardinality(DrawnBetween(u, v)) + Cardinality(Drawn(D, outcome', u, v))
               /\ Cardinality(WonBy(u, v)) \in Nat /\ Cardinality(Won(D, outcome', u, v)) \in Nat
               /\ Cardinality(DrawnBetween(u, v)) \in Nat
               /\ Cardinality(Drawn(D, outcome', u, v)) \in Nat
    BY <1>t, <1>1, MoreGames
  <1> DEFINE p == results[<<x, y>>]
             q == results[<<y, x>>]
             pp == results'[<<x, y>>]
             qq == results'[<<y, x>>]
  <1>3. /\ p \in StatsType /\ q \in StatsType
        /\ pp = IF <<x, y>> = <<w, b>> THEN AddStats(p, s) ELSE p
        /\ qq = IF <<y, x>> = <<w, b>> THEN AddStats(q, s) ELSE q
    BY <1>t DEF TypeOK
  <1> HIDE DEF p, q, pp, qq
  <1>4. /\ AddStats(p, s) \in StatsType /\ AddStats(q, s) \in StatsType
        /\ AddStats(p, s).wins = p.wins + s.wins /\ AddStats(q, s).wins = q.wins + s.wins
        /\ AddStats(p, s).losses = p.losses + s.losses /\ AddStats(q, s).losses = q.losses + s.losses
        /\ AddStats(p, s).draws = p.draws + s.draws /\ AddStats(q, s).draws = q.draws + s.draws
    BY <1>3, AddStatsType DEF StatsFields
  <1>5. pp \in StatsType /\ qq \in StatsType
    BY <1>3, <1>4
  <1>6. ASSUME NEW g \in StatsType, NEW h \in StatsType
        PROVE  LET f == AddStats(g, InvertStats(h))
               IN /\ f.wins = g.wins + h.losses /\ f.losses = g.losses + h.wins
                  /\ f.draws = g.draws + h.draws
    BY AddStatsType, InvertStatsFields DEF StatsFields
  <1>7. /\ GetStats(x, y) = AddStats(p, InvertStats(q))
        /\ GetStats(x, y)' = AddStats(pp, InvertStats(qq))
    BY DEF GetStats, p, q, pp, qq
  <1>8. /\ GetStats(x, y).wins = p.wins + q.losses /\ GetStats(x, y).losses = p.losses + q.wins
        /\ GetStats(x, y).draws = p.draws + q.draws
        /\ GetStats(x, y)'.wins = pp.wins + qq.losses
        /\ GetStats(x, y)'.losses = pp.losses + qq.wins
        /\ GetStats(x, y)'.draws = pp.draws + qq.draws
    BY <1>3, <1>5, <1>6, <1>7
  <1>9. /\ GetStats(x, y).wins = Cardinality(WonBy(x, y))
        /\ GetStats(x, y).losses = Cardinality(WonBy(y, x))
        /\ GetStats(x, y).draws = Cardinality(DrawnBetween(x, y))
    BY DEF ScoreIsTally
  <1>n. /\ p.wins \in Nat /\ p.losses \in Nat /\ p.draws \in Nat
        /\ q.wins \in Nat /\ q.losses \in Nat /\ q.draws \in Nat
        /\ s.wins \in Nat /\ s.losses \in Nat /\ s.draws \in Nat
    BY <1>3, StatsFieldTypes
  <1>a. Drawn(D, outcome', x, y) = Drawn(D, outcome', y, x)
    BY DEF Drawn, GameDrawn
  <1>10. CASE x = w /\ y = b
    <2>1. pp = AddStats(p, s) /\ qq = q
      BY <1>3, <1>10
    <2> QED BY <1>2, <1>4, <1>8, <1>9, <1>10, <1>n, <2>1
  <1>11. CASE x = b /\ y = w
    <2>1. pp = p /\ qq = AddStats(q, s)
      BY <1>3, <1>11
    <2> QED BY <1>2, <1>4, <1>8, <1>9, <1>11, <1>n, <1>a, <2>1
  <1>12. CASE {x, y} # {w, b}
    <2>1. pp = p /\ qq = q
      BY <1>3, <1>12
    <2>2. /\ Won(D, outcome', x, y) = {} /\ Won(D, outcome', y, x) = {}
          /\ Drawn(D, outcome', x, y) = {}
      BY <1>12 DEF Won, Drawn, GameWon, GameDrawn
    <2>3. /\ Cardinality(Won(D, outcome', x, y)) = 0 /\ Cardinality(Won(D, outcome', y, x)) = 0
          /\ Cardinality(Drawn(D, outcome', x, y)) = 0
      BY <2>2, FS_EmptySet
    <2>4. /\ Cardinality(WonBy(x, y)') = Cardinality(WonBy(x, y))
          /\ Cardinality(WonBy(y, x)') = Cardinality(WonBy(y, x))
          /\ Cardinality(DrawnBetween(x, y)') = Cardinality(DrawnBetween(x, y))
      BY <1>2, <2>3
    <2> QED BY <1>8, <1>9, <2>1, <2>4
  <1> QED BY <1>10, <1>11, <1>12

\* The two games of a pair: there is no third, and they have different colours.
LEMMA TwoToAPair ==
  ASSUME TypeOK, opt.penta, NEW i \in DOMAIN outcome, NEW j \in DOMAIN outcome,
         PairingId(i) = PairingId(j), i # j
  PROVE  /\ \A k \in DOMAIN outcome : PairingId(k) = PairingId(i) => k \in {i, j}
         /\ First(j) = First(i) /\ Second(j) = Second(i)
         /\ PairsSwap => White(j) = Black(i) /\ Black(j) = White(i)
  <1>1. opt.games = 2 /\ opt.noswap \in BOOLEAN /\ opt.reverse \in BOOLEAN
    BY OptionsAssumption DEF TypeOK, OptionOK
  <1>2. \A k \in DOMAIN outcome : k \in Nat \ {0} /\ PairingId(k) = (k - 1) \div 2
    BY <1>1, GameFacts DEF PairingId
  <1>3. \A k \in DOMAIN outcome : k = 2 * PairingId(k) + 1 \/ k = 2 * PairingId(k) + 2
    <2>1. \A k \in Nat \ {0} : k = 2 * ((k - 1) \div 2) + 1 \/ k = 2 * ((k - 1) \div 2) + 2
      OBVIOUS
    <2> QED BY <1>2, <2>1
  <1>4. First(j) = First(i) /\ Second(j) = Second(i)
    BY DEF First, Second
  <1>5. \A k \in DOMAIN outcome : PairingId(k) = PairingId(i) => k \in {i, j}
    BY <1>2, <1>3
  <1>6. i % 2 = 0 <=> ~(j % 2 = 0)
    <2>1. PairingId(i) \in Nat
      BY GameFacts
    <2>2. \A p \in Nat : (2 * p + 1) % 2 = 1 /\ (2 * p + 2) % 2 = 0
      OBVIOUS
    <2>3. \/ i = 2 * PairingId(i) + 1 /\ j = 2 * PairingId(i) + 2
          \/ i = 2 * PairingId(i) + 2 /\ j = 2 * PairingId(i) + 1
      BY <1>3
    <2>4. (i % 2 = 1 /\ j % 2 = 0) \/ (i % 2 = 0 /\ j % 2 = 1)
      BY <2>1, <2>2, <2>3
    <2> QED BY <2>4
  <1>7. PairsSwap => (Swapped(i) <=> ~Swapped(j))
    <2> SUFFICES ASSUME ~opt.noswap PROVE Swapped(i) <=> ~Swapped(j)
      BY DEF PairsSwap
    <2> DEFINE m == i % 2 = 0
               n == j % 2 = 0
    <2>1. (m <=> ~n) /\ (Swapped(i) <=> (m # opt.reverse)) /\ (Swapped(j) <=> (n # opt.reverse))
          /\ m \in BOOLEAN /\ n \in BOOLEAN
      BY <1>6, <1>1 DEF Swapped
    <2> HIDE DEF m, n
    <2> QED BY <1>1, <2>1
  <1> QED BY <1>4, <1>5, <1>7 DEF White, Black

LEMMA FinishSingleTally ==
  ASSUME TallyInv, NEW id \in DOMAIN outcome, NEW out \in Outcomes, FinishSingle(id, out)
  PROVE  PairsTogether' /\ ScoreIsTally'
  <1> USE DEF TallyInv
  <1>t. TypeOK /\ opt' = opt /\ DOMAIN outcome' = DOMAIN outcome
    BY DEF IInv, TypeOK, FinishSingle, Played
  <1>1. PairsTogether'
    BY <1>t DEF FinishSingle, PairsTogether
  <1>2. /\ outcome'[id] = out /\ out # NotPlayed /\ outcome[id] = NotPlayed
        /\ \A i \in DOMAIN outcome : i # id => outcome'[i] = outcome[i]
    BY DEF FinishSingle, Played, Outcomes, NotPlayed
  <1>3. \A i : PairingId(i)' = PairingId(i) /\ IsPairCompleted(PairingId(i)) /\ IsPairCompleted(PairingId(i))'
    BY <1>t DEF PairsTogether, IsPairCompleted, FinishSingle, PairingId
  <1> DEFINE D == {id}
             w == White(id)
             b == Black(id)
             s == GameStats(id, out)
  <1>4. \A i \in DOMAIN outcome : Counted(i)' <=> i \in CountedGames \cup D
    BY <1>2, <1>3 DEF Counted, CountedGames
  <1>5. D \cap CountedGames = {} /\ \A i \in CountedGames : outcome'[i] = outcome[i]
    BY <1>2 DEF Counted, CountedGames
  <1>6. w \in Engines /\ b \in Engines /\ w # b /\ {First(id), Second(id)} = {w, b}
    BY <1>t, GameFacts DEF White, Black
  <1>7. /\ s \in StatsType
        /\ s.wins = Cardinality(Won(D, outcome', w, b))
        /\ s.losses = Cardinality(Won(D, outcome', b, w))
        /\ s.draws = Cardinality(Drawn(D, outcome', w, b))
    <2>1. /\ Won(D, outcome', w, b) = IF GameWon(id, out, w, b) THEN {id} ELSE {}
          /\ Won(D, outcome', b, w) = IF GameWon(id, out, b, w) THEN {id} ELSE {}
          /\ Drawn(D, outcome', w, b) = IF GameDrawn(id, out, w, b) THEN {id} ELSE {}
      BY <1>2 DEF Won, Drawn
    <2>2. Cardinality({id}) = 1 /\ Cardinality({}) = 0
      BY FS_Singleton, FS_EmptySet
    <2>3. /\ s \in StatsType
          /\ s.wins = IF GameWon(id, out, w, b) THEN 1 ELSE 0
          /\ s.losses = IF GameWon(id, out, b, w) THEN 1 ELSE 0
          /\ s.draws = IF GameDrawn(id, out, w, b) THEN 1 ELSE 0
      BY <1>t, GameStatsFields
    <2> QED BY <2>1, <2>2, <2>3
  <1>8. results' = [results EXCEPT ![<<w, b>>] = AddStats(@, s)]
    BY DEF FinishSingle, UpdateNonPair
  <1> HIDE DEF w, b, s
  <1>9. ScoreIsTally'
    BY <1>t, <1>4, <1>5, <1>6, <1>7, <1>8, NewGamesTally
  <1> QED BY <1>1, <1>9

LEMMA FinishFirstOfPairTally ==
  ASSUME TallyInv, NEW id \in DOMAIN outcome, NEW out \in Outcomes, FinishFirstOfPair(id, out)
  PROVE  /\ PairsTogether' /\ ScoreIsTally'
         /\ \A i \in DOMAIN outcome : /\ Counted(i)' <=> Counted(i)
                                      /\ Counted(i) => outcome'[i] = outcome[i]
  <1> USE DEF TallyInv
  <1>t. TypeOK /\ opt' = opt /\ DOMAIN outcome' = DOMAIN outcome /\ opt.penta
    BY DEF IInv, TypeOK, FinishFirstOfPair, Played
  <1> DEFINE p == PairingId(id)
  <1>1. /\ outcome'[id] = out /\ out # NotPlayed /\ outcome[id] = NotPlayed
        /\ \A i \in DOMAIN outcome : i # id => outcome'[i] = outcome[i]
    BY DEF FinishFirstOfPair, Played, Outcomes, NotPlayed
  <1>2. /\ p \notin DOMAIN game_pair_cache /\ DOMAIN game_pair_cache' = DOMAIN game_pair_cache \cup {p}
        /\ game_pair_cache'[p] = Cached(id, out)
        /\ \A q \in DOMAIN game_pair_cache : game_pair_cache'[q] = game_pair_cache[q]
    BY DEF FinishFirstOfPair, IsPairCompleted
  <1>3. \A i, o : PairingId(i)' = PairingId(i) /\ Cached(i, o)' = Cached(i, o)
    BY <1>t DEF PairingId, Cached, GameStats, WhiteResult, Swapped
  <1>4. \A i \in DOMAIN outcome : PairingId(i) = p => outcome[i] = NotPlayed
    BY <1>t, <1>1, <1>2 DEF PairsTogether, IsPairCompleted
  <1>5. PairsTogether'
    <2> SUFFICES ASSUME NEW i \in DOMAIN outcome
                 PROVE  IF PairingId(i) \notin DOMAIN game_pair_cache'
                        THEN \A j \in DOMAIN outcome :
                               PairingId(j) = PairingId(i) =>
                                  (outcome'[i] = NotPlayed <=> outcome'[j] = NotPlayed)
                        ELSE \E j \in DOMAIN outcome :
                               /\ PairingId(j) = PairingId(i) /\ outcome'[j] # NotPlayed
                               /\ game_pair_cache'[PairingId(i)] = Cached(j, outcome'[j])
                               /\ \A k \in DOMAIN outcome :
                                    PairingId(k) = PairingId(i) /\ k # j => outcome'[k] = NotPlayed
      BY <1>t, <1>3 DEF PairsTogether, IsPairCompleted
    <2>1. CASE PairingId(i) = p
      BY <1>1, <1>2, <1>4, <2>1
    <2>2. CASE PairingId(i) # p
      <3>1. \A j \in DOMAIN outcome : PairingId(j) = PairingId(i) => outcome'[j] = outcome[j]
        BY <1>1, <2>2
      <3>2. CASE PairingId(i) \in DOMAIN game_pair_cache
        <4>1. PICK j \in DOMAIN outcome :
                /\ PairingId(j) = PairingId(i) /\ outcome[j] # NotPlayed
                /\ game_pair_cache[PairingId(i)] = Cached(j, outcome[j])
                /\ \A k \in DOMAIN outcome :
                      PairingId(k) = PairingId(i) /\ k # j => outcome[k] = NotPlayed
          BY <1>t, <3>2 DEF PairsTogether, IsPairCompleted
        <4>2. game_pair_cache'[PairingId(i)] = Cached(j, outcome'[j])
          BY <1>2, <3>1, <3>2, <4>1
        <4> QED BY <1>2, <3>1, <3>2, <4>1, <4>2
      <3>3. CASE PairingId(i) \notin DOMAIN game_pair_cache
        <4>1. \A j \in DOMAIN outcome : PairingId(j) = PairingId(i) =>
                 (outcome[i] = NotPlayed <=> outcome[j] = NotPlayed)
          BY <1>t, <3>3 DEF PairsTogether, IsPairCompleted
        <4> QED BY <1>2, <2>2, <3>1, <3>3, <4>1
      <3> QED BY <3>2, <3>3
    <2> QED BY <2>1, <2>2
  <1>6. \A i \in DOMAIN outcome : /\ Counted(i)' <=> Counted(i)
                                  /\ Counted(i) => outcome'[i] = outcome[i]
    BY <1>1, <1>2, <1>3, <1>4 DEF Counted, IsPairCompleted
  <1>7. ScoreIsTally'
    <2>1. \A a, b : WonBy(a, b)' = WonBy(a, b) /\ DrawnBetween(a, b)' = DrawnBetween(a, b)
      <3>1. \A i : First(i)' = First(i) /\ Second(i)' = Second(i)
        BY <1>t DEF First, Second, PairingId
      <3> QED BY <1>t, <1>6, <3>1 DEF WonBy, DrawnBetween
    <2>2. \A a, b : GetStats(a, b)' = GetStats(a, b)
      BY DEF FinishFirstOfPair, GetStats
    <2> QED BY <1>t, <2>1, <2>2 DEF ScoreIsTally, PairsSwap
  <1> QED BY <1>5, <1>6, <1>7

LEMMA CardinalityOfTwo ==
  ASSUME NEW i, NEW j, i # j, NEW S, S \subseteq {i, j}
  PROVE  Cardinality(S) = (IF i \in S THEN 1 ELSE 0) + (IF j \in S THEN 1 ELSE 0)
  <1>1. Cardinality({}) = 0 /\ Cardinality({i}) = 1 /\ Cardinality({j}) = 1
    BY FS_EmptySet, FS_Singleton
  <1>2. Cardinality({i, j}) = 2
    <2>1. IsFiniteSet({i}) /\ j \notin {i} /\ {i, j} = {i} \cup {j}
      BY FS_Singleton
    <2>2. Cardinality({i} \cup {j}) = Cardinality({i}) + 1
      BY <2>1, FS_AddElement
    <2> QED BY <1>1, <2>1, <2>2
  <1>3. S = {} \/ S = {i} \/ S = {j} \/ S = {i, j}
    OBVIOUS
  <1>4. CASE S = {} BY <1>1, <1>4
  <1>5. CASE S = {i} BY <1>1, <1>5
  <1>6. CASE S = {j} BY <1>1, <1>6
  <1>7. CASE S = {i, j} BY <1>2, <1>7
  <1> QED BY <1>3, <1>4, <1>5, <1>6, <1>7

\* The game that waited, and the one it waited for.
LEMMA SecondOfPairFacts ==
  ASSUME TallyInv, NEW id \in DOMAIN outcome, NEW out \in Outcomes, FinishSecondOfPair(id, out)
  PROVE  /\ opt.penta /\ opt' = opt /\ DOMAIN outcome' = DOMAIN outcome
         /\ outcome'[id] = out /\ out # NotPlayed /\ outcome[id] = NotPlayed
         /\ \A i \in DOMAIN outcome : i # id => outcome'[i] = outcome[i]
         /\ \E j \in DOMAIN outcome :
              /\ j # id /\ outcome[j] \in Outcomes
              /\ game_pair_cache[PairingId(id)] = Cached(j, outcome[j])
              /\ PairingId(j) = PairingId(id)
              /\ \A k \in DOMAIN outcome : PairingId(k) = PairingId(id) => k \in {id, j}
              /\ First(j) = First(id) /\ Second(j) = Second(id)
              /\ PairsSwap => White(j) = Black(id) /\ Black(j) = White(id)
              /\ {id, j} \cap CountedGames = {}
              /\ \A i \in DOMAIN outcome : Counted(i)' <=> i \in CountedGames \cup {id, j}
  <1> DEFINE p == PairingId(id)
  <1>t. TypeOK
    BY DEF TallyInv, IInv
  <1>1. /\ opt.penta /\ opt' = opt /\ DOMAIN outcome' = DOMAIN outcome
        /\ outcome'[id] = out /\ out # NotPlayed /\ outcome[id] = NotPlayed
        /\ \A i \in DOMAIN outcome : i # id => outcome'[i] = outcome[i]
        /\ p \in DOMAIN game_pair_cache /\ DOMAIN game_pair_cache' = DOMAIN game_pair_cache \ {p}
    BY <1>t DEF TypeOK, FinishSecondOfPair, IsPairCompleted, Played, Outcomes, NotPlayed
  <1>2. PICK j \in DOMAIN outcome :
          /\ PairingId(j) = p /\ outcome[j] # NotPlayed
          /\ game_pair_cache[p] = Cached(j, outcome[j])
    BY <1>1 DEF TallyInv, PairsTogether, IsPairCompleted
  <1>3. j # id /\ outcome[j] \in Outcomes
    BY <1>t, <1>1, <1>2 DEF TypeOK
  <1>4. /\ \A k \in DOMAIN outcome : PairingId(k) = p => k \in {id, j}
        /\ First(j) = First(id) /\ Second(j) = Second(id)
        /\ PairsSwap => White(j) = Black(id) /\ Black(j) = White(id)
    <2> HIDE DEF p
    <2>1. PairingId(id) = PairingId(j) /\ PairingId(id) = p
      BY <1>2 DEF p
    <2> QED BY <1>t, <1>1, <1>3, <2>1, TwoToAPair
  <1>5. \A i : PairingId(i)' = PairingId(i)
    BY <1>1 DEF PairingId
  <1>6. {id, j} \cap CountedGames = {}
    BY <1>1, <1>2 DEF CountedGames, Counted, IsPairCompleted
  <1>7. ASSUME NEW i \in DOMAIN outcome PROVE Counted(i)' <=> i \in CountedGames \cup {id, j}
    <2>1. CASE PairingId(i) = p
      <3>1. i \in {id, j} /\ outcome'[i] # NotPlayed
        BY <1>1, <1>2, <1>3, <1>4, <2>1
      <3> QED BY <1>1, <1>5, <2>1, <3>1 DEF Counted, IsPairCompleted
    <2>2. CASE PairingId(i) # p
      <3>1. i \notin {id, j} /\ outcome'[i] = outcome[i]
        BY <1>1, <1>2, <2>2
      <3> QED BY <1>1, <1>5, <2>2, <3>1 DEF Counted, CountedGames, IsPairCompleted
    <2> QED BY <2>1, <2>2
  <1> QED BY <1>1, <1>2, <1>3, <1>4, <1>6, <1>7

LEMMA FinishSecondOfPairTally ==
  ASSUME TallyInv, NEW id \in DOMAIN outcome, NEW out \in Outcomes, FinishSecondOfPair(id, out)
  PROVE  PairsTogether' /\ ScoreIsTally'
  <1> DEFINE p == PairingId(id)
  <1>t. IInv /\ TypeOK /\ ScoreIsTally
    BY DEF TallyInv, IInv
  <1>1. /\ opt.penta /\ opt' = opt /\ DOMAIN outcome' = DOMAIN outcome
        /\ outcome'[id] = out /\ out # NotPlayed /\ outcome[id] = NotPlayed
        /\ \A i \in DOMAIN outcome : i # id => outcome'[i] = outcome[i]
    BY SecondOfPairFacts
  <1>2. PICK j \in DOMAIN outcome :
          /\ j # id /\ outcome[j] \in Outcomes
          /\ game_pair_cache[p] = Cached(j, outcome[j])
          /\ PairingId(j) = p
          /\ \A k \in DOMAIN outcome : PairingId(k) = p => k \in {id, j}
          /\ First(j) = First(id) /\ Second(j) = Second(id)
          /\ PairsSwap => White(j) = Black(id) /\ Black(j) = White(id)
          /\ {id, j} \cap CountedGames = {}
          /\ \A i \in DOMAIN outcome : Counted(i)' <=> i \in CountedGames \cup {id, j}
    BY SecondOfPairFacts
  <1>3. PairsTogether'
    <2>1. \A i, o : PairingId(i)' = PairingId(i) /\ Cached(i, o)' = Cached(i, o)
      BY <1>1 DEF PairingId, Cached, GameStats, WhiteResult, Swapped
    <2>2. /\ DOMAIN game_pair_cache' = DOMAIN game_pair_cache \ {p}
          /\ \A q \in DOMAIN game_pair_cache' : game_pair_cache'[q] = game_pair_cache[q]
      BY DEF FinishSecondOfPair
    <2> SUFFICES ASSUME NEW i \in DOMAIN outcome
                 PROVE  IF PairingId(i) \notin DOMAIN game_pair_cache'
                        THEN \A k \in DOMAIN outcome :
                               PairingId(k) = PairingId(i) =>
                                  (outcome'[i] = NotPlayed <=> outcome'[k] = NotPlayed)
                        ELSE \E k \in DOMAIN outcome :
                               /\ PairingId(k) = PairingId(i) /\ outcome'[k] # NotPlayed
                               /\ game_pair_cache'[PairingId(i)] = Cached(k, outcome'[k])
                               /\ \A m \in DOMAIN outcome :
                                    PairingId(m) = PairingId(i) /\ m # k => outcome'[m] = NotPlayed
      BY <1>1, <2>1 DEF PairsTogether, IsPairCompleted
    <2>3. CASE PairingId(i) = p
      <3>1. \A k \in DOMAIN outcome : PairingId(k) = p => outcome'[k] # NotPlayed
        BY <1>1, <1>2 DEF Outcomes, NotPlayed
      <3> QED BY <2>2, <2>3, <3>1
    <2>4. CASE PairingId(i) # p
      <3>1. \A k \in DOMAIN outcome : PairingId(k) = PairingId(i) => outcome'[k] = outcome[k]
        BY <1>1, <2>4
      <3>2. CASE PairingId(i) \in DOMAIN game_pair_cache
        <4>1. PICK k \in DOMAIN outcome :
                /\ PairingId(k) = PairingId(i) /\ outcome[k] # NotPlayed
                /\ game_pair_cache[PairingId(i)] = Cached(k, outcome[k])
                /\ \A m \in DOMAIN outcome :
                      PairingId(m) = PairingId(i) /\ m # k => outcome[m] = NotPlayed
          BY <1>1, <3>2 DEF TallyInv, PairsTogether, IsPairCompleted
        <4>2. game_pair_cache'[PairingId(i)] = Cached(k, outcome'[k])
          BY <2>2, <2>4, <3>1, <3>2, <4>1
        <4> QED BY <2>2, <2>4, <3>1, <3>2, <4>1, <4>2
      <3>3. CASE PairingId(i) \notin DOMAIN game_pair_cache
        <4>1. \A k \in DOMAIN outcome : PairingId(k) = PairingId(i) =>
                 (outcome[i] = NotPlayed <=> outcome[k] = NotPlayed)
          BY <1>1, <3>3 DEF TallyInv, PairsTogether, IsPairCompleted
        <4> QED BY <2>2, <3>1, <3>3, <4>1
      <3> QED BY <3>2, <3>3
    <2> QED BY <2>3, <2>4
  <1>4. ASSUME PairsSwap PROVE ScoreIsTally'
    <2> DEFINE D == {id, j}
               w == White(id)
               b == Black(id)
               g == GameStats(id, out)
               h == GameStats(j, outcome[j])
               s == WithPenta(AddStats(InvertStats(h), g))
    <2>1. /\ g \in StatsType
          /\ g.wins = IF GameWon(id, out, w, b) THEN 1 ELSE 0
          /\ g.losses = IF GameWon(id, out, b, w) THEN 1 ELSE 0
          /\ g.draws = IF GameDrawn(id, out, w, b) THEN 1 ELSE 0
      BY <1>t, GameStatsFields
    <2>2. /\ h \in StatsType
          /\ h.wins = IF GameWon(j, outcome[j], b, w) THEN 1 ELSE 0
          /\ h.losses = IF GameWon(j, outcome[j], w, b) THEN 1 ELSE 0
          /\ h.draws = IF GameDrawn(j, outcome[j], w, b) THEN 1 ELSE 0
      <3>1. /\ h \in StatsType
            /\ h.wins = IF GameWon(j, outcome[j], White(j), Black(j)) THEN 1 ELSE 0
            /\ h.losses = IF GameWon(j, outcome[j], Black(j), White(j)) THEN 1 ELSE 0
            /\ h.draws = IF GameDrawn(j, outcome[j], White(j), Black(j)) THEN 1 ELSE 0
        BY <1>t, <1>2, GameStatsFields
      <3>2. White(j) = b /\ Black(j) = w
        BY <1>2, <1>4
      <3>3. GameDrawn(j, outcome[j], b, w) <=> GameDrawn(j, outcome[j], w, b)
        BY DEF GameDrawn
      <3> HIDE DEF w, b, h
      <3> QED BY <3>1, <3>2, <3>3
    <2>3. w \in Engines /\ b \in Engines /\ w # b /\ {First(id), Second(id)} = {w, b}
          /\ {First(j), Second(j)} = {w, b}
      BY <1>t, <1>2, GameFacts DEF White, Black
    <2>4. results' = [results EXCEPT ![<<w, b>>] = AddStats(@, s)]
      BY <1>2 DEF FinishSecondOfPair, UpdateNonPair, Cached
    <2>5. s \in StatsType /\ s.wins = h.losses + g.wins /\ s.losses = h.wins + g.losses
          /\ s.draws = h.draws + g.draws
      <3> HIDE DEF h, g
      <3> DEFINE v == InvertStats(h)
                 u == AddStats(v, g)
      <3>1. v \in StatsType /\ v.wins = h.losses /\ v.losses = h.wins /\ v.draws = h.draws
        BY <2>2, InvertStatsFields
      <3> HIDE DEF v
      <3>2. u \in StatsType /\ u.wins = v.wins + g.wins /\ u.losses = v.losses + g.losses
            /\ u.draws = v.draws + g.draws
        BY <2>1, <3>1, AddStatsType DEF StatsFields
      <3>3. s = WithPenta(u)
        BY DEF v
      <3> HIDE DEF u, s
      <3>4. s \in StatsType /\ s.wins = u.wins /\ s.losses = u.losses /\ s.draws = u.draws
        BY <3>2, <3>3, WithPentaFields
      <3> QED BY <3>1, <3>2, <3>4
    <2> HIDE DEF w, b, g, h, s
    <2>6. outcome'[id] = out /\ outcome'[j] = outcome[j]
      BY <1>1, <1>2
    <2>7. s.wins = Cardinality(Won(D, outcome', w, b))
      <3>1. /\ Won(D, outcome', w, b) \subseteq {id, j}
            /\ id \in Won(D, outcome', w, b) <=> GameWon(id, out, w, b)
            /\ j \in Won(D, outcome', w, b) <=> GameWon(j, outcome[j], w, b)
        BY <2>6 DEF Won
      <3> DEFINE S == Won(D, outcome', w, b)
      <3>2. id # j /\ S \subseteq {id, j}
        BY <1>2, <3>1
      <3> HIDE DEF S
      <3>3. Cardinality(S) = (IF id \in S THEN 1 ELSE 0) + (IF j \in S THEN 1 ELSE 0)
        BY <3>2, CardinalityOfTwo
      <3> QED BY <2>1, <2>2, <2>5, <3>1, <3>3 DEF S
    <2>8. s.losses = Cardinality(Won(D, outcome', b, w))
      <3>1. /\ Won(D, outcome', b, w) \subseteq {id, j}
            /\ id \in Won(D, outcome', b, w) <=> GameWon(id, out, b, w)
            /\ j \in Won(D, outcome', b, w) <=> GameWon(j, outcome[j], b, w)
        BY <2>6 DEF Won
      <3> DEFINE S == Won(D, outcome', b, w)
      <3>2. id # j /\ S \subseteq {id, j}
        BY <1>2, <3>1
      <3> HIDE DEF S
      <3>3. Cardinality(S) = (IF id \in S THEN 1 ELSE 0) + (IF j \in S THEN 1 ELSE 0)
        BY <3>2, CardinalityOfTwo
      <3> QED BY <2>1, <2>2, <2>5, <3>1, <3>3 DEF S
    <2>9. s.draws = Cardinality(Drawn(D, outcome', w, b))
      <3>1. /\ Drawn(D, outcome', w, b) \subseteq {id, j}
            /\ id \in Drawn(D, outcome', w, b) <=> GameDrawn(id, out, w, b)
            /\ j \in Drawn(D, outcome', w, b) <=> GameDrawn(j, outcome[j], w, b)
        BY <2>6 DEF Drawn
      <3> DEFINE S == Drawn(D, outcome', w, b)
      <3>2. id # j /\ S \subseteq {id, j}
        BY <1>2, <3>1
      <3> HIDE DEF S
      <3>3. Cardinality(S) = (IF id \in S THEN 1 ELSE 0) + (IF j \in S THEN 1 ELSE 0)
        BY <3>2, CardinalityOfTwo
      <3> QED BY <2>1, <2>2, <2>5, <3>1, <3>3 DEF S
    <2>10. \A i \in CountedGames : outcome'[i] = outcome[i]
      BY <1>1 DEF CountedGames, Counted
    <2>11. D \in SUBSET DOMAIN outcome /\ D \cap CountedGames = {}
           /\ (\A i \in DOMAIN outcome : Counted(i)' <=> i \in CountedGames \cup D)
           /\ \A i \in D : {First(i), Second(i)} = {w, b}
      BY <1>2, <2>3
    <2> HIDE DEF D
    <2> QED BY <1>t, <1>1, <2>3, <2>4, <2>5, <2>7, <2>8, <2>9, <2>10, <2>11, NewGamesTally
  <1>5. ASSUME ~PairsSwap PROVE ScoreIsTally'
    BY <1>1, <1>5 DEF ScoreIsTally, PairsSwap
  <1> QED BY <1>3, <1>4, <1>5

\* The games a resumed tournament still knows.
LEMMA ResumedGames ==
  ASSUME TypeOK, SaveAndResume
  PROVE  /\ opt' = opt /\ DOMAIN outcome' = DOMAIN outcome /\ DOMAIN game_pair_cache' = {}
         /\ \A i : PairingId(i)' = PairingId(i) /\ First(i)' = First(i) /\ Second(i)' = Second(i)
         /\ \A i \in DOMAIN outcome :
               /\ outcome'[i] = IF Counted(i) /\ ~StatsDropped THEN outcome[i] ELSE NotPlayed
               /\ Counted(i)' <=> Counted(i) /\ ~StatsDropped
  <1>1. /\ opt' = opt /\ DOMAIN outcome' = DOMAIN outcome /\ DOMAIN game_pair_cache' = {}
        /\ \A i \in DOMAIN outcome :
              outcome'[i] = IF Counted(i) /\ ~StatsDropped THEN outcome[i] ELSE NotPlayed
    BY DEF SaveAndResume, EmptyMap
  <1>2. \A i \in DOMAIN outcome : Counted(i)' <=> Counted(i) /\ ~StatsDropped
    BY <1>1 DEF Counted, IsPairCompleted
  <1>3. \A i : PairingId(i)' = PairingId(i) /\ First(i)' = First(i) /\ Second(i)' = Second(i)
    BY <1>1 DEF First, Second, PairingId
  <1> QED BY <1>1, <1>2, <1>3

\* The stats it starts with: of two engines one order is on file, and neither if they do
\* not meet.
LEMMA ResumedStats ==
  ASSUME TypeOK, SaveAndResume, NEW a \in Engines, NEW b \in Engines
  PROVE  LET p == results'[<<a, b>>]
             q == results'[<<b, a>>]
             s == GetStats(a, b)
             r == GetStats(b, a)
         IN /\ GetStats(a, b)' = AddStats(p, InvertStats(q))
            /\ p \in StatsType /\ q \in StatsType /\ s \in StatsType /\ r \in StatsType
            /\ IF StatsDropped \/ (~EngineBefore(a, b) /\ ~EngineBefore(b, a))
               THEN p = ZeroStats /\ q = ZeroStats
               ELSE (p = s /\ q = ZeroStats) \/ (p = ZeroStats /\ q = r)
  <1> DEFINE p == results'[<<a, b>>]
             q == results'[<<b, a>>]
             s == GetStats(a, b)
             r == GetStats(b, a)
  <1>1. /\ p = IF ~StatsDropped /\ EngineBefore(a, b) THEN s ELSE ZeroStats
        /\ q = IF ~StatsDropped /\ EngineBefore(b, a) THEN r ELSE ZeroStats
    BY LoadedResults DEF SaveAndResume
  <1>2. EngineBefore(a, b) => ~EngineBefore(b, a)
    <2>1. \A k, m \in DOMAIN opt.encounters :
            opt.encounters[k] # <<opt.encounters[m][2], opt.encounters[m][1]>>
      BY OptionsAssumption DEF TypeOK, OptionOK
    <2> SUFFICES ASSUME EngineBefore(a, b), EngineBefore(b, a) PROVE FALSE
      OBVIOUS
    <2>2. PICK k \in DOMAIN opt.encounters : opt.encounters[k] = <<a, b>>
      BY DEF EngineBefore
    <2>3. PICK m \in DOMAIN opt.encounters : opt.encounters[m] = <<b, a>>
      BY DEF EngineBefore
    <2>4. <<opt.encounters[m][2], opt.encounters[m][1]>> = <<a, b>>
      BY <2>3
    <2> QED BY <2>1, <2>2, <2>3, <2>4
  <1>3. s \in StatsType /\ r \in StatsType /\ ZeroStats \in StatsType
    BY ZeroStatsConsistent, InvertStatsFields, AddStatsType DEF TypeOK, GetStats
  <1>4. GetStats(a, b)' = AddStats(p, InvertStats(q))
    BY DEF GetStats
  <1> HIDE DEF p, q, s, r
  <1>5. /\ p \in StatsType /\ q \in StatsType
        /\ IF StatsDropped \/ (~EngineBefore(a, b) /\ ~EngineBefore(b, a))
           THEN p = ZeroStats /\ q = ZeroStats
           ELSE (p = s /\ q = ZeroStats) \/ (p = ZeroStats /\ q = r)
    BY <1>1, <1>2, <1>3
  <1> QED BY <1>3, <1>4, <1>5 DEF p, q, s, r

\* Resuming keeps the score of the counted games, or with more than two engines
\* forgets all games.
LEMMA SaveAndResumeTally ==
  ASSUME TallyInv, SaveAndResume PROVE PairsTogether' /\ ScoreIsTally'
  <1>t. TypeOK /\ ScoreIsTally
    BY DEF TallyInv, IInv
  <1>1. /\ opt' = opt /\ DOMAIN outcome' = DOMAIN outcome /\ DOMAIN game_pair_cache' = {}
        /\ \A i : PairingId(i)' = PairingId(i) /\ First(i)' = First(i) /\ Second(i)' = Second(i)
        /\ \A i \in DOMAIN outcome :
              /\ outcome'[i] = IF Counted(i) /\ ~StatsDropped THEN outcome[i] ELSE NotPlayed
              /\ Counted(i)' <=> Counted(i) /\ ~StatsDropped
    BY <1>t, ResumedGames
  <1>2. PairsTogether'
    <2> SUFFICES ASSUME opt.penta, NEW i \in DOMAIN outcome, NEW j \in DOMAIN outcome,
                        PairingId(j) = PairingId(i)
                 PROVE  outcome'[i] = NotPlayed <=> outcome'[j] = NotPlayed
      BY <1>1 DEF PairsTogether, IsPairCompleted
    <2>1. Counted(i) <=> Counted(j)
      BY DEF TallyInv, PairsTogether, Counted
    <2>2. \A k \in DOMAIN outcome : Counted(k) => outcome[k] # NotPlayed
      BY DEF Counted
    <2> QED BY <1>1, <2>1, <2>2
  <1>3. ScoreIsTally'
    <2> SUFFICES ASSUME PairsSwap, NEW a \in Engines, NEW b \in Engines, a # b
                 PROVE  /\ GetStats(a, b)'.wins = Cardinality(WonBy(a, b)')
                        /\ GetStats(a, b)'.losses = Cardinality(WonBy(b, a)')
                        /\ GetStats(a, b)'.draws = Cardinality(DrawnBetween(a, b)')
      BY <1>1 DEF ScoreIsTally, PairsSwap
    <2>1. ASSUME NEW x, NEW y
          PROVE  /\ WonBy(x, y)' = IF StatsDropped THEN {} ELSE WonBy(x, y)
                 /\ DrawnBetween(x, y)' = IF StatsDropped THEN {} ELSE DrawnBetween(x, y)
      BY <1>1 DEF WonBy, DrawnBetween
    <2> DEFINE p == results'[<<a, b>>]
               q == results'[<<b, a>>]
               s == GetStats(a, b)
               r == GetStats(b, a)
               u == AddStats(p, InvertStats(q))
    <2>2. /\ GetStats(a, b)' = u
          /\ p \in StatsType /\ q \in StatsType /\ s \in StatsType /\ r \in StatsType
          /\ IF StatsDropped \/ (~EngineBefore(a, b) /\ ~EngineBefore(b, a))
             THEN p = ZeroStats /\ q = ZeroStats
             ELSE (p = s /\ q = ZeroStats) \/ (p = ZeroStats /\ q = r)
      BY <1>t, ResumedStats
    <2>3. /\ s.wins = Cardinality(WonBy(a, b)) /\ s.losses = Cardinality(WonBy(b, a))
          /\ s.draws = Cardinality(DrawnBetween(a, b))
          /\ r.wins = Cardinality(WonBy(b, a)) /\ r.losses = Cardinality(WonBy(a, b))
          /\ r.draws = Cardinality(DrawnBetween(b, a)) /\ DrawnBetween(b, a) = DrawnBetween(a, b)
      BY <1>t DEF ScoreIsTally, DrawnBetween
    <2>4. ZeroStats.wins = 0 /\ ZeroStats.losses = 0 /\ ZeroStats.draws = 0
      BY DEF ZeroStats, StatsFields
    <2>5. StatsDropped \/ (~EngineBefore(a, b) /\ ~EngineBefore(b, a))
            => WonBy(a, b)' = {} /\ WonBy(b, a)' = {} /\ DrawnBetween(a, b)' = {}
      <3>1. \A i \in DOMAIN outcome : EngineBefore(First(i), Second(i))
        BY <1>t, GameFacts
      <3>2. ~EngineBefore(a, b) /\ ~EngineBefore(b, a)
              => WonBy(a, b) = {} /\ WonBy(b, a) = {} /\ DrawnBetween(a, b) = {}
        BY <3>1 DEF WonBy, DrawnBetween
      <3> QED BY <2>1, <3>2
    <2>6. Cardinality({}) = 0
      BY FS_EmptySet
    <2>7. u.wins = p.wins + q.losses /\ u.losses = p.losses + q.wins /\ u.draws = p.draws + q.draws
      <3> HIDE DEF p, q
      <3> QED BY <2>2, AddStatsType, InvertStatsFields DEF StatsFields
    <2>8. /\ s.wins \in Nat /\ s.losses \in Nat /\ s.draws \in Nat
          /\ r.wins \in Nat /\ r.losses \in Nat /\ r.draws \in Nat
      BY <2>2, StatsFieldTypes
    <2> HIDE DEF p, q, s, r, u
    <2>9. /\ u.wins = Cardinality(WonBy(a, b)') /\ u.losses = Cardinality(WonBy(b, a)')
          /\ u.draws = Cardinality(DrawnBetween(a, b)')
      <3>1. CASE StatsDropped \/ (~EngineBefore(a, b) /\ ~EngineBefore(b, a))
        <4>1. p = ZeroStats /\ q = ZeroStats
          BY <2>2, <3>1
        <4> QED BY <2>4, <2>5, <2>6, <2>7, <3>1, <4>1
      <3>2. CASE ~(StatsDropped \/ (~EngineBefore(a, b) /\ ~EngineBefore(b, a)))
        <4>1. /\ WonBy(a, b)' = WonBy(a, b) /\ WonBy(b, a)' = WonBy(b, a)
              /\ DrawnBetween(a, b)' = DrawnBetween(a, b)
          BY <2>1, <3>2
        <4>2. (p = s /\ q = ZeroStats) \/ (p = ZeroStats /\ q = r)
          BY <2>2, <3>2
        <4> QED BY <2>3, <2>4, <2>7, <2>8, <4>1, <4>2
      <3> QED BY <3>1, <3>2
    <2> QED BY <2>2, <2>9
  <1> QED BY <1>2, <1>3

LEMMA InitTally == Init => PairsTogether /\ ScoreIsTally
  <1> SUFFICES ASSUME Init PROVE PairsTogether /\ ScoreIsTally OBVIOUS
  <1>1. DOMAIN game_pair_cache = {} /\ \A i \in DOMAIN outcome : outcome[i] = NotPlayed
    BY DEF Init, EmptyMap
  <1>2. PairsTogether
    BY <1>1 DEF PairsTogether, IsPairCompleted
  <1>3. ASSUME NEW a \in Engines, NEW b \in Engines
        PROVE  LET s == GetStats(a, b)
               IN /\ s.wins = Cardinality(WonBy(a, b)) /\ s.losses = Cardinality(WonBy(b, a))
                  /\ s.draws = Cardinality(DrawnBetween(a, b))
    <2>1. WonBy(a, b) = {} /\ WonBy(b, a) = {} /\ DrawnBetween(a, b) = {}
      BY <1>1 DEF WonBy, DrawnBetween, Counted
    <2>2. Cardinality({}) = 0
      BY FS_EmptySet
    <2>3. GetStats(a, b) = AddStats(ZeroStats, InvertStats(ZeroStats))
      BY DEF Init, GetStats
    <2>4. LET s == AddStats(ZeroStats, InvertStats(ZeroStats))
          IN s.wins = 0 /\ s.losses = 0 /\ s.draws = 0
      BY DEF AddStats, InvertStats, Mirror, ZeroStats, StatsFields
    <2> QED BY <2>1, <2>2, <2>3, <2>4
  <1> QED BY <1>2, <1>3 DEF ScoreIsTally

THEOREM TallyInvariance == Spec => []TallyInv
  <1>1. Init => TallyInv
    BY InitIInv, InitTally DEF TallyInv
  <1>2. TallyInv /\ IInv' /\ [Next]_vars => TallyInv'
    <2> SUFFICES ASSUME TallyInv, [Next]_vars PROVE PairsTogether' /\ ScoreIsTally'
      BY DEF TallyInv
    <2>1. ASSUME NEW id \in DOMAIN outcome, NEW out \in Outcomes, Finish(id, out)
          PROVE  PairsTogether' /\ ScoreIsTally'
      BY <2>1, FinishSingleTally, FinishFirstOfPairTally, FinishSecondOfPairTally DEF Finish
    <2>2. CASE SaveAndResume
      BY <2>2, SaveAndResumeTally
    <2>3. CASE UNCHANGED vars
      <3>1. PairsTogether' <=> PairsTogether
        BY <2>3 DEF vars, PairsTogether, IsPairCompleted, PairingId, Cached, GameStats,
                    WhiteResult, Swapped
      <3>2. ScoreIsTally' <=> ScoreIsTally
        BY <2>3 DEF vars, ScoreIsTally, PairsSwap, GetStats, WonBy, DrawnBetween, Counted,
                    IsPairCompleted, PairingId, First, Second
      <3> QED BY <3>1, <3>2 DEF TallyInv
    <2> QED BY <2>1, <2>2, <2>3 DEF Next
  <1> QED BY Invariance, <1>1, <1>2, PTL DEF Spec

\* The score that is reported for one engine against another is the number of games
\* it really won, lost and drew, whatever the order in which games finished, the pairs
\* they were counted in, and the restarts in between.
THEOREM ScoreIsTrue == Spec => []ScoreIsTally
  <1>1. TallyInv => ScoreIsTally BY DEF TallyInv
  <1> QED BY <1>1, TallyInvariance, PTL

-----------------------------------------------------------------------------
(* The pentanomial counts are the tally of the pairs: the same argument, for *)
(* a pair and the half points one of its engines gets out of it.             *)

\* The count of s for pairs worth h half points.
PentaCount(s, h) ==
    CASE h = 4 -> s.WW [] h = 3 -> s.WD [] h = 2 -> s.WL + s.DD [] h = 1 -> s.LD [] OTHER -> s.LL

PentaTally ==
    \A a, b \in Engines : a # b => \A h \in 0..4 :
        PentaCount(GetStats(a, b), h) = Cardinality(PairsWorth(a, b, h))

PentaInv == TallyInv /\ (opt.penta /\ PairsSwap => PentaTally)

\* Half points of a, and pairs worth h of them, when the games C are counted and have
\* the outcomes o.
Points(o, a, i) ==
    CASE o[i] = "draw" -> 1
      [] o[i] = (IF First(i) = a THEN "first" ELSE "second") -> 2
      [] OTHER -> 0
AreOfPair(i, j, p) == i # j /\ PairingId(i) = p /\ PairingId(j) = p
Worth(o, C, a, b, h) ==
    {p \in {PairingId(i) : i \in DOMAIN outcome} :
        \E i, j \in C : /\ AreOfPair(i, j, p) /\ {First(i), Second(i)} = {a, b}
                        /\ Points(o, a, i) + Points(o, a, j) = h}

\* The same by the ids of the two games.
WorthAt(o, C, a, b, h) ==
    {p \in {PairingId(i) : i \in DOMAIN outcome} :
        LET x == p * opt.games + 1
            y == p * opt.games + 2
        IN /\ {First(x), Second(x)} = {a, b} /\ x \in C /\ y \in C
           /\ Points(o, a, x) + Points(o, a, y) = h}

LEMMA PentaCountFacts ==
  ASSUME NEW s \in StatsType, NEW t \in StatsType, NEW h \in 0..4
  PROVE  /\ PentaCount(s, h) \in Nat
         /\ PentaCount(AddStats(s, t), h) = PentaCount(s, h) + PentaCount(t, h)
         /\ PentaCount(InvertStats(s), h) = PentaCount(s, 4 - h)
         /\ PentaCount(ZeroStats, h) = 0
  <1>0. h = 0 \/ h = 1 \/ h = 2 \/ h = 3 \/ h = 4
    OBVIOUS
  <1>1. PentaCount(s, h) \in Nat
    BY <1>0, StatsFieldTypes DEF PentaCount
  <1>2. PentaCount(AddStats(s, t), h) = PentaCount(s, h) + PentaCount(t, h)
    <2> DEFINE u == AddStats(s, t)
    <2>1. /\ u.WW = s.WW + t.WW /\ u.WD = s.WD + t.WD /\ u.WL = s.WL + t.WL
          /\ u.DD = s.DD + t.DD /\ u.LD = s.LD + t.LD /\ u.LL = s.LL + t.LL
      BY AddStatsType DEF StatsFields
    <2> HIDE DEF u
    <2>2. PentaCount(u, h) = PentaCount(s, h) + PentaCount(t, h)
      BY <1>0, <2>1, StatsFieldTypes DEF PentaCount
    <2> QED BY <2>2 DEF u
  <1>3. PentaCount(InvertStats(s), h) = PentaCount(s, 4 - h)
    <2> DEFINE u == InvertStats(s)
    <2>1. /\ u.WW = s.LL /\ u.LL = s.WW /\ u.WD = s.LD /\ u.LD = s.WD
          /\ u.WL = s.WL /\ u.DD = s.DD
      BY InvertStatsFields
    <2> HIDE DEF u
    <2>2. PentaCount(u, h) = PentaCount(s, 4 - h)
      BY <1>0, <2>1 DEF PentaCount
    <2> QED BY <2>2 DEF u
  <1>4. PentaCount(ZeroStats, h) = 0
    BY <1>0 DEF PentaCount, ZeroStats, StatsFields
  <1> QED BY <1>1, <1>2, <1>3, <1>4

\* What updatePair counts for the two games of a pair: one pair, worth their points.
LEMMA WithPentaCount ==
  ASSUME NEW s, NEW t, IsOneGame(s), IsOneGame(t), NEW h \in 0..4
  PROVE  PentaCount(WithPenta(AddStats(s, t)), h)
           = IF 2 * (s.wins + t.wins) + s.draws + t.draws = h THEN 1 ELSE 0
  <1> DEFINE u == AddStats(s, t)
             v == WithPenta(u)
             inc(cond) == IF cond THEN 1 ELSE 0
  <1>1. s \in StatsType /\ t \in StatsType
    BY DEF IsOneGame
  <1>2. /\ u \in StatsType
        /\ u.wins = s.wins + t.wins /\ u.draws = s.draws + t.draws
        /\ u.WW = 0 /\ u.WD = 0 /\ u.WL = 0 /\ u.DD = 0 /\ u.LD = 0 /\ u.LL = 0
        /\ \/ u.wins = 2 /\ u.losses = 0 /\ u.draws = 0
           \/ u.wins = 1 /\ u.losses = 1 /\ u.draws = 0
           \/ u.wins = 1 /\ u.losses = 0 /\ u.draws = 1
           \/ u.wins = 0 /\ u.losses = 2 /\ u.draws = 0
           \/ u.wins = 0 /\ u.losses = 1 /\ u.draws = 1
           \/ u.wins = 0 /\ u.losses = 0 /\ u.draws = 2
    BY SumOfTwoGames
  <1> HIDE DEF u
  <1>3. /\ v.WW = u.WW + inc(u.wins = 2)
        /\ v.WD = u.WD + inc(u.wins = 1 /\ u.draws = 1)
        /\ v.WL = u.WL + inc(u.wins = 1 /\ u.losses = 1)
        /\ v.DD = u.DD + inc(u.draws = 2)
        /\ v.LD = u.LD + inc(u.losses = 1 /\ u.draws = 1)
        /\ v.LL = u.LL + inc(u.losses = 2)
    BY <1>2, WithPentaFields
  <1> HIDE DEF v
  <1>4. h = 0 \/ h = 1 \/ h = 2 \/ h = 3 \/ h = 4
    OBVIOUS
  <1>5. PentaCount(v, h) = IF 2 * u.wins + u.draws = h THEN 1 ELSE 0
    BY <1>2, <1>3, <1>4 DEF PentaCount
  <1>6. 2 * (s.wins + t.wins) + s.draws + t.draws = 2 * u.wins + u.draws
    <2>1. s.wins \in Nat /\ t.wins \in Nat /\ s.draws \in Nat /\ t.draws \in Nat
      BY <1>1, StatsFieldTypes
    <2> QED BY <1>2, <2>1
  <1> QED BY <1>5, <1>6 DEF u, v

\* The two games of a pairing are where the scheduler put them.
LEMMA GamesOfPair ==
  ASSUME TypeOK, opt.penta, NEW i \in DOMAIN outcome
  PROVE  LET p == PairingId(i)
             x == p * opt.games + 1
             y == p * opt.games + 2
         IN /\ x \in DOMAIN outcome /\ y \in DOMAIN outcome /\ x # y
            /\ PairingId(x) = p /\ PairingId(y) = p
            /\ \A j \in DOMAIN outcome : PairingId(j) = p => j = x \/ j = y
  <1> DEFINE p == PairingId(i)
             l == Len(opt.encounters)
  <1>1. opt.games = 2 /\ l \in Nat
    BY OptionsAssumption, LenProperties DEF TypeOK, OptionOK
  <1>2. DOMAIN outcome = 1..(l * 2)
    BY <1>1 DEF TypeOK, GameIds
  <1>3. \A k : PairingId(k) = (k - 1) \div 2
    BY <1>1 DEF PairingId
  <1> HIDE DEF l, p
  <1>4. \A k \in 1..(l * 2) : /\ (k - 1) \div 2 \in Nat
                              /\ k = 2 * ((k - 1) \div 2) + 1 \/ k = 2 * ((k - 1) \div 2) + 2
    OBVIOUS
  <1>5. p \in Nat /\ (i = 2 * p + 1 \/ i = 2 * p + 2)
    BY <1>2, <1>3, <1>4 DEF p
  <1>6. 2 * p + 1 \in 1..(l * 2) /\ 2 * p + 2 \in 1..(l * 2)
    BY <1>1, <1>2, <1>5
  <1>7. (2 * p + 1 - 1) \div 2 = p /\ (2 * p + 2 - 1) \div 2 = p
    BY <1>5
  <1>8. p * opt.games = 2 * p
    BY <1>1, <1>5
  <1>9. \A k \in DOMAIN outcome : PairingId(k) = p => k = 2 * p + 1 \/ k = 2 * p + 2
    BY <1>2, <1>3, <1>4
  <1>10. 2 * p + 1 # 2 * p + 2
    BY <1>5
  <1> DEFINE x == p * opt.games + 1
             y == p * opt.games + 2
  <1>11. x = 2 * p + 1 /\ y = 2 * p + 2
    BY <1>8
  <1> HIDE DEF x, y
  <1>12. /\ x \in DOMAIN outcome /\ y \in DOMAIN outcome /\ x # y
         /\ PairingId(x) = p /\ PairingId(y) = p
         /\ \A j \in DOMAIN outcome : PairingId(j) = p => j = x \/ j = y
    BY <1>2, <1>3, <1>6, <1>7, <1>9, <1>10, <1>11
  <1> QED BY <1>12 DEF p, x, y

\* PairsWorth does not depend on the order of the two games.
LEMMA PairsWorthIsWorth ==
  ASSUME TypeOK, opt.penta, NEW o, NEW C \in SUBSET DOMAIN outcome, NEW a, NEW b, NEW h
  PROVE  Worth(o, C, a, b, h) = WorthAt(o, C, a, b, h)
  <1> DEFINE S == {PairingId(i) : i \in DOMAIN outcome}
  <1> SUFFICES ASSUME NEW p \in S
               PROVE  LET x == p * opt.games + 1
                          y == p * opt.games + 2
                      IN (\E i, j \in C : /\ AreOfPair(i, j, p) /\ {First(i), Second(i)} = {a, b}
                                          /\ Points(o, a, i) + Points(o, a, j) = h)
                         <=> /\ {First(x), Second(x)} = {a, b} /\ x \in C /\ y \in C
                             /\ Points(o, a, x) + Points(o, a, y) = h
    BY DEF Worth, WorthAt
  <1>0. PICK k \in DOMAIN outcome : p = PairingId(k)
    OBVIOUS
  <1> DEFINE x == p * opt.games + 1
             y == p * opt.games + 2
  <1>1. /\ x \in DOMAIN outcome /\ y \in DOMAIN outcome /\ x # y
        /\ PairingId(x) = p /\ PairingId(y) = p
        /\ \A j \in DOMAIN outcome : PairingId(j) = p => j = x \/ j = y
    BY <1>0, GamesOfPair
  <1> HIDE DEF x, y
  <1>2. First(x) = First(y) /\ Second(x) = Second(y)
    BY <1>1 DEF First, Second
  <1>3. Points(o, a, x) + Points(o, a, y) = Points(o, a, y) + Points(o, a, x)
    <2>1. \A i : Points(o, a, i) \in {0, 1, 2}
      BY DEF Points
    <2> QED BY <2>1
  <1>4. \A i, j \in C : AreOfPair(i, j, p) => (i = x /\ j = y) \/ (i = y /\ j = x)
    BY <1>1 DEF AreOfPair
  <1>5. AreOfPair(x, y, p)
    BY <1>1 DEF AreOfPair
  <1>6. (\E i, j \in C : /\ AreOfPair(i, j, p) /\ {First(i), Second(i)} = {a, b}
                         /\ Points(o, a, i) + Points(o, a, j) = h)
        <=> /\ {First(x), Second(x)} = {a, b} /\ x \in C /\ y \in C
            /\ Points(o, a, x) + Points(o, a, y) = h
    BY <1>2, <1>3, <1>4, <1>5
  <1> QED BY <1>6 DEF x, y

LEMMA WorthNow ==
  ASSUME TypeOK, opt.penta, NEW a, NEW b, NEW h
  PROVE  PairsWorth(a, b, h) = Worth(outcome, CountedGames, a, b, h)
  <1>1. \A i : HalfPointsOf(a, i) = Points(outcome, a, i)
    BY DEF HalfPointsOf, Points
  <1>2. \A i \in DOMAIN outcome :
            LET x == PairingId(i) * opt.games + 1
                y == PairingId(i) * opt.games + 2
            IN x \in DOMAIN outcome /\ y \in DOMAIN outcome
    BY GamesOfPair
  <1>3. \A i \in DOMAIN outcome : Counted(i) <=> i \in CountedGames
    BY DEF CountedGames
  <1>4. CountedGames \in SUBSET DOMAIN outcome
    BY DEF CountedGames
  <1>5. PairsWorth(a, b, h) = WorthAt(outcome, CountedGames, a, b, h)
    BY <1>1, <1>2, <1>3 DEF PairsWorth, WorthAt
  <1> QED BY <1>4, <1>5, PairsWorthIsWorth

\* After a step that leaves the games and their engines alone.
LEMMA WorthThen ==
  ASSUME TypeOK, opt.penta, opt' = opt, DOMAIN outcome' = DOMAIN outcome,
         NEW C \in SUBSET DOMAIN outcome,
         \A i \in DOMAIN outcome : Counted(i)' <=> i \in C,
         NEW a, NEW b, NEW h
  PROVE  PairsWorth(a, b, h)' = Worth(outcome', C, a, b, h)
  <1>1. \A i : HalfPointsOf(a, i)' = Points(outcome', a, i)
    BY DEF HalfPointsOf, Points, First, PairingId
  <1>2. \A i \in DOMAIN outcome :
            LET x == PairingId(i) * opt.games + 1
                y == PairingId(i) * opt.games + 2
            IN x \in DOMAIN outcome /\ y \in DOMAIN outcome
    BY GamesOfPair
  <1>3. \A i : PairingId(i)' = PairingId(i) /\ First(i)' = First(i) /\ Second(i)' = Second(i)
    BY DEF First, Second, PairingId
  <1>5. PairsWorth(a, b, h)' = WorthAt(outcome', C, a, b, h)
    BY <1>1, <1>2, <1>3 DEF PairsWorth, WorthAt
  <1> QED BY <1>5, PairsWorthIsWorth

LEMMA SameWorth ==
  ASSUME NEW o, NEW oo, NEW C, \A i \in C : o[i] = oo[i], NEW a, NEW b, NEW h
  PROVE  Worth(o, C, a, b, h) = Worth(oo, C, a, b, h)
  <1>1. \A i \in C : Points(o, a, i) = Points(oo, a, i)
    BY DEF Points
  <1> QED BY <1>1 DEF Worth

\* What one engine of a pair wins, the other loses.
LEMMA WorthMirror ==
  ASSUME NEW o, NEW C, \A i \in C : o[i] \in Outcomes, NEW a, NEW b, a # b, NEW h \in 0..4
  PROVE  Worth(o, C, b, a, h) = Worth(o, C, a, b, 4 - h)
  <1>1. ASSUME NEW i \in C, {First(i), Second(i)} = {a, b}
        PROVE  /\ Points(o, a, i) \in {0, 1, 2} /\ Points(o, b, i) \in {0, 1, 2}
               /\ Points(o, b, i) = 2 - Points(o, a, i)
    <2>1. (First(i) = a /\ First(i) # b) \/ (First(i) = b /\ First(i) # a)
      BY <1>1
    <2>2. CASE o[i] = "draw"
      BY <2>2 DEF Points
    <2>3. CASE o[i] = "first"
      <3>1. ASSUME NEW e PROVE Points(o, e, i) = IF First(i) = e THEN 2 ELSE 0
        BY <2>3 DEF Points
      <3> QED BY <2>1, <3>1
    <2>4. CASE o[i] = "second"
      <3>1. ASSUME NEW e PROVE Points(o, e, i) = IF First(i) = e THEN 0 ELSE 2
        BY <2>4 DEF Points
      <3> QED BY <2>1, <3>1
    <2> QED BY <2>2, <2>3, <2>4 DEF Outcomes
  <1>2. \A i, j, p : AreOfPair(i, j, p) => First(i) = First(j) /\ Second(i) = Second(j)
    BY DEF AreOfPair, First, Second
  <1>3. ASSUME NEW i \in C, NEW j \in C, NEW p, AreOfPair(i, j, p), {First(i), Second(i)} = {a, b}
        PROVE  Points(o, b, i) + Points(o, b, j) = h <=> Points(o, a, i) + Points(o, a, j) = 4 - h
    <2>1. {First(j), Second(j)} = {a, b}
      BY <1>2, <1>3
    <2> DEFINE x == Points(o, a, i)   y == Points(o, a, j)
    <2>2. /\ x \in {0, 1, 2} /\ y \in {0, 1, 2}
          /\ Points(o, b, i) = 2 - x /\ Points(o, b, j) = 2 - y
      BY <1>1, <1>3, <2>1
    <2> HIDE DEF x, y
    <2>3. (2 - x) + (2 - y) = h <=> x + y = 4 - h
      BY <2>2
    <2> QED BY <2>2, <2>3 DEF x, y
  <1>4. {a, b} = {b, a}
    OBVIOUS
  <1> QED BY <1>3, <1>4 DEF Worth

LEMMA WorthIsFinite ==
  ASSUME TypeOK, NEW o, NEW C, NEW a, NEW b, NEW h
  PROVE  IsFiniteSet(Worth(o, C, a, b, h)) /\ Cardinality(Worth(o, C, a, b, h)) \in Nat
  <1> DEFINE S == {PairingId(i) : i \in DOMAIN outcome}
  <1>1. IsFiniteSet(DOMAIN outcome)
    <2>1. Len(opt.encounters) \in Nat /\ opt.games \in Nat
      BY OptionsAssumption, LenProperties DEF TypeOK, OptionOK
    <2>2. Len(opt.encounters) * opt.games \in Int
      BY <2>1
    <2>3. IsFiniteSet(1..(Len(opt.encounters) * opt.games))
      BY <2>2, FS_Interval
    <2> QED BY <2>3 DEF TypeOK, GameIds
  <1>2. IsFiniteSet(S)
    <2> DEFINE f == [i \in DOMAIN outcome |-> PairingId(i)]
    <2>1. f \in Surjection(DOMAIN outcome, S)
      BY DEF Surjection
    <2> HIDE DEF f, S
    <2> QED BY <1>1, <2>1, FS_Surjection
  <1>3. Worth(o, C, a, b, h) \subseteq S
    BY DEF Worth
  <1> QED BY <1>2, <1>3, FS_Subset, FS_CardinalityType

\* What the games i and j of a new pair add.
NewWorth(o, i, j, a, b, h) ==
    IF {First(i), Second(i)} = {a, b} /\ Points(o, a, i) + Points(o, a, j) = h THEN 1 ELSE 0

\* A pair whose two games become counted is one more pair of its worth.
NewPair(o, oo, C, i, j) ==
    /\ C \in SUBSET DOMAIN outcome /\ (\A k \in C : o[k] = oo[k])
    /\ i \in DOMAIN outcome /\ j \in DOMAIN outcome /\ i # j /\ PairingId(i) = PairingId(j)
    /\ {i, j} \cap C = {}
    /\ \A k \in DOMAIN outcome : PairingId(k) = PairingId(i) => k \in {i, j}

LEMMA NewPairWorth ==
  ASSUME TypeOK, NEW C, NEW o, NEW oo, NEW i, NEW j, NewPair(o, oo, C, i, j),
         NEW a, NEW b, NEW h
  PROVE  Cardinality(Worth(o, C \cup {i, j}, a, b, h))
           = Cardinality(Worth(oo, C, a, b, h)) + NewWorth(o, i, j, a, b, h)
  <1> DEFINE D == {i, j}
  <1>0. /\ C \in SUBSET DOMAIN outcome /\ (\A k \in C : o[k] = oo[k])
        /\ i \in DOMAIN outcome /\ j \in DOMAIN outcome /\ i # j /\ PairingId(i) = PairingId(j)
        /\ D \cap C = {}
        /\ \A k \in DOMAIN outcome : PairingId(k) = PairingId(i) => k \in D
    BY DEF NewPair
  <1> DEFINE p == PairingId(i)
             W == Worth(oo, C, a, b, h)
             X == Worth(o, C \cup D, a, b, h)
             New == {First(i), Second(i)} = {a, b} /\ Points(o, a, i) + Points(o, a, j) = h
  <1>1. IsFiniteSet(W) /\ Cardinality(W) \in Nat
    BY WorthIsFinite
  <1>2. p \notin W
    BY <1>0 DEF Worth, AreOfPair
  <1>3. W = Worth(o, C, a, b, h)
    BY <1>0, SameWorth
  <1>4. ASSUME NEW q, q # p PROVE q \in X <=> q \in W
    <2>1. \A k, m \in C \cup {i, j} : AreOfPair(k, m, q) => k \in C /\ m \in C
      BY <1>0, <1>4 DEF AreOfPair
    <2>2. q \in X <=> q \in Worth(o, C, a, b, h)
      BY <2>1 DEF Worth
    <2> QED BY <1>3, <2>2
  <1>5. p \in X <=> New
    <2>1. First(i) = First(j) /\ Second(i) = Second(j)
      BY <1>0 DEF First, Second
    <2>2. AreOfPair(i, j, p)
      BY <1>0 DEF AreOfPair
    <2>3. \A k, m \in C \cup {i, j} : AreOfPair(k, m, p) => (k = i /\ m = j) \/ (k = j /\ m = i)
      BY <1>0 DEF AreOfPair
    <2>4. Points(o, a, i) + Points(o, a, j) = Points(o, a, j) + Points(o, a, i)
      <3>1. Points(o, a, i) \in {0, 1, 2} /\ Points(o, a, j) \in {0, 1, 2}
        BY DEF Points
      <3> QED BY <3>1
    <2>5. p \in {PairingId(k) : k \in DOMAIN outcome}
      BY <1>0
    <2> HIDE DEF p
    <2>6. p \in X <=> \E k, m \in C \cup {i, j} :
                         /\ AreOfPair(k, m, p) /\ {First(k), Second(k)} = {a, b}
                         /\ Points(o, a, k) + Points(o, a, m) = h
      BY <2>5 DEF Worth
    <2> QED BY <2>1, <2>2, <2>3, <2>4, <2>6
  <1> HIDE DEF W, X, New, p
  <1>6. X = IF New THEN W \cup {p} ELSE W
    BY <1>2, <1>4, <1>5
  <1>7. Cardinality(W \cup {p}) = Cardinality(W) + 1
    BY <1>1, <1>2, FS_AddElement
  <1>8. Cardinality(X) = Cardinality(W) + (IF New THEN 1 ELSE 0)
    BY <1>1, <1>6, <1>7
  <1> QED BY <1>8 DEF W, X, New, NewWorth

LEMMA PentaIsPentaTally ==
  ASSUME IInv PROVE PentaIsTally <=> (opt.penta /\ PairsSwap => PentaTally)
  <1>1. ASSUME NEW a \in Engines, NEW b \in Engines
        PROVE  (\A h \in 0..4 : PentaCount(GetStats(a, b), h) = Cardinality(PairsWorth(a, b, h)))
               <=> LET s == GetStats(a, b)
                   IN /\ s.WW = Cardinality(PairsWorth(a, b, 4))
                      /\ s.WD = Cardinality(PairsWorth(a, b, 3))
                      /\ s.WL + s.DD = Cardinality(PairsWorth(a, b, 2))
                      /\ s.LD = Cardinality(PairsWorth(a, b, 1))
                      /\ s.LL = Cardinality(PairsWorth(a, b, 0))
    <2> DEFINE s == GetStats(a, b)
               C(h) == Cardinality(PairsWorth(a, b, h))
    <2> HIDE DEF s, C
    <2>1. /\ PentaCount(s, 0) = s.LL /\ PentaCount(s, 1) = s.LD /\ PentaCount(s, 2) = s.WL + s.DD
          /\ PentaCount(s, 3) = s.WD /\ PentaCount(s, 4) = s.WW
      BY DEF PentaCount
    <2>3. (\A h \in 0..4 : PentaCount(s, h) = C(h))
            <=> /\ PentaCount(s, 0) = C(0) /\ PentaCount(s, 1) = C(1) /\ PentaCount(s, 2) = C(2)
                /\ PentaCount(s, 3) = C(3) /\ PentaCount(s, 4) = C(4)
      <3>1. 0 \in 0..4 /\ 1 \in 0..4 /\ 2 \in 0..4 /\ 3 \in 0..4 /\ 4 \in 0..4
        OBVIOUS
      <3>2. ASSUME /\ PentaCount(s, 0) = C(0) /\ PentaCount(s, 1) = C(1) /\ PentaCount(s, 2) = C(2)
                   /\ PentaCount(s, 3) = C(3) /\ PentaCount(s, 4) = C(4),
                   NEW h \in 0..4
            PROVE  PentaCount(s, h) = C(h)
        <4>1. h = 0 \/ h = 1 \/ h = 2 \/ h = 3 \/ h = 4
          OBVIOUS
        <4> QED BY <3>2, <4>1, Zenon
      <3> QED BY <3>1, <3>2, Zenon
    <2>4. (\A h \in 0..4 : PentaCount(s, h) = C(h))
            <=> s.WW = C(4) /\ s.WD = C(3) /\ s.WL + s.DD = C(2) /\ s.LD = C(1) /\ s.LL = C(0)
      BY <2>1, <2>3
    <2> QED BY <2>4 DEF s, C
  <1> QED BY <1>1 DEF PentaIsTally, PentaTally

\* Of two entries for the same engines, one is read as it is and the other mirrored.
LEMMA PentaOfEntries ==
  ASSUME NEW p \in StatsType, NEW q \in StatsType, NEW h \in 0..4
  PROVE  /\ AddStats(p, InvertStats(q)) \in StatsType
         /\ PentaCount(AddStats(p, InvertStats(q)), h) = PentaCount(p, h) + PentaCount(q, 4 - h)
         /\ PentaCount(p, h) \in Nat /\ PentaCount(q, 4 - h) \in Nat
  <1>1. InvertStats(q) \in StatsType
    BY InvertStatsFields
  <1>2. 4 - h \in 0..4
    OBVIOUS
  <1> DEFINE u == InvertStats(q)
             r == 4 - h
  <1>3. PentaCount(u, h) = PentaCount(q, r) /\ PentaCount(q, r) \in Nat
    <2>1. PentaCount(InvertStats(q), h) = PentaCount(q, 4 - h)
      BY PentaCountFacts
    <2>2. PentaCount(q, 4 - h) \in Nat
      BY <1>2, PentaCountFacts
    <2> QED BY <2>1, <2>2
  <1> HIDE DEF u
  <1>4. u \in StatsType
    BY <1>1 DEF u
  <1>5. AddStats(p, u) \in StatsType
    BY <1>4, AddStatsType
  <1>6. PentaCount(AddStats(p, u), h) = PentaCount(p, h) + PentaCount(u, h) /\ PentaCount(p, h) \in Nat
    BY <1>4, PentaCountFacts
  <1> HIDE DEF r
  <1>7. PentaCount(AddStats(p, u), h) = PentaCount(p, h) + PentaCount(q, r)
    BY <1>3, <1>6
  <1> QED BY <1>3, <1>5, <1>6, <1>7 DEF u, r

LEMMA CountedOutcomes ==
  ASSUME TypeOK PROVE CountedGames \in SUBSET DOMAIN outcome /\ \A i \in CountedGames : outcome[i] \in Outcomes
  BY DEF CountedGames, Counted, TypeOK

LEMMA FinishFirstOfPairPenta ==
  ASSUME PentaInv, PairsSwap, NEW id \in DOMAIN outcome, NEW out \in Outcomes,
         FinishFirstOfPair(id, out)
  PROVE  PentaTally'
  <1>t. TypeOK /\ opt.penta /\ opt' = opt /\ DOMAIN outcome' = DOMAIN outcome /\ PentaTally
    BY DEF PentaInv, TallyInv, IInv, TypeOK, FinishFirstOfPair, Played
  <1>1. \A i \in DOMAIN outcome : /\ Counted(i)' <=> Counted(i)
                                  /\ Counted(i) => outcome'[i] = outcome[i]
    BY FinishFirstOfPairTally DEF PentaInv
  <1>2. /\ \A i \in DOMAIN outcome : Counted(i)' <=> i \in CountedGames
        /\ \A i \in CountedGames : outcome'[i] = outcome[i]
        /\ CountedGames \in SUBSET DOMAIN outcome
    BY <1>1 DEF CountedGames
  <1>3. ASSUME NEW a, NEW b, NEW h PROVE PairsWorth(a, b, h)' = PairsWorth(a, b, h)
    <2>1. PairsWorth(a, b, h)' = Worth(outcome', CountedGames, a, b, h)
      BY <1>t, <1>2, WorthThen
    <2>2. PairsWorth(a, b, h) = Worth(outcome, CountedGames, a, b, h)
      BY <1>t, WorthNow
    <2> QED BY <1>2, <2>1, <2>2, SameWorth
  <1>4. \A a, b : GetStats(a, b)' = GetStats(a, b)
    BY DEF FinishFirstOfPair, GetStats
  <1> QED BY <1>t, <1>3, <1>4 DEF PentaTally

LEMMA FinishSecondOfPairPenta ==
  ASSUME PentaInv, PairsSwap, NEW id \in DOMAIN outcome, NEW out \in Outcomes,
         FinishSecondOfPair(id, out)
  PROVE  PentaTally'
  <1>t. TallyInv /\ IInv /\ TypeOK /\ opt.penta /\ PentaTally
    BY DEF PentaInv, TallyInv, IInv, FinishSecondOfPair
  <1>1. /\ opt' = opt /\ DOMAIN outcome' = DOMAIN outcome
        /\ outcome'[id] = out /\ out # NotPlayed /\ outcome[id] = NotPlayed
        /\ \A i \in DOMAIN outcome : i # id => outcome'[i] = outcome[i]
    BY <1>t, SecondOfPairFacts
  <1>2. PICK j \in DOMAIN outcome :
          /\ j # id /\ outcome[j] \in Outcomes
          /\ game_pair_cache[PairingId(id)] = Cached(j, outcome[j])
          /\ PairingId(j) = PairingId(id)
          /\ \A k \in DOMAIN outcome : PairingId(k) = PairingId(id) => k \in {id, j}
          /\ First(j) = First(id) /\ Second(j) = Second(id)
          /\ PairsSwap => White(j) = Black(id) /\ Black(j) = White(id)
          /\ {id, j} \cap CountedGames = {}
          /\ \A i \in DOMAIN outcome : Counted(i)' <=> i \in CountedGames \cup {id, j}
    BY <1>t, SecondOfPairFacts
  <1> DEFINE w == White(id)
             b == Black(id)
             g == GameStats(id, out)
             f == InvertStats(GameStats(j, outcome[j]))
             s == WithPenta(AddStats(f, g))
             Pts(e) == Points(outcome', e, id) + Points(outcome', e, j)
  <1>3. w \in Engines /\ b \in Engines /\ w # b /\ {First(id), Second(id)} = {w, b}
        /\ {First(j), Second(j)} = {w, b}
    BY <1>t, <1>2, GameFacts DEF White, Black
  <1>4. IsOneGame(g) /\ IsOneGame(f)
    BY <1>2, GameStatsIsOneGame, InvertOneGame
  <1>5. results' = [results EXCEPT ![<<w, b>>] = AddStats(@, s)]
    BY <1>2 DEF FinishSecondOfPair, UpdateNonPair, Cached
  <1>6. s \in StatsType
    BY <1>4, WithPentaConsistent
  <1>7. 2 * (f.wins + g.wins) + f.draws + g.draws = Pts(w)
    <2>1. outcome'[id] = out /\ outcome'[j] = outcome[j]
      BY <1>1, <1>2
    <2>2. ASSUME NEW i, i = id \/ i = j, {First(i), Second(i)} = {w, b}, outcome'[i] \in Outcomes
          PROVE  Points(outcome', w, i) = IF GameWon(i, outcome'[i], w, b) THEN 2
                                          ELSE IF GameDrawn(i, outcome'[i], w, b) THEN 1 ELSE 0
      <3>1. (First(i) = w /\ Second(i) = b) \/ (First(i) = b /\ Second(i) = w)
        BY <1>3, <2>2
      <3> HIDE DEF w, b
      <3> QED BY <1>3, <2>2, <3>1 DEF Points, GameWon, GameDrawn, Outcomes
    <2>3. /\ g.wins = IF GameWon(id, out, w, b) THEN 1 ELSE 0
          /\ g.draws = IF GameDrawn(id, out, w, b) THEN 1 ELSE 0
      BY <1>t, GameStatsFields
    <2>4. /\ f.wins = IF GameWon(j, outcome[j], w, b) THEN 1 ELSE 0
          /\ f.draws = IF GameDrawn(j, outcome[j], w, b) THEN 1 ELSE 0
      <3> DEFINE h == GameStats(j, outcome[j])
      <3>1. /\ h \in StatsType
            /\ h.losses = IF GameWon(j, outcome[j], Black(j), White(j)) THEN 1 ELSE 0
            /\ h.draws = IF GameDrawn(j, outcome[j], White(j), Black(j)) THEN 1 ELSE 0
        BY <1>t, <1>2, GameStatsFields
      <3>2. White(j) = b /\ Black(j) = w
        BY <1>2
      <3>3. GameDrawn(j, outcome[j], b, w) <=> GameDrawn(j, outcome[j], w, b)
        BY DEF GameDrawn
      <3> HIDE DEF w, b, h
      <3>4. InvertStats(h).wins = h.losses /\ InvertStats(h).draws = h.draws
        BY <3>1, InvertStatsFields
      <3> QED BY <3>1, <3>2, <3>3, <3>4 DEF h
    <2>5. ~(GameWon(id, out, w, b) /\ GameDrawn(id, out, w, b))
          /\ ~(GameWon(j, outcome[j], w, b) /\ GameDrawn(j, outcome[j], w, b))
      BY DEF GameWon, GameDrawn
    <2>6. /\ Points(outcome', w, id) = IF GameWon(id, out, w, b) THEN 2
                                       ELSE IF GameDrawn(id, out, w, b) THEN 1 ELSE 0
          /\ Points(outcome', w, j) = IF GameWon(j, outcome[j], w, b) THEN 2
                                      ELSE IF GameDrawn(j, outcome[j], w, b) THEN 1 ELSE 0
      BY <1>2, <1>3, <2>1, <2>2
    <2> HIDE DEF w, b, g, f
    <2> QED BY <2>3, <2>4, <2>5, <2>6
  <1>8. Pts(w) \in 0..4 /\ Pts(b) = 4 - Pts(w)
    <2>1. ASSUME NEW i, {First(i), Second(i)} = {w, b}, outcome'[i] \in Outcomes
          PROVE  Points(outcome', w, i) \in {0, 1, 2}
                 /\ Points(outcome', b, i) = 2 - Points(outcome', w, i)
      <3>1. (First(i) = w /\ Second(i) = b) \/ (First(i) = b /\ Second(i) = w)
        BY <1>3, <2>1
      <3> HIDE DEF w, b
      <3> QED BY <1>3, <2>1, <3>1 DEF Points, Outcomes
    <2>2. outcome'[id] \in Outcomes /\ outcome'[j] \in Outcomes
      BY <1>1, <1>2
    <2> DEFINE x == Points(outcome', w, id)   y == Points(outcome', w, j)
    <2>3. /\ x \in {0, 1, 2} /\ y \in {0, 1, 2}
          /\ Points(outcome', b, id) = 2 - x /\ Points(outcome', b, j) = 2 - y
      BY <1>3, <2>1, <2>2
    <2> HIDE DEF x, y
    <2>4. x + y \in 0..4 /\ (2 - x) + (2 - y) = 4 - (x + y)
      BY <2>3
    <2> QED BY <2>3, <2>4 DEF x, y
  <1>9. \A h \in 0..4 : PentaCount(s, h) = IF Pts(w) = h THEN 1 ELSE 0
    <2> HIDE DEF w, g, f
    <2> QED BY <1>4, <1>7, WithPentaCount
  <1> HIDE DEF w, b, g, f, s, Pts
  <1>10. ASSUME NEW x \in Engines, NEW y \in Engines, NEW h \in 0..4
         PROVE  Cardinality(PairsWorth(x, y, h)') = Cardinality(PairsWorth(x, y, h))
                  + IF {w, b} = {x, y} /\ Pts(x) = h THEN 1 ELSE 0
    <2> DEFINE C == CountedGames
    <2>1. C \in SUBSET DOMAIN outcome /\ \A i \in C : outcome'[i] = outcome[i]
      BY <1>1 DEF CountedGames, Counted
    <2>2. PairsWorth(x, y, h)' = Worth(outcome', C \cup {id, j}, x, y, h)
      <3>1. C \cup {id, j} \in SUBSET DOMAIN outcome
        BY <2>1
      <3>2. \A i \in DOMAIN outcome : Counted(i)' <=> i \in C \cup {id, j}
        BY <1>2
      <3> HIDE DEF C
      <3> QED BY <1>t, <1>1, <3>1, <3>2, WorthThen
    <2>3. PairsWorth(x, y, h) = Worth(outcome, C, x, y, h)
      BY <1>t, WorthNow
    <2> HIDE DEF C
    <2>4. NewPair(outcome', outcome, C, id, j)
      BY <1>2, <2>1 DEF C, NewPair
    <2>5. Cardinality(Worth(outcome', C \cup {id, j}, x, y, h))
            = Cardinality(Worth(outcome, C, x, y, h)) + NewWorth(outcome', id, j, x, y, h)
      BY <1>t, <2>4, NewPairWorth
    <2> QED BY <1>3, <2>2, <2>3, <2>5 DEF Pts, NewWorth
  <1>11. ASSUME NEW x \in Engines, NEW y \in Engines, x # y, NEW h \in 0..4
         PROVE  PentaCount(GetStats(x, y)', h) = Cardinality(PairsWorth(x, y, h)')
    <2> DEFINE p == results[<<x, y>>]
               q == results[<<y, x>>]
               pp == results'[<<x, y>>]
               qq == results'[<<y, x>>]
    <2>1. /\ p \in StatsType /\ q \in StatsType
          /\ pp = IF <<x, y>> = <<w, b>> THEN AddStats(p, s) ELSE p
          /\ qq = IF <<y, x>> = <<w, b>> THEN AddStats(q, s) ELSE q
      BY <1>t, <1>5 DEF TypeOK
    <2> HIDE DEF p, q, pp, qq
    <2>2. /\ AddStats(p, s) \in StatsType /\ AddStats(q, s) \in StatsType
          /\ PentaCount(AddStats(p, s), h) = PentaCount(p, h) + PentaCount(s, h)
          /\ PentaCount(AddStats(q, s), 4 - h) = PentaCount(q, 4 - h) + PentaCount(s, 4 - h)
      <3>1. 4 - h \in 0..4
        OBVIOUS
      <3> QED BY <1>6, <2>1, <3>1, AddStatsType, PentaCountFacts
    <2>3. /\ GetStats(x, y) = AddStats(p, InvertStats(q))
          /\ GetStats(x, y)' = AddStats(pp, InvertStats(qq))
      BY DEF GetStats, p, q, pp, qq
    <2>4. pp \in StatsType /\ qq \in StatsType
      BY <2>1, <2>2
    <2>5. /\ PentaCount(GetStats(x, y), h) = PentaCount(p, h) + PentaCount(q, 4 - h)
          /\ PentaCount(GetStats(x, y)', h) = PentaCount(pp, h) + PentaCount(qq, 4 - h)
          /\ PentaCount(p, h) \in Nat /\ PentaCount(q, 4 - h) \in Nat
      <3>1. PentaCount(AddStats(p, InvertStats(q)), h) = PentaCount(p, h) + PentaCount(q, 4 - h)
            /\ PentaCount(p, h) \in Nat /\ PentaCount(q, 4 - h) \in Nat
        BY <2>1, PentaOfEntries
      <3>2. PentaCount(AddStats(pp, InvertStats(qq)), h) = PentaCount(pp, h) + PentaCount(qq, 4 - h)
        BY <2>4, PentaOfEntries
      <3> QED BY <2>3, <3>1, <3>2
    <2>6. PentaCount(GetStats(x, y), h) = Cardinality(PairsWorth(x, y, h))
      BY <1>t, <1>11 DEF PentaTally
    <2>7. Cardinality(PairsWorth(x, y, h)') = Cardinality(PairsWorth(x, y, h))
                  + IF {w, b} = {x, y} /\ Pts(x) = h THEN 1 ELSE 0
      BY <1>10
    <2>8. /\ PentaCount(s, h) = IF Pts(w) = h THEN 1 ELSE 0
          /\ PentaCount(s, 4 - h) = IF Pts(w) = 4 - h THEN 1 ELSE 0
      <3>1. 4 - h \in 0..4
        OBVIOUS
      <3> QED BY <1>9, <3>1
    <2>9. CASE x = w /\ y = b
      <3>1. pp = AddStats(p, s) /\ qq = q /\ {w, b} = {x, y} /\ Pts(x) = Pts(w)
        BY <1>3, <2>1, <2>9
      <3> QED BY <2>2, <2>5, <2>6, <2>7, <2>8, <3>1
    <2>10. CASE x = b /\ y = w
      <3>1. pp = p /\ qq = AddStats(q, s) /\ {w, b} = {x, y}
        BY <1>3, <2>1, <2>10
      <3>2. Pts(x) = h <=> Pts(w) = 4 - h
        BY <1>8, <2>10
      <3>3. PentaCount(s, 4 - h) = IF Pts(x) = h THEN 1 ELSE 0
        BY <2>8, <3>2
      <3> QED BY <2>2, <2>5, <2>6, <2>7, <3>1, <3>3
    <2>11. CASE {x, y} # {w, b}
      <3>1. pp = p /\ qq = q
        BY <1>3, <2>1, <2>11
      <3>2. Cardinality(PairsWorth(x, y, h)') = Cardinality(PairsWorth(x, y, h))
        <4>1. {w, b} # {x, y}
          BY <2>11
        <4>2. Cardinality(PairsWorth(x, y, h)) \in Nat
          BY <2>5, <2>6
        <4> QED BY <2>7, <4>1, <4>2
      <3> QED BY <2>5, <2>6, <3>1, <3>2
    <2> QED BY <2>9, <2>10, <2>11
  <1> QED BY <1>11 DEF PentaTally

LEMMA SaveAndResumePenta ==
  ASSUME PentaInv, PairsSwap, opt.penta, SaveAndResume PROVE PentaTally'
  <1>t. TypeOK /\ PentaTally
    BY DEF PentaInv, TallyInv, IInv
  <1>1. /\ opt' = opt /\ DOMAIN outcome' = DOMAIN outcome
        /\ \A i \in DOMAIN outcome :
              /\ outcome'[i] = IF Counted(i) /\ ~StatsDropped THEN outcome[i] ELSE NotPlayed
              /\ Counted(i)' <=> Counted(i) /\ ~StatsDropped
    BY <1>t, ResumedGames
  <1> SUFFICES ASSUME NEW a \in Engines, NEW b \in Engines, a # b, NEW h \in 0..4
               PROVE  PentaCount(GetStats(a, b)', h) = Cardinality(PairsWorth(a, b, h)')
    BY DEF PentaTally
  <1>2. PairsWorth(a, b, h)' = IF StatsDropped THEN {} ELSE PairsWorth(a, b, h)
    <2> DEFINE C == IF StatsDropped THEN {} ELSE CountedGames
    <2>1. C \in SUBSET DOMAIN outcome /\ \A i \in DOMAIN outcome : Counted(i)' <=> i \in C
      BY <1>1 DEF CountedGames
    <2>2. \A i \in C : outcome'[i] = outcome[i]
      BY <1>1 DEF CountedGames
    <2>3. C = IF StatsDropped THEN {} ELSE CountedGames
      OBVIOUS
    <2> HIDE DEF C
    <2>4. PairsWorth(a, b, h)' = Worth(outcome', C, a, b, h)
      BY <1>t, <1>1, <2>1, WorthThen
    <2>5. Worth(outcome', C, a, b, h) = Worth(outcome, C, a, b, h)
      BY <2>2, SameWorth
    <2>6. PairsWorth(a, b, h) = Worth(outcome, CountedGames, a, b, h)
      BY <1>t, WorthNow
    <2>7. Worth(outcome, {}, a, b, h) = {}
      BY DEF Worth
    <2> QED BY <2>3, <2>4, <2>5, <2>6, <2>7
  <1>3. PairsWorth(b, a, 4 - h) = PairsWorth(a, b, h)
    <2> DEFINE C == CountedGames
               k == 4 - h
    <2>1. PairsWorth(a, b, h) = Worth(outcome, C, a, b, h)
          /\ PairsWorth(b, a, k) = Worth(outcome, C, b, a, k)
      BY <1>t, WorthNow
    <2>2. k \in 0..4 /\ 4 - k = h
      OBVIOUS
    <2>3. \A i \in C : outcome[i] \in Outcomes
      BY <1>t, CountedOutcomes
    <2> HIDE DEF C, k
    <2>4. Worth(outcome, C, b, a, k) = Worth(outcome, C, a, b, 4 - k)
      BY <2>2, <2>3, WorthMirror
    <2> QED BY <2>1, <2>2, <2>4 DEF k
  <1>4. StatsDropped \/ (~EngineBefore(a, b) /\ ~EngineBefore(b, a)) => PairsWorth(a, b, h)' = {}
    <2>1. \A i \in DOMAIN outcome : EngineBefore(First(i), Second(i))
      BY <1>t, GameFacts
    <2>2. ASSUME ~EngineBefore(a, b), ~EngineBefore(b, a)
          PROVE  Worth(outcome, CountedGames, a, b, h) = {}
      <3>1. \A i \in CountedGames : {First(i), Second(i)} # {a, b}
        BY <2>1, <2>2 DEF CountedGames
      <3> QED BY <3>1 DEF Worth
    <2>3. PairsWorth(a, b, h) = Worth(outcome, CountedGames, a, b, h)
      BY <1>t, WorthNow
    <2> QED BY <1>2, <2>2, <2>3
  <1> DEFINE p == results'[<<a, b>>]
             q == results'[<<b, a>>]
             s == GetStats(a, b)
             r == GetStats(b, a)
             k == 4 - h
  <1>5. /\ GetStats(a, b)' = AddStats(p, InvertStats(q))
        /\ p \in StatsType /\ q \in StatsType /\ s \in StatsType /\ r \in StatsType
        /\ IF StatsDropped \/ (~EngineBefore(a, b) /\ ~EngineBefore(b, a))
           THEN p = ZeroStats /\ q = ZeroStats
           ELSE (p = s /\ q = ZeroStats) \/ (p = ZeroStats /\ q = r)
    BY <1>t, ResumedStats
  <1>6. k \in 0..4
    OBVIOUS
  <1>7. /\ PentaCount(s, h) = Cardinality(PairsWorth(a, b, h))
        /\ PentaCount(r, k) = Cardinality(PairsWorth(b, a, k))
    BY <1>t, <1>6 DEF PentaTally
  <1> HIDE DEF p, q, s, r
  <1>8. PentaCount(GetStats(a, b)', h) = PentaCount(p, h) + PentaCount(q, k)
    <2>1. PentaCount(AddStats(p, InvertStats(q)), h) = PentaCount(p, h) + PentaCount(q, 4 - h)
      BY <1>5, PentaOfEntries
    <2> QED BY <1>5, <2>1
  <1>9. PentaCount(ZeroStats, h) = 0 /\ PentaCount(ZeroStats, k) = 0
    <2> HIDE DEF k
    <2> QED BY <1>5, <1>6, PentaCountFacts
  <1>10. PentaCount(s, h) \in Nat /\ PentaCount(r, k) \in Nat
    <2> HIDE DEF k
    <2> QED BY <1>5, <1>6, PentaCountFacts
  <1> HIDE DEF k
  <1>11. CASE StatsDropped \/ (~EngineBefore(a, b) /\ ~EngineBefore(b, a))
    <2>1. p = ZeroStats /\ q = ZeroStats
      BY <1>5, <1>11
    <2>2. Cardinality(PairsWorth(a, b, h)') = 0
      BY <1>4, <1>11, FS_EmptySet
    <2> QED BY <1>8, <1>9, <2>1, <2>2
  <1>12. CASE ~(StatsDropped \/ (~EngineBefore(a, b) /\ ~EngineBefore(b, a)))
    <2>1. (p = s /\ q = ZeroStats) \/ (p = ZeroStats /\ q = r)
      BY <1>5, <1>12
    <2>2. PairsWorth(a, b, h)' = PairsWorth(a, b, h)
      BY <1>2, <1>12
    <2>3. PairsWorth(b, a, k) = PairsWorth(a, b, h)
      BY <1>3 DEF k
    <2> QED BY <1>7, <1>8, <1>9, <1>10, <2>1, <2>2, <2>3
  <1> QED BY <1>11, <1>12

LEMMA InitPenta == Init => PentaInv
  <1> SUFFICES ASSUME Init PROVE PentaInv OBVIOUS
  <1>1. TallyInv
    BY InitIInv, InitTally DEF TallyInv
  <1>t. TypeOK
    BY <1>1 DEF TallyInv, IInv
  <1>2. ASSUME opt.penta, NEW a \in Engines, NEW b \in Engines, NEW h \in 0..4
        PROVE  PentaCount(GetStats(a, b), h) = Cardinality(PairsWorth(a, b, h))
    <2>1. CountedGames = {}
      BY DEF Init, CountedGames, Counted
    <2>2. PairsWorth(a, b, h) = {}
      <3>1. PairsWorth(a, b, h) = Worth(outcome, CountedGames, a, b, h)
        BY <1>t, <1>2, WorthNow
      <3> QED BY <2>1, <3>1 DEF Worth
    <2>3. GetStats(a, b) = AddStats(ZeroStats, InvertStats(ZeroStats))
      BY DEF Init, GetStats
    <2>4. PentaCount(AddStats(ZeroStats, InvertStats(ZeroStats)), h) = 0
      <3>1. ZeroStats \in StatsType /\ 4 - h \in 0..4
        BY ZeroStatsConsistent
      <3>2. PentaCount(ZeroStats, h) = 0 /\ PentaCount(ZeroStats, 4 - h) = 0
        BY <3>1, PentaCountFacts
      <3>3. PentaCount(AddStats(ZeroStats, InvertStats(ZeroStats)), h)
              = PentaCount(ZeroStats, h) + PentaCount(ZeroStats, 4 - h)
        BY <3>1, PentaOfEntries
      <3> QED BY <3>2, <3>3
    <2> QED BY <2>2, <2>3, <2>4, FS_EmptySet
  <1> QED BY <1>1, <1>2 DEF PentaInv, PentaTally

\* The pentanomial counts that are reported for one engine against another are the pairs
\* that really had that score: whichever game of a pair finished first, whatever finished
\* in between, and over restarts.
THEOREM PentaIsTrue == Spec => []PentaIsTally
  <1>1. PentaInv /\ TallyInv' /\ [Next]_vars => PentaInv'
    <2> SUFFICES ASSUME PentaInv, [Next]_vars, opt'.penta, PairsSwap' PROVE PentaTally'
      BY DEF PentaInv
    <2>1. opt' = opt /\ opt.penta /\ PairsSwap
      <3>1. opt' = opt
        BY DEF Next, Finish, FinishSingle, FinishFirstOfPair, FinishSecondOfPair, Played,
               SaveAndResume, vars
      <3> QED BY <3>1 DEF PairsSwap
    <2>2. ASSUME NEW id \in DOMAIN outcome, NEW out \in Outcomes, Finish(id, out)
          PROVE  PentaTally'
      <3>1. ~FinishSingle(id, out)
        BY <2>1 DEF FinishSingle
      <3> QED BY <2>1, <2>2, <3>1, FinishFirstOfPairPenta, FinishSecondOfPairPenta DEF Finish
    <2>3. CASE SaveAndResume
      BY <2>1, <2>3, SaveAndResumePenta
    <2>4. CASE UNCHANGED vars
      <3>1. \A a, b, h : PairsWorth(a, b, h)' = PairsWorth(a, b, h)
        BY <2>4 DEF vars, PairsWorth, HalfPointsOf, Counted, IsPairCompleted, PairingId, First, Second
      <3>2. \A a, b : GetStats(a, b)' = GetStats(a, b)
        BY <2>4 DEF vars, GetStats
      <3> QED BY <2>1, <3>1, <3>2 DEF PentaInv, PentaTally
    <2> QED BY <2>2, <2>3, <2>4 DEF Next
  <1>2. PentaInv => PentaIsTally
    BY PentaIsPentaTally DEF PentaInv, TallyInv
  <1> QED BY InitPenta, TallyInvariance, <1>1, <1>2, PTL DEF Spec

-----------------------------------------------------------------------------
(* The rating table. getAllStats folds over the entries of an engine: that   *)
(* there is such a sum and that its order does not matter is an induction    *)
(* over the number of entries, and that it is the tally one over the         *)
(* opponents. Both inductions take a least element outside a set.            *)

LEMMA AddStatsSwap ==
  ASSUME NEW s \in StatsType, NEW t \in StatsType, NEW u \in StatsType
  PROVE  AddStats(s, AddStats(t, u)) = AddStats(t, AddStats(s, u))
  BY DEF AddStats, StatsType

LEMMA AddStatsAssociative ==
  ASSUME NEW s \in StatsType, NEW t \in StatsType, NEW u \in StatsType
  PROVE  AddStats(s, AddStats(t, u)) = AddStats(AddStats(s, t), u)
  BY DEF AddStats, StatsType

\* Induction over the numbers of a set, from the least number outside it.
LEMMA NatSetInduction ==
  ASSUME NEW T, 0 \in T, \A n \in Nat : n \in T => n + 1 \in T
  PROVE  Nat \subseteq T
  <1> SUFFICES ASSUME Nat \ T # {} PROVE FALSE
    OBVIOUS
  <1> DEFINE R == OpToRel(<, Nat)
  <1>1. IsWellFoundedOn(R, Nat)
    BY NatLessThanWellFounded
  <1>2. \A i, j \in Nat : i < j => <<i, j>> \in R
    BY DEF OpToRel
  <1> HIDE DEF R
  <1>3. PICK m \in Nat \ T : \A n \in Nat \ T : ~(<<n, m>> \in R)
    <2>1. Nat \ T \subseteq Nat
      OBVIOUS
    <2> QED BY <1>1, <2>1, WFMin
  <1>4. m # 0 /\ m - 1 \in Nat /\ m - 1 < m
    BY <1>3
  <1>5. m - 1 \notin T
    BY <1>3, <1>4
  <1>6. <<m - 1, m>> \in R
    BY <1>2, <1>3, <1>4
  <1>7. m - 1 \in Nat \ T
    BY <1>4, <1>5
  <1> QED BY <1>3, <1>6, <1>7

\* Induction over the subsets of a finite set.
LEMMA SubsetInduction ==
  ASSUME NEW S, IsFiniteSet(S), NEW T,
         {} \in T,
         \A s \in SUBSET S, x \in S : s \in T /\ x \notin s => s \cup {x} \in T
  PROVE  SUBSET S \subseteq T
  <1> SUFFICES ASSUME (SUBSET S) \ T # {} PROVE FALSE
    OBVIOUS
  <1> DEFINE R == StrictSubsetOrdering(S)
  <1>1. IsWellFoundedOn(R, SUBSET S)
    BY FS_StrictSubsetOrderingWellFounded, FS_FiniteSubsetsOfFinite
  <1>2. \A r, s \in SUBSET S : r \subseteq s /\ r # s => <<r, s>> \in R
    BY DEF StrictSubsetOrdering
  <1> HIDE DEF R
  <1>3. PICK m \in (SUBSET S) \ T : \A n \in (SUBSET S) \ T : ~(<<n, m>> \in R)
    <2>1. (SUBSET S) \ T \subseteq SUBSET S
      OBVIOUS
    <2> QED BY <1>1, <2>1, WFMin
  <1>4. PICK x \in m : TRUE
    BY <1>3
  <1>5. m \ {x} \in SUBSET S /\ x \in S /\ m = (m \ {x}) \cup {x}
    BY <1>3, <1>4
  <1>6. m \ {x} \notin T
    BY <1>3, <1>5
  <1>7. <<m \ {x}, m>> \in R
    BY <1>2, <1>3, <1>4, <1>5
  <1> QED BY <1>3, <1>5, <1>6, <1>7

\* The sum of stats over a set of keys, as a fold computes it: one key after another, in
\* an order of its choice.
Picked(s) == CHOOSE key \in s : TRUE

IsSum(S, term, f) ==
    f = [s \in SUBSET S |-> IF s = {} THEN ZeroStats
                            ELSE AddStats(term[Picked(s)], f[s \ {Picked(s)}])]

LEMMA SumExists ==
  ASSUME NEW S, IsFiniteSet(S), NEW term
  PROVE  \E f : IsSum(S, term, f)
  <1> DEFINE Small(n) == {s \in SUBSET S : Cardinality(s) <= n}
             Val(f, s) == IF s = {} THEN ZeroStats
                          ELSE AddStats(term[Picked(s)], f[s \ {Picked(s)}])
             T == {n \in Nat : \E f : f = [s \in Small(n) |-> Val(f, s)]}
  <1>1. \A s \in SUBSET S : IsFiniteSet(s) /\ Cardinality(s) \in Nat
    BY FS_Subset, FS_CardinalityType
  <1>2. \A s \in SUBSET S : s # {} => /\ s \ {Picked(s)} \in SUBSET S
                                       /\ Cardinality(s \ {Picked(s)}) = Cardinality(s) - 1
    BY <1>1, FS_RemoveElement DEF Picked
  <1>3. 0 \in T
    <2> DEFINE f == [s \in Small(0) |-> ZeroStats]
    <2>1. \A s \in Small(0) : s = {}
      BY <1>1, FS_EmptySet
    <2>2. f = [s \in Small(0) |-> Val(f, s)]
      BY <2>1
    <2> QED BY <2>2
  <1>4. ASSUME NEW n \in Nat, n \in T PROVE n + 1 \in T
    <2>1. PICK g : g = [s \in Small(n) |-> Val(g, s)]
      BY <1>4
    <2> DEFINE f == [s \in Small(n + 1) |-> IF s \in Small(n) THEN g[s] ELSE Val(g, s)]
    <2>2. Small(n) \subseteq Small(n + 1)
      BY <1>1
    <2>3. \A s \in Small(n + 1) : s # {} => s \ {Picked(s)} \in Small(n)
      BY <1>1, <1>2
    <2>4. \A s \in Small(n + 1) : Val(f, s) = Val(g, s)
      BY <2>2, <2>3
    <2>5. \A s \in Small(n + 1) : f[s] = Val(g, s)
      BY <2>1
    <2>6. f = [s \in Small(n + 1) |-> Val(f, s)]
      <3> HIDE DEF Val, Small
      <3> QED BY <2>4, <2>5
    <2>7. \E h : h = [s \in Small(n + 1) |-> Val(h, s)]
      <3> HIDE DEF Val, Small, f
      <3> QED BY <2>6
    <2> HIDE DEF Val, Small, f
    <2>8. n + 1 \in Nat
      OBVIOUS
    <2> QED BY <2>7, <2>8
  <1>5. Nat \subseteq T
    <2> HIDE DEF T
    <2> QED BY <1>3, <1>4, NatSetInduction
  <1>6. Cardinality(S) \in T
    BY <1>1, <1>5
  <1>7. Small(Cardinality(S)) = SUBSET S
    BY <1>1, FS_Subset
  <1>8. PICK f : f = [s \in Small(Cardinality(S)) |-> Val(f, s)]
    BY <1>6
  <1> QED BY <1>7, <1>8 DEF IsSum

LEMMA SumType ==
  ASSUME NEW S, IsFiniteSet(S), NEW term \in [S -> StatsType], NEW f, IsSum(S, term, f)
  PROVE  f \in [SUBSET S -> StatsType]
  <1> DEFINE T == {n \in Nat : \A s \in SUBSET S : Cardinality(s) = n => f[s] \in StatsType}
  <1>1. \A s \in SUBSET S : IsFiniteSet(s) /\ Cardinality(s) \in Nat
    BY FS_Subset, FS_CardinalityType
  <1>2. \A s \in SUBSET S : s # {} => /\ Picked(s) \in s
                                       /\ s \ {Picked(s)} \in SUBSET S
                                       /\ Cardinality(s \ {Picked(s)}) = Cardinality(s) - 1
    BY <1>1, FS_RemoveElement DEF Picked
  <1>3. f[{}] = ZeroStats /\ \A s \in SUBSET S : s # {} => f[s] = AddStats(term[Picked(s)], f[s \ {Picked(s)}])
    BY DEF IsSum
  <1>4. 0 \in T
    BY <1>1, <1>3, FS_EmptySet, ZeroStatsConsistent
  <1>5. ASSUME NEW n \in Nat, n \in T PROVE n + 1 \in T
    <2> SUFFICES ASSUME NEW s \in SUBSET S, Cardinality(s) = n + 1 PROVE f[s] \in StatsType
      BY <1>5
    <2>1. s # {}
      BY FS_EmptySet
    <2>2. f[s \ {Picked(s)}] \in StatsType /\ term[Picked(s)] \in StatsType
      BY <1>2, <1>5, <2>1
    <2> QED BY <1>3, <2>1, <2>2, AddStatsType
  <1>6. Nat \subseteq T
    <2> HIDE DEF T
    <2> QED BY <1>4, <1>5, NatSetInduction
  <1>7. \A s \in SUBSET S : f[s] \in StatsType
    BY <1>1, <1>6
  <1>8. f = [s \in SUBSET S |-> f[s]]
    BY DEF IsSum
  <1> QED BY <1>7, <1>8

LEMMA SumOfAny ==
  ASSUME NEW S, IsFiniteSet(S), NEW term \in [S -> StatsType], NEW f, IsSum(S, term, f),
         NEW keys \in SUBSET S, NEW key \in keys
  PROVE  f[keys] = AddStats(term[key], f[keys \ {key}])
  <1> DEFINE Any(s) == \A x \in s : f[s] = AddStats(term[x], f[s \ {x}])
             T == {n \in Nat : \A s \in SUBSET S : Cardinality(s) = n => Any(s)}
  <1>1. \A s \in SUBSET S : IsFiniteSet(s) /\ Cardinality(s) \in Nat
    BY FS_Subset, FS_CardinalityType
  <1>2. \A s \in SUBSET S : s # {} => Picked(s) \in s
    BY DEF Picked
  <1>3. \A s \in SUBSET S : s # {} => f[s] = AddStats(term[Picked(s)], f[s \ {Picked(s)}])
    BY DEF IsSum
  <1>4. f \in [SUBSET S -> StatsType]
    BY SumType
  <1>5. 0 \in T
    BY <1>1, FS_EmptySet
  <1>6. ASSUME NEW n \in Nat, n \in T PROVE n + 1 \in T
    <2> SUFFICES ASSUME NEW s \in SUBSET S, Cardinality(s) = n + 1, NEW x \in s
                 PROVE f[s] = AddStats(term[x], f[s \ {x}])
      BY <1>6
    <2> DEFINE p == Picked(s)
               rest == (s \ {x}) \ {p}
    <2>1. p \in s /\ f[s] = AddStats(term[p], f[s \ {p}])
      BY <1>2, <1>3
    <2>2. CASE x = p
      BY <2>1, <2>2
    <2>3. CASE x # p
      <3>1. /\ s \ {p} \in SUBSET S /\ s \ {x} \in SUBSET S /\ rest \in SUBSET S
            /\ x \in s \ {p} /\ p \in s \ {x} /\ rest = (s \ {p}) \ {x}
            /\ x \in S /\ p \in S
        BY <2>1, <2>3
      <3>2. Cardinality(s \ {p}) = n /\ Cardinality(s \ {x}) = n
        <4>1. IsFiniteSet(s) /\ p \in s
          BY <1>1, <2>1
        <4>2. Cardinality(s \ {p}) = Cardinality(s) - 1 /\ Cardinality(s \ {x}) = Cardinality(s) - 1
          BY <4>1, FS_RemoveElement
        <4> QED BY <4>2
      <3>3. f[s \ {p}] = AddStats(term[x], f[rest]) /\ f[s \ {x}] = AddStats(term[p], f[rest])
        BY <1>6, <3>1, <3>2
      <3>4. term[x] \in StatsType /\ term[p] \in StatsType /\ f[rest] \in StatsType
        BY <1>4, <3>1
      <3> HIDE DEF p, rest
      <3>5. AddStats(term[p], AddStats(term[x], f[rest])) = AddStats(term[x], AddStats(term[p], f[rest]))
        BY <3>4, AddStatsSwap
      <3> QED BY <2>1, <3>3, <3>5
    <2> QED BY <2>2, <2>3
  <1>7. Nat \subseteq T
    <2> HIDE DEF T
    <2> QED BY <1>5, <1>6, NatSetInduction
  <1> QED BY <1>1, <1>7

\* The terms of getAllStats.
Terms(e) == [key \in KeysOf(e) |-> SeenBy(e, key)]

LEMMA AllStatsIsSum ==
  ASSUME NEW e
  PROVE  GetAllStats(e) = (CHOOSE f : IsSum(KeysOf(e), Terms(e), f))[KeysOf(e)]
  <1> DEFINE term == Terms(e)
             Sum(f) == f = [s \in SUBSET KeysOf(e) |->
                               IF s = {} THEN ZeroStats
                               ELSE AddStats(SeenBy(e, Picked(s)), f[s \ {Picked(s)}])]
  <1>1. GetAllStats(e) = (CHOOSE f : Sum(f))[KeysOf(e)]
    BY DEF GetAllStats, MapThenFoldSet, Picked
  <1>2. \A s \in SUBSET KeysOf(e) : s # {} => SeenBy(e, Picked(s)) = term[Picked(s)]
    BY DEF Picked, Terms
  <1>3. ASSUME NEW f PROVE Sum(f) <=> IsSum(KeysOf(e), term, f)
    <2> DEFINE F == [s \in SUBSET KeysOf(e) |->
                        IF s = {} THEN ZeroStats
                        ELSE AddStats(SeenBy(e, Picked(s)), f[s \ {Picked(s)}])]
               G == [s \in SUBSET KeysOf(e) |->
                        IF s = {} THEN ZeroStats
                        ELSE AddStats(term[Picked(s)], f[s \ {Picked(s)}])]
    <2>1. F = G
      <3> HIDE DEF term
      <3> QED BY <1>2
    <2> QED BY <2>1 DEF IsSum
  <1>4. (CHOOSE f : Sum(f)) = (CHOOSE f : IsSum(KeysOf(e), term, f))
    <2> HIDE DEF Sum, term
    <2> QED BY <1>3
  <1> QED BY <1>1, <1>4

\* The entries of a against the engines B.
EntriesWith(a, B) == {<<a, b>> : b \in B} \cup {<<b, a>> : b \in B}

\* An engine does not play itself, and nothing is ever filed under such a pair.
NoOneMeetsItself == \A e \in Engines : results[<<e, e>>] = ZeroStats

RatingInv == TallyInv /\ NoOneMeetsItself

LEMMA TermsType ==
  ASSUME TypeOK, NEW a \in Engines
  PROVE  IsFiniteSet(KeysOf(a)) /\ Terms(a) \in [KeysOf(a) -> StatsType]
  <1>1. /\ \A key \in Engines \X Engines : results[key] \in StatsType /\ InvertStats(results[key]) \in StatsType
        /\ DOMAIN results = Engines \X Engines
    BY InvertStatsFields DEF TypeOK
  <1>2. IsFiniteSet(Engines \X Engines)
    BY EnginesAssumption, FS_Product
  <1>3. IsFiniteSet(KeysOf(a))
    BY <1>1, <1>2, FS_Subset DEF KeysOf
  <1>4. \A key \in KeysOf(a) : SeenBy(a, key) \in StatsType
    BY <1>1 DEF SeenBy, KeysOf
  <1> QED BY <1>3, <1>4 DEF Terms

\* One more opponent adds what getStats says of it.
LEMMA OneMoreOpponent ==
  ASSUME TypeOK, NEW a \in Engines, NEW f,
         IsSum(KeysOf(a), Terms(a), f),
         NEW B \in SUBSET Engines, NEW b \in Engines, a \notin B, b \notin B, a # b
  PROVE  /\ f[EntriesWith(a, B \cup {b})] = AddStats(GetStats(a, b), f[EntriesWith(a, B)])
         /\ f[EntriesWith(a, B)] \in StatsType
  <1> DEFINE K == KeysOf(a)
             term == Terms(a)
             old == EntriesWith(a, B)
             new == EntriesWith(a, B \cup {b})
  <1>1. /\ \A key \in Engines \X Engines : results[key] \in StatsType /\ InvertStats(results[key]) \in StatsType
        /\ DOMAIN results = Engines \X Engines
    BY InvertStatsFields DEF TypeOK
  <1>2. IsFiniteSet(K) /\ term \in [K -> StatsType]
    BY TermsType
  <1>4. \A B1 \in SUBSET Engines : EntriesWith(a, B1) \in SUBSET K
    BY <1>1 DEF EntriesWith, KeysOf
  <1>5. /\ new \in SUBSET K /\ old \in SUBSET K /\ new \ {<<a, b>>} \in SUBSET K
        /\ <<a, b>> \in new /\ <<b, a>> \in new \ {<<a, b>>}
        /\ (new \ {<<a, b>>}) \ {<<b, a>>} = old
    BY <1>4 DEF EntriesWith
  <1>6. term[<<a, b>>] = results[<<a, b>>] /\ term[<<b, a>>] = InvertStats(results[<<b, a>>])
    BY <1>5 DEF SeenBy, Terms
  <1>7. f \in [SUBSET K -> StatsType] /\ \A s \in SUBSET K : \A x \in s : f[s] = AddStats(term[x], f[s \ {x}])
    <2>1. IsSum(K, term, f)
      OBVIOUS
    <2> HIDE DEF K, term
    <2>2. f \in [SUBSET K -> StatsType]
      BY <1>2, <2>1, SumType
    <2>3. ASSUME NEW s \in SUBSET K, NEW x \in s PROVE f[s] = AddStats(term[x], f[s \ {x}])
      BY <1>2, <2>1, SumOfAny
    <2> QED BY <2>2, <2>3
  <1> HIDE DEF K, term, old, new
  <1>8. f[new] = AddStats(results[<<a, b>>], AddStats(InvertStats(results[<<b, a>>]), f[old])) /\ f[old] \in StatsType
    <2>1. f[new] = AddStats(term[<<a, b>>], f[new \ {<<a, b>>}])
      BY <1>5, <1>7
    <2>2. f[new \ {<<a, b>>}] = AddStats(term[<<b, a>>], f[old])
      BY <1>5, <1>7
    <2>3. f[old] \in StatsType
      BY <1>5, <1>7
    <2> QED BY <1>6, <2>1, <2>2, <2>3
  <1>9. f[new] = AddStats(GetStats(a, b), f[old])
    BY <1>1, <1>8, AddStatsAssociative DEF GetStats
  <1> QED BY <1>8, <1>9 DEF old, new

LEMMA GamesAreFinite ==
  ASSUME TypeOK, NEW a, NEW b
  PROVE  IsFiniteSet(WonBy(a, b)) /\ IsFiniteSet(DrawnBetween(a, b))
  <1>1. IsFiniteSet(CountedGames)
    <2>1. {} \in SUBSET DOMAIN outcome /\ {} \cap CountedGames = {}
      OBVIOUS
    <2>2. \A i \in CountedGames : outcome[i] = outcome[i]
      OBVIOUS
    <2> QED BY <2>1, <2>2, MoreGames
  <1>2. WonBy(a, b) \subseteq CountedGames /\ DrawnBetween(a, b) \subseteq CountedGames
    BY DEF WonBy, DrawnBetween, CountedGames
  <1> QED BY <1>1, <1>2, FS_Subset

LEMMA DisjointCount ==
  ASSUME NEW S, NEW T, IsFiniteSet(S), IsFiniteSet(T), S \cap T = {}, NEW U, U = S \cup T
  PROVE  IsFiniteSet(U) /\ Cardinality(U) = Cardinality(T) + Cardinality(S)
  <1>1. Cardinality({}) = 0 /\ Cardinality(S) \in Nat /\ Cardinality(T) \in Nat
    BY FS_EmptySet, FS_CardinalityType
  <1>2. IsFiniteSet(S \cup T) /\ Cardinality(S \cup T) = Cardinality(S) + Cardinality(T) - Cardinality(S \cap T)
    BY FS_Union
  <1>3. Cardinality(S \cap T) = 0
    BY <1>1
  <1> DEFINE m == Cardinality(S)
             n == Cardinality(T)
             k == Cardinality(U)
  <1>4. k = n + m
    <2>1. m \in Nat /\ n \in Nat /\ k = m + n - 0
      BY <1>1, <1>2, <1>3
    <2> HIDE DEF m, n, k
    <2> QED BY <2>1
  <1> QED BY <1>2, <1>4

\* What a has scored against the engines B.
WonAgainst(a, B) == UNION {WonBy(a, b) : b \in B}
LostAgainst(a, B) == UNION {WonBy(b, a) : b \in B}
DrawnAgainst(a, B) == UNION {DrawnBetween(a, b) : b \in B}

IsTallyAgainst(s, a, B) ==
    /\ IsFiniteSet(WonAgainst(a, B)) /\ s.wins = Cardinality(WonAgainst(a, B))
    /\ IsFiniteSet(LostAgainst(a, B)) /\ s.losses = Cardinality(LostAgainst(a, B))
    /\ IsFiniteSet(DrawnAgainst(a, B)) /\ s.draws = Cardinality(DrawnAgainst(a, B))

\* No game is one against two opponents.
LEMMA OneMoreTally ==
  ASSUME IInv, ScoreIsTally, PairsSwap, NEW a \in Engines, NEW B \in SUBSET Engines,
         NEW b \in Engines, a \notin B, b \notin B, a # b,
         NEW s \in StatsType, IsTallyAgainst(s, a, B)
  PROVE  IsTallyAgainst(AddStats(GetStats(a, b), s), a, B \cup {b})
  <1> DEFINE g == GetStats(a, b)
             u == AddStats(g, s)
  <1>1. TypeOK
    BY DEF IInv
  <1>2. /\ g \in StatsType /\ g.wins = Cardinality(WonBy(a, b))
        /\ g.losses = Cardinality(WonBy(b, a)) /\ g.draws = Cardinality(DrawnBetween(a, b))
    BY <1>1, InvertStatsFields, AddStatsType DEF ScoreIsTally, GetStats, TypeOK
  <1> HIDE DEF g
  <1>3. u.wins = g.wins + s.wins /\ u.losses = g.losses + s.losses /\ u.draws = g.draws + s.draws
    BY <1>2, AddStatsType DEF StatsFields
  <1>4. \A c \in B : /\ WonBy(a, b) \cap WonBy(a, c) = {}
                     /\ WonBy(b, a) \cap WonBy(c, a) = {}
                     /\ DrawnBetween(a, b) \cap DrawnBetween(a, c) = {}
    BY DEF WonBy, DrawnBetween
  <1>5. /\ WonAgainst(a, B \cup {b}) = WonAgainst(a, B) \cup WonBy(a, b)
        /\ LostAgainst(a, B \cup {b}) = LostAgainst(a, B) \cup WonBy(b, a)
        /\ DrawnAgainst(a, B \cup {b}) = DrawnAgainst(a, B) \cup DrawnBetween(a, b)
    BY DEF WonAgainst, LostAgainst, DrawnAgainst
  <1>6. /\ WonAgainst(a, B) \cap WonBy(a, b) = {}
        /\ LostAgainst(a, B) \cap WonBy(b, a) = {}
        /\ DrawnAgainst(a, B) \cap DrawnBetween(a, b) = {}
    BY <1>4 DEF WonAgainst, LostAgainst, DrawnAgainst
  <1>7. IsFiniteSet(WonBy(a, b)) /\ IsFiniteSet(WonBy(b, a)) /\ IsFiniteSet(DrawnBetween(a, b))
    BY <1>1, GamesAreFinite
  <1>8. /\ IsFiniteSet(WonAgainst(a, B \cup {b})) /\ u.wins = Cardinality(WonAgainst(a, B \cup {b}))
        /\ IsFiniteSet(LostAgainst(a, B \cup {b})) /\ u.losses = Cardinality(LostAgainst(a, B \cup {b}))
        /\ IsFiniteSet(DrawnAgainst(a, B \cup {b})) /\ u.draws = Cardinality(DrawnAgainst(a, B \cup {b}))
    <2>1. /\ IsFiniteSet(WonAgainst(a, B)) /\ s.wins = Cardinality(WonAgainst(a, B))
          /\ IsFiniteSet(LostAgainst(a, B)) /\ s.losses = Cardinality(LostAgainst(a, B))
          /\ IsFiniteSet(DrawnAgainst(a, B)) /\ s.draws = Cardinality(DrawnAgainst(a, B))
      BY DEF IsTallyAgainst
    <2> HIDE DEF u
    <2>2. IsFiniteSet(WonAgainst(a, B \cup {b})) /\ u.wins = Cardinality(WonAgainst(a, B \cup {b}))
      <3>1. /\ IsFiniteSet(WonAgainst(a, B \cup {b}))
            /\ Cardinality(WonAgainst(a, B \cup {b})) = Cardinality(WonBy(a, b)) + Cardinality(WonAgainst(a, B))
        BY <1>5, <1>6, <1>7, <2>1, DisjointCount
      <3> QED BY <1>2, <1>3, <2>1, <3>1
    <2>3. IsFiniteSet(LostAgainst(a, B \cup {b})) /\ u.losses = Cardinality(LostAgainst(a, B \cup {b}))
      <3>1. /\ IsFiniteSet(LostAgainst(a, B \cup {b}))
            /\ Cardinality(LostAgainst(a, B \cup {b})) = Cardinality(WonBy(b, a)) + Cardinality(LostAgainst(a, B))
        BY <1>5, <1>6, <1>7, <2>1, DisjointCount
      <3> QED BY <1>2, <1>3, <2>1, <3>1
    <2>4. IsFiniteSet(DrawnAgainst(a, B \cup {b})) /\ u.draws = Cardinality(DrawnAgainst(a, B \cup {b}))
      <3>1. /\ IsFiniteSet(DrawnAgainst(a, B \cup {b}))
            /\ Cardinality(DrawnAgainst(a, B \cup {b})) = Cardinality(DrawnBetween(a, b)) + Cardinality(DrawnAgainst(a, B))
        BY <1>5, <1>6, <1>7, <2>1, DisjointCount
      <3> QED BY <1>2, <1>3, <2>1, <3>1
    <2> QED BY <2>2, <2>3, <2>4
  <1> QED BY <1>8 DEF g, IsTallyAgainst

LEMMA OpponentsTally ==
  ASSUME IInv, ScoreIsTally, PairsSwap, NEW a \in Engines, NEW f, IsSum(KeysOf(a), Terms(a), f),
         NEW others, others = Engines \ {a}
  PROVE  /\ f[EntriesWith(a, others)] \in StatsType
         /\ IsTallyAgainst(f[EntriesWith(a, others)], a, others)
  <1> DEFINE T == {B \in SUBSET others : /\ f[EntriesWith(a, B)] \in StatsType
                                         /\ IsTallyAgainst(f[EntriesWith(a, B)], a, B)}
  <1>1. TypeOK
    BY DEF IInv
  <1>2. {} \in T
    <2>1. EntriesWith(a, {}) = {} /\ f[{}] = ZeroStats
      BY DEF EntriesWith, IsSum
    <2>2. WonAgainst(a, {}) = {} /\ LostAgainst(a, {}) = {} /\ DrawnAgainst(a, {}) = {}
      BY DEF WonAgainst, LostAgainst, DrawnAgainst
    <2>3. ZeroStats.wins = 0 /\ ZeroStats.losses = 0 /\ ZeroStats.draws = 0
      BY DEF ZeroStats, StatsFields
    <2> QED BY <2>1, <2>2, <2>3, ZeroStatsConsistent, FS_EmptySet DEF IsTallyAgainst
  <1>3. ASSUME NEW B \in SUBSET others, NEW b \in others, B \in T, b \notin B
        PROVE  B \cup {b} \in T
    <2>1. B \in SUBSET Engines /\ b \in Engines /\ a \notin B /\ a # b /\ B \cup {b} \in SUBSET others
      OBVIOUS
    <2>2. f[EntriesWith(a, B \cup {b})] = AddStats(GetStats(a, b), f[EntriesWith(a, B)])
      BY <1>1, <1>3, <2>1, OneMoreOpponent
    <2>3. f[EntriesWith(a, B)] \in StatsType /\ IsTallyAgainst(f[EntriesWith(a, B)], a, B)
      BY <1>3
    <2>4. IsTallyAgainst(AddStats(GetStats(a, b), f[EntriesWith(a, B)]), a, B \cup {b})
      BY <1>3, <2>1, <2>3, OneMoreTally
    <2>5. GetStats(a, b) \in StatsType
      BY <1>1, <2>1, InvertStatsFields, AddStatsType DEF TypeOK, GetStats
    <2>6. AddStats(GetStats(a, b), f[EntriesWith(a, B)]) \in StatsType
      BY <2>3, <2>5, AddStatsType
    <2> QED BY <2>1, <2>2, <2>4, <2>6
  <1>4. IsFiniteSet(others)
    BY EnginesAssumption, FS_Subset
  <1>5. SUBSET others \subseteq T
    <2> HIDE DEF T
    <2>1. \A B \in SUBSET others, b \in others : B \in T /\ b \notin B => B \cup {b} \in T
      BY <1>3
    <2> QED BY <1>2, <1>4, <2>1, SubsetInduction
  <1>6. others \in T
    BY <1>5
  <1> QED BY <1>6

LEMMA RatingFromScore == ASSUME RatingInv PROVE RatingIsTally
  <1> SUFFICES ASSUME PairsSwap, NEW a \in Engines
               PROVE  IsTallyAgainst(GetAllStats(a), a, Engines \ {a})
    BY DEF RatingIsTally, IsTallyAgainst, WonAgainst, LostAgainst, DrawnAgainst
  <1>1. TypeOK /\ IInv /\ ScoreIsTally /\ results[<<a, a>>] = ZeroStats
    BY DEF RatingInv, TallyInv, IInv, NoOneMeetsItself
  <1> DEFINE others == Engines \ {a}
             K == KeysOf(a)
             f == CHOOSE g : IsSum(K, Terms(a), g)
  <1>2. IsFiniteSet(K) /\ Terms(a) \in [K -> StatsType]
    BY <1>1, TermsType
  <1>3. IsSum(K, Terms(a), f)
    BY <1>2, SumExists
  <1>4. GetAllStats(a) = f[K]
    BY AllStatsIsSum
  <1> HIDE DEF f
  <1>5. f[EntriesWith(a, others)] \in StatsType /\ IsTallyAgainst(f[EntriesWith(a, others)], a, others)
    BY <1>1, <1>3, OpponentsTally
  <1>6. <<a, a>> \in K /\ K \ {<<a, a>>} = EntriesWith(a, others) /\ Terms(a)[<<a, a>>] = ZeroStats
    BY <1>1 DEF KeysOf, Terms, SeenBy, EntriesWith, TypeOK
  <1>7. f[K] = AddStats(ZeroStats, f[EntriesWith(a, others)])
    <2>1. K \in SUBSET K /\ <<a, a>> \in K
      BY <1>6
    <2>2. f[K] = AddStats(Terms(a)[<<a, a>>], f[K \ {<<a, a>>}])
      <3> HIDE DEF K
      <3> QED BY <1>2, <1>3, <2>1, SumOfAny
    <2> QED BY <1>6, <2>2
  <1>8. \A s \in StatsType : AddStats(ZeroStats, s) = s
    BY DEF AddStats, ZeroStats, StatsType
  <1> QED BY <1>4, <1>5, <1>7, <1>8

LEMMA InitNoOneMeetsItself == Init => NoOneMeetsItself
  BY DEF Init, NoOneMeetsItself

LEMMA NextNoOneMeetsItself ==
  ASSUME TypeOK, NoOneMeetsItself, [Next]_vars PROVE NoOneMeetsItself'
  <1> SUFFICES ASSUME NEW e \in Engines PROVE results'[<<e, e>>] = ZeroStats
    BY DEF NoOneMeetsItself
  <1>1. results[<<e, e>>] = ZeroStats /\ results \in [Engines \X Engines -> StatsType]
    BY DEF NoOneMeetsItself, TypeOK
  <1>2. ASSUME NEW id \in DOMAIN outcome, NEW out \in Outcomes, Finish(id, out)
        PROVE  results'[<<e, e>>] = ZeroStats
    <2>1. White(id) # Black(id)
      BY GameFacts DEF White, Black
    <2>2. <<White(id), Black(id)>> # <<e, e>>
      BY <2>1
    <2>3. results' = results \/ \E s : results' = [results EXCEPT ![<<White(id), Black(id)>>] = AddStats(@, s)]
      BY <1>2 DEF Finish, FinishSingle, FinishFirstOfPair, FinishSecondOfPair, UpdateNonPair
    <2> QED BY <1>1, <2>2, <2>3
  <1>3. CASE SaveAndResume
    <2>1. ~EngineBefore(e, e)
      <3>1. \A k, l \in DOMAIN opt.encounters :
               opt.encounters[k] # <<opt.encounters[l][2], opt.encounters[l][1]>>
        BY OptionsAssumption DEF TypeOK, OptionOK
      <3> QED BY <3>1 DEF EngineBefore
    <2> QED BY <1>3, <2>1, LoadedResults DEF SaveAndResume
  <1>4. CASE UNCHANGED vars
    BY <1>1, <1>4 DEF vars
  <1> QED BY <1>2, <1>3, <1>4 DEF Next

THEOREM RatingInvariance == Spec => []RatingInv
  <1>1. Init => NoOneMeetsItself
    BY InitNoOneMeetsItself
  <1>2. TallyInv /\ NoOneMeetsItself /\ [Next]_vars => NoOneMeetsItself'
    BY NextNoOneMeetsItself DEF TallyInv, IInv
  <1>3. TallyInv /\ NoOneMeetsItself => RatingInv
    BY DEF RatingInv
  <1> QED BY <1>1, <1>2, <1>3, TallyInvariance, PTL DEF Spec

\* The score of an engine in the rating table is the number of games it really won, lost
\* and drew against all its opponents together.
THEOREM RatingIsTrue == Spec => []RatingIsTally
  <1> QED BY RatingFromScore, RatingInvariance, PTL
=============================================================================

--------------------------- MODULE ScoringProofs ----------------------------
(***************************************************************************)
(* The two scores: the one of the score engine, for all finite rules and all *)
(* applicants, and the ranking of a guest's profile with the claim of the  *)
(* submission that carries it, for every number of users and sessions and for *)
(* all profiles the schema admits.                                         *)
(***************************************************************************)
EXTENDS ScoreEngine, ProfileMatch, FunctionTheorems, FiniteSetTheorems, TLAPS

\* Both divide: a greater numerator has no smaller quotient.
LEMMA QuotientGrows ==
    ASSUME NEW m \in Nat, NEW n \in Nat, m <= n, NEW d \in Nat \ {0}
    PROVE  m \div d \in Nat /\ n \div d \in Nat /\ m \div d <= n \div d
OBVIOUS

-----------------------------------------------------------------------------
(***************************************************************************)
(* The score engine. Deltas are counted out in points, so that a sum is a  *)
(* number of points won less a number of points lost.                      *)
(***************************************************************************)

\* The values of a function on a finite set are finitely many, and so is their
\* union when each is a finite set.
LEMMA FiniteUnion ==
    ASSUME NEW S, IsFiniteSet(S), NEW f, \A x \in S : IsFiniteSet(f[x])
    PROVE  IsFiniteSet(UNION {f[x] : x \in S})
<1> DEFINE T == {f[x] : x \in S}
           h == [x \in S |-> f[x]]
<1>1. h \in Surjection(S, T)
  BY DEF Surjection
<1>2. \A t \in T : IsFiniteSet(t)
  OBVIOUS
<1> HIDE DEF T, h
<1>3. IsFiniteSet(T)
  BY <1>1, FS_Surjection
<1>4. IsFiniteSet(UNION T)
  BY <1>2, <1>3, FS_UNION
<1> QED BY <1>4 DEF T

\* Rules are finite in groups and outcomes.
FiniteRules(gs) ==
    /\ IsFiniteSet(gs)
    /\ \A g \in gs :
          /\ IsFiniteSet(g.outcomes)
          /\ \A o \in g.outcomes : o.score_delta \in Int /\ o.is_blocking \in BOOLEAN

\* So are the outcomes that score, and their points.
LEMMA ScoringFinite ==
    ASSUME NEW gs, FiniteRules(gs)
    PROVE  IsFiniteSet(Scoring(gs)) /\ \A go \in Scoring(gs) : go[2].score_delta \in Int
<1> DEFINE f == [g \in gs |-> {g} \X g.outcomes]
<1>1. \A g \in gs : IsFiniteSet(f[g])
  <2> SUFFICES ASSUME NEW g \in gs PROVE IsFiniteSet({g} \X g.outcomes)
    OBVIOUS
  <2>1. IsFiniteSet({g}) /\ IsFiniteSet(g.outcomes)
    BY FS_Singleton DEF FiniteRules
  <2> QED BY <2>1, FS_Product
<1>2. UNION {f[g] : g \in gs} = UNION {{g} \X g.outcomes : g \in gs}
  OBVIOUS
<1>3. IsFiniteSet(gs)
  BY DEF FiniteRules
<1> HIDE DEF f
<1>4. IsFiniteSet(UNION {{g} \X g.outcomes : g \in gs})
  <2>1. IsFiniteSet(UNION {f[g] : g \in gs})
    BY <1>1, <1>3, FiniteUnion
  <2> QED BY <2>1, <1>2
<1>5. Scoring(gs) \in SUBSET UNION {{g} \X g.outcomes : g \in gs}
  BY DEF Scoring
<1>6. IsFiniteSet(Scoring(gs))
  <2> DEFINE U == UNION {{g} \X g.outcomes : g \in gs}
  <2>1. IsFiniteSet(U) /\ Scoring(gs) \in SUBSET U
    BY <1>4, <1>5
  <2> HIDE DEF U
  <2> QED BY <2>1, FS_Subset
<1>7. \A go \in Scoring(gs) : go[2].score_delta \in Int
  BY DEF Scoring, FiniteRules
<1> QED BY <1>6, <1>7

LEMMA PointsFinite ==
    ASSUME NEW scored, IsFiniteSet(scored), \A go \in scored : go[2].score_delta \in Int
    PROVE  IsFiniteSet(Points(scored)) /\ IsFiniteSet(Penalties(scored))
<1> DEFINE f == [go \in scored |-> {go} \X (1 .. go[2].score_delta)]
           h == [go \in scored |-> {go} \X (1 .. -go[2].score_delta)]
<1>1. ASSUME NEW go \in scored
      PROVE  IsFiniteSet(f[go]) /\ IsFiniteSet(h[go])
  <2>1. /\ IsFiniteSet({go})
        /\ IsFiniteSet(1 .. go[2].score_delta) /\ IsFiniteSet(1 .. -go[2].score_delta)
    <3>1. \A n \in Int : IsFiniteSet(1 .. n)
      BY FS_Interval
    <3>2. go[2].score_delta \in Int
      OBVIOUS
    <3>3. IsFiniteSet({go})
      BY FS_Singleton
    <3> HIDE DEF f, h
    <3> QED BY <3>1, <3>2, <3>3
  <2>2. f[go] = {go} \X (1 .. go[2].score_delta) /\ h[go] = {go} \X (1 .. -go[2].score_delta)
    OBVIOUS
  <2> HIDE DEF f, h
  <2> QED BY <2>1, <2>2, FS_Product
<1>2. Points(scored) = UNION {f[go] : go \in scored}
  BY DEF Points
<1>3. Penalties(scored) = UNION {h[go] : go \in scored}
  BY DEF Penalties
<1> HIDE DEF f, h
<1>4. (\A go \in scored : IsFiniteSet(f[go])) /\ (\A go \in scored : IsFiniteSet(h[go]))
  BY <1>1
<1>5. IsFiniteSet(UNION {f[go] : go \in scored}) /\ IsFiniteSet(UNION {h[go] : go \in scored})
  BY <1>4, FiniteUnion
<1> QED BY <1>2, <1>3, <1>5

\* Who satisfies fewer outcomes has fewer points, of either kind.
LEMMA FewerPoints ==
    ASSUME NEW S, NEW T, IsFiniteSet(T), \A go \in T : go[2].score_delta \in Int,
           Points(S) \in SUBSET Points(T)
    PROVE  /\ Cardinality(Points(S)) \in Nat /\ Cardinality(Points(T)) \in Nat
           /\ Cardinality(Points(S)) <= Cardinality(Points(T))
  BY PointsFinite, FS_Subset, FS_CardinalityType

LEMMA FewerPenalties ==
    ASSUME NEW S, NEW T, IsFiniteSet(T), \A go \in T : go[2].score_delta \in Int,
           Penalties(S) \in SUBSET Penalties(T)
    PROVE  /\ Cardinality(Penalties(S)) \in Nat /\ Cardinality(Penalties(T)) \in Nat
           /\ Cardinality(Penalties(S)) <= Cardinality(Penalties(T))
  BY PointsFinite, FS_Subset, FS_CardinalityType

-----------------------------------------------------------------------------
\* What a quotient is known by.
LEMMA QuotientIs ==
    ASSUME NEW m \in Nat, NEW d \in Nat \ {0}, NEW q \in Nat, q * d <= m, m < (q + 1) * d
    PROVE  m \div d = q
<1> DEFINE k == m \div d
<1>1. k \in Nat /\ k * d <= m /\ m < (k + 1) * d
  OBVIOUS
<1> HIDE DEF k
<1>2. ASSUME k < q PROVE FALSE
  <2>1. (k + 1) * d <= q * d
    BY <1>1, <1>2
  <2> QED BY <1>1, <2>1
<1>3. ASSUME k > q PROVE FALSE
  <2>1. (q + 1) * d <= k * d
    BY <1>1, <1>3
  <2> QED BY <1>1, <2>1
<1> QED BY <1>1, <1>2, <1>3 DEF k

\* A sum between the least and the greatest is a percentage between 0 and 100,
\* and a greater sum is no smaller percentage.
LEMMA PercentGrows ==
    ASSUME NEW d, NEW m, NEW n,
           d \in Nat \ {0}, m \in Nat, n \in Nat, m <= n, n <= d
    PROVE  /\ Percent(m, d) \in 0 .. Hundred /\ Percent(n, d) \in 0 .. Hundred
           /\ Percent(m, d) <= Percent(n, d)
           /\ Percent(d, d) = Hundred
<1> DEFINE e == 2 * d
           a == 20000 * m + d
           b == 20000 * n + d
           c == 20000 * d + d
<1>1. /\ e \in Nat \ {0} /\ a \in Nat /\ b \in Nat /\ c \in Nat
      /\ a <= b /\ b <= c /\ 10000 * e <= c /\ c < 10001 * e
  OBVIOUS
<1>2. /\ Percent(m, d) = a \div e /\ Percent(n, d) = b \div e /\ Percent(d, d) = c \div e
  BY DEF Percent
<1> HIDE DEF e, a, b, c
<1>3. a \div e \in Nat /\ b \div e \in Nat /\ c \div e \in Nat
        /\ a \div e <= b \div e /\ b \div e <= c \div e
  BY <1>1, QuotientGrows
<1>4. c \div e = 10000
  <2> DEFINE q == 10000
  <2>1. q \in Nat /\ q * e <= c /\ c < (q + 1) * e
    BY <1>1
  <2> HIDE DEF q
  <2>2. c \div e = q
    BY <1>1, <2>1, QuotientIs
  <2> QED BY <2>2 DEF q
<1>5. ASSUME NEW x \in Nat, NEW y \in Nat, x <= y, y <= Hundred
      PROVE  x \in 0 .. Hundred /\ y \in 0 .. Hundred
  <2>1. Hundred \in Nat
    BY DEF Hundred
  <2> QED BY <1>5, <2>1
<1>6. c \div e = Hundred
  BY <1>4 DEF Hundred
<1> QED BY <1>2, <1>3, <1>5, <1>6, Zenon

\* Of lo points that can be lost and hi that can be won.
LEMMA ScoreGrowsWithSum ==
    ASSUME NEW lo \in Nat, NEW hi \in Nat, NEW raw \in -lo .. hi, NEW other \in -lo .. hi,
           raw <= other
    PROVE  LET scale == [min |-> -lo, max |-> hi]
           IN  /\ NormalizedScore(raw, scale) \in 0 .. Hundred
               /\ NormalizedScore(other, scale) \in 0 .. Hundred
               /\ NormalizedScore(raw, scale) <= NormalizedScore(other, scale)
               /\ hi > 0 => NormalizedScore(hi, scale) = Hundred
<1> DEFINE scale == [min |-> -lo, max |-> hi]
<1>0. scale.min = -lo /\ scale.max = hi
  OBVIOUS
<1> HIDE DEF scale
<1>t. 0 \in 0 .. Hundred
  BY DEF Hundred
<1>1. CASE hi = -lo
  <2>1. raw = 0 /\ other = 0 /\ hi = 0
    BY <1>1
  <2>2. NormalizedScore(raw, scale) = 0 /\ NormalizedScore(other, scale) = 0
    BY <2>1, <1>0, <1>1 DEF NormalizedScore
  <2> QED BY <1>t, <2>1, <2>2 DEF scale
<1>2. CASE hi # -lo
  <2> DEFINE d == hi - (-lo)
             m == raw - (-lo)
             n == other - (-lo)
  <2>1. d \in Nat \ {0} /\ m \in Nat /\ n \in Nat /\ m <= n /\ n <= d
    BY <1>2
  <2>2. /\ NormalizedScore(raw, scale) = Percent(m, d)
        /\ NormalizedScore(other, scale) = Percent(n, d)
        /\ NormalizedScore(hi, scale) = Percent(d, d)
    BY <1>0, <1>2 DEF NormalizedScore
  <2> HIDE DEF d, m, n
  <2>3. /\ Percent(m, d) \in 0 .. Hundred /\ Percent(n, d) \in 0 .. Hundred
        /\ Percent(m, d) <= Percent(n, d) /\ Percent(d, d) = Hundred
    BY <2>1, PercentGrows, Zenon
  <2> QED BY <2>2, <2>3 DEF scale
<1> QED BY <1>1, <1>2

-----------------------------------------------------------------------------
\* What the outcomes of the groups that apply to p give and take.
Won(gs, p) == Cardinality(Points(Scoring(Applying(gs, p))))
Lost(gs, p) == Cardinality(Penalties(Scoring(Applying(gs, p))))

\* RivalIsBetter, of any rules and two normalized profiles.
Better(gs, p, q) ==
    \A g \in gs :
       \/ Applies(g, p) = Applies(g, q)
       \/ Applies(g, q) /\ Favours(g)
       \/ Applies(g, p) /\ Penalizes(g)

\* What scores for p: of all that can score, the outcomes of groups that apply.
LEMMA MoreScoring ==
    ASSUME NEW gs, FiniteRules(gs), NEW p
    PROVE  /\ FiniteRules(Applying(gs, p))
           /\ Scoring(Applying(gs, p)) \in SUBSET Scoring(gs)
           /\ \A go \in Scoring(gs) :
                 /\ go[1] \in gs /\ go[2] \in go[1].outcomes /\ ~go[2].is_blocking
                 /\ go[2].score_delta \in Int
                 /\ go \in Scoring(Applying(gs, p)) <=> Applies(go[1], p)
<1>1. Applying(gs, p) \in SUBSET gs
  BY DEF Applying
<1>2. FiniteRules(Applying(gs, p))
  <2>1. IsFiniteSet(Applying(gs, p))
    BY <1>1, FS_Subset DEF FiniteRules
  <2> QED BY <1>1, <2>1 DEF FiniteRules
<1>3. ASSUME NEW go \in Scoring(gs)
      PROVE  /\ go[1] \in gs /\ go[2] \in go[1].outcomes /\ ~go[2].is_blocking
             /\ go[2].score_delta \in Int
             /\ go \in Scoring(Applying(gs, p)) <=> Applies(go[1], p)
  <2>1. PICK g \in gs : go \in {g} \X g.outcomes
    BY DEF Scoring
  <2>2. go[1] = g /\ go[2] \in g.outcomes /\ go = <<go[1], go[2]>> /\ ~go[2].is_blocking
    BY <2>1 DEF Scoring
  <2>3. go[2].score_delta \in Int
    BY <2>2 DEF FiniteRules
  <2>4. Applies(g, p) => go \in Scoring(Applying(gs, p))
    BY <2>1, <2>2 DEF Scoring, Applying
  <2>5. go \in Scoring(Applying(gs, p)) => Applies(g, p)
    BY <2>2 DEF Scoring, Applying
  <2> QED BY <2>2, <2>3, <2>4, <2>5
<1>4. Scoring(Applying(gs, p)) \in SUBSET Scoring(gs)
  BY <1>1 DEF Scoring
<1> QED BY <1>2, <1>3, <1>4

\* The sums of one applicant lie within the scale.
LEMMA SumsTyped ==
    ASSUME NEW gs, FiniteRules(gs), NEW p
    PROVE  LET hi == Cardinality(Points(Scoring(gs)))
               lo == Cardinality(Penalties(Scoring(gs)))
           IN  /\ hi \in Nat /\ lo \in Nat
               /\ Won(gs, p) \in Nat /\ Won(gs, p) <= hi
               /\ Lost(gs, p) \in Nat /\ Lost(gs, p) <= lo
<1> DEFINE S == Scoring(Applying(gs, p))
           T == Scoring(gs)
<1>1. S \in SUBSET T
  BY MoreScoring
<1>2. IsFiniteSet(T) /\ \A go \in T : go[2].score_delta \in Int
  BY ScoringFinite
<1> HIDE DEF S, T
<1>3. Points(S) \in SUBSET Points(T) /\ Penalties(S) \in SUBSET Penalties(T)
  BY <1>1 DEF Points, Penalties
<1> QED BY <1>2, <1>3, FewerPoints, FewerPenalties DEF Won, Lost, S, T

\* Whoever is better wins more and loses less.
LEMMA BetterSums ==
    ASSUME NEW gs, FiniteRules(gs), NEW p, NEW q, Better(gs, p, q)
    PROVE  Won(gs, p) <= Won(gs, q) /\ Lost(gs, q) <= Lost(gs, p)
<1> DEFINE S == Scoring(Applying(gs, p))
           T == Scoring(Applying(gs, q))
<1>1. /\ IsFiniteSet(S) /\ \A go \in S : go[2].score_delta \in Int
      /\ IsFiniteSet(T) /\ \A go \in T : go[2].score_delta \in Int
  BY MoreScoring, ScoringFinite
<1>2. ASSUME NEW go \in S, go[2].score_delta > 0
      PROVE  go \in T
  <2>1. /\ go \in Scoring(gs) /\ go[1] \in gs /\ go[2] \in go[1].outcomes
        /\ ~go[2].is_blocking /\ Applies(go[1], p) /\ go[2].score_delta \in Int
    BY MoreScoring
  <2>2. ~Penalizes(go[1])
    BY <1>2, <2>1 DEF Penalizes
  <2>3. Applies(go[1], q)
    BY <2>1, <2>2 DEF Better
  <2> QED BY <2>1, <2>3, MoreScoring
<1>3. ASSUME NEW go \in T, go[2].score_delta < 0
      PROVE  go \in S
  <2>1. /\ go \in Scoring(gs) /\ go[1] \in gs /\ go[2] \in go[1].outcomes
        /\ ~go[2].is_blocking /\ Applies(go[1], q) /\ go[2].score_delta \in Int
    BY MoreScoring
  <2>2. ~Favours(go[1])
    BY <1>3, <2>1 DEF Favours
  <2>3. Applies(go[1], p)
    BY <2>1, <2>2 DEF Better
  <2> QED BY <2>1, <2>3, MoreScoring
<1> HIDE DEF S, T
<1>4. Points(S) \in SUBSET Points(T)
  BY <1>1, <1>2 DEF Points
<1>5. Penalties(T) \in SUBSET Penalties(S)
  BY <1>1, <1>3 DEF Penalties
<1> QED BY <1>1, <1>4, <1>5, FewerPoints, FewerPenalties DEF Won, Lost, S, T

-----------------------------------------------------------------------------
\* The first pass finds a blocking outcome.
Barred(gs, p) == \E g \in Applying(gs, p) : Blocks(g)

ScoreOf(gs, p) == NormalizedScore(Won(gs, p) - Lost(gs, p), Scale(gs))

\* recommended, with a score of 60 or more.
Reaches(score) == score >= 6000

LEMMA Thresholds ==
    /\ \A m \in 0 .. Hundred : Reaches(m) => Faixa(m) # "baixo"
    /\ \A m, n \in 0 .. Hundred : m <= n /\ Reaches(m) => Reaches(n)
    /\ \A m \in 0 .. Hundred : 0 <= m
    /\ 0 \in 0 .. Hundred
<1>1. ASSUME NEW m \in 0 .. Hundred, Reaches(m) PROVE Faixa(m) # "baixo"
  <2>1. m \in Nat /\ ~(m < 4000) /\ (m \in 4000 .. 6999 \/ m >= 7000)
    BY <1>1 DEF Hundred, Reaches
  <2>2. CASE m >= 7000
    BY <2>1, <2>2 DEF Faixa
  <2>3. CASE ~(m >= 7000)
    BY <2>1, <2>3 DEF Faixa
  <2> QED BY <2>2, <2>3
<1>h. Hundred \in Nat
  BY DEF Hundred
<1>2. \A m, n \in 0 .. Hundred : m <= n /\ Reaches(m) => Reaches(n)
  BY <1>h DEF Reaches
<1>3. (\A m \in 0 .. Hundred : 0 <= m) /\ 0 \in 0 .. Hundred
  BY DEF Hundred
<1> QED BY <1>1, <1>2, <1>3

\* The fields of a result.
LEMMA EvaluationFields ==
    ASSUME NEW gs, NEW a, NEW p, p = Normalize(a)
    PROVE  LET r == Evaluate(gs, a)
           IN  /\ Barred(gs, p) => r.score = 0 /\ r.blocked /\ ~r.eligible
               /\ ~Barred(gs, p) => /\ r.score = ScoreOf(gs, p) /\ ~r.blocked
                                    /\ r.eligible <=> Reaches(r.score)
                                    /\ r.faixa = Faixa(r.score)
<1> DEFINE raw == Total(Scoring(Applying(gs, p)))
           score == NormalizedScore(raw, Scale(gs))
           r == Evaluate(gs, a)
<1>1. score = ScoreOf(gs, p)
  BY DEF ScoreOf, Total, Won, Lost
<1>2. /\ Barred(gs, p) =>
            r = [score |-> 0, faixa |-> "baixo", blocked |-> TRUE, eligible |-> FALSE]
      /\ ~Barred(gs, p) =>
            r = [score |-> score, faixa |-> Faixa(score), blocked |-> FALSE,
                 eligible |-> Reaches(score)]
  BY DEF Evaluate, Barred, Reaches
<1> HIDE DEF score, r
<1>3. Barred(gs, p) => r.score = 0 /\ r.blocked /\ ~r.eligible
  BY <1>2
<1>4. ASSUME ~Barred(gs, p)
      PROVE  r.score = score /\ ~r.blocked /\ r.eligible = Reaches(score)
             /\ r.faixa = Faixa(score)
  <2>1. r = [score |-> score, faixa |-> Faixa(score), blocked |-> FALSE,
                 eligible |-> Reaches(score)]
    BY <1>2, <1>4
  <2> QED BY <2>1, Zenon
<1> QED BY <1>1, <1>3, <1>4, Zenon DEF r

\* Every score is a percentage; whoever is better has no lower one.
LEMMA ScoresTyped ==
    ASSUME NEW gs, FiniteRules(gs), NEW p, NEW q, Better(gs, p, q)
    PROVE  /\ ScoreOf(gs, p) \in 0 .. Hundred /\ ScoreOf(gs, q) \in 0 .. Hundred
           /\ ScoreOf(gs, p) <= ScoreOf(gs, q)
<1> DEFINE hi == Cardinality(Points(Scoring(gs)))
           lo == Cardinality(Penalties(Scoring(gs)))
           m == Won(gs, p) - Lost(gs, p)
           n == Won(gs, q) - Lost(gs, q)
<1>1. /\ hi \in Nat /\ lo \in Nat
      /\ Won(gs, p) \in Nat /\ Won(gs, p) <= hi /\ Lost(gs, p) \in Nat /\ Lost(gs, p) <= lo
      /\ Won(gs, q) \in Nat /\ Won(gs, q) <= hi /\ Lost(gs, q) \in Nat /\ Lost(gs, q) <= lo
  BY SumsTyped
<1>2. Won(gs, p) <= Won(gs, q) /\ Lost(gs, q) <= Lost(gs, p)
  BY BetterSums
<1>3. Scale(gs) = [min |-> -lo, max |-> hi]
  BY DEF Scale
<1>4. /\ ScoreOf(gs, p) = NormalizedScore(m, Scale(gs))
      /\ ScoreOf(gs, q) = NormalizedScore(n, Scale(gs))
  BY DEF ScoreOf
<1> HIDE DEF hi, lo
<1>5. m \in -lo .. hi /\ n \in -lo .. hi /\ m <= n
  BY <1>1, <1>2
<1>6. lo \in Nat /\ hi \in Nat
  BY <1>1
<1> HIDE DEF m, n
<1> QED BY <1>3, <1>4, <1>5, <1>6, ScoreGrowsWithSum, Zenon

LEMMA AloneTyped ==
    ASSUME NEW gs, FiniteRules(gs), NEW p
    PROVE  ScoreOf(gs, p) \in 0 .. Hundred
<1>1. Better(gs, p, p)
  BY DEF Better
<1> QED BY <1>1, ScoresTyped

\* Whoever is better is not barred by what does not bar the other.
LEMMA BetterNotBarred ==
    ASSUME NEW gs, NEW p, NEW q, Better(gs, p, q), Barred(gs, q)
    PROVE  Barred(gs, p)
<1>1. PICK g \in gs : Applies(g, q) /\ \E o \in g.outcomes : o.is_blocking
  BY DEF Barred, Applying, Blocks
<1>2. ~Favours(g)
  BY <1>1 DEF Favours
<1>3. Applies(g, p)
  BY <1>1, <1>2 DEF Better
<1> QED BY <1>1, <1>3 DEF Barred, Applying, Blocks

\* ApplicantIsPerfect, of any rules and a normalized profile.
Perfect(gs, p) ==
    /\ \E g \in gs : \E o \in g.outcomes : o.score_delta > 0 /\ ~o.is_blocking
    /\ \A g \in gs :
          /\ Favours(g) \/ Penalizes(g)
          /\ Applies(g, p) <=> Favours(g)

LEMMA PerfectScore ==
    ASSUME NEW gs, FiniteRules(gs), NEW p, Perfect(gs, p)
    PROVE  ~Barred(gs, p) /\ ScoreOf(gs, p) = Hundred
<1> DEFINE S == Scoring(Applying(gs, p))
           T == Scoring(gs)
           hi == Cardinality(Points(T))
           lo == Cardinality(Penalties(T))
<1>1. ~Barred(gs, p)
  BY DEF Barred, Applying, Blocks, Perfect, Favours
<1>2. S \in SUBSET T /\ \A go \in T : go[2].score_delta \in Int
  BY MoreScoring
<1>3. ASSUME NEW go \in T, go[2].score_delta > 0
      PROVE  go \in S
  <2>1. go[1] \in gs /\ go[2] \in go[1].outcomes /\ ~go[2].is_blocking /\ go[2].score_delta \in Int
    BY MoreScoring
  <2>2. ~Penalizes(go[1])
    BY <1>3, <2>1 DEF Penalizes
  <2>3. Applies(go[1], p)
    BY <2>1, <2>2 DEF Perfect
  <2> QED BY <2>1, <2>3, MoreScoring
<1>4. ASSUME NEW go \in S PROVE ~(go[2].score_delta < 0)
  <2>1. /\ go \in T /\ go[1] \in gs /\ go[2] \in go[1].outcomes
        /\ Applies(go[1], p) /\ go[2].score_delta \in Int
    BY MoreScoring
  <2>2. Favours(go[1])
    BY <2>1 DEF Perfect
  <2> QED BY <2>1, <2>2 DEF Favours
<1>g. PICK g \in gs : \E o \in g.outcomes : o.score_delta > 0 /\ ~o.is_blocking
  BY DEF Perfect
<1>5. PICK o \in g.outcomes : o.score_delta > 0 /\ ~o.is_blocking
  BY <1>g
<1>6. <<g, o>> \in T /\ o.score_delta \in Int
  BY <1>5 DEF Scoring, FiniteRules
<1>7. <<(<<g, o>>), 1>> \in Points(T)
  <2>1. 1 \in 1 .. o.score_delta
    BY <1>5, <1>6
  <2> QED BY <1>6, <2>1 DEF Points
<1> HIDE DEF S, T
<1>8. Points(S) = Points(T)
  BY <1>2, <1>3 DEF Points
<1>9. Penalties(S) = {}
  BY <1>2, <1>4 DEF Penalties
<1>10. Won(gs, p) = hi /\ Lost(gs, p) = 0
  BY <1>8, <1>9, FS_EmptySet DEF Won, Lost, S
<1>11. hi \in Nat /\ lo \in Nat /\ hi # 0
  <2>1. hi \in Nat /\ lo \in Nat
    BY SumsTyped DEF T
  <2>2. IsFiniteSet(Points(T))
    BY ScoringFinite, PointsFinite DEF T
  <2> QED BY <1>7, <2>1, <2>2, FS_EmptySet
<1>12. Scale(gs) = [min |-> -lo, max |-> hi]
  BY DEF Scale, T
<1> HIDE DEF hi, lo
<1>13. ScoreOf(gs, p) = NormalizedScore(hi, Scale(gs))
  <2>1. hi - 0 = hi
    BY <1>11
  <2> QED BY <1>10, <2>1 DEF ScoreOf
<1>14. hi \in -lo .. hi /\ hi <= hi /\ hi > 0
  BY <1>11
<1> QED BY <1>1, <1>11, <1>12, <1>13, <1>14, ScoreGrowsWithSum, Zenon

-----------------------------------------------------------------------------
\* A verdict is the evaluation of the two applicants with the rules.
EngineInv ==
    /\ rules \in RuleSets
    /\ engine_pc = "done" => verdict = <<Evaluate(rules, applicant), Evaluate(rules, rival)>>

LEMMA EngineInvariant == EngineSpec => []EngineInv
<1>1. EngineInit => EngineInv
  BY DEF EngineInit, EngineInv
<1>2. EngineInv /\ [EvaluateBoth]_engineVars => EngineInv'
  BY DEF EngineInv, EvaluateBoth, engineVars
<1> QED BY <1>1, <1>2, PTL DEF EngineSpec

(***************************************************************************)
(* evaluate gives no applicant a lower score, or a block, for being better; *)
(* who satisfies all that is worth points and nothing else scores 100; and *)
(* nobody is recommended whose score is low. Whatever the rules and whoever *)
(* the applicants.                                                         *)
(***************************************************************************)
THEOREM ScoreIsFair == EngineSpec => []BetterNeverScoresLess
<1>1. EngineInv => BetterNeverScoresLess
  <2> SUFFICES ASSUME EngineInv
               PROVE  BetterNeverScoresLess
    OBVIOUS
  <2> DEFINE p == Normalize(applicant)
             q == Normalize(rival)
             mine == verdict[1]
             other == verdict[2]
  <2>f. ASSUME engine_pc = "done" PROVE  FairResults(mine, other)
    <3>0. /\ FiniteRules(rules)
          /\ mine = Evaluate(rules, applicant) /\ other = Evaluate(rules, rival)
      BY <2>f, RulesAssumption DEF EngineInv, FiniteRules
    <3> HIDE DEF mine, other
    <3>1. /\ Barred(rules, p) => mine.score = 0 /\ mine.blocked /\ ~mine.eligible
          /\ ~Barred(rules, p) => /\ mine.score = ScoreOf(rules, p) /\ ~mine.blocked
                                  /\ mine.eligible <=> Reaches(mine.score)
                                  /\ mine.faixa = Faixa(mine.score)
      BY <3>0, EvaluationFields, Zenon
    <3>2. /\ Barred(rules, q) => other.score = 0 /\ other.blocked /\ ~other.eligible
          /\ ~Barred(rules, q) => /\ other.score = ScoreOf(rules, q) /\ ~other.blocked
                                  /\ other.eligible <=> Reaches(other.score)
      BY <3>0, EvaluationFields, Zenon
    <3>3. ScoreOf(rules, p) \in 0 .. Hundred /\ ScoreOf(rules, q) \in 0 .. Hundred
      BY <3>0, AloneTyped, Zenon
    <3>4. RivalIsBetter => /\ ScoreOf(rules, p) <= ScoreOf(rules, q)
                           /\ Barred(rules, q) => Barred(rules, p)
      <4>1. RivalIsBetter => Better(rules, p, q)
        BY Zenon DEF RivalIsBetter, Better
      <4> QED BY <3>0, <4>1, ScoresTyped, BetterNotBarred, Zenon
    <3>5. ApplicantIsPerfect => ~Barred(rules, p) /\ ScoreOf(rules, p) = Hundred
      <4>1. ApplicantIsPerfect => Perfect(rules, p)
        BY Zenon DEF ApplicantIsPerfect, Perfect
      <4> QED BY <3>0, <4>1, PerfectScore, Zenon
    <3> HIDE DEF p, q
    <3>6. mine.score \in 0 .. Hundred /\ other.score \in 0 .. Hundred
      BY <3>1, <3>2, <3>3, Thresholds, Zenon
    <3>7. mine.eligible => mine.faixa # "baixo"
      BY <3>1, <3>6, Thresholds, Zenon
    <3>8. ApplicantIsPerfect => mine.score = Hundred
      BY <3>1, <3>5, Zenon
    <3>9. RivalIsBetter => mine.score <= other.score /\ (other.blocked => mine.blocked)
      BY <3>1, <3>2, <3>4, <3>6, Thresholds, Zenon
    <3>10. RivalIsBetter => (mine.eligible => other.eligible)
      BY <3>1, <3>2, <3>4, <3>6, <3>9, Thresholds, Zenon
    <3> QED BY <3>6, <3>7, <3>8, <3>9, <3>10, Zenon DEF FairResults
  <2> QED BY <2>f, Zenon DEF BetterNeverScoresLess
<1> QED BY EngineInvariant, <1>1, PTL

-----------------------------------------------------------------------------
(***************************************************************************)
(* The profile match.                                                      *)
(***************************************************************************)

\* A claim goes on from what it has read only if that was no owner; the row
\* has an owner column, filled or not.
ClaimsFoundNobody ==
    /\ loaded \in [MatchUsers -> {"unread", "none"}]
    /\ "user_id" \in DOMAIN submission

LEMMA ClaimsInitial == MatchInit => ClaimsFoundNobody
  BY DEF MatchInit, ClaimsFoundNobody, Absent

LEMMA ClaimsInductive ==
    ClaimsFoundNobody /\ [MatchNext]_matchVars => ClaimsFoundNobody'
<1> SUFFICES ASSUME ClaimsFoundNobody, [MatchNext]_matchVars
             PROVE  ClaimsFoundNobody'
  OBVIOUS
<1> USE DEF ClaimsFoundNobody
<1>1. ASSUME NEW p, NEW owner, NEW session, SubmitProfile(p, owner, session)
      PROVE  ClaimsFoundNobody'
  BY <1>1 DEF SubmitProfile
<1>2. ASSUME NEW p, SubmitAgain(p)
      PROVE  ClaimsFoundNobody'
  BY <1>2 DEF SubmitAgain
<1>3. ASSUME NEW u \in MatchUsers, NEW session, LoadClaim(u, session)
      PROVE  ClaimsFoundNobody'
  BY <1>3 DEF LoadClaim
<1>4. ASSUME NEW u \in MatchUsers, WriteClaim(u)
      PROVE  ClaimsFoundNobody'
  <2>1. DOMAIN submission' = DOMAIN submission
    BY <1>4 DEF WriteClaim
  <2> QED
    BY <1>4, <2>1 DEF WriteClaim
<1>5. ASSUME NEW u \in MatchUsers, ReadResults(u)
      PROVE  ClaimsFoundNobody'
  BY <1>5 DEF ReadResults
<1>6. CASE UNCHANGED matchVars
  BY <1>6 DEF matchVars
<1> QED
  BY <1>1, <1>2, <1>3, <1>4, <1>5, <1>6 DEF MatchNext

NothingClaimedYet == submission = Absent => InProgress = {}

(***************************************************************************)
(* As long as no two claims have overlapped, there is one claim at a time, *)
(* made of a submission without an owner, and only the owner has seen the  *)
(* results.                                                                *)
(***************************************************************************)
OneAtATime ==
    ~overlapped => /\ \A u, v \in InProgress : u = v
                   /\ InProgress # {} => submission.user_id = "none"
                   /\ shown \subseteq {submission.user_id} \ {"none"}

OwnersInv == ClaimsFoundNobody /\ NothingClaimedYet /\ OneAtATime

LEMMA OwnersInitial == MatchInit => OwnersInv
  BY ClaimsInitial
     DEF MatchInit, OwnersInv, NothingClaimedYet, OneAtATime, InProgress

LEMMA OwnersInductive == OwnersInv /\ [MatchNext]_matchVars => OwnersInv'
<1> SUFFICES ASSUME OwnersInv, [MatchNext]_matchVars
             PROVE  OwnersInv'
  OBVIOUS
<1>0. ClaimsFoundNobody /\ ClaimsFoundNobody'
  BY ClaimsInductive DEF OwnersInv
<1> USE DEF OwnersInv, NothingClaimedYet, OneAtATime, InProgress
<1> DEFINE Kept == NothingClaimedYet' /\ OneAtATime'
<1>1. ASSUME NEW p, NEW owner, NEW session, SubmitProfile(p, owner, session)
      PROVE  Kept
  <2>1. submission = Absent /\ submission'.user_id = owner
    BY <1>1 DEF SubmitProfile
  <2>2. shown' = {owner} \ {"none"} /\ InProgress' = {}
    BY <1>1, <2>1 DEF SubmitProfile
  <2> QED
    BY <2>1, <2>2
<1>2. ASSUME NEW p, SubmitAgain(p)
      PROVE  Kept
  BY <1>2 DEF SubmitAgain
<1>3. ASSUME NEW u \in MatchUsers, NEW session, LoadClaim(u, session)
      PROVE  Kept
  <2>1. /\ submission # Absent /\ submission.user_id = "none"
        /\ submission' = submission /\ shown' = shown
        /\ overlapped' = (overlapped \/ InProgress # {})
    BY <1>3 DEF LoadClaim
  <2>2. InProgress = {} => InProgress' = {u}
    BY <1>0, <1>3 DEF LoadClaim, ClaimsFoundNobody
  <2> QED
    BY <2>1, <2>2
<1>4. ASSUME NEW u \in MatchUsers, WriteClaim(u)
      PROVE  Kept
  <2>1. /\ u \in InProgress /\ submission # Absent
        /\ overlapped' = overlapped /\ shown' = shown \cup {u}
    BY <1>4 DEF WriteClaim
  <2>2. submission'.user_id = u
    BY <1>0, <1>4 DEF WriteClaim, ClaimsFoundNobody
  <2>3. InProgress' = InProgress \ {u}
    BY <1>0, <1>4 DEF WriteClaim, ClaimsFoundNobody
  <2>4. NothingClaimedYet'
    <3>1. DOMAIN submission' = DOMAIN submission /\ u # "none"
      BY <1>4, UsersAssumption DEF WriteClaim
    <3>2. submission' # Absent
      BY <2>2, <3>1 DEF Absent
    <3> QED
      BY <3>2
  <2>5. ASSUME ~overlapped PROVE InProgress = {u} /\ shown = {}
    BY <2>1, <2>5
  <2> QED
    BY <2>1, <2>2, <2>3, <2>4, <2>5, UsersAssumption
<1>5. ASSUME NEW u \in MatchUsers, ReadResults(u)
      PROVE  Kept
  BY <1>5, UsersAssumption DEF ReadResults
<1>6. ASSUME UNCHANGED matchVars
      PROVE  Kept
  BY <1>6 DEF matchVars
<1>7. Kept
  <2> HIDE DEF Kept
  <2> QED
    BY <1>1, <1>2, <1>3, <1>4, <1>5, <1>6 DEF MatchNext
<1> QED
  BY <1>0, <1>7

(***************************************************************************)
(* Whatever claims, logins and reads follow one another, the results of a  *)
(* submission have been given to its owner only, unless two claims have    *)
(* overlapped.                                                             *)
(***************************************************************************)
THEOREM OwnersAreShown == MatchSpec => []ShownToOwner
<1>1. OwnersInv => ShownToOwner
  BY DEF OwnersInv, OneAtATime, ShownToOwner
<1> QED
  BY <1>1, OwnersInitial, OwnersInductive, PTL DEF MatchSpec

-----------------------------------------------------------------------------
(***************************************************************************)
(* The numbers a score is made of.                                         *)
(***************************************************************************)
LEMMA LevelsScored ==
    /\ \A level \in CefrLevels : CefrScores[level] \in 0 .. 100
    /\ \A level \in EducationLevels : EducationScores[level] \in 0 .. 100
BY DEF CefrLevels, CefrScores, EducationLevels, EducationScores

LEMMA CountriesTyped ==
    \A rule \in CountryRules :
        /\ rule.language_mode \in {"english", "french", "hybrid", "local"}
        /\ rule.min_funds_brl \in Nat \ {0}
        /\ rule.job_offer_factor \in Nat
        /\ rule.family_factor \in Nat
        /\ rule.base_boost \in Int
BY DEF CountryRules, Country

LEMMA ImprovedFields ==
    ASSUME NEW p, NEW q, Improves(q, p)
    PROVE  /\ q.age = p.age /\ q.profession_area = p.profession_area
           /\ q.preferred_region = p.preferred_region
           /\ q.wants_fast_citizenship = p.wants_fast_citizenship
BY DEF Improves

LEMMA ImprovedValues ==
    ASSUME NEW p, NEW q, Improves(q, p)
    PROVE  /\ EducationScores[q.education_level] >= EducationScores[p.education_level]
           /\ q.experience_years >= p.experience_years
           /\ CefrScores[q.english_level] >= CefrScores[p.english_level]
           /\ CefrScores[q.french_level] >= CefrScores[p.french_level]
           /\ q.savings_brl >= p.savings_brl
           /\ q.monthly_income_brl >= p.monthly_income_brl
BY Zenon DEF Improves

LEMMA ImprovedFlags ==
    ASSUME NEW p, NEW q, Improves(q, p)
    PROVE  /\ p.has_job_offer => q.has_job_offer
           /\ p.has_family_abroad => q.has_family_abroad
           /\ p.willing_to_learn_language => q.willing_to_learn_language
BY Zenon DEF Improves

\* The language mode decides which of the languages counts.
LEMMA LanguageGrows ==
    ASSUME NEW rule \in CountryRules,
           NEW en \in Nat, NEW fr \in Nat, NEW willing,
           NEW en2 \in Nat, NEW fr2 \in Nat, NEW willing2,
           en <= en2, fr <= fr2, willing => willing2
    PROVE  /\ LanguageScore(rule, en, fr, willing) \in Int
           /\ LanguageScore(rule, en2, fr2, willing2) \in Int
           /\ LanguageScore(rule, en, fr, willing)
                <= LanguageScore(rule, en2, fr2, willing2)
<1>1. CASE rule.language_mode = "english"
  BY <1>1 DEF LanguageScore
<1>2. CASE rule.language_mode = "french"
  BY <1>2 DEF LanguageScore, Larger
<1>3. CASE rule.language_mode = "hybrid"
  BY <1>3 DEF LanguageScore, Larger
<1>4. CASE rule.language_mode = "local"
  <2> DEFINE m == 2500 + 35 * en + (IF willing THEN 2500 ELSE 0)
             n == 2500 + 35 * en2 + (IF willing2 THEN 2500 ELSE 0)
  <2>1. m \in Int /\ n \in Int /\ m <= n
    OBVIOUS
  <2>2. /\ LanguageScore(rule, en, fr, willing) = Clamp(m, 0, 10000)
        /\ LanguageScore(rule, en2, fr2, willing2) = Clamp(n, 0, 10000)
    BY <1>4 DEF LanguageScore
  <2> HIDE DEF m, n
  <2>3. /\ Clamp(m, 0, 10000) \in Int /\ Clamp(n, 0, 10000) \in Int
        /\ Clamp(m, 0, 10000) <= Clamp(n, 0, 10000)
    BY <2>1 DEF Clamp
  <2> QED
    BY <2>2, <2>3
<1> QED
  BY <1>1, <1>2, <1>3, <1>4, CountriesTyped

LEMMA FundsGrow ==
    ASSUME NEW rule \in CountryRules, NEW m \in Nat, NEW n \in Nat, m <= n
    PROVE  /\ FundsScore(rule, m) \in Int /\ FundsScore(rule, n) \in Int
           /\ FundsScore(rule, m) <= FundsScore(rule, n)
<1> DEFINE d == rule.min_funds_brl
           a == 10000 * m
           b == 10000 * n
<1>1. d \in Nat \ {0} /\ a \in Nat /\ b \in Nat /\ a <= b
  BY CountriesTyped
<1>2. /\ FundsScore(rule, m) = Clamp(a \div d, 0, 10000)
      /\ FundsScore(rule, n) = Clamp(b \div d, 0, 10000)
  BY DEF FundsScore
<1> HIDE DEF a, b, d
<1>3. a \div d \in Nat /\ b \div d \in Nat /\ a \div d <= b \div d
  BY <1>1, QuotientGrows
<1> DEFINE s == a \div d
           t == b \div d
<1>4. s \in Int /\ t \in Int /\ s <= t
  BY <1>3
<1>5. FundsScore(rule, m) = Clamp(s, 0, 10000) /\ FundsScore(rule, n) = Clamp(t, 0, 10000)
  BY <1>2
<1> HIDE DEF s, t
<1> QED
  BY <1>4, <1>5 DEF Clamp

(***************************************************************************)
(* weighted_score is a sum of terms none of which an improvement lowers.   *)
(***************************************************************************)
LEMMA ScoreGrows ==
    ASSUME NEW rule \in CountryRules, NEW p, ProfileMatchSubmitRequest(p),
           NEW q, ProfileMatchSubmitRequest(q), Improves(q, p)
    PROVE  /\ WeightedScore(rule, p) \in Int /\ WeightedScore(rule, q) \in Int
           /\ WeightedScore(rule, p) <= WeightedScore(rule, q)
<1> DEFINE language(x) == LanguageScore(rule, CefrScores[x.english_level],
                                        CefrScores[x.french_level],
                                        x.willing_to_learn_language)
           funds(x) == FundsScore(rule, x.savings_brl + 8 * x.monthly_income_brl)
           region(x) == IF x.preferred_region \in {"indiferente", rule.region}
                        THEN 100 ELSE 40
           job_offer(x) == IF x.has_job_offer THEN 100 ELSE 20
           family(x) == IF x.has_family_abroad THEN 100 ELSE 35
           age(x) == AgeScore(x.age)
           education(x) == EducationScores[x.education_level]
           experience(x) == Clamp(10 * x.experience_years, 0, 100)
           profession(x) == ProfessionScore(rule, x.profession_area)
           citizenship(x) == CitizenshipScore(x.wants_fast_citizenship,
                                              rule.citizenship_speed)
           offer_weighed(x) == 3 * job_offer(x) * rule.job_offer_factor
           family_weighed(x) == 2 * family(x) * rule.family_factor
<1>1. /\ language(p) \in Int /\ language(q) \in Int
      /\ language(p) <= language(q)
  <2>1. /\ CefrScores[p.english_level] \in Nat /\ CefrScores[p.french_level] \in Nat
        /\ CefrScores[q.english_level] \in Nat /\ CefrScores[q.french_level] \in Nat
    BY LevelsScored DEF ProfileMatchSubmitRequest
  <2> DEFINE en == CefrScores[p.english_level]
             fr == CefrScores[p.french_level]
             en2 == CefrScores[q.english_level]
             fr2 == CefrScores[q.french_level]
             willing == p.willing_to_learn_language
             willing2 == q.willing_to_learn_language
  <2>2. /\ language(p) = LanguageScore(rule, en, fr, willing)
        /\ language(q) = LanguageScore(rule, en2, fr2, willing2)
    OBVIOUS
  <2>3. /\ en \in Nat /\ fr \in Nat /\ en2 \in Nat /\ fr2 \in Nat
        /\ en <= en2 /\ fr <= fr2
    BY <2>1, ImprovedValues
  <2>4. willing => willing2
    BY ImprovedFlags
  <2> HIDE DEF en, fr, en2, fr2, willing, willing2, language
  <2>5. /\ LanguageScore(rule, en, fr, willing) \in Int
        /\ LanguageScore(rule, en2, fr2, willing2) \in Int
        /\ LanguageScore(rule, en, fr, willing)
             <= LanguageScore(rule, en2, fr2, willing2)
    BY <2>3, <2>4, LanguageGrows, Zenon
  <2> QED
    BY <2>2, <2>5
<1>2. funds(p) \in Int /\ funds(q) \in Int /\ funds(p) <= funds(q)
  <2>1. /\ p.savings_brl + 8 * p.monthly_income_brl \in Nat
        /\ q.savings_brl + 8 * q.monthly_income_brl \in Nat
        /\ p.savings_brl + 8 * p.monthly_income_brl
             <= q.savings_brl + 8 * q.monthly_income_brl
    <3>1. /\ p.savings_brl \in Nat /\ p.monthly_income_brl \in Nat
          /\ q.savings_brl \in Nat /\ q.monthly_income_brl \in Nat
      BY SMT DEF ProfileMatchSubmitRequest
    <3>2. /\ p.savings_brl <= q.savings_brl
          /\ p.monthly_income_brl <= q.monthly_income_brl
      BY SMT, ImprovedValues
    <3> QED
      BY SMT, <3>1, <3>2
  <2> DEFINE m == p.savings_brl + 8 * p.monthly_income_brl
             n == q.savings_brl + 8 * q.monthly_income_brl
  <2>2. m \in Nat /\ n \in Nat /\ m <= n
    BY <2>1
  <2>3. funds(p) = FundsScore(rule, m) /\ funds(q) = FundsScore(rule, n)
    OBVIOUS
  <2> HIDE DEF m, n, funds
  <2> QED
    BY <2>2, <2>3, FundsGrow
<1>3. /\ region(q) = region(p) /\ region(p) \in Int
      /\ citizenship(q) = citizenship(p) /\ citizenship(p) \in Int
      /\ profession(q) = profession(p) /\ profession(p) \in Int
  BY ImprovedFields DEF CitizenshipScore, ProfessionScore
<1>4. age(q) = age(p) /\ age(p) \in Int
  <2>1. q.age = p.age /\ p.age \in 18 .. 70
    BY ImprovedFields DEF ProfileMatchSubmitRequest
  <2> QED
    BY <2>1 DEF AgeScore
<1>5. /\ education(p) \in Int /\ education(q) \in Int
      /\ education(p) <= education(q)
  <2>1. /\ EducationScores[p.education_level] \in Int
        /\ EducationScores[q.education_level] \in Int
    BY SMT, LevelsScored DEF ProfileMatchSubmitRequest
  <2>2. EducationScores[p.education_level] <= EducationScores[q.education_level]
    BY SMT, ImprovedValues
  <2> QED
    BY <2>1, <2>2
<1>6. /\ experience(p) \in Int /\ experience(q) \in Int
      /\ experience(p) <= experience(q)
  <2>1. /\ p.experience_years \in 0 .. 45 /\ q.experience_years \in 0 .. 45
        /\ p.experience_years <= q.experience_years
    BY ImprovedValues DEF ProfileMatchSubmitRequest
  <2> QED
    BY <2>1 DEF Clamp
<1>7. /\ offer_weighed(p) \in Int /\ offer_weighed(q) \in Int
      /\ offer_weighed(p) <= offer_weighed(q)
  <2>1. p.has_job_offer => q.has_job_offer
    BY ImprovedFlags
  <2>2. /\ offer_weighed(p) = IF p.has_job_offer THEN 300 * rule.job_offer_factor
                                                 ELSE 60 * rule.job_offer_factor
        /\ offer_weighed(q) = IF q.has_job_offer THEN 300 * rule.job_offer_factor
                                                 ELSE 60 * rule.job_offer_factor
    BY CountriesTyped
  <2> HIDE DEF offer_weighed
  <2> QED
    BY <2>1, <2>2, CountriesTyped
<1>8. /\ family_weighed(p) \in Int /\ family_weighed(q) \in Int
      /\ family_weighed(p) <= family_weighed(q)
  <2>1. p.has_family_abroad => q.has_family_abroad
    BY ImprovedFlags
  <2>2. /\ family_weighed(p) = IF p.has_family_abroad THEN 200 * rule.family_factor
                                                      ELSE 70 * rule.family_factor
        /\ family_weighed(q) = IF q.has_family_abroad THEN 200 * rule.family_factor
                                                      ELSE 70 * rule.family_factor
    BY CountriesTyped
  <2> HIDE DEF family_weighed
  <2> QED
    BY <2>1, <2>2, CountriesTyped
<1> DEFINE score(x) ==
             100 * (11 * age(x) + 11 * education(x) + 15 * experience(x)
                      + 12 * profession(x) + 6 * region(x) + 6 * citizenship(x))
               + 19 * language(x) + 15 * funds(x)
               + offer_weighed(x) + family_weighed(x) + 10000 * rule.base_boost
<1>9. WeightedScore(rule, p) = score(p) /\ WeightedScore(rule, q) = score(q)
  BY DEF WeightedScore
<1>10. rule.base_boost \in Int
  BY CountriesTyped
<1> HIDE DEF language, funds, region, job_offer, family, age, education,
             experience, profession, citizenship, offer_weighed, family_weighed
<1>11. score(p) \in Int /\ score(q) \in Int /\ score(p) <= score(q)
  BY <1>1, <1>2, <1>3, <1>4, <1>5, <1>6, <1>7, <1>8, <1>10
<1> HIDE DEF score
<1> QED
  BY <1>9, <1>11

(***************************************************************************)
(* The match_score of each country, rounded from its weighted_score.       *)
(***************************************************************************)
LEMMA RankGrows ==
    ASSUME NEW p, ProfileMatchSubmitRequest(p), NEW q, ProfileMatchSubmitRequest(q),
           Improves(q, p)
    PROVE  \A code \in DOMAIN RankProfile(q) : RankProfile(q)[code] >= RankProfile(p)[code]
<1> DEFINE codes == {rule.code : rule \in CountryRules}
           ruleOf(code) == CHOOSE r \in CountryRules : r.code = code
           scoreOf(code, x) == Clamp(WeightedScore(ruleOf(code), x), 0, 995000)
           ranked(x) == [code \in codes |-> (scoreOf(code, x) + 50) \div 100]
<1>1. RankProfile(p) = ranked(p) /\ RankProfile(q) = ranked(q)
  BY DEF RankProfile
<1> SUFFICES ASSUME NEW code \in codes
             PROVE  ranked(q)[code] >= ranked(p)[code]
  <2> HIDE DEF codes, scoreOf
  <2> QED
    BY <1>1
<1>2. ruleOf(code) \in CountryRules
  OBVIOUS
<1> HIDE DEF ruleOf
<1>3. /\ ranked(p)[code] = (scoreOf(code, p) + 50) \div 100
      /\ ranked(q)[code] = (scoreOf(code, q) + 50) \div 100
  OBVIOUS
<1>4. /\ scoreOf(code, p) \in Int /\ scoreOf(code, q) \in Int
      /\ scoreOf(code, p) <= scoreOf(code, q)
  <2> DEFINE m == WeightedScore(ruleOf(code), p)
             n == WeightedScore(ruleOf(code), q)
  <2>1. m \in Int /\ n \in Int /\ m <= n
    BY <1>2, ScoreGrows
  <2> HIDE DEF m, n
  <2>2. Clamp(m, 0, 995000) \in Int /\ Clamp(n, 0, 995000) \in Int
        /\ Clamp(m, 0, 995000) <= Clamp(n, 0, 995000)
    BY <2>1 DEF Clamp
  <2> QED
    BY <2>2 DEF m, n
<1> HIDE DEF scoreOf, ranked
<1> QED
  BY <1>3, <1>4

(***************************************************************************)
(* The submission that is kept, and the second one, carry the ranking of   *)
(* their profiles, through whatever claims have been made since.           *)
(***************************************************************************)
Ranked ==
    submission # Absent =>
        /\ {"profile", "result"} \subseteq DOMAIN submission
        /\ submission.profile \in Profiles
        /\ submission.result = RankProfile(submission.profile)

AgainRanked ==
    again # << >> =>
        /\ submission # Absent
        /\ \E q \in Profiles : again = <<q, RankProfile(q)>>

MatchInv == ClaimsFoundNobody /\ Ranked /\ AgainRanked /\ NothingClaimedYet

LEMMA MatchInvInitial == MatchInit => MatchInv
BY ClaimsInitial DEF MatchInit, MatchInv, Ranked, AgainRanked, NothingClaimedYet, InProgress

LEMMA MatchInvInductive == MatchInv /\ [MatchNext]_matchVars => MatchInv'
<1> SUFFICES ASSUME MatchInv, [MatchNext]_matchVars
             PROVE  MatchInv'
  OBVIOUS
<1> USE DEF MatchInv, Ranked, AgainRanked, NothingClaimedYet, InProgress
<1>1. ClaimsFoundNobody'
  BY ClaimsInductive
<1>2. ASSUME NEW p \in Profiles, NEW owner, NEW session,
             SubmitProfile(p, owner, session)
      PROVE  (Ranked /\ AgainRanked /\ NothingClaimedYet)'
  <2>1. /\ "profile" \in DOMAIN submission' /\ "result" \in DOMAIN submission'
        /\ submission'.profile = p /\ submission'.result = RankProfile(p)
    BY <1>2 DEF SubmitProfile
  <2>2. again = << >> /\ again' = again /\ loaded' = loaded
        /\ \A u \in MatchUsers : loaded[u] = "unread"
    BY <1>2 DEF SubmitProfile
  <2> QED
    BY <2>1, <2>2
<1>3. ASSUME NEW p \in Profiles, SubmitAgain(p)
      PROVE  (Ranked /\ AgainRanked /\ NothingClaimedYet)'
  BY <1>3 DEF SubmitAgain
<1>4. ASSUME NEW u \in MatchUsers, NEW session, LoadClaim(u, session)
      PROVE  (Ranked /\ AgainRanked /\ NothingClaimedYet)'
  BY <1>4 DEF LoadClaim
<1>5. ASSUME NEW u \in MatchUsers, WriteClaim(u)
      PROVE  (Ranked /\ AgainRanked /\ NothingClaimedYet)'
  <2>1. submission # Absent
    BY <1>5 DEF WriteClaim
  <2>2. /\ DOMAIN submission' = DOMAIN submission
        /\ submission'.profile = submission.profile
        /\ submission'.result = submission.result
    BY <1>5, <2>1 DEF WriteClaim
  <2>3. "profile" \in DOMAIN submission' /\ submission' # Absent
    BY <2>1, <2>2 DEF Absent
  <2> QED
    BY <1>5, <2>1, <2>2, <2>3 DEF WriteClaim
<1>6. ASSUME NEW u \in MatchUsers, ReadResults(u)
      PROVE  (Ranked /\ AgainRanked /\ NothingClaimedYet)'
  BY <1>6 DEF ReadResults
<1>7. CASE UNCHANGED matchVars
  BY <1>1, <1>7 DEF matchVars
<1> QED
  BY <1>1, <1>2, <1>3, <1>4, <1>5, <1>6, <1>7 DEF MatchNext

(***************************************************************************)
(* rank_profile never gives an applicant a lower score for what is better, *)
(* whatever the two profiles the schema admits.                            *)
(***************************************************************************)
THEOREM ImprovementIsSafe == MatchSpec => []ImprovementNeverLowers
<1>1. MatchInv => ImprovementNeverLowers
  <2> SUFFICES ASSUME MatchInv, again # << >>, Improves(again[1], submission.profile)
               PROVE  \A code \in DOMAIN again[2] :
                         again[2][code] >= submission.result[code]
    BY DEF ImprovementNeverLowers
  <2> DEFINE p == submission.profile
  <2>1. p \in Profiles /\ submission.result = RankProfile(p)
    BY DEF MatchInv, Ranked, AgainRanked
  <2>2. PICK q \in Profiles : again = <<q, RankProfile(q)>>
    BY DEF MatchInv, AgainRanked
  <2>3. again[1] = q /\ again[2] = RankProfile(q)
    BY <2>2
  <2> HIDE DEF p
  <2>4. ProfileMatchSubmitRequest(p) /\ ProfileMatchSubmitRequest(q)
    BY <2>1, <2>2, ProfilesAssumption
  <2>5. Improves(q, p)
    BY <2>3 DEF p
  <2> QED
    BY <2>1, <2>3, <2>4, <2>5, RankGrows, Zenon
<1> QED
  BY <1>1, MatchInvInitial, MatchInvInductive, PTL DEF MatchSpec
=============================================================================

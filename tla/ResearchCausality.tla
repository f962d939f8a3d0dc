-------------------------- MODULE ResearchCausality --------------------------
(***************************************************************************)
(* The panel and the scores know nothing of the future: for every universe *)
(* of symbols, history, window and tuning, a row of the panel is the one   *)
(* built when its outcome had just been recorded, and the scores of a test *)
(* row are those computed from the rows up to it.  What is computed of a   *)
(* row is followed through the windows, ranks, strategies and the sparse   *)
(* signals; a fold with its test cut short keeps its other rows.           *)
(***************************************************************************)
EXTENDS ResearchProofs

-----------------------------------------------------------------------------
(* Causality: what is computed of a row depends on that row and the rows   *)
(* before it.                                                              *)

(* Two sequences of rows agree on the first n of them. *)
Shared(x, y, n) ==
  /\ n \in Int /\ 1..n \subseteq DOMAIN x /\ 1..n \subseteq DOMAIN y
  /\ \A r \in 1..n : x[r] = y[r]

LEMMA CellsShared ==
  ASSUME NEW x, NEW y, NEW n \in Int,
         1..n \subseteq DOMAIN x, 1..n \subseteq DOMAIN y,
         \A r \in 1..n : /\ x[r] = [s \in Symbols |-> x[r][s]]
                         /\ y[r] = [s \in Symbols |-> y[r][s]]
                         /\ \A s \in Symbols : x[r][s] = y[r][s]
  PROVE  Shared(x, y, n)
<1>1. ASSUME NEW r \in 1..n PROVE x[r] = y[r]
  <2>1. [s \in Symbols |-> x[r][s]] = [s \in Symbols |-> y[r][s]]
    OBVIOUS
  <2> QED
    BY <2>1
<1> QED
  BY <1>1 DEF Shared

LEMMA WindowShared ==
  ASSUME NEW x, NEW y, NEW n, Shared(x, y, n), NEW r \in 1..n, NEW w \in Int, r >= w, NEW s
  PROVE  /\ Window(x, s, r, w) = Window(y, s, r, w)
         /\ FullWindow(x, s, r, w) <=> FullWindow(y, s, r, w)
<1>1. \A k \in r - w + 1 .. r : k \in 1..n
  BY DEF Shared
<1>2. \A k \in r - w + 1 .. r : x[k][s] = y[k][s]
  BY <1>1 DEF Shared
<1> QED
  BY <1>2 DEF Window, FullWindow

LEMMA SumShared ==
  ASSUME NEW x, NEW y, NEW n, Shared(x, y, n), NEW w \in Int
  PROVE  Shared(TrailingSum(x, w), TrailingSum(y, w), n)
<1> DEFINE X == TrailingSum(x, w)
           Y == TrailingSum(y, w)
<1>1. DOMAIN X = DOMAIN x /\ DOMAIN Y = DOMAIN y
  BY DEF TrailingSum
<1>2. ASSUME NEW r \in 1..n
      PROVE  /\ X[r] = [s \in Symbols |-> X[r][s]] /\ Y[r] = [s \in Symbols |-> Y[r][s]]
             /\ \A s \in Symbols : X[r][s] = Y[r][s]
  <2>1. r \in DOMAIN x /\ r \in DOMAIN y /\ r \in Int /\ n \in Int
    BY DEF Shared
  <2>2. /\ X[r] = [s \in Symbols |-> IF FullWindow(x, s, r, w) THEN RowSum(Window(x, s, r, w)) ELSE NaN]
        /\ Y[r] = [s \in Symbols |-> IF FullWindow(y, s, r, w) THEN RowSum(Window(y, s, r, w)) ELSE NaN]
    BY <2>1 DEF TrailingSum
  <2> HIDE DEF X, Y
  <2>3. ASSUME NEW s \in Symbols PROVE X[r][s] = Y[r][s]
    <3>1. CASE r >= w
      <4>1. /\ Window(x, s, r, w) = Window(y, s, r, w)
            /\ FullWindow(x, s, r, w) <=> FullWindow(y, s, r, w)
        BY <3>1, WindowShared
      <4> QED
        BY <2>2, <4>1
    <3>2. CASE ~(r >= w)
      <4>1. ~FullWindow(x, s, r, w) /\ ~FullWindow(y, s, r, w)
        BY <3>2 DEF FullWindow
      <4> QED
        BY <2>2, <4>1
    <3> QED
      BY <3>1, <3>2
  <2>4. X[r] = [s \in Symbols |-> X[r][s]] /\ Y[r] = [s \in Symbols |-> Y[r][s]]
    BY <2>2
  <2> QED
    BY <2>3, <2>4
<1>3. n \in Int /\ 1..n \subseteq DOMAIN X /\ 1..n \subseteq DOMAIN Y
  BY <1>1 DEF Shared
<1> HIDE DEF X, Y
<1>4. Shared(X, Y, n)
  BY <1>2, <1>3, CellsShared
<1> QED
  BY <1>4 DEF X, Y

LEMMA RollingShared ==
  ASSUME NEW x, NEW y, NEW n, Shared(x, y, n), NEW w \in Int
  PROVE  Shared(RollingZScore(x, w), RollingZScore(y, w), n)
<1> DEFINE X == RollingZScore(x, w)
           Y == RollingZScore(y, w)
<1>1. DOMAIN X = DOMAIN x /\ DOMAIN Y = DOMAIN y
  BY DEF RollingZScore
<1>2. ASSUME NEW r \in 1..n
      PROVE  /\ X[r] = [s \in Symbols |-> X[r][s]] /\ Y[r] = [s \in Symbols |-> Y[r][s]]
             /\ \A s \in Symbols : X[r][s] = Y[r][s]
  <2>1. r \in DOMAIN x /\ r \in DOMAIN y /\ r \in Int /\ n \in Int
    BY DEF Shared
  <2>2. /\ X[r] = [s \in Symbols |-> IF FullWindow(x, s, r, w) THEN ZScoreOf(Window(x, s, r, w), r) ELSE NaN]
        /\ Y[r] = [s \in Symbols |-> IF FullWindow(y, s, r, w) THEN ZScoreOf(Window(y, s, r, w), r) ELSE NaN]
    BY <2>1 DEF RollingZScore
  <2> HIDE DEF X, Y
  <2>3. ASSUME NEW s \in Symbols PROVE X[r][s] = Y[r][s]
    <3>1. CASE r >= w
      <4>1. /\ Window(x, s, r, w) = Window(y, s, r, w)
            /\ FullWindow(x, s, r, w) <=> FullWindow(y, s, r, w)
        BY <3>1, WindowShared
      <4> QED
        BY <2>2, <4>1
    <3>2. CASE ~(r >= w)
      <4>1. ~FullWindow(x, s, r, w) /\ ~FullWindow(y, s, r, w)
        BY <3>2 DEF FullWindow
      <4> QED
        BY <2>2, <4>1
    <3> QED
      BY <3>1, <3>2
  <2>4. X[r] = [s \in Symbols |-> X[r][s]] /\ Y[r] = [s \in Symbols |-> Y[r][s]]
    BY <2>2
  <2> QED
    BY <2>3, <2>4
<1>3. n \in Int /\ 1..n \subseteq DOMAIN X /\ 1..n \subseteq DOMAIN Y
  BY <1>1 DEF Shared
<1> HIDE DEF X, Y
<1>4. Shared(X, Y, n)
  BY <1>2, <1>3, CellsShared
<1> QED
  BY <1>4 DEF X, Y

Squares(x) == [r \in DOMAIN x |-> [s \in Symbols |-> x[r][s] * x[r][s]]]

LEMMA VolatilityShared ==
  ASSUME NEW x, NEW y, NEW n, Shared(x, y, n), NEW w \in Int, NEW bound
  PROVE  Shared(RealizedVolatility(x, w, bound), RealizedVolatility(y, w, bound), n)
<1> DEFINE A == TrailingSum(Squares(x), w)
           B == TrailingSum(Squares(y), w)
           X == RealizedVolatility(x, w, bound)
           Y == RealizedVolatility(y, w, bound)
<1>1. Shared(Squares(x), Squares(y), n)
  BY DEF Shared, Squares
<1>2. Shared(A, B, n)
  BY <1>1, SumShared
<1>3. /\ X = [r \in DOMAIN x |-> [s \in Symbols |-> IF A[r][s] = NaN THEN NaN ELSE RootUpTo(A[r][s], bound)]]
      /\ Y = [r \in DOMAIN y |-> [s \in Symbols |-> IF B[r][s] = NaN THEN NaN ELSE RootUpTo(B[r][s], bound)]]
  BY DEF RealizedVolatility, Squares
<1> HIDE DEF A, B, X, Y
<1>4. \A r \in 1..n : r \in DOMAIN x /\ r \in DOMAIN y /\ A[r] = B[r]
  BY <1>2 DEF Shared
<1>5. \A r \in 1..n : X[r] = Y[r]
  BY <1>3, <1>4
<1>6. Shared(X, Y, n)
  BY <1>3, <1>5 DEF Shared
<1> QED
  BY <1>6 DEF X, Y

EfficiencyCell(level, horizon, r, s) ==
  IF r <= horizon THEN NaN
  ELSE LET path == RowSum([k \in r - horizon + 1 .. r |-> Abs(level[k][s] - level[k - 1][s])])
       IN  IF path = 0 THEN 0
           ELSE (Tenths * Abs(level[r][s] - level[r - horizon][s])) \div path

LEMMA EfficiencyShared ==
  ASSUME NEW x, NEW y, NEW n, Shared(x, y, n), NEW w \in Nat
  PROVE  Shared(Efficiency(x, w), Efficiency(y, w), n)
<1> DEFINE X == Efficiency(x, w)
           Y == Efficiency(y, w)
<1>1. /\ X = [r \in DOMAIN x |-> [s \in Symbols |-> EfficiencyCell(x, w, r, s)]]
      /\ Y = [r \in DOMAIN y |-> [s \in Symbols |-> EfficiencyCell(y, w, r, s)]]
  BY DEF Efficiency, EfficiencyCell
<1>2. ASSUME NEW r \in 1..n, NEW s \in Symbols PROVE EfficiencyCell(x, w, r, s) = EfficiencyCell(y, w, r, s)
  <2>1. CASE r <= w
    BY <2>1 DEF EfficiencyCell
  <2>2. CASE ~(r <= w)
    <3>1. n \in Int /\ \A k \in 1..n : x[k] = y[k]
      BY DEF Shared
    <3>2. /\ \A k \in r - w + 1 .. r : k \in 1..n /\ k - 1 \in 1..n
          /\ r - w \in 1..n
      BY <2>2, <3>1
    <3>3. \A k \in r - w + 1 .. r : Abs(x[k][s] - x[k - 1][s]) = Abs(y[k][s] - y[k - 1][s])
      BY <3>1, <3>2
    <3>4. [k \in r - w + 1 .. r |-> Abs(x[k][s] - x[k - 1][s])] = [k \in r - w + 1 .. r |-> Abs(y[k][s] - y[k - 1][s])]
      BY <3>3
    <3>5. x[r] = y[r] /\ x[r - w] = y[r - w]
      BY <3>1, <3>2
    <3> QED
      BY <2>2, <3>4, <3>5 DEF EfficiencyCell
  <2> QED
    BY <2>1, <2>2
<1> HIDE DEF X, Y
<1>3. \A r \in 1..n : r \in DOMAIN x /\ r \in DOMAIN y
  BY DEF Shared
<1>4. \A r \in 1..n : X[r] = Y[r]
  BY <1>1, <1>2, <1>3
<1>5. Shared(X, Y, n)
  BY <1>1, <1>4 DEF Shared
<1> QED
  BY <1>5 DEF X, Y

-----------------------------------------------------------------------------
(* The prior extremes. *)

(* What row r leaves in the deque it finds. *)
Pushed(x, w, sign, before, r) ==
  {k \in before : sign * x[r - 1] < sign * x[k] /\ k >= r - w} \cup {r - 1}

LEMMA DequeIs ==
  ASSUME NEW x, NEW w, NEW sign, Len(x) \in Nat
  PROVE  \A r \in 1..Len(x) :
           PriorDeque(x, w, sign)[r] =
             IF r = 1 THEN {} ELSE Pushed(x, w, sign, PriorDeque(x, w, sign)[r - 1], r)
<1> DEFINE After(c, r) == Pushed(x, w, sign, c, r)
           N == Len(x)
           body(g, n) == [r \in 1..n |-> IF r = 1 THEN {} ELSE After(g[r - 1], r)]
           column == CHOOSE g : g = body(g, N)
<1>1. PriorDeque(x, w, sign) = column
  BY DEF PriorDeque, Pushed
<1> HIDE DEF N, After
<1>2. \E g : g = body(g, N)
  <2> DEFINE P == {n \in Nat : \E g : g = body(g, n)}
  <2>1. 0 \in P
    <3>1. body(<<>>, 0) = <<>>
      OBVIOUS
    <3> QED
      BY <3>1
  <2>2. ASSUME NEW n \in Nat, n \in P PROVE n + 1 \in P
    <3>1. PICK g : g = body(g, n)
      BY <2>2
    <3> DEFINE h == [r \in 1..(n + 1) |-> IF r = 1 THEN {} ELSE After(g[r - 1], r)]
    <3>2. \A r \in 1..n : h[r] = g[r]
      <4>1. \A r \in 1..n : g[r] = IF r = 1 THEN {} ELSE After(g[r - 1], r)
        BY <3>1
      <4> QED
        BY <4>1
    <3>3. \A r \in 1..(n + 1) : r # 1 => r - 1 \in 1..n
      OBVIOUS
    <3>4. \A r \in 1..(n + 1) : h[r] = IF r = 1 THEN {} ELSE After(h[r - 1], r)
      BY <3>2, <3>3
    <3>5. h = body(h, n + 1)
      BY <3>4
    <3> HIDE DEF h, body
    <3>6. \E k : k = body(k, n + 1)
      BY <3>5
    <3> QED
      BY <3>6
  <2> HIDE DEF P
  <2>3. N \in P
    BY <2>1, <2>2, NumberInduction DEF N
  <2> QED
    BY <2>3 DEF P
<1>3. column = body(column, N)
  BY <1>2
<1> HIDE DEF column
<1>4. \A r \in 1..N : column[r] = IF r = 1 THEN {} ELSE After(column[r - 1], r)
  BY <1>3
<1> QED
  BY <1>1, <1>4 DEF N, After

(* Two series that agree on n rows have the same deques there, of earlier rows. *)
Series(x) == Len(x) \in Nat /\ DOMAIN x = 1..Len(x)

LEMMA PushedShared ==
  ASSUME NEW x, NEW y, NEW n, Shared(x, y, n), NEW w, NEW sign, NEW before,
         NEW r \in Int, r > 1, r <= n, before \in SUBSET (1..(r - 2))
  PROVE  /\ Pushed(x, w, sign, before, r) = Pushed(y, w, sign, before, r)
         /\ Pushed(x, w, sign, before, r) \in SUBSET (1..(r - 1))
         /\ r - 1 \in Pushed(x, w, sign, before, r)
<1>1. n \in Int /\ r - 1 \in 1..n /\ r - 1 \in 1..(r - 1) /\ \A k \in 1..(r - 2) : k \in 1..n /\ k \in 1..(r - 1)
  BY DEF Shared
<1>2. x[r - 1] = y[r - 1] /\ \A k \in before : x[k] = y[k]
  BY <1>1 DEF Shared
<1>3. {k \in before : sign * x[r - 1] < sign * x[k] /\ k >= r - w}
        = {k \in before : sign * y[r - 1] < sign * y[k] /\ k >= r - w}
  BY <1>2
<1> QED
  BY <1>1, <1>3 DEF Pushed

LEMMA DequeShared ==
  ASSUME NEW x, NEW y, NEW n, Shared(x, y, n), Series(x), Series(y), NEW w, NEW sign
  PROVE  \A r \in 1..n :
           /\ PriorDeque(x, w, sign)[r] = PriorDeque(y, w, sign)[r]
           /\ PriorDeque(x, w, sign)[r] \in SUBSET (1..(r - 1))
           /\ r > 1 => r - 1 \in PriorDeque(x, w, sign)[r]
<1> DEFINE A == PriorDeque(x, w, sign)
           B == PriorDeque(y, w, sign)
           Good(r) == /\ A[r] = B[r] /\ A[r] \in SUBSET (1..(r - 1))
                      /\ r > 1 => r - 1 \in A[r]
           P == {r \in Nat : r + 1 \in 1..n => Good(r + 1)}
<1>1. \A r \in 1..n : /\ A[r] = IF r = 1 THEN {} ELSE Pushed(x, w, sign, A[r - 1], r)
                      /\ B[r] = IF r = 1 THEN {} ELSE Pushed(y, w, sign, B[r - 1], r)
  <2>1. \A r \in 1..n : r \in 1..Len(x) /\ r \in 1..Len(y)
    BY DEF Shared, Series
  <2>2. Len(x) \in Nat /\ Len(y) \in Nat
    BY DEF Series
  <2> QED
    BY <2>1, <2>2, DequeIs
<1> HIDE DEF A, B
<1>2. 0 \in P
  <2>1. 1 \in 1..n => A[1] = {} /\ B[1] = {}
    BY <1>1
  <2> QED
    BY <2>1
<1>3. ASSUME NEW k \in Nat, k \in P PROVE k + 1 \in P
  <2> DEFINE r == k + 1 + 1
  <2> SUFFICES ASSUME r \in 1..n PROVE Good(r)
    BY <1>3
  <2>1. k + 1 \in 1..n /\ r - 1 = k + 1 /\ r \in Int /\ r > 1 /\ r <= n /\ k + 1 - 1 = r - 2 /\ r # 1
    BY DEF Shared
  <2>2. Good(k + 1)
    BY <1>3, <2>1
  <2>3. A[r - 1] = B[r - 1] /\ A[r - 1] \in SUBSET (1..(r - 2))
    BY <2>1, <2>2
  <2> HIDE DEF r
  <2>4. /\ Pushed(x, w, sign, A[r - 1], r) = Pushed(y, w, sign, A[r - 1], r)
        /\ Pushed(x, w, sign, A[r - 1], r) \in SUBSET (1..(r - 1))
        /\ r - 1 \in Pushed(x, w, sign, A[r - 1], r)
    BY <2>1, <2>3, PushedShared
  <2>5. A[r] = Pushed(x, w, sign, A[r - 1], r) /\ B[r] = Pushed(y, w, sign, B[r - 1], r)
    BY <1>1, <2>1
  <2> QED
    BY <2>3, <2>4, <2>5
<1> HIDE DEF P
<1>4. \A k \in Nat : k \in P
  BY <1>2, <1>3, NumberInduction
<1>5. ASSUME NEW r \in 1..n PROVE Good(r)
  <2>1. r - 1 \in Nat /\ r - 1 + 1 = r
    OBVIOUS
  <2>2. r - 1 \in P
    BY <1>4, <2>1
  <2> QED
    BY <2>1, <2>2 DEF P
<1> QED
  BY <1>5 DEF A, B

LEMMA PriorShared ==
  ASSUME NEW x, NEW y, NEW n, Shared(x, y, n), Series(x), Series(y), NEW w \in Nat \ {0}, NEW r \in 1..n
  PROVE  /\ PriorHigh(x, w)[r] = PriorHigh(y, w)[r]
         /\ PriorLow(x, w)[r] = PriorLow(y, w)[r]
<1>1. r \in DOMAIN x /\ r \in DOMAIN y /\ r \in Int /\ n \in Int
  BY DEF Shared
<1>2. /\ PriorHigh(x, w)[r] = IF r > w THEN x[Min(PriorDeque(x, w, 1)[r])] ELSE NaN
      /\ PriorHigh(y, w)[r] = IF r > w THEN y[Min(PriorDeque(y, w, 1)[r])] ELSE NaN
      /\ PriorLow(x, w)[r] = IF r > w THEN x[Min(PriorDeque(x, w, -1)[r])] ELSE NaN
      /\ PriorLow(y, w)[r] = IF r > w THEN y[Min(PriorDeque(y, w, -1)[r])] ELSE NaN
  BY <1>1 DEF PriorHigh, PriorLow
<1>3. ASSUME NEW sign, r > w
      PROVE  x[Min(PriorDeque(x, w, sign)[r])] = y[Min(PriorDeque(y, w, sign)[r])]
  <2> DEFINE D == PriorDeque(x, w, sign)[r]
  <2>1. /\ D = PriorDeque(y, w, sign)[r] /\ D \in SUBSET (1..(r - 1))
        /\ r > 1 => r - 1 \in D
    BY DequeShared
  <2>2. r > 1
    BY <1>1, <1>3
  <2> HIDE DEF D
  <2>3. D \in SUBSET Int /\ D # {}
    BY <2>1, <2>2
  <2>4. IsFiniteSet(D)
    <3>1. 1 \in Int /\ r - 1 \in Int
      BY <1>1
    <3>2. IsFiniteSet(1..(r - 1))
      BY <3>1, IntervalFinite
    <3> QED
      BY <2>1, <3>2, FS_Subset
  <2>5. Min(D) \in D
    BY <2>3, <2>4, MinIs
  <2>6. Min(D) \in 1..n
    BY <1>1, <2>1, <2>5
  <2>7. x[Min(D)] = y[Min(D)]
    BY <2>6 DEF Shared
  <2> QED
    BY <2>1, <2>7 DEF D
<1> QED
  BY <1>2, <1>3

-----------------------------------------------------------------------------
(* Features of hourly matrices. *)

LEMMA BenchmarkShared ==
  ASSUME NEW x, NEW y, NEW n, Shared(x, y, n)
  PROVE  Shared(Benchmark(x), Benchmark(y), n)
<1>1. \A r \in 1..n : r \in DOMAIN x /\ r \in DOMAIN y /\ x[r] = y[r]
  BY DEF Shared
<1>2. \A r \in 1..n : Benchmark(x)[r] = Benchmark(y)[r]
  BY <1>1 DEF Benchmark
<1>3. DOMAIN Benchmark(x) = DOMAIN x /\ DOMAIN Benchmark(y) = DOMAIN y
  BY DEF Benchmark
<1> QED
  BY <1>2, <1>3 DEF Shared

BetaCell(bench, returns, d, s) ==
  IF d < BetaHours THEN NaN
  ELSE LET x == Window(bench, s, d, BetaHours)
       IN  IF Spread(x) = 0 THEN NaN
           ELSE Quot(2 * Tenths * Covariation(x, Window(returns, s, d, BetaHours)), Spread(x))

LEMMA BetaShared ==
  ASSUME NEW x, NEW y, NEW n, Shared(x, y, n)
  PROVE  Shared(RollingBeta(x), RollingBeta(y), n)
<1> DEFINE X == RollingBeta(x)
           Y == RollingBeta(y)
           A == Benchmark(x)
           B == Benchmark(y)
<1>1. /\ X = [d \in DOMAIN x |-> [s \in Symbols |-> BetaCell(A, x, d, s)]]
      /\ Y = [d \in DOMAIN y |-> [s \in Symbols |-> BetaCell(B, y, d, s)]]
  BY DEF RollingBeta, BetaCell
<1>2. Shared(A, B, n)
  BY BenchmarkShared
<1> HIDE DEF A, B, X, Y
<1>3. ASSUME NEW d \in 1..n, NEW s \in Symbols PROVE BetaCell(A, x, d, s) = BetaCell(B, y, d, s)
  <2>1. CASE d < BetaHours
    BY <2>1 DEF BetaCell
  <2>2. CASE ~(d < BetaHours)
    <3>1. BetaHours \in Int /\ d \in Int
      BY WindowsAssumption DEF Shared
    <3>2. d >= BetaHours
      BY <2>2, <3>1
    <3>3. Window(A, s, d, BetaHours) = Window(B, s, d, BetaHours)
      BY <1>2, <3>1, <3>2, WindowShared
    <3>4. Window(x, s, d, BetaHours) = Window(y, s, d, BetaHours)
      BY <3>1, <3>2, WindowShared
    <3> QED
      BY <2>2, <3>3, <3>4 DEF BetaCell
  <2> QED
    BY <2>1, <2>2
<1>4. \A r \in 1..n : r \in DOMAIN x /\ r \in DOMAIN y
  BY DEF Shared
<1>5. \A r \in 1..n : X[r] = Y[r]
  BY <1>1, <1>3, <1>4
<1>6. Shared(X, Y, n)
  BY <1>1, <1>5 DEF Shared
<1> QED
  BY <1>6 DEF X, Y

LEMMA ResidualShared ==
  ASSUME NEW x, NEW y, NEW n, Shared(x, y, n), NEW a, NEW b, Shared(a, b, n)
  PROVE  Shared(ResidualReturn(x, a), ResidualReturn(y, b), n)
<1> DEFINE X == ResidualReturn(x, a)
           Y == ResidualReturn(y, b)
           A == Benchmark(x)
           B == Benchmark(y)
<1>1. /\ X = [d \in DOMAIN x |-> [s \in Symbols |->
                IF a[d][s] = NaN THEN NaN ELSE 2 * Tenths * x[d][s] - a[d][s] * A[d][s]]]
      /\ Y = [d \in DOMAIN y |-> [s \in Symbols |->
                IF b[d][s] = NaN THEN NaN ELSE 2 * Tenths * y[d][s] - b[d][s] * B[d][s]]]
  BY DEF ResidualReturn
<1>2. Shared(A, B, n)
  BY BenchmarkShared
<1> HIDE DEF A, B, X, Y
<1>3. \A r \in 1..n : r \in DOMAIN x /\ r \in DOMAIN y /\ x[r] = y[r] /\ a[r] = b[r] /\ A[r] = B[r]
  BY <1>2 DEF Shared
<1>4. \A r \in 1..n : X[r] = Y[r]
  BY <1>1, <1>3
<1>5. Shared(X, Y, n)
  BY <1>1, <1>4 DEF Shared
<1> QED
  BY <1>5 DEF X, Y

MarketMove(x, d) == [k \in d - DayHours + 1 .. d |-> x[k][BTC] + x[k][ETH]]

LEMMA RegimeShared ==
  ASSUME NEW x, NEW y, NEW n, Shared(x, y, n)
  PROVE  Shared(MarketRegime(x), MarketRegime(y), n)
<1> DEFINE X == MarketRegime(x)
           Y == MarketRegime(y)
<1>1. /\ X = [d \in DOMAIN x |-> [s \in Symbols |-> IF d < DayHours THEN NaN ELSE Spread(MarketMove(x, d))]]
      /\ Y = [d \in DOMAIN y |-> [s \in Symbols |-> IF d < DayHours THEN NaN ELSE Spread(MarketMove(y, d))]]
  BY DEF MarketRegime, MarketMove
<1> HIDE DEF X, Y
<1>2. ASSUME NEW d \in 1..n, ~(d < DayHours) PROVE MarketMove(x, d) = MarketMove(y, d)
  <2>1. DayHours \in Int /\ n \in Int
    BY WindowsAssumption DEF Shared
  <2>2. \A k \in d - DayHours + 1 .. d : k \in 1..n
    BY <1>2, <2>1
  <2>3. \A k \in d - DayHours + 1 .. d : x[k] = y[k]
    BY <2>2 DEF Shared
  <2> QED
    BY <2>3 DEF MarketMove
<1>3. \A r \in 1..n : r \in DOMAIN x /\ r \in DOMAIN y
  BY DEF Shared
<1>4. \A r \in 1..n : X[r] = Y[r]
  BY <1>1, <1>2, <1>3
<1>5. Shared(X, Y, n)
  BY <1>1, <1>4 DEF Shared
<1> QED
  BY <1>5 DEF X, Y

LEMMA AgreementShared ==
  ASSUME NEW x, NEW y, NEW n, Shared(x, y, n), NEW a, NEW b, Shared(a, b, n), NEW v, NEW w, Shared(v, w, n)
  PROVE  Shared(FlowPriceAgreement(a, x, v), FlowPriceAgreement(b, y, w), n)
<1>1. \A r \in 1..n : r \in DOMAIN x /\ r \in DOMAIN y /\ x[r] = y[r] /\ a[r] = b[r] /\ v[r] = w[r]
  BY DEF Shared
<1>2. \A r \in 1..n : FlowPriceAgreement(a, x, v)[r] = FlowPriceAgreement(b, y, w)[r]
  BY <1>1 DEF FlowPriceAgreement
<1>3. DOMAIN FlowPriceAgreement(a, x, v) = DOMAIN x /\ DOMAIN FlowPriceAgreement(b, y, w) = DOMAIN y
  BY DEF FlowPriceAgreement
<1> QED
  BY <1>2, <1>3 DEF Shared

LEMMA CompressionShared ==
  ASSUME NEW x, NEW y, NEW n, Shared(x, y, n)
  PROVE  Shared(Compression(x), Compression(y), n)
<1> DEFINE X == Compression(x)
           Y == Compression(y)
           A == RealizedVolatility(x, ShortHours, 40)
           B == RealizedVolatility(y, ShortHours, 40)
           C == RealizedVolatility(x, WeekHours, 40)
           D == RealizedVolatility(y, WeekHours, 40)
<1>1. /\ X = [d \in DOMAIN x |-> [s \in Symbols |->
                IF C[d][s] = NaN THEN NaN ELSE (Tenths * A[d][s]) \div Max({C[d][s], 1})]]
      /\ Y = [d \in DOMAIN y |-> [s \in Symbols |->
                IF D[d][s] = NaN THEN NaN ELSE (Tenths * B[d][s]) \div Max({D[d][s], 1})]]
  BY DEF Compression
<1>2. ShortHours \in Int /\ WeekHours \in Int
  BY WindowsAssumption
<1>3. Shared(A, B, n) /\ Shared(C, D, n)
  BY <1>2, VolatilityShared
<1> HIDE DEF A, B, C, D, X, Y
<1>4. \A r \in 1..n : r \in DOMAIN x /\ r \in DOMAIN y /\ A[r] = B[r] /\ C[r] = D[r]
  BY <1>3 DEF Shared
<1>5. \A r \in 1..n : X[r] = Y[r]
  BY <1>1, <1>4
<1>6. Shared(X, Y, n)
  BY <1>1, <1>5 DEF Shared
<1> QED
  BY <1>6 DEF X, Y

-----------------------------------------------------------------------------
(* Features of the recorded hours. *)

(* past is what had been recorded of whole at a time after a decision. *)
Begins(past, whole) ==
  /\ past \in Seq(Hour) /\ whole \in Seq(Hour)
  /\ Len(past) <= Len(whole) /\ FirstDecision <= Len(past)
  /\ \A h \in 1..Len(past) : past[h] = whole[h]
Decisions(past) == Len(past) - FirstDecision + 1

LEMMA DecisionsAre ==
  ASSUME NEW past, NEW whole, Begins(past, whole)
  PROVE  /\ Decisions(past) \in Nat /\ Decisions(whole) \in Nat /\ Decisions(past) <= Decisions(whole)
         /\ 1..Decisions(past) \subseteq 1..Decisions(whole)
         /\ DayHours \in Nat \ {0} /\ ShortHours \in Nat \ {0} /\ ShortHours <= DayHours
         /\ FirstDecision = DayHours + 1
         /\ \A d \in 1..Decisions(past) :
              /\ past[FirstDecision + d - 1] = whole[FirstDecision + d - 1]
              /\ past[FirstDecision + d - 2] = whole[FirstDecision + d - 2]
              /\ \A k \in 1..(FirstDecision + d - 1) : past[k] = whole[k]
              /\ \A k \in FirstDecision + d - ShortHours .. FirstDecision + d - 1 : past[k] = whole[k]
<1>1. Len(past) \in Nat /\ Len(whole) \in Nat /\ Len(past) <= Len(whole) /\ FirstDecision <= Len(past)
  BY DEF Begins
<1>2. DayHours \in Nat \ {0} /\ ShortHours \in Nat \ {0} /\ ShortHours <= DayHours /\ FirstDecision = DayHours + 1
  BY WindowsAssumption DEF FirstDecision
<1> HIDE DEF FirstDecision
<1>3. /\ Decisions(past) \in Nat /\ Decisions(whole) \in Nat /\ Decisions(past) <= Decisions(whole)
      /\ 1..Decisions(past) \subseteq 1..Decisions(whole)
  BY <1>1, <1>2 DEF Decisions
<1>4. ASSUME NEW d \in 1..Decisions(past)
      PROVE  /\ FirstDecision + d - 1 \in 1..Len(past) /\ FirstDecision + d - 2 \in 1..Len(past)
             /\ \A k \in 1..(FirstDecision + d - 1) : k \in 1..Len(past)
             /\ \A k \in FirstDecision + d - ShortHours .. FirstDecision + d - 1 : k \in 1..Len(past)
  BY <1>1, <1>2 DEF Decisions
<1> QED
  BY <1>2, <1>3, <1>4 DEF Begins

LEMMA LevelShared ==
  ASSUME NEW past, NEW whole, Begins(past, whole)
  PROVE  Shared(Level(past, FirstDecision), Level(whole, FirstDecision), Decisions(past))
<1> HIDE DEF FirstDecision
<1> DEFINE X == Level(past, FirstDecision)
           Y == Level(whole, FirstDecision)
<1>1. /\ X = [d \in 1..Decisions(past) |-> past[FirstDecision + d - 1].close]
      /\ Y = [d \in 1..Decisions(whole) |-> whole[FirstDecision + d - 1].close]
  BY DEF Level, Decisions
<1> HIDE DEF X, Y
<1>2. Shared(X, Y, Decisions(past))
  BY <1>1, DecisionsAre DEF Shared
<1> QED
  BY <1>2 DEF X, Y

LEMMA VolumeShared ==
  ASSUME NEW past, NEW whole, Begins(past, whole)
  PROVE  Shared(Volume(past, FirstDecision), Volume(whole, FirstDecision), Decisions(past))
<1> HIDE DEF FirstDecision
<1> DEFINE X == Volume(past, FirstDecision)
           Y == Volume(whole, FirstDecision)
<1>1. /\ X = [d \in 1..Decisions(past) |-> past[FirstDecision + d - 1].volume]
      /\ Y = [d \in 1..Decisions(whole) |-> whole[FirstDecision + d - 1].volume]
  BY DEF Volume, Decisions
<1> HIDE DEF X, Y
<1>2. Shared(X, Y, Decisions(past))
  BY <1>1, DecisionsAre DEF Shared
<1> QED
  BY <1>2 DEF X, Y

LEMMA ReturnShared ==
  ASSUME NEW past, NEW whole, Begins(past, whole)
  PROVE  Shared(HourReturn(past, FirstDecision), HourReturn(whole, FirstDecision), Decisions(past))
<1> HIDE DEF FirstDecision
<1> DEFINE X == HourReturn(past, FirstDecision)
           Y == HourReturn(whole, FirstDecision)
           N == Decisions(past)
           M == Decisions(whole)
<1>1. /\ X = [d \in 1..N |-> [s \in Symbols |-> past[FirstDecision + d - 1].close[s] - past[FirstDecision + d - 2].close[s]]]
      /\ Y = [d \in 1..M |-> [s \in Symbols |-> whole[FirstDecision + d - 1].close[s] - whole[FirstDecision + d - 2].close[s]]]
  BY DEF HourReturn, Decisions
<1>2. /\ N \in Nat /\ 1..N \subseteq 1..M
      /\ \A d \in 1..N : /\ past[FirstDecision + d - 1] = whole[FirstDecision + d - 1]
                         /\ past[FirstDecision + d - 2] = whole[FirstDecision + d - 2]
  BY DecisionsAre
<1> HIDE DEF X, Y, N, M
<1>3. \A d \in 1..N : X[d] = Y[d]
  BY <1>1, <1>2
<1>4. Shared(X, Y, N)
  <2>1. DOMAIN X = 1..N /\ DOMAIN Y = 1..M
    BY <1>1
  <2> QED
    BY <1>2, <1>3, <2>1 DEF Shared
<1> QED
  BY <1>4 DEF X, Y, N

LEMMA TakerShared ==
  ASSUME NEW past, NEW whole, Begins(past, whole)
  PROVE  Shared(TakerShare(past, FirstDecision), TakerShare(whole, FirstDecision), Decisions(past))
<1> HIDE DEF FirstDecision
<1> DEFINE X == TakerShare(past, FirstDecision)
           Y == TakerShare(whole, FirstDecision)
           N == Decisions(past)
           M == Decisions(whole)
<1>1. /\ X = [d \in 1..N |-> [s \in Symbols |->
                FlowShare(past[FirstDecision + d - 1].taker[s], past[FirstDecision + d - 1].volume[s])]]
      /\ Y = [d \in 1..M |-> [s \in Symbols |->
                FlowShare(whole[FirstDecision + d - 1].taker[s], whole[FirstDecision + d - 1].volume[s])]]
  BY DEF TakerShare, Decisions
<1>2. /\ N \in Nat /\ 1..N \subseteq 1..M
      /\ \A d \in 1..N : past[FirstDecision + d - 1] = whole[FirstDecision + d - 1]
  BY DecisionsAre
<1> HIDE DEF X, Y, N, M
<1>3. \A d \in 1..N : X[d] = Y[d]
  BY <1>1, <1>2
<1>4. Shared(X, Y, N)
  <2>1. DOMAIN X = 1..N /\ DOMAIN Y = 1..M
    BY <1>1
  <2> QED
    BY <1>2, <1>3, <2>1 DEF Shared
<1> QED
  BY <1>4 DEF X, Y, N

ExcessCell(hour, s) ==
  LET opening == FlowShare(hour.openingTaker[s], hour.openingVolume[s])
      others == FlowShare(hour.taker[s] - hour.openingTaker[s], hour.volume[s] - hour.openingVolume[s])
  IN  IF opening = NaN \/ others = NaN THEN NaN ELSE opening - others

LEMMA ExcessShared ==
  ASSUME NEW past, NEW whole, Begins(past, whole)
  PROVE  Shared(QuarterExcess(past, FirstDecision), QuarterExcess(whole, FirstDecision), Decisions(past))
<1> HIDE DEF FirstDecision
<1> DEFINE X == QuarterExcess(past, FirstDecision)
           Y == QuarterExcess(whole, FirstDecision)
           N == Decisions(past)
           M == Decisions(whole)
<1>1. /\ X = [d \in 1..N |-> [s \in Symbols |-> ExcessCell(past[FirstDecision + d - 1], s)]]
      /\ Y = [d \in 1..M |-> [s \in Symbols |-> ExcessCell(whole[FirstDecision + d - 1], s)]]
  BY DEF QuarterExcess, Decisions, ExcessCell
<1>2. /\ N \in Nat /\ 1..N \subseteq 1..M
      /\ \A d \in 1..N : past[FirstDecision + d - 1] = whole[FirstDecision + d - 1]
  BY DecisionsAre
<1> HIDE DEF X, Y, N, M
<1>3. \A d \in 1..N : X[d] = Y[d]
  BY <1>1, <1>2
<1>4. Shared(X, Y, N)
  <2>1. DOMAIN X = 1..N /\ DOMAIN Y = 1..M
    BY <1>1
  <2> QED
    BY <1>2, <1>3, <2>1 DEF Shared
<1> QED
  BY <1>4 DEF X, Y, N

RangeCell(past, first, d, s) ==
  Max({past[h].high[s] : h \in first + d - ShortHours .. first + d - 1})
    - Min({past[h].low[s] : h \in first + d - ShortHours .. first + d - 1})

LEMMA RangeShared ==
  ASSUME NEW past, NEW whole, Begins(past, whole)
  PROVE  Shared(IntradayRange(past, FirstDecision), IntradayRange(whole, FirstDecision), Decisions(past))
<1> HIDE DEF FirstDecision
<1> DEFINE X == IntradayRange(past, FirstDecision)
           Y == IntradayRange(whole, FirstDecision)
           N == Decisions(past)
           M == Decisions(whole)
<1>1. /\ X = [d \in 1..N |-> [s \in Symbols |-> RangeCell(past, FirstDecision, d, s)]]
      /\ Y = [d \in 1..M |-> [s \in Symbols |-> RangeCell(whole, FirstDecision, d, s)]]
  BY DEF IntradayRange, Decisions, RangeCell
<1>2. /\ N \in Nat /\ 1..N \subseteq 1..M
      /\ \A d \in 1..N : \A k \in FirstDecision + d - ShortHours .. FirstDecision + d - 1 : past[k] = whole[k]
  BY DecisionsAre
<1> HIDE DEF X, Y, N, M
<1>3. ASSUME NEW d \in 1..N, NEW s \in Symbols
      PROVE  RangeCell(past, FirstDecision, d, s) = RangeCell(whole, FirstDecision, d, s)
  <2> DEFINE W == FirstDecision + d - ShortHours .. FirstDecision + d - 1
  <2>1. \A k \in W : past[k] = whole[k]
    BY <1>2
  <2> HIDE DEF W
  <2>2. /\ {past[h].high[s] : h \in W} = {whole[h].high[s] : h \in W}
        /\ {past[h].low[s] : h \in W} = {whole[h].low[s] : h \in W}
    BY <2>1
  <2> QED
    BY <2>2 DEF RangeCell, W
<1>4. \A d \in 1..N : X[d] = Y[d]
  BY <1>1, <1>2, <1>3
<1>5. Shared(X, Y, N)
  <2>1. DOMAIN X = 1..N /\ DOMAIN Y = 1..M
    BY <1>1
  <2> QED
    BY <1>2, <1>4, <2>1 DEF Shared
<1> QED
  BY <1>5 DEF X, Y, N

-----------------------------------------------------------------------------
(* The funding and prior-extreme features, and all features together. *)

LEMMA PublishedShared ==
  ASSUME NEW past, NEW whole, Begins(past, whole), NEW d \in 1..Decisions(past), NEW s
  PROVE  Published(past, FirstDecision + d - 1, s) = Published(whole, FirstDecision + d - 1, s)
<1> HIDE DEF FirstDecision
<1> DEFINE h == FirstDecision + d - 1
           rates(hour) == [i \in DOMAIN hour.funding |-> hour.funding[i].rate[s]]
<1>1. \A k \in 1..h : past[k] = whole[k]
  BY DecisionsAre
<1>2. /\ Published(past, h, s) = FlattenSeq([k \in 1..h |-> rates(past[k])])
      /\ Published(whole, h, s) = FlattenSeq([k \in 1..h |-> rates(whole[k])])
  BY DEF Published
<1> HIDE DEF h, rates
<1>3. [k \in 1..h |-> rates(past[k])] = [k \in 1..h |-> rates(whole[k])]
  BY <1>1
<1>4. Published(past, h, s) = Published(whole, h, s)
  BY <1>2, <1>3
<1> QED
  BY <1>4 DEF h

LEMMA FundingShared ==
  ASSUME NEW past, NEW whole, Begins(past, whole)
  PROVE  /\ Shared(FundingCurrent(past, FirstDecision), FundingCurrent(whole, FirstDecision), Decisions(past))
         /\ Shared(FundingChange(past, FirstDecision), FundingChange(whole, FirstDecision), Decisions(past))
<1> HIDE DEF FirstDecision
<1> DEFINE X == FundingCurrent(past, FirstDecision)
           Y == FundingCurrent(whole, FirstDecision)
           U == FundingChange(past, FirstDecision)
           V == FundingChange(whole, FirstDecision)
           N == Decisions(past)
           M == Decisions(whole)
           now(rates) == IF rates = <<>> THEN NaN ELSE Last(rates)
           change(rates) == IF Len(rates) < 2 THEN NaN ELSE Last(rates) - rates[Len(rates) - 1]
           p(d, s) == Published(past, FirstDecision + d - 1, s)
           w(d, s) == Published(whole, FirstDecision + d - 1, s)
<1>1. /\ X = [d \in 1..N |-> [s \in Symbols |-> now(p(d, s))]]
      /\ Y = [d \in 1..M |-> [s \in Symbols |-> now(w(d, s))]]
      /\ U = [d \in 1..N |-> [s \in Symbols |-> change(p(d, s))]]
      /\ V = [d \in 1..M |-> [s \in Symbols |-> change(w(d, s))]]
  BY DEF FundingCurrent, FundingChange, Decisions
<1>2. N \in Nat /\ 1..N \subseteq 1..M
  BY DecisionsAre
<1>3. \A d \in 1..N : \A s \in Symbols : p(d, s) = w(d, s)
  BY PublishedShared
<1> HIDE DEF X, Y, U, V, N, M, p, w, now, change
<1>4. \A d \in 1..N : X[d] = Y[d] /\ U[d] = V[d]
  BY <1>1, <1>2, <1>3
<1>5. DOMAIN X = 1..N /\ DOMAIN Y = 1..M /\ DOMAIN U = 1..N /\ DOMAIN V = 1..M
  BY <1>1
<1>6. Shared(X, Y, N) /\ Shared(U, V, N)
  BY <1>2, <1>4, <1>5 DEF Shared
<1> QED
  BY <1>6 DEF X, Y, U, V, N

(* The highs or lows of a symbol, one per decision. *)
FieldSeries(past, field, s) == [d \in 1..Decisions(past) |-> past[FirstDecision + d - 1][field][s]]

LEMMA FieldShared ==
  ASSUME NEW past, NEW whole, Begins(past, whole), NEW field, NEW s
  PROVE  /\ Shared(FieldSeries(past, field, s), FieldSeries(whole, field, s), Decisions(past))
         /\ Series(FieldSeries(past, field, s)) /\ Series(FieldSeries(whole, field, s))
<1> HIDE DEF FirstDecision
<1> DEFINE X == FieldSeries(past, field, s)
           Y == FieldSeries(whole, field, s)
           N == Decisions(past)
           M == Decisions(whole)
<1>1. /\ X = [d \in 1..N |-> past[FirstDecision + d - 1][field][s]]
      /\ Y = [d \in 1..M |-> whole[FirstDecision + d - 1][field][s]]
  BY DEF FieldSeries
<1>2. /\ N \in Nat /\ M \in Nat /\ 1..N \subseteq 1..M
      /\ \A d \in 1..N : past[FirstDecision + d - 1] = whole[FirstDecision + d - 1]
  BY DecisionsAre
<1> HIDE DEF X, Y, N, M
<1>3. \A d \in 1..N : X[d] = Y[d]
  BY <1>1, <1>2
<1>4. DOMAIN X = 1..N /\ DOMAIN Y = 1..M /\ Len(X) = N /\ Len(Y) = M
  BY <1>1, <1>2
<1>5. Shared(X, Y, N) /\ Series(X) /\ Series(Y)
  BY <1>2, <1>3, <1>4 DEF Shared, Series
<1> QED
  BY <1>5 DEF X, Y, N

Highs(past) == [d \in 1..Decisions(past) |-> [s \in Symbols |-> PriorHigh(FieldSeries(past, "high", s), PriorHours)[d]]]
Lows(past) == [d \in 1..Decisions(past) |-> [s \in Symbols |-> PriorLow(FieldSeries(past, "low", s), PriorHours)[d]]]

LEMMA ExtremesShared ==
  ASSUME NEW past, NEW whole, Begins(past, whole)
  PROVE  /\ Shared(Highs(past), Highs(whole), Decisions(past))
         /\ Shared(Lows(past), Lows(whole), Decisions(past))
<1> DEFINE N == Decisions(past)
           M == Decisions(whole)
<1>1. N \in Nat /\ 1..N \subseteq 1..M
  BY DecisionsAre
<1>2. ASSUME NEW d \in 1..N, NEW s \in Symbols
      PROVE  /\ PriorHigh(FieldSeries(past, "high", s), PriorHours)[d] = PriorHigh(FieldSeries(whole, "high", s), PriorHours)[d]
             /\ PriorLow(FieldSeries(past, "low", s), PriorHours)[d] = PriorLow(FieldSeries(whole, "low", s), PriorHours)[d]
  <2>1. PriorHours \in Nat \ {0}
    BY WindowsAssumption
  <2>2. /\ Shared(FieldSeries(past, "high", s), FieldSeries(whole, "high", s), N)
        /\ Series(FieldSeries(past, "high", s)) /\ Series(FieldSeries(whole, "high", s))
        /\ Shared(FieldSeries(past, "low", s), FieldSeries(whole, "low", s), N)
        /\ Series(FieldSeries(past, "low", s)) /\ Series(FieldSeries(whole, "low", s))
    BY FieldShared
  <2> QED
    BY <2>1, <2>2, PriorShared
<1> HIDE DEF N, M
<1>3. \A d \in 1..N : Highs(past)[d] = Highs(whole)[d] /\ Lows(past)[d] = Lows(whole)[d]
  BY <1>1, <1>2 DEF Highs, Lows, N, M
<1>4. /\ DOMAIN Highs(past) = 1..N /\ DOMAIN Highs(whole) = 1..M
      /\ DOMAIN Lows(past) = 1..N /\ DOMAIN Lows(whole) = 1..M
  BY DEF Highs, Lows, N, M
<1>5. Shared(Highs(past), Highs(whole), N) /\ Shared(Lows(past), Lows(whole), N)
  BY <1>1, <1>3, <1>4 DEF Shared
<1> QED
  BY <1>5 DEF N

FeatureNames ==
  {"log_return", "level", "beta", "residual_1h", "residual_4h", "residual_24h", "volatility", "regime", "range",
   "taker_share", "volume_z", "flow_z", "quarter_z", "agreement", "compression", "efficiency",
   "prior_high", "prior_low", "funding_current", "funding_change"}

LEMMA FeaturesOf ==
  ASSUME NEW past
  PROVE  LET x == Features(past, FirstDecision)
             returns == HourReturn(past, FirstDecision)
             residual == ResidualReturn(returns, RollingBeta(returns))
             flowZ == RollingZScore(TakerShare(past, FirstDecision), WeekHours)
             volatility == RealizedVolatility(returns, DayHours, 40)
         IN  /\ DOMAIN x = FeatureNames
             /\ x["log_return"] = returns
             /\ x["level"] = Level(past, FirstDecision)
             /\ x["beta"] = RollingBeta(returns)
             /\ x["residual_1h"] = residual
             /\ x["residual_4h"] = TrailingSum(residual, ShortHours)
             /\ x["residual_24h"] = TrailingSum(residual, DayHours)
             /\ x["volatility"] = volatility
             /\ x["regime"] = MarketRegime(returns)
             /\ x["range"] = IntradayRange(past, FirstDecision)
             /\ x["taker_share"] = TakerShare(past, FirstDecision)
             /\ x["volume_z"] = RollingZScore(Volume(past, FirstDecision), DayHours)
             /\ x["flow_z"] = flowZ
             /\ x["quarter_z"] = RollingZScore(QuarterExcess(past, FirstDecision), WeekHours)
             /\ x["agreement"] = FlowPriceAgreement(flowZ, returns, volatility)
             /\ x["compression"] = Compression(returns)
             /\ x["efficiency"] = Efficiency(Level(past, FirstDecision), DayHours)
             /\ x["prior_high"] = Highs(past)
             /\ x["prior_low"] = Lows(past)
             /\ x["funding_current"] = FundingCurrent(past, FirstDecision)
             /\ x["funding_change"] = FundingChange(past, FirstDecision)
<1>1. DOMAIN HourReturn(past, FirstDecision) = 1..Decisions(past)
  BY DEF HourReturn, Decisions
<1> DEFINE x == Features(past, FirstDecision)
           D == DOMAIN HourReturn(past, FirstDecision)
           high == [d \in D |-> [s \in Symbols |-> PriorHigh([e \in D |-> past[FirstDecision + e - 1]["high"][s]], PriorHours)[d]]]
           low == [d \in D |-> [s \in Symbols |-> PriorLow([e \in D |-> past[FirstDecision + e - 1]["low"][s]], PriorHours)[d]]]
<1>2. x["prior_high"] = high /\ x["prior_low"] = low
  BY DEF Features
<1>3. high = Highs(past) /\ low = Lows(past)
  <2> HIDE DEF D
  <2>1. D = 1..Decisions(past)
    BY <1>1 DEF D
  <2> QED
    BY <2>1 DEF Highs, Lows, FieldSeries
<1> HIDE DEF high, low, D
<1>4. x["prior_high"] = Highs(past) /\ x["prior_low"] = Lows(past)
  BY <1>2, <1>3
<1> QED
  BY <1>4 DEF Features, FeatureNames

(* Every feature of a decision is what was recorded by then. *)
LEMMA FeaturesShared ==
  ASSUME NEW past, NEW whole, Begins(past, whole), NEW f \in FeatureNames
  PROVE  Shared(Features(past, FirstDecision)[f], Features(whole, FirstDecision)[f], Decisions(past))
<1> HIDE DEF FirstDecision
<1> DEFINE N == Decisions(past)
           x == Features(past, FirstDecision)
           y == Features(whole, FirstDecision)
           R == HourReturn(past, FirstDecision)
           S == HourReturn(whole, FirstDecision)
           A == ResidualReturn(R, RollingBeta(R))
           B == ResidualReturn(S, RollingBeta(S))
           F == RollingZScore(TakerShare(past, FirstDecision), WeekHours)
           G == RollingZScore(TakerShare(whole, FirstDecision), WeekHours)
           V == RealizedVolatility(R, DayHours, 40)
           W == RealizedVolatility(S, DayHours, 40)
<1>1. DayHours \in Nat /\ DayHours \in Int /\ ShortHours \in Int /\ WeekHours \in Int
  BY WindowsAssumption
<1>2. Shared(R, S, N)
  BY ReturnShared
<1>3. Shared(Level(past, FirstDecision), Level(whole, FirstDecision), N)
  BY LevelShared
<1>4. /\ Shared(TakerShare(past, FirstDecision), TakerShare(whole, FirstDecision), N)
      /\ Shared(Volume(past, FirstDecision), Volume(whole, FirstDecision), N)
      /\ Shared(QuarterExcess(past, FirstDecision), QuarterExcess(whole, FirstDecision), N)
  BY TakerShared, VolumeShared, ExcessShared
<1>5. Shared(Highs(past), Highs(whole), N) /\ Shared(Lows(past), Lows(whole), N)
  BY ExtremesShared
<1>6. /\ Shared(FundingCurrent(past, FirstDecision), FundingCurrent(whole, FirstDecision), N)
      /\ Shared(FundingChange(past, FirstDecision), FundingChange(whole, FirstDecision), N)
  BY FundingShared
<1>7. Shared(IntradayRange(past, FirstDecision), IntradayRange(whole, FirstDecision), N)
  BY RangeShared
<1> HIDE DEF N, R, S
<1>8. Shared(RollingBeta(R), RollingBeta(S), N)
  BY <1>2, BetaShared
<1>9. Shared(A, B, N)
  BY <1>2, <1>8, ResidualShared
<1>10. Shared(F, G, N)
  BY <1>1, <1>4, RollingShared
<1>11. Shared(V, W, N)
  BY <1>1, <1>2, VolatilityShared
<1>12. /\ Shared(RollingZScore(Volume(past, FirstDecision), DayHours), RollingZScore(Volume(whole, FirstDecision), DayHours), N)
       /\ Shared(RollingZScore(QuarterExcess(past, FirstDecision), WeekHours), RollingZScore(QuarterExcess(whole, FirstDecision), WeekHours), N)
  BY <1>1, <1>4, RollingShared
<1>13. Shared(Compression(R), Compression(S), N) /\ Shared(MarketRegime(R), MarketRegime(S), N)
  BY <1>2, CompressionShared, RegimeShared
<1>14. Shared(Efficiency(Level(past, FirstDecision), DayHours), Efficiency(Level(whole, FirstDecision), DayHours), N)
  BY <1>1, <1>3, EfficiencyShared
<1> HIDE DEF A, B, F, G, V, W
<1>15. Shared(TrailingSum(A, ShortHours), TrailingSum(B, ShortHours), N) /\ Shared(TrailingSum(A, DayHours), TrailingSum(B, DayHours), N)
  BY <1>1, <1>9, SumShared
<1>16. Shared(FlowPriceAgreement(F, R, V), FlowPriceAgreement(G, S, W), N)
  BY <1>2, <1>10, <1>11, AgreementShared
<1>17. /\ x["log_return"] = R /\ y["log_return"] = S
       /\ x["beta"] = RollingBeta(R) /\ y["beta"] = RollingBeta(S)
       /\ x["residual_1h"] = A /\ y["residual_1h"] = B
       /\ x["residual_4h"] = TrailingSum(A, ShortHours) /\ y["residual_4h"] = TrailingSum(B, ShortHours)
       /\ x["residual_24h"] = TrailingSum(A, DayHours) /\ y["residual_24h"] = TrailingSum(B, DayHours)
       /\ x["volatility"] = V /\ y["volatility"] = W
       /\ x["regime"] = MarketRegime(R) /\ y["regime"] = MarketRegime(S)
       /\ x["flow_z"] = F /\ y["flow_z"] = G
       /\ x["agreement"] = FlowPriceAgreement(F, R, V) /\ y["agreement"] = FlowPriceAgreement(G, S, W)
       /\ x["compression"] = Compression(R) /\ y["compression"] = Compression(S)
  BY FeaturesOf DEF R, S, A, B, F, G, V, W
<1>18. /\ x["level"] = Level(past, FirstDecision) /\ y["level"] = Level(whole, FirstDecision)
       /\ x["range"] = IntradayRange(past, FirstDecision) /\ y["range"] = IntradayRange(whole, FirstDecision)
       /\ x["taker_share"] = TakerShare(past, FirstDecision) /\ y["taker_share"] = TakerShare(whole, FirstDecision)
       /\ x["volume_z"] = RollingZScore(Volume(past, FirstDecision), DayHours)
       /\ y["volume_z"] = RollingZScore(Volume(whole, FirstDecision), DayHours)
       /\ x["quarter_z"] = RollingZScore(QuarterExcess(past, FirstDecision), WeekHours)
       /\ y["quarter_z"] = RollingZScore(QuarterExcess(whole, FirstDecision), WeekHours)
       /\ x["efficiency"] = Efficiency(Level(past, FirstDecision), DayHours)
       /\ y["efficiency"] = Efficiency(Level(whole, FirstDecision), DayHours)
       /\ x["prior_high"] = Highs(past) /\ y["prior_high"] = Highs(whole)
       /\ x["prior_low"] = Lows(past) /\ y["prior_low"] = Lows(whole)
       /\ x["funding_current"] = FundingCurrent(past, FirstDecision) /\ y["funding_current"] = FundingCurrent(whole, FirstDecision)
       /\ x["funding_change"] = FundingChange(past, FirstDecision) /\ y["funding_change"] = FundingChange(whole, FirstDecision)
  BY FeaturesOf
<1> HIDE DEF x, y
<1>19. /\ Shared(x["log_return"], y["log_return"], N) /\ Shared(x["beta"], y["beta"], N)
       /\ Shared(x["residual_1h"], y["residual_1h"], N) /\ Shared(x["residual_4h"], y["residual_4h"], N)
       /\ Shared(x["residual_24h"], y["residual_24h"], N) /\ Shared(x["volatility"], y["volatility"], N)
       /\ Shared(x["regime"], y["regime"], N) /\ Shared(x["flow_z"], y["flow_z"], N)
       /\ Shared(x["agreement"], y["agreement"], N) /\ Shared(x["compression"], y["compression"], N)
  BY <1>2, <1>8, <1>9, <1>10, <1>11, <1>13, <1>15, <1>16, <1>17
<1>20. /\ Shared(x["level"], y["level"], N) /\ Shared(x["range"], y["range"], N)
       /\ Shared(x["taker_share"], y["taker_share"], N) /\ Shared(x["volume_z"], y["volume_z"], N)
       /\ Shared(x["quarter_z"], y["quarter_z"], N) /\ Shared(x["efficiency"], y["efficiency"], N)
       /\ Shared(x["prior_high"], y["prior_high"], N) /\ Shared(x["prior_low"], y["prior_low"], N)
       /\ Shared(x["funding_current"], y["funding_current"], N) /\ Shared(x["funding_change"], y["funding_change"], N)
  BY <1>3, <1>4, <1>5, <1>6, <1>7, <1>12, <1>14, <1>18
<1>21. Shared(x[f], y[f], N)
  BY <1>19, <1>20 DEF FeatureNames
<1> QED
  BY <1>21 DEF x, y, N
-----------------------------------------------------------------------------
(* The rows of the panel. *)

LEMMA PaidShared ==
  ASSUME NEW past, NEW whole, Begins(past, whole), NEW h \in Nat, h + 2 <= Len(past), NEW s
  PROVE  OutcomeFunding(past, h, s) = OutcomeFunding(whole, h, s)
<1> DEFINE P(x) == {p \in UNION {{k} \X DOMAIN x[k].funding : k \in DOMAIN x} :
                      /\ EventTime(p[1], x[p[1]].funding[p[2]]) > Execution(h)
                      /\ EventTime(p[1], x[p[1]].funding[p[2]]) <= LabelEnd(h)}
           rate(x) == [p \in P(x) |-> x[p[1]].funding[p[2]].rate[s]]
<1>1. /\ Len(past) \in Nat /\ Len(whole) \in Nat /\ Len(past) <= Len(whole)
      /\ DOMAIN past = 1..Len(past) /\ DOMAIN whole = 1..Len(whole)
      /\ \A k \in 1..Len(past) : past[k] = whole[k]
  BY DEF Begins
<1>2. OutcomeFunding(past, h, s) = RowSum(rate(past)) /\ OutcomeFunding(whole, h, s) = RowSum(rate(whole))
  BY DEF OutcomeFunding
<1>3. P(past) \subseteq P(whole)
  <2> SUFFICES ASSUME NEW p \in P(past) PROVE p \in P(whole)
    OBVIOUS
  <2>1. PICK k \in 1..Len(past) : p \in {k} \X DOMAIN past[k].funding
    BY <1>1
  <2>2. p[1] = k /\ k \in 1..Len(whole) /\ past[k] = whole[k]
    BY <1>1, <2>1
  <2>3. p \in UNION {{j} \X DOMAIN whole[j].funding : j \in DOMAIN whole}
    BY <1>1, <2>1, <2>2
  <2> QED
    BY <2>2, <2>3
<1>4. P(whole) \subseteq P(past)
  <2> SUFFICES ASSUME NEW p \in P(whole) PROVE p \in P(past)
    OBVIOUS
  <2>1. PICK k \in 1..Len(whole) : p \in {k} \X DOMAIN whole[k].funding
    BY <1>1
  <2>2. p[1] = k /\ EventTime(k, whole[k].funding[p[2]]) <= LabelEnd(h)
    BY <2>1
  <2>3. EventTime(k, whole[k].funding[p[2]]) >= 4 * k /\ LabelEnd(h) = 4 * (h + 2)
    BY DEF EventTime, OpenTime, LabelEnd
  <2>4. EventTime(k, whole[k].funding[p[2]]) \in Int /\ k \in Int
    BY DEF EventTime, OpenTime
  <2>5. k \in 1..Len(past)
    BY <1>1, <2>2, <2>3, <2>4
  <2>6. past[k] = whole[k]
    BY <1>1, <2>5
  <2>7. p \in UNION {{j} \X DOMAIN past[j].funding : j \in DOMAIN past}
    BY <1>1, <2>1, <2>5, <2>6
  <2> QED
    BY <2>2, <2>6, <2>7
<1>5. P(past) = P(whole)
  BY <1>3, <1>4
<1>6. \A p \in P(past) : past[p[1]] = whole[p[1]]
  BY <1>1
<1> HIDE DEF P
<1>7. rate(past) = rate(whole)
  BY <1>5, <1>6
<1> QED
  BY <1>2, <1>7

LEMMA RowShared ==
  ASSUME NEW past, NEW whole, Begins(past, whole), NEW h \in DecisionHours(past)
  PROVE  /\ RowOf(past, Features(past, FirstDecision), h) = RowOf(whole, Features(whole, FirstDecision), h)
         /\ Complete(Features(past, FirstDecision), h - FirstDecision + 1)
              <=> Complete(Features(whole, FirstDecision), h - FirstDecision + 1)
         /\ h \in DecisionHours(whole)
<1> DEFINE x == Features(past, FirstDecision)
           y == Features(whole, FirstDecision)
           d == h - FirstDecision + 1
<1>1. /\ FirstDecision \in Nat /\ Len(past) \in Nat /\ Len(whole) \in Nat /\ Len(past) <= Len(whole)
      /\ h \in Nat /\ h >= FirstDecision /\ h + 2 <= Len(past)
  BY DecisionsAre DEF DecisionHours, Begins
<1>2. h \in DecisionHours(whole)
  BY <1>1 DEF DecisionHours
<1>3. d \in 1..Decisions(past)
  BY <1>1 DEF Decisions
<1>4. DOMAIN x = FeatureNames /\ DOMAIN y = FeatureNames
  BY FeaturesOf
<1>5. \A f \in FeatureNames : x[f][d] = y[f][d]
  <2> HIDE DEF d, x, y
  <2> SUFFICES ASSUME NEW f \in FeatureNames PROVE x[f][d] = y[f][d]
    OBVIOUS
  <2>1. Shared(x[f], y[f], Decisions(past))
    BY FeaturesShared DEF x, y
  <2> QED
    BY <1>3, <2>1 DEF Shared
<1>6. past[h + 2] = whole[h + 2] /\ past[h + 1] = whole[h + 1]
  <2>1. h + 2 \in 1..Len(past) /\ h + 1 \in 1..Len(past)
    BY <1>1
  <2> QED
    BY <2>1 DEF Begins
<1>7. \A s : FutureReturn(past, h, s) = FutureReturn(whole, h, s)
  BY <1>6 DEF FutureReturn
<1>8. \A s : OutcomeFunding(past, h, s) = OutcomeFunding(whole, h, s)
  BY <1>1, PaidShared
<1>9. x.beta[d] = y.beta[d]
  BY <1>5 DEF FeatureNames
<1> HIDE DEF x, y, d, FirstDecision
<1>10. Complete(x, d) <=> Complete(y, d)
  BY <1>4, <1>5 DEF Complete
<1>11. [f \in DOMAIN x |-> x[f][d]] = [f \in DOMAIN y |-> y[f][d]]
  BY <1>4, <1>5
<1>12. \A s \in Symbols : FutureResidual(past, h, s, x.beta[d][s]) = FutureResidual(whole, h, s, y.beta[d][s])
  <2>1. [z \in Symbols |-> FutureReturn(past, h, z)] = [z \in Symbols |-> FutureReturn(whole, h, z)]
    BY <1>7
  <2> HIDE DEF FutureReturn
  <2> QED
    BY <1>7, <1>9, <2>1 DEF FutureResidual
<1>13. RowOf(past, x, h) = RowOf(whole, y, h)
  <2>1. [s \in Symbols |-> FutureReturn(past, h, s)] = [s \in Symbols |-> FutureReturn(whole, h, s)]
    BY <1>7
  <2>2. [s \in Symbols |-> FutureResidual(past, h, s, x.beta[d][s])] = [s \in Symbols |-> FutureResidual(whole, h, s, y.beta[d][s])]
    BY <1>12
  <2>3. [s \in Symbols |-> OutcomeFunding(past, h, s)] = [s \in Symbols |-> OutcomeFunding(whole, h, s)]
    BY <1>8
  <2> QED
    BY <1>11, <2>1, <2>2, <2>3 DEF RowOf, d
<1> QED
  BY <1>2, <1>10, <1>13 DEF x, y, d

(* The first members of a set in ascending order. *)
LEMMA AscendingBegins ==
  ASSUME NEW K \in SUBSET Nat, IsFiniteSet(K), NEW i \in 1..Cardinality(K),
         NEW L, L = {h \in K : h <= Ascending(K)[i]}
  PROVE  /\ L \in SUBSET Nat /\ IsFiniteSet(L) /\ Cardinality(L) = i
         /\ DOMAIN Ascending(L) = 1..i
         /\ \A j \in 1..i : Ascending(L)[j] = Ascending(K)[j]
<1> DEFINE a == Ascending(K)
           b == Ascending(L)
           t == a[i]
           n == Cardinality(K)
<1>1. /\ n \in Nat
      /\ \A j \in 1..n : a[j] \in K /\ Cardinality(Under(K, a[j])) = j - 1
      /\ \A j, k \in 1..n : j < k => a[j] < a[k]
  BY AscendingIs
<1> HIDE DEF a, n
<1>2. i \in 1..n /\ t \in K /\ t \in Nat /\ L = {h \in K : h <= t}
  BY <1>1 DEF n, a
<1> HIDE DEF t
<1>3. L \in SUBSET K /\ L \in SUBSET Nat /\ IsFiniteSet(L)
  <2>1. L \in SUBSET K
    BY <1>2
  <2> QED
    BY <2>1, FS_Subset
<1>4. L = Under(K, t) \cup {t} /\ t \notin Under(K, t) /\ Under(K, t) \in SUBSET K
  <2>1. \A h \in K : (h <= t <=> h < t \/ h = t) /\ ~(t < t)
    BY <1>2
  <2> QED
    BY <1>2, <2>1 DEF Under
<1>5. Cardinality(L) = i
  <2>1. IsFiniteSet(Under(K, t)) /\ Cardinality(Under(K, t)) = i - 1
    BY <1>1, <1>2, <1>4, FS_Subset DEF t
  <2>2. Cardinality(Under(K, t) \cup {t}) = Cardinality(Under(K, t)) + 1
    BY <1>4, <2>1, FS_AddElement
  <2>3. i \in Int
    BY <1>1, <1>2
  <2> QED
    BY ONLY <1>4, <2>1, <2>2, <2>3
<1>6. /\ DOMAIN b = 1..i
      /\ \A j \in 1..i : b[j] \in L /\ Cardinality(Under(L, b[j])) = j - 1
  BY <1>3, <1>5, AscendingIs
<1> HIDE DEF b
<1>7. ASSUME NEW j \in 1..i PROVE b[j] = a[j]
  <2>0. i \in Int /\ i <= n /\ j \in Int /\ 1 <= j /\ j <= i
    BY <1>1, <1>2
  <2>01. j \in 1..n /\ (j < i \/ j = i)
    BY ONLY <1>1, <2>0
  <2>1. j \in 1..n /\ a[j] \in K /\ a[j] \in Nat /\ (j < i \/ j = i)
    BY <1>1, <2>01
  <2>2. a[j] <= t
    BY <1>1, <1>2, <2>1 DEF t
  <2>3. a[j] \in L
    BY <1>2, <2>1, <2>2
  <2>4. Under(L, a[j]) = Under(K, a[j])
    <3>1. \A k \in K : k < a[j] => k <= t
      BY <1>2, <2>1, <2>2
    <3> QED
      BY <1>2, <3>1 DEF Under
  <2>5. Cardinality(Under(L, a[j])) = j - 1
    BY <1>1, <2>1, <2>4
  <2>6. b[j] \in L /\ Cardinality(Under(L, b[j])) = j - 1
    BY <1>6
  <2>7. ~(b[j] < a[j])
    <3> SUFFICES ASSUME b[j] < a[j] PROVE FALSE
      OBVIOUS
    <3>1. Cardinality(Under(L, b[j])) < Cardinality(Under(L, a[j]))
      BY <1>3, <2>3, <2>6, UnderGrows
    <3> QED
      BY <2>5, <2>6, <3>1
  <2>8. ~(a[j] < b[j])
    <3> SUFFICES ASSUME a[j] < b[j] PROVE FALSE
      OBVIOUS
    <3>1. Cardinality(Under(L, a[j])) < Cardinality(Under(L, b[j]))
      BY <1>3, <2>3, <2>6, UnderGrows
    <3> QED
      BY <2>5, <2>6, <3>1
  <2>9. a[j] \in Nat /\ b[j] \in Nat
    BY <1>3, <2>3, <2>6
  <2> QED
    BY <2>7, <2>8, <2>9
<1> QED
  BY <1>3, <1>5, <1>6, <1>7 DEF a, b

LEMMA HistoryBegins ==
  ASSUME NEW whole \in Seq(Hour), NEW m \in Nat, m <= Len(whole), FirstDecision <= m,
         NEW past, past = SubSeq(whole, 1, m)
  PROVE  Begins(past, whole) /\ Len(past) = m
<1> HIDE DEF FirstDecision
<1>1. 1 \in Nat \ {0} /\ m - 1 + 1 = m
  OBVIOUS
<1>2. past = [r \in 1..m |-> whole[r]] /\ Len(past) = m
  BY Z3
<1>3. past \in Seq(Hour)
  <2>1. \A r \in 1..m : whole[r] \in Hour
    <3> HIDE DEF Hour
    <3> QED
      OBVIOUS
  <2> HIDE DEF Hour
  <2> QED
    BY <1>2, <2>1
<1>4. \A h \in 1..Len(past) : past[h] = whole[h]
  BY <1>2
<1> QED
  BY <1>2, <1>3, <1>4 DEF Begins

(* The panel up to a row is the one built when its outcome had just been    *)
(* recorded.                                                                *)
LEMMA PanelBegins ==
  ASSUME NEW whole \in Seq(Hour), NEW i \in DOMAIN BuildRows(whole)
  PROVE  BuildRows(SubSeq(whole, 1, BuildRows(whole)[i].hour + 2)) = SubSeq(BuildRows(whole), 1, i)
<1> DEFINE rows == BuildRows(whole)
           K == Kept(whole)
           a == Ascending(K)
           t == a[i]
           past == SubSeq(whole, 1, t + 2)
           L == Kept(past)
           b == Ascending(L)
           x == Features(past, FirstDecision)
           y == Features(whole, FirstDecision)
<1>1. /\ Len(rows) \in Nat /\ DOMAIN rows = 1..Len(rows) /\ DOMAIN a = DOMAIN rows
      /\ \A j \in DOMAIN a : rows[j] = RowOf(whole, y, a[j]) /\ a[j] \in K
  BY PanelRows
<1>2. K \in SUBSET DecisionHours(whole)
  BY DEF Kept
<1>3. K \in SUBSET Nat /\ IsFiniteSet(K) /\ \A k \in K : k >= FirstDecision /\ k <= Len(whole) - 2
  BY <1>2, DecisionsFinite
<1>4. Cardinality(K) \in Nat /\ DOMAIN a = 1..Cardinality(K)
  BY <1>3, AscendingIs
<1>5. rows[i].hour = t /\ t \in K /\ t \in Nat /\ i \in 1..Cardinality(K)
  BY <1>1, <1>3, <1>4 DEF RowOf
<1>6. Len(whole) \in Nat /\ FirstDecision \in Nat
  BY WindowsAssumption DEF FirstDecision
<1>7. t + 2 \in Nat /\ t + 2 <= Len(whole) /\ FirstDecision <= t + 2 /\ t <= Len(whole) - 2
  <2> HIDE DEF t, K, FirstDecision
  <2> QED
    BY <1>3, <1>5, <1>6
<1> HIDE DEF rows, K, a
<1>8. Begins(past, whole) /\ Len(past) = t + 2
  <2> HIDE DEF t, FirstDecision, Hour
  <2> QED
    BY <1>7, HistoryBegins
<1> HIDE DEF t, past
<1>9. L = {h \in K : h <= t}
  <2>1. L \in SUBSET DecisionHours(past)
    BY DEF Kept
  <2>2. \A h \in DecisionHours(past) : h \in L <=> h \in K
    <3> SUFFICES ASSUME NEW h \in DecisionHours(past) PROVE h \in L <=> h \in K
      OBVIOUS
    <3>1. /\ Complete(x, h - FirstDecision + 1) <=> Complete(y, h - FirstDecision + 1)
          /\ h \in DecisionHours(whole)
      BY <1>8, RowShared
    <3> HIDE DEF x, y, FirstDecision
    <3> QED
      BY <3>1 DEF Kept, K, x, y
  <2>3. \A h \in DecisionHours(past) : h <= t
    <3> HIDE DEF FirstDecision
    <3> QED
      BY <1>5, <1>6, <1>8 DEF DecisionHours
  <2>4. \A h \in K : h <= t => h \in DecisionHours(past)
    <3> HIDE DEF FirstDecision
    <3> QED
      BY <1>3, <1>5, <1>6, <1>8 DEF DecisionHours
  <2> HIDE DEF L
  <2> QED
    BY <2>1, <2>2, <2>3, <2>4
<1> HIDE DEF L
<1>10. /\ DOMAIN b = 1..i /\ \A j \in 1..i : b[j] = a[j]
  BY <1>3, <1>5, <1>9, AscendingBegins DEF t, a
<1>11. BuildRows(past) = [j \in DOMAIN b |-> RowOf(past, x, b[j])]
  BY DEF BuildRows, Kept, L
<1> HIDE DEF b, x, y, FirstDecision
<1>12. i \in 1..Len(rows) /\ \A j \in 1..i : j \in 1..Len(rows)
  BY <1>1, <1>4, <1>5
<1>13. ASSUME NEW j \in 1..i PROVE RowOf(past, x, b[j]) = rows[j]
  <2>1. b[j] = a[j] /\ a[j] \in K /\ rows[j] = RowOf(whole, y, a[j])
    BY <1>1, <1>10, <1>12
  <2>2. b[j] \in DecisionHours(past)
    <3>1. i \in Nat /\ b[j] \in L
      <4>1. L \in SUBSET Nat /\ IsFiniteSet(L) /\ Cardinality(L) = i
        BY <1>3, <1>5, <1>9, AscendingBegins DEF t, a
      <4> QED
        BY <4>1, AscendingIs DEF b
    <3> QED
      BY <3>1 DEF L, Kept
  <2>3. RowOf(past, x, b[j]) = RowOf(whole, y, b[j])
    BY <1>8, <2>2, RowShared DEF x, y
  <2> QED
    BY <2>1, <2>3
<1>14. BuildRows(past) = [j \in 1..i |-> rows[j]]
  BY <1>10, <1>11, <1>13
<1>15. SubSeq(rows, 1, i) = [j \in 1..i |-> rows[j]]
  <2>1. i \in Nat /\ 1 \in Nat
    BY <1>12
  <2> QED
    BY <2>1
<1> QED
  BY <1>5, <1>14, <1>15 DEF rows, past

-----------------------------------------------------------------------------
(* Scores. *)

(* y begins with the n rows of x. *)
Grown(x, y, n, m) ==
  /\ n \in Nat /\ m \in Nat /\ n <= m
  /\ Len(x) = n /\ DOMAIN x = 1..n /\ Len(y) = m /\ DOMAIN y = 1..m
  /\ x = [r \in 1..n |-> x[r]] /\ \A r \in 1..n : x[r] = y[r]

LEMMA GrownIs ==
  ASSUME NEW x, NEW y, NEW n, NEW m, Grown(x, y, n, m)
  PROVE  /\ n \in Nat /\ n \in Int /\ m \in Nat /\ n <= m
         /\ Len(x) = n /\ DOMAIN x = 1..n /\ Len(y) = m /\ DOMAIN y = 1..m
         /\ \A r \in 1..n : x[r] = y[r] /\ r \in 1..m /\ r \in Int
         /\ Shared(x, y, n)
         /\ x = [r \in 1..n |-> x[r]]
<1>1. /\ n \in Nat /\ m \in Nat /\ n <= m
      /\ Len(x) = n /\ DOMAIN x = 1..n /\ Len(y) = m /\ DOMAIN y = 1..m
      /\ \A r \in 1..n : x[r] = y[r]
      /\ x = [r \in 1..n |-> x[r]]
  BY DEF Grown
<1>2. n \in Int /\ \A r \in 1..n : r \in 1..m /\ r \in Int
  BY <1>1
<1> QED
  BY <1>1, <1>2 DEF Shared

LEMMA GrownTables ==
  ASSUME NEW n \in Nat, NEW m \in Nat, n <= m, NEW x, x = [r \in 1..n |-> x[r]], NEW y, y = [r \in 1..m |-> y[r]],
         \A r \in 1..n : x[r] = y[r]
  PROVE  Grown(x, y, n, m)
<1>1. DOMAIN x = 1..n /\ Len(x) = n
  OBVIOUS
<1>2. DOMAIN y = 1..m /\ Len(y) = m
  OBVIOUS
<1> QED
  BY <1>1, <1>2 DEF Grown

LEMMA FeatureGrown ==
  ASSUME NEW q, NEW p, NEW n, NEW m, Grown(q, p, n, m), NEW f
  PROVE  Grown(FeatureMatrix(q, f), FeatureMatrix(p, f), n, m)
<1> DEFINE X == FeatureMatrix(q, f)
           Y == FeatureMatrix(p, f)
<1>1. n \in Nat /\ m \in Nat /\ n <= m /\ DOMAIN q = 1..n /\ DOMAIN p = 1..m /\ \A r \in 1..n : q[r] = p[r] /\ r \in 1..m
  BY GrownIs
<1>2. X = [r \in 1..n |-> q[r].feature[f]] /\ Y = [r \in 1..m |-> p[r].feature[f]]
  BY <1>1 DEF FeatureMatrix
<1> HIDE DEF X, Y
<1>3. X = [r \in 1..n |-> X[r]] /\ Y = [r \in 1..m |-> Y[r]] /\ \A r \in 1..n : X[r] = Y[r]
  BY <1>1, <1>2
<1>4. Grown(X, Y, n, m)
  BY <1>1, <1>3, GrownTables
<1> QED
  BY <1>4 DEF X, Y

LEMMA TimesGrown ==
  ASSUME NEW q, NEW p, NEW n, NEW m, Grown(q, p, n, m)
  PROVE  Grown(Times(q), Times(p), n, m)
<1> DEFINE X == Times(q)
           Y == Times(p)
<1>1. n \in Nat /\ m \in Nat /\ n <= m /\ DOMAIN q = 1..n /\ DOMAIN p = 1..m /\ \A r \in 1..n : q[r] = p[r] /\ r \in 1..m
  BY GrownIs
<1>2. X = [r \in 1..n |-> q[r].hour] /\ Y = [r \in 1..m |-> p[r].hour]
  BY <1>1 DEF Times
<1> HIDE DEF X, Y
<1>3. X = [r \in 1..n |-> X[r]] /\ Y = [r \in 1..m |-> Y[r]] /\ \A r \in 1..n : X[r] = Y[r]
  BY <1>1, <1>2
<1>4. Grown(X, Y, n, m)
  BY <1>1, <1>3, GrownTables
<1> QED
  BY <1>4 DEF X, Y

(* A row's segment starts at or before it. *)
LEMMA SegmentShared ==
  ASSUME NEW x, NEW y, NEW n, Shared(x, y, n), NEW r \in 1..n
  PROVE  SegmentStart(x, r) = SegmentStart(y, r) /\ SegmentStart(x, r) \in 1..r
<1> DEFINE A == {k \in 1..r : k = 1 \/ x[k] # x[k - 1] + 1}
           B == {k \in 1..r : k = 1 \/ y[k] # y[k - 1] + 1}
<1>1. n \in Int /\ \A k \in 1..n : x[k] = y[k]
  BY DEF Shared
<1>2. \A k \in 1..r : k \in 1..n /\ (k # 1 => k - 1 \in 1..n)
  BY <1>1
<1>3. A = B
  BY <1>1, <1>2
<1>4. 1 \in A /\ A \in SUBSET (1..r) /\ A \in SUBSET Int
  BY <1>1
<1>5. SegmentStart(x, r) = Max(A) /\ SegmentStart(y, r) = Max(B)
  BY DEF SegmentStart
<1> HIDE DEF A, B
<1>6. IsFiniteSet(A)
  <2>1. 1 \in Int /\ r \in Int
    BY <1>1
  <2>2. IsFiniteSet(1..r)
    BY <2>1, IntervalFinite
  <2> QED
    BY <1>4, <2>2, FS_Subset
<1>7. Max(A) \in A
  BY <1>4, <1>6, MaxIs
<1> QED
  BY <1>3, <1>4, <1>5, <1>7

LEMMA SegmentReturnGrown ==
  ASSUME NEW a, NEW b, NEW x, NEW y, NEW n, NEW m, Grown(a, b, n, m), Grown(x, y, n, m), NEW w \in Nat
  PROVE  Grown(SegmentReturn(a, x, w), SegmentReturn(b, y, w), n, m)
<1> DEFINE X == SegmentReturn(a, x, w)
           Y == SegmentReturn(b, y, w)
           in(t, r) == r - SegmentStart(t, r) + 1 >= w
<1>1. /\ n \in Nat /\ m \in Nat /\ n <= m /\ DOMAIN x = 1..n /\ DOMAIN y = 1..m
      /\ Shared(a, b, n) /\ Shared(x, y, n)
  BY GrownIs
<1>2. /\ X = [r \in 1..n |-> [s \in Symbols |-> IF in(a, r) THEN RowSum(Window(x, s, r, w)) ELSE NaN]]
      /\ Y = [r \in 1..m |-> [s \in Symbols |-> IF in(b, r) THEN RowSum(Window(y, s, r, w)) ELSE NaN]]
  BY <1>1 DEF SegmentReturn
<1>3. ASSUME NEW r \in 1..n PROVE in(a, r) <=> in(b, r)
  BY <1>1, SegmentShared
<1>4. ASSUME NEW r \in 1..n, in(a, r), NEW s PROVE Window(x, s, r, w) = Window(y, s, r, w)
  <2>1. SegmentStart(a, r) \in 1..r
    BY <1>1, SegmentShared
  <2>2. r >= w /\ w \in Int
    BY <1>1, <1>4, <2>1
  <2> QED
    BY <1>1, <2>2, WindowShared
<1> HIDE DEF X, Y, in
<1>5. \A r \in 1..n : X[r] = Y[r]
  <2>1. \A r \in 1..n : r \in 1..m
    BY <1>1
  <2> QED
    BY <1>2, <1>3, <1>4, <2>1
<1>6. X = [r \in 1..n |-> X[r]] /\ Y = [r \in 1..m |-> Y[r]]
  BY <1>2
<1>7. Grown(X, Y, n, m)
  BY <1>1, <1>5, <1>6, GrownTables
<1> QED
  BY <1>7 DEF X, Y

LEMMA FillGrown ==
  ASSUME NEW x, NEW y, NEW n, NEW m, Grown(x, y, n, m)
  PROVE  Grown(ForwardFill(x), ForwardFill(y), n, m)
<1> DEFINE X == ForwardFill(x)
           Y == ForwardFill(y)
           F(z, r, s) == {k \in 1..r : z[k][s] # NaN}
<1>1. /\ n \in Nat /\ m \in Nat /\ n <= m /\ DOMAIN x = 1..n /\ DOMAIN y = 1..m
      /\ \A r \in 1..n : x[r] = y[r] /\ r \in 1..m /\ r \in Int
  BY GrownIs
<1>2. /\ X = [r \in 1..n |-> [s \in Symbols |-> IF F(x, r, s) = {} THEN NaN ELSE x[Max(F(x, r, s))][s]]]
      /\ Y = [r \in 1..m |-> [s \in Symbols |-> IF F(y, r, s) = {} THEN NaN ELSE y[Max(F(y, r, s))][s]]]
  BY <1>1 DEF ForwardFill
<1>3. ASSUME NEW r \in 1..n, NEW s
      PROVE  F(x, r, s) = F(y, r, s) /\ (F(x, r, s) # {} => x[Max(F(x, r, s))] = y[Max(F(y, r, s))])
  <2> DEFINE A == F(x, r, s)
  <2>1. \A k \in 1..r : k \in 1..n
    BY <1>1
  <2>2. A = F(y, r, s) /\ A \in SUBSET (1..r) /\ A \in SUBSET Int
    BY <1>1, <2>1
  <2>3. IsFiniteSet(A)
    <3> HIDE DEF A
    <3>1. 1 \in Int /\ r \in Int
      BY <1>1
    <3>2. IsFiniteSet(1..r)
      BY <3>1, IntervalFinite
    <3> QED
      BY <2>2, <3>2, FS_Subset
  <2> HIDE DEF A, F
  <2>4. A # {} => Max(A) \in A
    BY <2>2, <2>3, MaxIs
  <2>5. A # {} => x[Max(A)] = y[Max(A)]
    BY <1>1, <2>1, <2>2, <2>4
  <2> QED
    BY <2>2, <2>5 DEF A
<1> HIDE DEF X, Y, F
<1>5. \A r \in 1..n : X[r] = Y[r]
  <2> SUFFICES ASSUME NEW r \in 1..n PROVE X[r] = Y[r]
    OBVIOUS
  <2>1. /\ X[r] = [s \in Symbols |-> IF F(x, r, s) = {} THEN NaN ELSE x[Max(F(x, r, s))][s]]
        /\ Y[r] = [s \in Symbols |-> IF F(y, r, s) = {} THEN NaN ELSE y[Max(F(y, r, s))][s]]
    BY <1>1, <1>2
  <2> QED
    BY <1>3, <2>1
<1>6. X = [r \in 1..n |-> X[r]] /\ Y = [r \in 1..m |-> Y[r]]
  BY <1>2
<1>7. Grown(X, Y, n, m)
  BY <1>1, <1>5, <1>6, GrownTables
<1> QED
  BY <1>7 DEF X, Y

LEMMA TrendGrown ==
  ASSUME NEW q, NEW p, NEW n, NEW m, Grown(q, p, n, m), NEW w \in Nat
  PROVE  Grown(Trend(q, w), Trend(p, w), n, m)
<1>1. n \in Nat /\ m \in Nat /\ Len(q) = n /\ DOMAIN q = 1..n /\ Len(p) = m /\ DOMAIN p = 1..m
  BY GrownIs
<1>2. /\ Trend(q, w) = ForwardFill(SegmentReturn(Times(q), Returns(q), w))
      /\ Trend(p, w) = ForwardFill(SegmentReturn(Times(p), Returns(p), w))
  BY <1>1, TrendIs
<1>3. Grown(Times(q), Times(p), n, m) /\ Grown(Returns(q), Returns(p), n, m)
  BY TimesGrown, FeatureGrown DEF Returns
<1>4. Grown(SegmentReturn(Times(q), Returns(q), w), SegmentReturn(Times(p), Returns(p), w), n, m)
  BY <1>3, SegmentReturnGrown
<1> QED
  BY <1>2, <1>4, FillGrown

(* Prices within a segment, and what is made of them. *)
LEMMA PriceShared ==
  ASSUME NEW q, NEW p, NEW n, NEW m, Grown(q, p, n, m), NEW r \in 1..n, NEW s
  PROVE  SegmentPrice(q, r, s) = SegmentPrice(p, r, s)
<1> DEFINE A == Returns(q)
           B == Returns(p)
<1>1. Grown(A, B, n, m) /\ Grown(Times(q), Times(p), n, m)
  BY TimesGrown, FeatureGrown DEF Returns
<1> HIDE DEF A, B
<1>2. Shared(Times(q), Times(p), n) /\ n \in Int /\ \A k \in 1..n : A[k] = B[k]
  BY <1>1, GrownIs
<1>3. SegmentStart(Times(q), r) = SegmentStart(Times(p), r)
  BY <1>2, SegmentShared
<1>4. \A k \in 1..r : A[k] = B[k]
  BY <1>2
<1>5. [k \in 1..r |-> A[k][s]] = [k \in 1..r |-> B[k][s]]
  BY <1>4
<1> QED
  BY <1>3, <1>5 DEF SegmentPrice, A, B

LEMMA GapShared ==
  ASSUME NEW q, NEW p, NEW n, NEW m, Grown(q, p, n, m), NEW r \in 1..n, NEW s
  PROVE  Gap(q, r, s) = Gap(p, r, s)
<1> DEFINE start == SegmentStart(Times(q), r)
           W == r - Tuning.slow + 1 .. r
           A == [k \in W |-> SegmentPrice(q, k, s)]
           B == [k \in W |-> SegmentPrice(p, k, s)]
<1>1. n \in Int /\ Shared(Times(q), Times(p), n)
  BY TimesGrown, GrownIs
<1>2. start = SegmentStart(Times(p), r) /\ start \in 1..r
  BY <1>1, SegmentShared
<1>3. Tuning.slow \in Nat
  BY TuningAssumption
<1> HIDE DEF start
<1>4. ASSUME ~(r - start + 1 < Tuning.slow) PROVE A = B
  <2>1. \A k \in W : k \in 1..n
    BY <1>1, <1>2, <1>3, <1>4
  <2> HIDE DEF W
  <2>2. \A k \in W : SegmentPrice(q, k, s) = SegmentPrice(p, k, s)
    BY <2>1, PriceShared
  <2> QED
    BY <2>2
<1>5. CASE r - start + 1 < Tuning.slow
  BY <1>2, <1>5 DEF Gap, start
<1>6. CASE ~(r - start + 1 < Tuning.slow)
  <2>1. A = B
    BY <1>4, <1>6
  <2>2. /\ Gap(q, r, s) = Tuning.slow * SumOver(A, r - Tuning.fast + 1 .. r) - Tuning.fast * RowSum(A)
        /\ Gap(p, r, s) = Tuning.slow * SumOver(B, r - Tuning.fast + 1 .. r) - Tuning.fast * RowSum(B)
    BY <1>2, <1>6 DEF Gap, start
  <2> HIDE DEF A, B
  <2> QED
    BY <2>1, <2>2
<1> QED
  BY <1>5, <1>6

LEMMA SmaGrown ==
  ASSUME NEW q, NEW p, NEW n, NEW m, Grown(q, p, n, m)
  PROVE  Grown(SmaGap(q), SmaGap(p), n, m)
<1> DEFINE X == Gaps(q, n)
           Y == Gaps(p, m)
<1>1. /\ n \in Nat /\ m \in Nat /\ n <= m /\ Len(q) = n /\ DOMAIN q = 1..n /\ Len(p) = m /\ DOMAIN p = 1..m
      /\ \A r \in 1..n : r \in 1..m
  BY GrownIs
<1>2. SmaGap(q) = ForwardFill(X) /\ SmaGap(p) = ForwardFill(Y)
  BY <1>1, SmaGapIs
<1>3. \A r \in 1..n : X[r] = Y[r]
  <2>1. \A r \in 1..n : \A s : Gap(q, r, s) = Gap(p, r, s)
    BY GapShared
  <2> QED
    BY <1>1, <2>1 DEF Gaps
<1>4. X = [r \in 1..n |-> X[r]] /\ Y = [r \in 1..m |-> Y[r]]
  BY DEF Gaps
<1> HIDE DEF X, Y
<1>5. Grown(X, Y, n, m)
  BY <1>1, <1>3, <1>4, GrownTables
<1> QED
  BY <1>2, <1>5, FillGrown

LEMMA BreakoutGrown ==
  ASSUME NEW q, NEW p, NEW n, NEW m, Grown(q, p, n, m)
  PROVE  Grown(Breakout(q), Breakout(p), n, m)
<1> DEFINE path(t, r, s) == [k \in 1..(r - SegmentStart(Times(t), r) + 1) |->
                               SegmentPrice(t, SegmentStart(Times(t), r) + k - 1, s)]
           at(t, r, s) == SegmentSignal(path(t, r, s))[r - SegmentStart(Times(t), r) + 1]
           X == Breakout(q)
           Y == Breakout(p)
<1>1. /\ n \in Nat /\ m \in Nat /\ n <= m /\ Len(q) = n /\ DOMAIN q = 1..n /\ Len(p) = m /\ DOMAIN p = 1..m
      /\ \A r \in 1..n : r \in 1..m
  BY GrownIs
<1>2. /\ X = [r \in 1..n |-> [s \in Symbols |-> at(q, r, s)]]
      /\ Y = [r \in 1..m |-> [s \in Symbols |-> at(p, r, s)]]
  BY <1>1, BreakoutIs
<1>3. Shared(Times(q), Times(p), n)
  BY TimesGrown, GrownIs
<1>4. ASSUME NEW r \in 1..n, NEW s PROVE at(q, r, s) = at(p, r, s)
  <2> DEFINE start == SegmentStart(Times(q), r)
  <2>1. start = SegmentStart(Times(p), r) /\ start \in 1..r
    BY <1>3, SegmentShared
  <2> HIDE DEF start
  <2>2. \A k \in 1..(r - start + 1) : start + k - 1 \in 1..n
    BY <1>1, <2>1
  <2>3. \A k \in 1..(r - start + 1) : SegmentPrice(q, start + k - 1, s) = SegmentPrice(p, start + k - 1, s)
    BY <2>2, PriceShared
  <2>4. [k \in 1..(r - start + 1) |-> SegmentPrice(q, start + k - 1, s)]
          = [k \in 1..(r - start + 1) |-> SegmentPrice(p, start + k - 1, s)]
    BY <2>3
  <2>5. path(q, r, s) = path(p, r, s)
    BY <2>1, <2>4 DEF start
  <2> HIDE DEF path
  <2> QED
    BY <2>1, <2>5 DEF start
<1> HIDE DEF X, Y, at
<1>5. \A r \in 1..n : X[r] = Y[r]
  BY <1>1, <1>2, <1>4
<1>6. X = [r \in 1..n |-> X[r]] /\ Y = [r \in 1..m |-> Y[r]]
  BY <1>2
<1>7. Grown(X, Y, n, m)
  BY <1>1, <1>5, <1>6, GrownTables
<1> QED
  BY <1>7 DEF X, Y

RegimeCell(fast, slow, s) ==
  IF \E x \in Symbols : NaN \in {fast[x], slow[x]} THEN NaN
  ELSE IF /\ RowSum(slow) > 0 /\ fast[s] > 0 /\ slow[s] > 0 THEN Tenths ELSE 0

LEMMA RegimeTrendGrown ==
  ASSUME NEW q, NEW p, NEW n, NEW m, Grown(q, p, n, m)
  PROVE  Grown(RegimeTrend(q), RegimeTrend(p), n, m)
<1> DEFINE X == RegimeTrend(q)
           Y == RegimeTrend(p)
           A == Trend(q, Tuning.fast)
           B == Trend(p, Tuning.fast)
           C == Trend(q, Tuning.slow)
           D == Trend(p, Tuning.slow)
<1>1. /\ n \in Nat /\ m \in Nat /\ n <= m /\ Len(q) = n /\ DOMAIN q = 1..n /\ Len(p) = m /\ DOMAIN p = 1..m
      /\ \A r \in 1..n : r \in 1..m
  BY GrownIs
<1>2. /\ X = [r \in 1..n |-> [s \in Symbols |-> RegimeCell(A[r], C[r], s)]]
      /\ Y = [r \in 1..m |-> [s \in Symbols |-> RegimeCell(B[r], D[r], s)]]
  <2> DEFINE cell(f, g, s) == IF \E x \in Symbols : NaN \in {f[x], g[x]} THEN NaN
               ELSE IF /\ RowSum(g) > 0 /\ f[s] > 0 /\ g[s] > 0 THEN Tenths ELSE 0
  <2>1. \A f, g, s : RegimeCell(f, g, s) = cell(f, g, s)
    BY DEF RegimeCell
  <2>2. /\ X = [r \in 1..n |-> [s \in Symbols |-> cell(A[r], C[r], s)]]
        /\ Y = [r \in 1..m |-> [s \in Symbols |-> cell(B[r], D[r], s)]]
    BY <1>1, RegimeTrendIs
  <2> HIDE DEF cell, X, Y, A, B, C, D
  <2> QED
    BY <2>1, <2>2
<1>3. Tuning.fast \in Nat /\ Tuning.slow \in Nat
  BY TuningAssumption
<1>4. Grown(A, B, n, m) /\ Grown(C, D, n, m)
  BY <1>3, TrendGrown
<1> HIDE DEF A, B, C, D, X, Y
<1>5. \A r \in 1..n : A[r] = B[r] /\ C[r] = D[r]
  BY <1>4, GrownIs
<1>6. \A r \in 1..n : X[r] = Y[r]
  BY <1>1, <1>2, <1>5
<1>7. X = [r \in 1..n |-> X[r]] /\ Y = [r \in 1..m |-> Y[r]]
  BY <1>2
<1>8. Grown(X, Y, n, m)
  BY <1>1, <1>6, <1>7, GrownTables
<1> QED
  BY <1>8 DEF X, Y

VoteCell(t, r, s) ==
  IF \E i \in 1..3 : Trend(t, Tuning.horizons[i])[r][s] = NaN THEN NaN
  ELSE RowSum([i \in 1..3 |-> Tuning.votes[i] * Sign(Trend(t, Tuning.horizons[i])[r][s])])

LEMMA VotesGrown ==
  ASSUME NEW q, NEW p, NEW n, NEW m, Grown(q, p, n, m)
  PROVE  Grown(HorizonVotes(q), HorizonVotes(p), n, m)
<1> DEFINE X == HorizonVotes(q)
           Y == HorizonVotes(p)
<1>1. /\ n \in Nat /\ m \in Nat /\ n <= m /\ Len(q) = n /\ DOMAIN q = 1..n /\ Len(p) = m /\ DOMAIN p = 1..m
      /\ \A r \in 1..n : r \in 1..m
  BY GrownIs
<1>2. /\ X = [r \in 1..n |-> [s \in Symbols |-> VoteCell(q, r, s)]]
      /\ Y = [r \in 1..m |-> [s \in Symbols |-> VoteCell(p, r, s)]]
  BY <1>1, HorizonVotesIs DEF VoteCell
<1>3. ASSUME NEW r \in 1..n, NEW s PROVE VoteCell(q, r, s) = VoteCell(p, r, s)
  <2>1. ASSUME NEW i \in 1..3
        PROVE  Trend(q, Tuning.horizons[i])[r][s] = Trend(p, Tuning.horizons[i])[r][s]
    <3>1. Tuning.horizons[i] \in Nat
      BY TuningAssumption
    <3>2. Grown(Trend(q, Tuning.horizons[i]), Trend(p, Tuning.horizons[i]), n, m)
      BY <3>1, TrendGrown
    <3>3. Trend(q, Tuning.horizons[i])[r] = Trend(p, Tuning.horizons[i])[r]
      BY <3>2, GrownIs
    <3> QED
      BY <3>3
  <2>2. [i \in 1..3 |-> Tuning.votes[i] * Sign(Trend(q, Tuning.horizons[i])[r][s])]
          = [i \in 1..3 |-> Tuning.votes[i] * Sign(Trend(p, Tuning.horizons[i])[r][s])]
    BY <2>1
  <2>3. (\E i \in 1..3 : Trend(q, Tuning.horizons[i])[r][s] = NaN)
          <=> \E i \in 1..3 : Trend(p, Tuning.horizons[i])[r][s] = NaN
    BY <2>1
  <2> QED
    BY <2>2, <2>3 DEF VoteCell
<1> HIDE DEF X, Y
<1>4. \A r \in 1..n : X[r] = Y[r]
  BY <1>1, <1>2, <1>3
<1>5. X = [r \in 1..n |-> X[r]] /\ Y = [r \in 1..m |-> Y[r]]
  BY <1>2
<1>6. Grown(X, Y, n, m)
  BY <1>1, <1>4, <1>5, GrownTables
<1> QED
  BY <1>6 DEF X, Y

LEMMA FilteredGrown ==
  ASSUME NEW q, NEW p, NEW n, NEW m, Grown(q, p, n, m), NEW training \in 1..n
  PROVE  Grown(FilteredSma(q, training), FilteredSma(p, training), n, m)
<1> DEFINE X == FilteredSma(q, training)
           Y == FilteredSma(p, training)
           A == [r \in DOMAIN q |-> q[r].feature.regime[BTC]]
           B == [r \in DOMAIN p |-> p[r].feature.regime[BTC]]
<1>1. /\ n \in Nat /\ m \in Nat /\ n <= m /\ Len(q) = n /\ DOMAIN q = 1..n /\ Len(p) = m /\ DOMAIN p = 1..m
      /\ \A r \in 1..n : r \in 1..m /\ q[r] = p[r]
  BY GrownIs
<1>2. /\ X = [r \in 1..n |-> [s \in Symbols |-> FilteredCell(q, training, r, s)]]
      /\ Y = [r \in 1..m |-> [s \in Symbols |-> FilteredCell(p, training, r, s)]]
  BY <1>1, FilteredSmaIs
<1>3. Calm(q, training) = Calm(p, training)
  <2>1. \A r \in 1..training : r \in 1..n
    BY <1>1
  <2>2. \A r \in 1..training : A[r] = B[r]
    BY <1>1, <2>1
  <2>3. training \in Nat /\ 1 \in Nat \ {0} /\ 1 <= training /\ training - 1 + 1 = training
    BY <1>1
  <2> HIDE DEF A, B
  <2>4. SubSeq(A, 1, training) = SubSeq(B, 1, training)
    <3>1. /\ SubSeq(A, 1, training) = [r \in 1..(training - 1 + 1) |-> A[1 + r - 1]]
          /\ SubSeq(B, 1, training) = [r \in 1..(training - 1 + 1) |-> B[1 + r - 1]]
      BY <2>3, SubSeqIs
    <3>2. \A r \in 1..training : 1 + r - 1 = r
      BY <2>3
    <3> QED
      BY <2>2, <2>3, <3>1, <3>2
  <2> QED
    BY <2>4 DEF Calm, A, B
<1>4. Grown(SmaGap(q), SmaGap(p), n, m)
  BY SmaGrown
<1>5. \A r \in 1..n : SmaGap(q)[r] = SmaGap(p)[r]
  BY <1>4, GrownIs
<1> HIDE DEF X, Y, A, B
<1>6. \A r \in 1..n : \A s : FilteredCell(q, training, r, s) = FilteredCell(p, training, r, s)
  BY <1>1, <1>3, <1>5 DEF FilteredCell
<1>7. \A r \in 1..n : X[r] = Y[r]
  BY <1>1, <1>2, <1>6
<1>8. X = [r \in 1..n |-> X[r]] /\ Y = [r \in 1..m |-> Y[r]]
  BY <1>2
<1>9. Grown(X, Y, n, m)
  BY <1>1, <1>7, <1>8, GrownTables
<1> QED
  BY <1>9 DEF X, Y

(* Scores across the symbols of a row. *)
LEMMA ZScoreGrown ==
  ASSUME NEW x, NEW y, NEW n, NEW m, Grown(x, y, n, m)
  PROVE  Grown(ZScore(x), ZScore(y), n, m)
<1> DEFINE X == ZScore(x)
           Y == ZScore(y)
<1>1. /\ n \in Nat /\ m \in Nat /\ n <= m /\ DOMAIN x = 1..n /\ DOMAIN y = 1..m
      /\ \A r \in 1..n : r \in 1..m /\ x[r] = y[r]
  BY GrownIs
<1>2. /\ X = [r \in 1..n |-> [s \in Symbols |-> ZScoreOf(x[r], s)]]
      /\ Y = [r \in 1..m |-> [s \in Symbols |-> ZScoreOf(y[r], s)]]
  BY <1>1, ZScoreIs
<1> HIDE DEF X, Y
<1>3. \A r \in 1..n : X[r] = Y[r]
  BY <1>1, <1>2
<1>4. X = [r \in 1..n |-> X[r]] /\ Y = [r \in 1..m |-> Y[r]]
  BY <1>2
<1>5. Grown(X, Y, n, m)
  BY <1>1, <1>3, <1>4, GrownTables
<1> QED
  BY <1>5 DEF X, Y

LEMMA StandardisedGrown ==
  ASSUME NEW q, NEW p, NEW n, NEW m, Grown(q, p, n, m), NEW f
  PROVE  Grown(Standardised(q, f), Standardised(p, f), n, m)
BY FeatureGrown, ZScoreGrown DEF Standardised

StrengthCell(row, s) == IF \E x \in Symbols : row[x] = NaN THEN NaN ELSE ZScoreOf(row, s)

LEMMA StrengthGrown ==
  ASSUME NEW x, NEW y, NEW n, NEW m, Grown(x, y, n, m)
  PROVE  Grown(StandardisedTrend(x), StandardisedTrend(y), n, m)
<1> DEFINE X == StandardisedTrend(x)
           Y == StandardisedTrend(y)
<1>1. /\ n \in Nat /\ m \in Nat /\ n <= m /\ DOMAIN x = 1..n /\ DOMAIN y = 1..m
      /\ \A r \in 1..n : r \in 1..m /\ x[r] = y[r]
  BY GrownIs
<1>2. /\ X = [r \in 1..n |-> [s \in Symbols |-> StrengthCell(x[r], s)]]
      /\ Y = [r \in 1..m |-> [s \in Symbols |-> StrengthCell(y[r], s)]]
  <2> DEFINE cell(row, s) == IF \E z \in Symbols : row[z] = NaN THEN NaN ELSE ZScoreOf(row, s)
  <2>1. \A row, s : StrengthCell(row, s) = cell(row, s)
    BY DEF StrengthCell
  <2>2. /\ X = [r \in 1..n |-> [s \in Symbols |-> cell(x[r], s)]]
        /\ Y = [r \in 1..m |-> [s \in Symbols |-> cell(y[r], s)]]
    BY <1>1, StandardisedTrendIs
  <2> HIDE DEF cell, X, Y
  <2> QED
    BY <2>1, <2>2
<1> HIDE DEF X, Y
<1>3. \A r \in 1..n : X[r] = Y[r]
  BY <1>1, <1>2
<1>4. X = [r \in 1..n |-> X[r]] /\ Y = [r \in 1..m |-> Y[r]]
  BY <1>2
<1>5. Grown(X, Y, n, m)
  BY <1>1, <1>3, <1>4, GrownTables
<1> QED
  BY <1>5 DEF X, Y

LEMMA RelativeGrown ==
  ASSUME NEW q, NEW p, NEW n, NEW m, Grown(q, p, n, m), NEW w \in Nat
  PROVE  Grown(RelativeStrength(q, w), RelativeStrength(p, w), n, m)
BY TrendGrown, StrengthGrown DEF RelativeStrength

LEMMA CrossoverGrown ==
  ASSUME NEW q, NEW p, NEW n, NEW m, Grown(q, p, n, m)
  PROVE  Grown(SmaCrossover(q), SmaCrossover(p), n, m)
BY SmaGrown, StrengthGrown DEF SmaCrossover

LEMMA MomentumGrown ==
  ASSUME NEW q, NEW p, NEW n, NEW m, Grown(q, p, n, m)
  PROVE  Grown(ResidualMomentum(q), ResidualMomentum(p), n, m)
<1> DEFINE X == ResidualMomentum(q)
           Y == ResidualMomentum(p)
           cell(a, b, c, s) == Tuning.momentum[1] * a[s] + Tuning.momentum[2] * b[s] + Tuning.momentum[3] * c[s]
           at(t, r, s) == cell(Standardised(t, "residual_1h")[r], Standardised(t, "residual_4h")[r],
                               Standardised(t, "residual_24h")[r], s)
<1>1. /\ n \in Nat /\ m \in Nat /\ n <= m /\ Len(q) = n /\ DOMAIN q = 1..n /\ Len(p) = m /\ DOMAIN p = 1..m
      /\ \A r \in 1..n : r \in 1..m
  BY GrownIs
<1>2. /\ X = [r \in 1..n |-> [s \in Symbols |-> at(q, r, s)]]
      /\ Y = [r \in 1..m |-> [s \in Symbols |-> at(p, r, s)]]
  BY <1>1, ResidualMomentumIs
<1>3. \A f : \A r \in 1..n : Standardised(q, f)[r] = Standardised(p, f)[r]
  BY StandardisedGrown, GrownIs
<1> HIDE DEF X, Y, cell
<1>4. \A r \in 1..n : \A s : at(q, r, s) = at(p, r, s)
  BY <1>3
<1> HIDE DEF at
<1>5. \A r \in 1..n : X[r] = Y[r]
  BY <1>1, <1>2, <1>4
<1>6. X = [r \in 1..n |-> X[r]] /\ Y = [r \in 1..m |-> Y[r]]
  BY <1>2
<1>7. Grown(X, Y, n, m)
  BY <1>1, <1>5, <1>6, GrownTables
<1> QED
  BY <1>7 DEF X, Y

LEMMA CarryGrown ==
  ASSUME NEW q, NEW p, NEW n, NEW m, Grown(q, p, n, m)
  PROVE  Grown(FundingCarry(q), FundingCarry(p), n, m)
<1> DEFINE X == FundingCarry(q)
           Y == FundingCarry(p)
           cell(a, b, c, s) == Tuning.carry[3] * a[s] - Tuning.carry[1] * b[s] - Tuning.carry[2] * c[s]
           at(t, r, s) == cell(Standardised(t, "residual_4h")[r], Standardised(t, "funding_current")[r],
                               Standardised(t, "funding_change")[r], s)
<1>1. /\ n \in Nat /\ m \in Nat /\ n <= m /\ Len(q) = n /\ DOMAIN q = 1..n /\ Len(p) = m /\ DOMAIN p = 1..m
      /\ \A r \in 1..n : r \in 1..m
  BY GrownIs
<1>2. /\ X = [r \in 1..n |-> [s \in Symbols |-> at(q, r, s)]]
      /\ Y = [r \in 1..m |-> [s \in Symbols |-> at(p, r, s)]]
  BY <1>1, FundingCarryIs
<1>3. \A f : \A r \in 1..n : Standardised(q, f)[r] = Standardised(p, f)[r]
  BY StandardisedGrown, GrownIs
<1> HIDE DEF X, Y, cell
<1>4. \A r \in 1..n : \A s : at(q, r, s) = at(p, r, s)
  BY <1>3
<1> HIDE DEF at
<1>5. \A r \in 1..n : X[r] = Y[r]
  BY <1>1, <1>2, <1>4
<1>6. X = [r \in 1..n |-> X[r]] /\ Y = [r \in 1..m |-> Y[r]]
  BY <1>2
<1>7. Grown(X, Y, n, m)
  BY <1>1, <1>5, <1>6, GrownTables
<1> QED
  BY <1>7 DEF X, Y

ReversionCell(t, r, s) ==
  IF DoubledMedian(t[r].feature.volatility) = 0 THEN Reversed(t, r, s)
  ELSE Quot(Reversed(t, r, s) * DoubledMedian(t[r].feature.volatility), 2 * Max({t[r].feature.volatility[s], 1}))

LEMMA ReversionGrown ==
  ASSUME NEW q, NEW p, NEW n, NEW m, Grown(q, p, n, m)
  PROVE  Grown(ResidualMeanReversion(q), ResidualMeanReversion(p), n, m)
<1> DEFINE X == ResidualMeanReversion(q)
           Y == ResidualMeanReversion(p)
<1>1. /\ n \in Nat /\ m \in Nat /\ n <= m /\ Len(q) = n /\ DOMAIN q = 1..n /\ Len(p) = m /\ DOMAIN p = 1..m
      /\ \A r \in 1..n : r \in 1..m /\ q[r] = p[r]
  BY GrownIs
<1>2. /\ X = [r \in 1..n |-> [s \in Symbols |-> ReversionCell(q, r, s)]]
      /\ Y = [r \in 1..m |-> [s \in Symbols |-> ReversionCell(p, r, s)]]
  BY <1>1, ResidualMeanReversionIs DEF ReversionCell
<1>3. \A f : \A r \in 1..n : Standardised(q, f)[r] = Standardised(p, f)[r]
  BY StandardisedGrown, GrownIs
<1>4. \A r \in 1..n : \A s : Reversed(q, r, s) = Reversed(p, r, s)
  BY <1>3 DEF Reversed
<1> HIDE DEF X, Y
<1>5. \A r \in 1..n : \A s : ReversionCell(q, r, s) = ReversionCell(p, r, s)
  BY <1>1, <1>4 DEF ReversionCell
<1>6. \A r \in 1..n : X[r] = Y[r]
  BY <1>1, <1>2, <1>5
<1>7. X = [r \in 1..n |-> X[r]] /\ Y = [r \in 1..m |-> Y[r]]
  BY <1>2
<1>8. Grown(X, Y, n, m)
  BY <1>1, <1>6, <1>7, GrownTables
<1> QED
  BY <1>8 DEF X, Y

LEMMA LinearGrown ==
  ASSUME NEW q, NEW p, NEW n, NEW m, Grown(q, p, n, m), NEW coefficients
  PROVE  Grown(LinearScore(q, coefficients), LinearScore(p, coefficients), n, m)
<1> DEFINE X == LinearScore(q, coefficients)
           Y == LinearScore(p, coefficients)
           row(t, r) == [x \in Symbols |-> Linear(t, coefficients, r, x)]
<1>1. /\ n \in Nat /\ m \in Nat /\ n <= m /\ Len(q) = n /\ DOMAIN q = 1..n /\ Len(p) = m /\ DOMAIN p = 1..m
      /\ \A r \in 1..n : r \in 1..m
  BY GrownIs
<1>2. /\ X = [r \in 1..n |-> [s \in Symbols |-> ZScoreOf(row(q, r), s)]]
      /\ Y = [r \in 1..m |-> [s \in Symbols |-> ZScoreOf(row(p, r), s)]]
  BY <1>1, LinearScoreIs
<1>3. \A f : \A r \in 1..n : Standardised(q, f)[r] = Standardised(p, f)[r]
  BY StandardisedGrown, GrownIs
<1>4. ASSUME NEW r \in 1..n, NEW s PROVE Linear(q, coefficients, r, s) = Linear(p, coefficients, r, s)
  <2>1. [i \in 1..6 |-> coefficients[i] * Standardised(q, LinearFeatures[i])[r][s]]
          = [i \in 1..6 |-> coefficients[i] * Standardised(p, LinearFeatures[i])[r][s]]
    BY <1>3
  <2> QED
    BY <2>1 DEF Linear
<1>5. \A r \in 1..n : row(q, r) = row(p, r)
  BY <1>4
<1> HIDE DEF X, Y, row
<1>6. \A r \in 1..n : X[r] = Y[r]
  BY <1>1, <1>2, <1>5
<1>7. X = [r \in 1..n |-> X[r]] /\ Y = [r \in 1..m |-> Y[r]]
  BY <1>2
<1>8. Grown(X, Y, n, m)
  BY <1>1, <1>6, <1>7, GrownTables
<1> QED
  BY <1>8 DEF X, Y

(* Every column of b begins with the column of a. *)
AllGrown(a, b, n, m) ==
  /\ n \in Nat /\ m \in Nat /\ n <= m
  /\ DOMAIN a = DOMAIN b /\ \A c \in DOMAIN a : Grown(a[c], b[c], n, m)

LEMMA CompositeGrown ==
  ASSUME NEW a, NEW b, NEW n, NEW m, AllGrown(a, b, n, m), DOMAIN a # {}
  PROVE  AllGrown(Composite(a), Composite(b), n, m)
<1> DEFINE A == Composite(a)
           B == Composite(b)
           D == DOMAIN a
<1>1. /\ n \in Nat /\ m \in Nat /\ n <= m
      /\ DOMAIN b = D /\ \A c \in D : Grown(a[c], b[c], n, m)
  BY DEF AllGrown
<1>2. /\ \A c \in D : Rows(a[c], n) /\ Rows(b[c], m)
      /\ \A c \in D : \A r \in 1..n : a[c][r] = b[c][r]
  BY <1>1 DEF Rows, Grown
<1>3. /\ DOMAIN A = D \cup {"score"} /\ \A c \in D : c # "score" => A[c] = a[c]
      /\ A["score"] = Means(a, n)
  BY ONLY <1>1, <1>2, DOMAIN a # {}, CompositeIs
<1>4. /\ DOMAIN B = D \cup {"score"} /\ \A c \in D : c # "score" => B[c] = b[c]
      /\ B["score"] = Means(b, m)
  <2>1. DOMAIN b # {} /\ \A c \in DOMAIN b : Rows(b[c], m)
    BY <1>1, <1>2
  <2>2. /\ DOMAIN B = DOMAIN b \cup {"score"} /\ \A c \in DOMAIN b : c # "score" => B[c] = b[c]
        /\ B["score"] = Means(b, m)
    BY ONLY <1>1, <2>1, CompositeIs
  <2> QED
    BY <1>1, <2>2
<1> HIDE DEF A, B
<1>5. ASSUME NEW r \in 1..n, NEW s PROVE Mean(a, r, s) = Mean(b, r, s)
  <2>1. \A c \in D : a[c][r][s] = b[c][r][s]
    BY <1>2
  <2>2. [c \in D |-> a[c][r][s]] = [c \in D |-> b[c][r][s]]
    BY <2>1
  <2>3. (\E c \in D : a[c][r][s] = NaN) <=> \E c \in D : b[c][r][s] = NaN
    BY <2>1
  <2> QED
    BY <1>1, <2>2, <2>3 DEF Mean
<1>6. \A r \in 1..n : Means(a, n)[r] = Means(b, m)[r]
  <2>1. \A r \in 1..n : r \in 1..m
    BY <1>1
  <2> QED
    BY <1>5, <2>1 DEF Means
<1>7. Means(a, n) = [r \in 1..n |-> Means(a, n)[r]] /\ Means(b, m) = [r \in 1..m |-> Means(b, m)[r]]
  BY DEF Means
<1>8. Grown(Means(a, n), Means(b, m), n, m)
  BY <1>1, <1>6, <1>7, GrownTables
<1>9. \A c \in DOMAIN A : Grown(A[c], B[c], n, m)
  BY <1>1, <1>3, <1>4, <1>8
<1>10. AllGrown(A, B, n, m)
  BY <1>1, <1>3, <1>4, <1>9 DEF AllGrown
<1> QED
  BY <1>10 DEF A, B

LEMMA SingleGrown ==
  ASSUME NEW x, NEW y, NEW n, NEW m, Grown(x, y, n, m)
  PROVE  AllGrown(Single(x), Single(y), n, m)
<1>1. n \in Nat /\ m \in Nat /\ n <= m
  BY DEF Grown
<1> QED
  BY <1>1 DEF AllGrown, Single

LEMMA TwoGrown ==
  ASSUME NEW n, NEW m, NEW a, NEW b, Grown(a, b, n, m), NEW x, NEW y, Grown(x, y, n, m)
  PROVE  AllGrown(Composite([carry |-> a, relative |-> x]), Composite([carry |-> b, relative |-> y]), n, m)
<1> DEFINE A == [carry |-> a, relative |-> x]
           B == [carry |-> b, relative |-> y]
<1>1. n \in Nat /\ m \in Nat /\ n <= m
  BY DEF Grown
<1>2. DOMAIN A = {"carry", "relative"} /\ DOMAIN B = {"carry", "relative"}
  OBVIOUS
<1>3. Grown(A["carry"], B["carry"], n, m) /\ Grown(A["relative"], B["relative"], n, m)
  OBVIOUS
<1> HIDE DEF A, B
<1>4. AllGrown(A, B, n, m)
  BY <1>1, <1>2, <1>3 DEF AllGrown
<1>5. DOMAIN A # {}
  BY <1>2
<1> QED
  BY <1>4, <1>5, CompositeGrown DEF A, B

LEMMA ThreeGrown ==
  ASSUME NEW n, NEW m, NEW a, NEW b, Grown(a, b, n, m), NEW x, NEW y, Grown(x, y, n, m), NEW v, NEW w, Grown(v, w, n, m)
  PROVE  AllGrown(Composite([carry |-> a, fast |-> x, slow |-> v]), Composite([carry |-> b, fast |-> y, slow |-> w]), n, m)
<1> DEFINE A == [carry |-> a, fast |-> x, slow |-> v]
           B == [carry |-> b, fast |-> y, slow |-> w]
<1>1. n \in Nat /\ m \in Nat /\ n <= m
  BY DEF Grown
<1>2. DOMAIN A = {"carry", "fast", "slow"} /\ DOMAIN B = {"carry", "fast", "slow"}
  OBVIOUS
<1>3. Grown(A["carry"], B["carry"], n, m) /\ Grown(A["fast"], B["fast"], n, m) /\ Grown(A["slow"], B["slow"], n, m)
  OBVIOUS
<1> HIDE DEF A, B
<1>4. AllGrown(A, B, n, m)
  BY <1>1, <1>2, <1>3 DEF AllGrown
<1>5. DOMAIN A # {}
  BY <1>2
<1> QED
  BY <1>4, <1>5, CompositeGrown DEF A, B

LEMMA CompositesGrown ==
  ASSUME NEW q, NEW p, NEW n, NEW m, Grown(q, p, n, m)
  PROVE  /\ AllGrown(CarryRelativeStrength(q), CarryRelativeStrength(p), n, m)
         /\ AllGrown(CarryMultiHorizon(q), CarryMultiHorizon(p), n, m)
         /\ AllGrown(CarryDualTrend(q), CarryDualTrend(p), n, m)
<1>1. Tuning.slow \in Nat /\ Tuning.fast \in Nat
  BY TuningAssumption
<1>2. /\ Grown(FundingCarry(q), FundingCarry(p), n, m)
      /\ Grown(RelativeStrength(q, Tuning.slow), RelativeStrength(p, Tuning.slow), n, m)
      /\ Grown(RelativeStrength(q, Tuning.fast), RelativeStrength(p, Tuning.fast), n, m)
      /\ Grown(SmaCrossover(q), SmaCrossover(p), n, m)
  BY <1>1, CarryGrown, RelativeGrown, CrossoverGrown
<1>3. AllGrown(CarryRelativeStrength(q), CarryRelativeStrength(p), n, m)
  BY <1>2, TwoGrown DEF CarryRelativeStrength
<1>4. AllGrown(CarryMultiHorizon(q), CarryMultiHorizon(p), n, m)
  BY <1>2, ThreeGrown DEF CarryMultiHorizon
<1>5. AllGrown(CarryDualTrend(q), CarryDualTrend(p), n, m)
  BY <1>2, ThreeGrown DEF CarryDualTrend
<1> QED
  BY <1>3, <1>4, <1>5

LEMMA MultiRegimeGrown ==
  ASSUME NEW q, NEW p, NEW n, NEW m, Grown(q, p, n, m)
  PROVE  AllGrown(CarryMultiRegime(q), CarryMultiRegime(p), n, m)
<1> DEFINE A == CarryMultiHorizon(q)
           B == CarryMultiHorizon(p)
           X == RegimeTrend(q)
           Y == RegimeTrend(p)
           U == CarryMultiRegime(q)
           V == CarryMultiRegime(p)
<1>1. /\ U = [c \in DOMAIN A \cup {"regime"} |-> IF c = "regime" THEN X ELSE A[c]]
      /\ V = [c \in DOMAIN B \cup {"regime"} |-> IF c = "regime" THEN Y ELSE B[c]]
  BY DEF CarryMultiRegime
<1>2. AllGrown(A, B, n, m)
  BY CompositesGrown
<1>3. Grown(X, Y, n, m)
  BY RegimeTrendGrown
<1> HIDE DEF A, B, X, Y, U, V
<1>4. AllGrown(U, V, n, m)
  BY <1>1, <1>2, <1>3 DEF AllGrown
<1> QED
  BY <1>4 DEF U, V

LEMMA ConsensusGrown ==
  ASSUME NEW q, NEW p, NEW n, NEW m, Grown(q, p, n, m), Readings(p, m)
  PROVE  AllGrown(CarryConsensusStrength(q), CarryConsensusStrength(p), n, m)
<1> DEFINE A == RelativeStrength(q, Tuning.fast)
           B == RelativeStrength(p, Tuning.fast)
           C == RelativeStrength(q, Tuning.slow)
           D == RelativeStrength(p, Tuning.slow)
           X == Consensus(q, n)
           Y == Consensus(p, m)
<1>1. /\ n \in Nat /\ m \in Nat /\ n <= m /\ Len(q) = n /\ DOMAIN q = 1..n
      /\ \A r \in 1..n : r \in 1..m /\ q[r] = p[r]
  BY GrownIs
<1>2. Readings(q, n)
  BY <1>1 DEF Readings
<1>3. /\ CarryConsensusStrength(q) = Composite([carry |-> FundingCarry(q), relative |-> X])
      /\ CarryConsensusStrength(p) = Composite([carry |-> FundingCarry(p), relative |-> Y])
  BY <1>1, <1>2, ConsensusIs
<1>4. Tuning.slow \in Nat /\ Tuning.fast \in Nat
  BY TuningAssumption
<1>5. Grown(FundingCarry(q), FundingCarry(p), n, m) /\ Grown(A, B, n, m) /\ Grown(C, D, n, m)
  BY <1>4, CarryGrown, RelativeGrown
<1>6. /\ X = [r \in 1..n |-> [s \in Symbols |-> Agreed(A[r][s], C[r][s])]]
      /\ Y = [r \in 1..m |-> [s \in Symbols |-> Agreed(B[r][s], D[r][s])]]
  BY DEF Consensus
<1> HIDE DEF A, B, C, D, X, Y
<1>7. \A r \in 1..n : A[r] = B[r] /\ C[r] = D[r]
  BY <1>5, GrownIs
<1>8. \A r \in 1..n : X[r] = Y[r]
  BY <1>1, <1>6, <1>7
<1>9. X = [r \in 1..n |-> X[r]] /\ Y = [r \in 1..m |-> Y[r]]
  BY <1>6
<1>10. Grown(X, Y, n, m)
  BY <1>1, <1>8, <1>9, GrownTables
<1> QED
  BY <1>3, <1>5, <1>10, TwoGrown

(* Sparse states: of two columns the second has more rows, and the same    *)
(* entries and exits in the rows of the first.                             *)
Longer(a, x, b, y, n, m) ==
  /\ n \in Nat /\ m \in Nat /\ n <= m /\ Len(a) = n /\ Len(b) = m
  /\ \A r \in 1..n : a[r] = b[r] /\ x[r] = y[r]

LEMMA StatesShared ==
  ASSUME NEW a, NEW x, NEW b, NEW y, NEW n, NEW m, Longer(a, x, b, y, n, m), NEW hold
  PROVE  \A r \in 1..n : SparseColumn(a, x, hold)[r] = SparseColumn(b, y, hold)[r]
<1> DEFINE A == SparseColumn(a, x, hold)
           B == SparseColumn(b, y, hold)
           P == {r \in Nat : r \in 1..n => A[r] = B[r]}
<1>0. /\ n \in Nat /\ m \in Nat /\ n <= m /\ Len(a) = n /\ Len(b) = m
      /\ \A r \in 1..n : a[r] = b[r] /\ x[r] = y[r]
  BY DEF Longer
<1>1. \A r \in 1..n : A[r] = RowAfter(a, x, hold, IF r = 1 THEN Flat ELSE A[r - 1], r)
  BY <1>0, ColumnIs
<1>2. \A r \in 1..m : B[r] = RowAfter(b, y, hold, IF r = 1 THEN Flat ELSE B[r - 1], r)
  BY <1>0, ColumnIs
<1> HIDE DEF A, B
<1>3. \A r \in 1..n : \A c : RowAfter(a, x, hold, c, r) = RowAfter(b, y, hold, c, r)
  BY <1>0 DEF RowAfter
<1>4. ASSUME NEW r \in Nat, r \in P PROVE r + 1 \in P
  <2> SUFFICES ASSUME r + 1 \in 1..n PROVE A[r + 1] = B[r + 1]
    OBVIOUS
  <2> DEFINE k == r + 1
  <2>1. k \in 1..n /\ k \in 1..m /\ k - 1 = r /\ (k # 1 => r \in 1..n)
    BY <1>0
  <2>2. k # 1 => A[r] = B[r]
    BY <1>4, <2>1
  <2> HIDE DEF k
  <2>3. A[k] = B[k]
    BY <1>1, <1>2, <1>3, <2>1, <2>2
  <2> QED
    BY <2>3 DEF k
<1>5. 0 \in P
  OBVIOUS
<1> HIDE DEF P
<1>6. \A r \in Nat : r \in P
  BY <1>4, <1>5, NumberInduction
<1> QED
  BY <1>6 DEF P, A, B

LEMMA SparseGrown ==
  ASSUME NEW a, NEW b, NEW n, NEW m, Grown(a, b, n, m), NEW hold
  PROVE  Grown(SparseMatrix(a, NoExits(a), hold), SparseMatrix(b, NoExits(b), hold), n, m)
<1> DEFINE entry(t, s) == [r \in DOMAIN t |-> t[r][s]]
           exit(t, s) == [r \in DOMAIN NoExits(t) |-> NoExits(t)[r][s]]
           column(t, s) == SparseColumn(entry(t, s), exit(t, s), hold)
           all(t) == [x \in Symbols |-> column(t, x)]
           table(t, k) == [r \in 1..k |-> [s \in Symbols |-> all(t)[s][r].value]]
           X == SparseMatrix(a, NoExits(a), hold)
           Y == SparseMatrix(b, NoExits(b), hold)
<1>1. /\ n \in Nat /\ m \in Nat /\ n <= m /\ Len(a) = n /\ DOMAIN a = 1..n /\ Len(b) = m /\ DOMAIN b = 1..m
      /\ \A r \in 1..n : r \in 1..m /\ a[r] = b[r]
  BY GrownIs
<1>2. ASSUME NEW t, NEW k \in Nat, Len(t) = k
      PROVE  SparseMatrix(t, NoExits(t), hold) = table(t, k)
  <2>1. SparseMatrix(t, NoExits(t), hold) = Evaluated(table(t, k))
    BY <1>2 DEF SparseMatrix, Matrix
  <2>2. table(t, k) = [r \in 1..k |-> table(t, k)[r]]
    OBVIOUS
  <2> HIDE DEF table
  <2> QED
    BY <2>1, <2>2, EvaluatedIs
<1>3. ASSUME NEW t, NEW k \in Nat, Len(t) = k
      PROVE  NoExits(t) = [r \in 1..k |-> [s \in Symbols |-> FALSE]]
  <2> DEFINE no == [r \in 1..k |-> [s \in Symbols |-> FALSE]]
  <2>1. NoExits(t) = Evaluated(no)
    BY <1>3 DEF NoExits, Matrix
  <2>2. no = [r \in 1..k |-> no[r]]
    OBVIOUS
  <2> HIDE DEF no
  <2>3. NoExits(t) = no
    BY <2>1, <2>2, EvaluatedIs
  <2> QED
    BY <2>3 DEF no
<1>4. ASSUME NEW s \in Symbols, NEW r \in 1..n PROVE column(a, s)[r] = column(b, s)[r]
  <2> DEFINE E == entry(a, s)
             F == entry(b, s)
             U == exit(a, s)
             V == exit(b, s)
  <2>1. E = [k \in 1..n |-> a[k][s]] /\ F = [k \in 1..m |-> b[k][s]]
    BY <1>1
  <2>2. U = [k \in 1..n |-> FALSE] /\ V = [k \in 1..m |-> FALSE]
    <3>1. /\ NoExits(a) = [k \in 1..n |-> [x \in Symbols |-> FALSE]]
          /\ NoExits(b) = [k \in 1..m |-> [x \in Symbols |-> FALSE]]
      <4> HIDE DEF U, V
      <4> QED
        BY <1>1, <1>3
    <3> QED
      BY <3>1
  <2> HIDE DEF E, F, U, V
  <2>3. Len(E) = n /\ Len(F) = m
    BY <1>1, <2>1
  <2>4. \A k \in 1..n : E[k] = F[k] /\ U[k] = V[k]
    BY <1>1, <2>1, <2>2
  <2>5. \A k \in 1..n : SparseColumn(E, U, hold)[k] = SparseColumn(F, V, hold)[k]
    <3>1. Longer(E, U, F, V, n, m)
      BY <1>1, <2>3, <2>4 DEF Longer
    <3> QED
      BY <3>1, StatesShared
  <2> QED
    BY <2>5 DEF E, F, U, V
<1> HIDE DEF column
<1>5. X = table(a, n) /\ Y = table(b, m)
  <2> HIDE DEF table
  <2> QED
    BY <1>1, <1>2
<1> HIDE DEF X, Y
<1>6. \A r \in 1..n : table(a, n)[r] = table(b, m)[r]
  BY <1>1, <1>4
<1>7. table(a, n) = [r \in 1..n |-> table(a, n)[r]] /\ table(b, m) = [r \in 1..m |-> table(b, m)[r]]
  OBVIOUS
<1> HIDE DEF table
<1>8. Grown(X, Y, n, m)
  BY <1>1, <1>5, <1>6, <1>7, GrownTables
<1> QED
  BY <1>8 DEF X, Y

(* A fold that is cut after n of its m test rows, where the panel q ends. *)
Shortened(g, f, n, m) ==
  /\ n \in Nat \ {0} /\ m \in Nat /\ n <= m
  /\ f.trainEnd \in Nat \ {0} /\ f.testStart \in Nat /\ f.trainEnd + 1 < f.testStart
  /\ f.testEnd = f.testStart + m - 1
  /\ g.trainEnd = f.trainEnd /\ g.testStart = f.testStart
  /\ g.testEnd = f.testStart + n - 1

LEMMA ShortenedRows ==
  ASSUME NEW g, NEW f, NEW n, NEW m, Shortened(g, f, n, m), NEW q, NEW p,
         \A r \in 1..g.testEnd : q[r] = p[r]
  PROVE  /\ g.testEnd - g.testStart + 1 = n /\ f.testEnd - f.testStart + 1 = m
         /\ n \in Nat /\ m \in Nat /\ n <= m
         /\ f.testStart \in Nat \ {0} /\ g.testEnd \in Nat /\ f.testEnd \in Nat
         /\ \A r \in 1..n : r \in 1..m
         /\ f.trainEnd \in 1..g.testEnd
         /\ \A r \in 1..n : /\ f.testStart + r - 1 \in 1..g.testEnd
                            /\ f.testStart + r - 2 \in 1..g.testEnd
         /\ \A r \in 1..n : /\ q[f.testStart + r - 1] = p[f.testStart + r - 1]
                            /\ q[f.testStart + r - 2] = p[f.testStart + r - 2]
<1>1. /\ n \in Nat \ {0} /\ m \in Nat /\ n <= m
      /\ f.trainEnd \in Nat \ {0} /\ f.testStart \in Nat /\ f.trainEnd + 1 < f.testStart
      /\ f.testEnd = f.testStart + m - 1
      /\ g.trainEnd = f.trainEnd /\ g.testStart = f.testStart
      /\ g.testEnd = f.testStart + n - 1
  BY DEF Shortened
<1>2. /\ g.testEnd - g.testStart + 1 = n /\ f.testEnd - f.testStart + 1 = m
      /\ f.testStart \in Nat \ {0} /\ g.testEnd \in Nat /\ f.testEnd \in Nat
  BY <1>1
<1>3. f.trainEnd \in 1..g.testEnd
  BY <1>1
<1>4. \A r \in 1..n : /\ f.testStart + r - 1 \in 1..g.testEnd
                      /\ f.testStart + r - 2 \in 1..g.testEnd
                      /\ r \in 1..m
  BY <1>1
<1> QED
  BY <1>1, <1>2, <1>3, <1>4

LEMMA AbsorptionGrown ==
  ASSUME NEW g, NEW f, NEW n, NEW m, Shortened(g, f, n, m), NEW size, NEW q, NEW p, Grown(q, p, g.testEnd, size)
  PROVE  Grown(FlowAbsorption(q, g), FlowAbsorption(p, f), n, m)
<1> DEFINE X == AbsorptionEntries(q, g.testStart, n)
           Y == AbsorptionEntries(p, f.testStart, m)
<1>1. /\ g.testEnd - g.testStart + 1 = n /\ f.testEnd - f.testStart + 1 = m
      /\ n \in Nat /\ m \in Nat /\ n <= m /\ g.testStart = f.testStart
      /\ \A r \in 1..n : r \in 1..m /\ q[f.testStart + r - 1] = p[f.testStart + r - 1]
  <2>1. g.testStart = f.testStart /\ g.trainEnd = f.trainEnd
    BY DEF Shortened
  <2>2. \A r \in 1..g.testEnd : q[r] = p[r]
    BY GrownIs
  <2> QED
    BY <2>1, <2>2, ShortenedRows
<1>2. /\ FlowAbsorption(q, g) = SparseMatrix(X, NoExits(X), Tuning.hold)
      /\ FlowAbsorption(p, f) = SparseMatrix(Y, NoExits(Y), Tuning.hold)
  BY <1>1, AbsorptionIsSparse
<1>3. \A r \in 1..n : X[r] = Y[r]
  BY <1>1 DEF AbsorptionEntries
<1>4. X = [r \in 1..n |-> X[r]] /\ Y = [r \in 1..m |-> Y[r]]
  BY DEF AbsorptionEntries
<1> HIDE DEF X, Y
<1>5. Grown(X, Y, n, m)
  BY <1>1, <1>3, <1>4, GrownTables
<1> QED
  BY <1>2, <1>5, SparseGrown

LEMMA CompressedGrown ==
  ASSUME NEW g, NEW f, NEW n, NEW m, Shortened(g, f, n, m), NEW size, NEW q, NEW p, Grown(q, p, g.testEnd, size)
  PROVE  Grown(CompressionBreakout(q, g), CompressionBreakout(p, f), n, m)
<1> DEFINE X == CompressionEntries(q, g.trainEnd, g.testStart, n)
           Y == CompressionEntries(p, f.trainEnd, f.testStart, m)
<1>1. /\ g.testEnd - g.testStart + 1 = n /\ f.testEnd - f.testStart + 1 = m
      /\ n \in Nat /\ m \in Nat /\ n <= m /\ g.testStart = f.testStart /\ g.trainEnd = f.trainEnd
      /\ \A r \in 1..n : /\ r \in 1..m
                         /\ q[f.testStart + r - 1] = p[f.testStart + r - 1]
                         /\ q[f.testStart + r - 2] = p[f.testStart + r - 2]
  <2>1. g.testStart = f.testStart /\ g.trainEnd = f.trainEnd
    BY DEF Shortened
  <2>2. \A r \in 1..g.testEnd : q[r] = p[r]
    BY GrownIs
  <2> QED
    BY <2>1, <2>2, ShortenedRows
<1>2. /\ CompressionBreakout(q, g) = SparseMatrix(X, NoExits(X), Tuning.hold)
      /\ CompressionBreakout(p, f) = SparseMatrix(Y, NoExits(Y), Tuning.hold)
  BY <1>1, BreakoutIsSparse
<1>3. ASSUME NEW s PROVE CompressionThreshold(q, f.trainEnd, s) = CompressionThreshold(p, f.trainEnd, s)
  <2>1. f.trainEnd \in 1..g.testEnd /\ g.testEnd \in Nat
    <3>1. \A r \in 1..g.testEnd : q[r] = p[r]
      BY GrownIs
    <3> QED
      BY <3>1, ShortenedRows
  <2>2. \A r \in 1..f.trainEnd : q[r] = p[r]
    <3>1. \A r \in 1..f.trainEnd : r \in 1..g.testEnd
      BY <2>1
    <3> QED
      BY <3>1, GrownIs
  <2>3. [r \in 1..f.trainEnd |-> q[r].feature.compression[s]] = [r \in 1..f.trainEnd |-> p[r].feature.compression[s]]
    BY <2>2
  <2> QED
    BY <2>3 DEF CompressionThreshold
<1>4. \A r \in 1..n : X[r] = Y[r]
  BY <1>1, <1>3 DEF CompressionEntries
<1>5. X = [r \in 1..n |-> X[r]] /\ Y = [r \in 1..m |-> Y[r]]
  BY DEF CompressionEntries
<1> HIDE DEF X, Y
<1>6. Grown(X, Y, n, m)
  BY <1>1, <1>4, <1>5, GrownTables
<1> QED
  BY <1>2, <1>6, SparseGrown

LEMMA TestRowsGrown ==
  ASSUME NEW g, NEW f, NEW n, NEW m, Shortened(g, f, n, m), NEW x, NEW y, Shared(x, y, g.testEnd)
  PROVE  Grown(TestRows(x, g), TestRows(y, f), n, m)
<1> DEFINE X == TestRows(x, g)
           Y == TestRows(y, f)
           start == f.testStart
<1>1. /\ n \in Nat \ {0} /\ m \in Nat /\ n <= m
      /\ start \in Nat \ {0} /\ g.testStart = start /\ f.testStart = start
      /\ g.testEnd = start + n - 1 /\ f.testEnd = start + m - 1
  BY DEF Shortened
<1>2. /\ g.testEnd \in Nat /\ start <= g.testEnd /\ g.testEnd - start + 1 = n
      /\ f.testEnd \in Nat /\ start <= f.testEnd /\ f.testEnd - start + 1 = m
  <2> HIDE DEF start
  <2> QED
    BY <1>1
<1> HIDE DEF start
<1>3. X = [r \in 1..n |-> x[start + r - 1]]
  <2>1. SubSeq(x, start, g.testEnd) = [r \in 1..(g.testEnd - start + 1) |-> x[start + r - 1]]
    BY ONLY <1>1, <1>2, SubSeqIs
  <2> QED
    BY <1>1, <1>2, <2>1 DEF TestRows
<1>4. Y = [r \in 1..m |-> y[start + r - 1]]
  <2>1. SubSeq(y, start, f.testEnd) = [r \in 1..(f.testEnd - start + 1) |-> y[start + r - 1]]
    BY ONLY <1>1, <1>2, SubSeqIs
  <2> QED
    BY <1>1, <1>2, <2>1 DEF TestRows
<1> HIDE DEF X, Y
<1>5. \A r \in 1..n : r \in 1..m /\ start + r - 1 \in 1..g.testEnd
  BY <1>1
<1>6. \A r \in 1..g.testEnd : x[r] = y[r]
  BY DEF Shared
<1>7. \A r \in 1..n : X[r] = Y[r]
  BY <1>3, <1>4, <1>5, <1>6
<1>8. X = [r \in 1..n |-> X[r]] /\ Y = [r \in 1..m |-> Y[r]]
  BY <1>3, <1>4
<1>9. Grown(X, Y, n, m)
  BY <1>1, <1>7, <1>8, GrownTables
<1> QED
  BY <1>9 DEF X, Y

LEMMA FlowGrown ==
  ASSUME NEW g, NEW f, NEW n, NEW m, Shortened(g, f, n, m), NEW size, NEW q, NEW p, Grown(q, p, g.testEnd, size),
         \A r \in 1..m : \A s \in Symbols : QuarterHourFlow(p, f)[r][s] # NaN
  PROVE  Grown(QuarterHourFlow(q, g), QuarterHourFlow(p, f), n, m)
<1> DEFINE A == TestRows(FlowSums(q), g)
           B == TestRows(FlowSums(p), f)
           X == FlowEntries(A, n)
           Y == FlowEntries(B, m)
           U == QuarterHourFlow(q, g)
           V == QuarterHourFlow(p, f)
<1>1. Shared(FlowSums(q), FlowSums(p), g.testEnd)
  <2>1. Tuning.aggregation \in Int
    BY TuningAssumption
  <2>2. Shared(FeatureMatrix(q, "quarter_z"), FeatureMatrix(p, "quarter_z"), g.testEnd)
    BY FeatureGrown, GrownIs
  <2> QED
    BY <2>1, <2>2, SumShared DEF FlowSums
<1>2. Grown(A, B, n, m)
  BY <1>1, TestRowsGrown
<1>3. /\ g.testEnd - g.testStart + 1 = n /\ f.testEnd - f.testStart + 1 = m
      /\ n \in Nat /\ m \in Nat /\ n <= m /\ g.testStart \in Nat \ {0} /\ f.testStart \in Nat \ {0}
      /\ g.testEnd \in Nat /\ f.testEnd \in Nat
      /\ \A r \in 1..n : r \in 1..m
  <2>1. g.testStart = f.testStart
    BY DEF Shortened
  <2>2. \A r \in 1..g.testEnd : q[r] = p[r]
    BY GrownIs
  <2> QED
    BY <2>1, <2>2, ShortenedRows
<1>4. /\ DOMAIN X = 1..n
      /\ U = IF \E r \in DOMAIN X : \E s \in Symbols : X[r][s] = NaN THEN X
             ELSE SparseMatrix(X, NoExits(X), Tuning.hold)
  <2> DEFINE e == X
  <2>1. e = FlowEntries(TestRows(FlowSums(q), g), n)
    OBVIOUS
  <2> HIDE DEF e, U
  <2>2. /\ Rows(e, n)
        /\ QuarterHourFlow(q, g) = IF \E r \in DOMAIN e : \E s \in Symbols : e[r][s] = NaN THEN e
                                   ELSE SparseMatrix(e, NoExits(e), Tuning.hold)
    BY <1>3, <2>1, FlowIsSparse
  <2>3. /\ DOMAIN e = 1..n
        /\ U = IF \E r \in DOMAIN e : \E s \in Symbols : e[r][s] = NaN THEN e
               ELSE SparseMatrix(e, NoExits(e), Tuning.hold)
    BY ONLY <2>2 DEF Rows, U
  <2> QED
    BY ONLY <2>3 DEF e
<1>5. /\ DOMAIN Y = 1..m
      /\ V = IF \E r \in DOMAIN Y : \E s \in Symbols : Y[r][s] = NaN THEN Y
             ELSE SparseMatrix(Y, NoExits(Y), Tuning.hold)
  <2> DEFINE e == Y
  <2>1. e = FlowEntries(TestRows(FlowSums(p), f), m)
    OBVIOUS
  <2> HIDE DEF e, V
  <2>2. /\ Rows(e, m)
        /\ QuarterHourFlow(p, f) = IF \E r \in DOMAIN e : \E s \in Symbols : e[r][s] = NaN THEN e
                                   ELSE SparseMatrix(e, NoExits(e), Tuning.hold)
    BY <1>3, <2>1, FlowIsSparse
  <2>3. /\ DOMAIN e = 1..m
        /\ V = IF \E r \in DOMAIN e : \E s \in Symbols : e[r][s] = NaN THEN e
               ELSE SparseMatrix(e, NoExits(e), Tuning.hold)
    BY ONLY <2>2 DEF Rows, V
  <2> QED
    BY ONLY <2>3 DEF e
<1>6. \A r \in 1..m : \A s \in Symbols : V[r][s] # NaN
  OBVIOUS
<1>7. X = [r \in 1..n |-> X[r]] /\ Y = [r \in 1..m |-> Y[r]]
  BY DEF FlowEntries
<1>8. \A r \in 1..n : X[r] = Y[r]
  <2> HIDE DEF A, B
  <2>1. \A r \in 1..n : A[r] = B[r]
    BY <1>2, GrownIs
  <2> QED
    BY <1>3, <2>1 DEF FlowEntries
<1> HIDE DEF A, B, X, Y, U, V
<1>9. ~ \E r \in DOMAIN Y : \E s \in Symbols : Y[r][s] = NaN
  BY <1>5, <1>6
<1>10. ~ \E r \in DOMAIN X : \E s \in Symbols : X[r][s] = NaN
  BY <1>3, <1>4, <1>5, <1>8, <1>9
<1>11. Grown(X, Y, n, m)
  BY <1>3, <1>7, <1>8, GrownTables
<1>12. U = SparseMatrix(X, NoExits(X), Tuning.hold) /\ V = SparseMatrix(Y, NoExits(Y), Tuning.hold)
  BY <1>4, <1>5, <1>9, <1>10
<1>13. Grown(U, V, n, m)
  BY <1>11, <1>12, SparseGrown
<1> QED
  BY <1>13 DEF U, V

LEMMA PairsGrown ==
  ASSUME NEW g, NEW f, NEW n, NEW m, Shortened(g, f, n, m), NEW size, NEW q, NEW p, Grown(q, p, g.testEnd, size),
         NEW models
  PROVE  /\ Grown(PairSpreadReversion(q, g, models).score, PairSpreadReversion(p, f, models).score, n, m)
         /\ DOMAIN PairSpreadReversion(q, g, models) = {"score", "pairs"}
<1> DEFINE start == f.testStart
           X == PairScores(q, start, models, n)
           Y == PairScores(p, start, models, m)
<1>1. /\ g.testEnd - g.testStart + 1 = n /\ f.testEnd - f.testStart + 1 = m
      /\ n \in Nat /\ m \in Nat /\ n <= m /\ g.testStart = start
      /\ \A r \in 1..n : r \in 1..m /\ q[start + r - 1] = p[start + r - 1]
  <2>1. g.testStart = f.testStart
    BY DEF Shortened
  <2>2. \A r \in 1..g.testEnd : q[r] = p[r]
    BY GrownIs
  <2> QED
    BY <2>1, <2>2, ShortenedRows
<1>2. /\ PairSpreadReversion(q, g, models).score = X
      /\ PairSpreadReversion(p, f, models).score = Y
      /\ DOMAIN PairSpreadReversion(q, g, models) = {"score", "pairs"}
  BY <1>1, PairScoreIs
<1> HIDE DEF start
<1>3. ASSUME NEW alt, NEW model, NEW r \in 1..n
      PROVE  PairColumn(q, start, alt, model, n)[r] = PairColumn(p, start, alt, model, m)[r]
  <2> DEFINE a == [k \in 1..n |-> PairEntry(q, start, alt, model, k)]
             x == [k \in 1..n |-> PairExit(q, start, alt, model, k)]
             b == [k \in 1..m |-> PairEntry(p, start, alt, model, k)]
             y == [k \in 1..m |-> PairExit(p, start, alt, model, k)]
  <2>1. \A k \in 1..n : PairSpread(q, start, alt, model, k) = PairSpread(p, start, alt, model, k)
    BY <1>1 DEF PairSpread
  <2>2. \A k \in 1..n : /\ PairEntry(q, start, alt, model, k) = PairEntry(p, start, alt, model, k)
                        /\ PairExit(q, start, alt, model, k) = PairExit(p, start, alt, model, k)
    BY <2>1 DEF PairEntry, PairExit
  <2>3. \A k \in 1..n : a[k] = b[k] /\ x[k] = y[k]
    BY <1>1, <2>2
  <2>4. Len(a) = n /\ Len(b) = m
    BY <1>1
  <2>5. /\ PairColumn(q, start, alt, model, n) = SparseColumn(a, x, Tuning.maxHold)
        /\ PairColumn(p, start, alt, model, m) = SparseColumn(b, y, Tuning.maxHold)
    BY DEF PairColumn
  <2> HIDE DEF a, b, x, y
  <2>6. Longer(a, x, b, y, n, m)
    BY <1>1, <2>3, <2>4 DEF Longer
  <2> QED
    BY <2>5, <2>6, StatesShared
<1>4. ASSUME NEW r \in 1..n, NEW s PROVE Hedges(q, start, models, n, r, s) = Hedges(p, start, models, m, r, s)
  <2>1. \A alt \in Alts : PairValue(q, start, alt, models, n, r) = PairValue(p, start, alt, models, m, r)
    BY <1>3 DEF PairValue
  <2>2. [alt \in Alts |-> Hedged(PairValue(q, start, alt, models, n, r), models[alt].beta, alt, s)]
          = [alt \in Alts |-> Hedged(PairValue(p, start, alt, models, m, r), models[alt].beta, alt, s)]
    BY <2>1
  <2> QED
    BY <2>2 DEF Hedges
<1>5. \A r \in 1..n : X[r] = Y[r]
  BY <1>1, <1>4 DEF PairScores
<1>6. X = [r \in 1..n |-> X[r]] /\ Y = [r \in 1..m |-> Y[r]]
  BY DEF PairScores
<1> HIDE DEF X, Y
<1>7. Grown(X, Y, n, m)
  BY <1>1, <1>5, <1>6, GrownTables
<1> QED
  BY <1>2, <1>7

(* The columns of a continue those of b, which have n of its m rows. *)
Continued(a, b, n, m) == \A c \in Columns(a) : Grown(a[c], b[c], n, m)

LEMMA SlicedContinues ==
  ASSUME NEW g, NEW f, NEW n, NEW m, Shortened(g, f, n, m), NEW size, NEW a, NEW b, AllGrown(a, b, g.testEnd, size)
  PROVE  Continued([c \in DOMAIN a |-> TestRows(a[c], g)], [c \in DOMAIN b |-> TestRows(b[c], f)], n, m)
<1> DEFINE A == [c \in DOMAIN a |-> TestRows(a[c], g)]
           B == [c \in DOMAIN b |-> TestRows(b[c], f)]
<1>1. DOMAIN a = DOMAIN b /\ \A c \in DOMAIN a : Grown(a[c], b[c], g.testEnd, size)
  BY DEF AllGrown
<1>2. ASSUME NEW c \in DOMAIN a PROVE Grown(A[c], B[c], n, m)
  <2>1. Shared(a[c], b[c], g.testEnd)
    BY <1>1, GrownIs
  <2>2. Grown(TestRows(a[c], g), TestRows(b[c], f), n, m)
    BY <2>1, TestRowsGrown
  <2>3. A[c] = TestRows(a[c], g) /\ B[c] = TestRows(b[c], f)
    BY <1>1
  <2> QED
    BY <2>2, <2>3
<1>3. DOMAIN A = DOMAIN a
  OBVIOUS
<1> HIDE DEF A, B
<1>4. Continued(A, B, n, m)
  BY <1>2, <1>3 DEF Continued, Columns
<1> QED
  BY <1>4 DEF A, B

LEMMA SingleContinues ==
  ASSUME NEW n, NEW m, NEW x, NEW y, Grown(x, y, n, m)
  PROVE  Continued(Single(x), Single(y), n, m)
BY DEF Continued, Columns, Single

LEMMA SingleHasValues ==
  ASSUME NEW x, NEW n, DOMAIN x = 1..n, ~HistoryMissing(Single(x))
  PROVE  \A r \in 1..n : \A s \in Symbols : x[r][s] # NaN
<1> DEFINE columns == Single(x)
<1> SUFFICES ASSUME NEW r \in 1..n, NEW s \in Symbols, x[r][s] = NaN
             PROVE  HistoryMissing(columns)
  OBVIOUS
<1>1. columns["score"] = x /\ "score" \in DOMAIN columns \ {"pairs"}
  BY DEF Single
<1> HIDE DEF columns
<1> DEFINE cell == <<"score", r, s>>
<1>2. cell \in {"score"} \X (DOMAIN columns["score"]) \X Symbols
  BY <1>1
<1>3. columns[cell[1]][cell[2]][cell[3]] = NaN
  BY <1>1
<1> HIDE DEF cell
<1>4. cell \in UNION {{c} \X (DOMAIN columns[c]) \X Symbols : c \in DOMAIN columns \ {"pairs"}}
  BY <1>1, <1>2
<1> QED
  BY <1>3, <1>4 DEF HistoryMissing

LEMMA FlowRowsAre ==
  ASSUME NEW p, NEW f, NEW m \in Nat, f.testEnd - f.testStart + 1 = m, f.testStart \in Nat \ {0}, f.testEnd \in Nat
  PROVE  DOMAIN QuarterHourFlow(p, f) = 1..m
<1> DEFINE e == FlowEntries(TestRows(FlowSums(p), f), m)
<1>1. e = FlowEntries(TestRows(FlowSums(p), f), m)
  OBVIOUS
<1> HIDE DEF e
<1>2. /\ Rows(e, m)
      /\ QuarterHourFlow(p, f) = IF \E r \in DOMAIN e : \E s \in Symbols : e[r][s] = NaN THEN e
                                 ELSE SparseMatrix(e, NoExits(e), Tuning.hold)
  BY <1>1, FlowIsSparse
<1>3. DOMAIN e = 1..m /\ Len(e) = m
  BY <1>2 DEF Rows
<1>4. Grown(e, e, m, m)
  <2>1. e = [r \in 1..m |-> e[r]]
    BY <1>1 DEF FlowEntries
  <2> QED
    BY <1>3, <2>1 DEF Grown
<1>5. DOMAIN SparseMatrix(e, NoExits(e), Tuning.hold) = 1..m
  BY <1>4, SparseGrown, GrownIs
<1> QED
  BY <1>2, <1>3, <1>5

(* Scoring the rows up to a test row gives the scores of a whole fold up to *)
(* that row, whatever the strategy.                                         *)
LEMMA ScoresContinue ==
  ASSUME NEW strategy \in StrategyNames, NEW fitted, NEW g, NEW f, NEW n, NEW m, Shortened(g, f, n, m),
         NEW size, NEW q, NEW p, Grown(q, p, g.testEnd, size), Readings(p, size),
         ~HistoryMissing(ScorePanel(strategy, p, f, fitted))
  PROVE  Continued(ScorePanel(strategy, q, g, fitted), ScorePanel(strategy, p, f, fitted), n, m)
<1> DEFINE k == g.testEnd
           A == ScorePanel(strategy, q, g, fitted)
           B == ScorePanel(strategy, p, f, fitted)
<1> SUFFICES Continued(A, B, n, m)
  OBVIOUS
<1>0. /\ Tuning.slow \in Nat /\ f.trainEnd \in 1..k /\ g.trainEnd = f.trainEnd /\ m \in Nat /\ f.testEnd \in Nat
      /\ f.testEnd - f.testStart + 1 = m /\ f.testStart \in Nat \ {0}
  <2>1. Tuning.slow \in Nat /\ g.trainEnd = f.trainEnd
    BY TuningAssumption DEF Shortened
  <2>2. \A r \in 1..g.testEnd : q[r] = p[r]
    BY GrownIs
  <2> QED
    BY <2>1, <2>2, ShortenedRows
<1>1. CASE strategy = "residual_momentum"
  <2> DEFINE x == ResidualMomentum(q)
             y == ResidualMomentum(p)
  <2>1. /\ A = [c \in DOMAIN Single(x) |-> TestRows(Single(x)[c], g)]
        /\ B = [c \in DOMAIN Single(y) |-> TestRows(Single(y)[c], f)]
    BY <1>0, <1>1 DEF ScorePanel
  <2>2. Grown(x, y, k, size)
    BY MomentumGrown
  <2> HIDE DEF x, y, A, B
  <2> QED
    BY <2>1, <2>2, SingleGrown, SlicedContinues
<1>2. CASE strategy = "residual_mean_reversion"
  <2> DEFINE x == ResidualMeanReversion(q)
             y == ResidualMeanReversion(p)
  <2>1. /\ A = [c \in DOMAIN Single(x) |-> TestRows(Single(x)[c], g)]
        /\ B = [c \in DOMAIN Single(y) |-> TestRows(Single(y)[c], f)]
    BY <1>0, <1>2 DEF ScorePanel
  <2>2. Grown(x, y, k, size)
    BY ReversionGrown
  <2> HIDE DEF x, y, A, B
  <2> QED
    BY <2>1, <2>2, SingleGrown, SlicedContinues
<1>3. CASE strategy = "funding_carry"
  <2> DEFINE x == FundingCarry(q)
             y == FundingCarry(p)
  <2>1. /\ A = [c \in DOMAIN Single(x) |-> TestRows(Single(x)[c], g)]
        /\ B = [c \in DOMAIN Single(y) |-> TestRows(Single(y)[c], f)]
    BY <1>0, <1>3 DEF ScorePanel
  <2>2. Grown(x, y, k, size)
    BY CarryGrown
  <2> HIDE DEF x, y, A, B
  <2> QED
    BY <2>1, <2>2, SingleGrown, SlicedContinues
<1>4. CASE strategy = "relative_strength"
  <2> DEFINE x == RelativeStrength(q, Tuning.slow)
             y == RelativeStrength(p, Tuning.slow)
  <2>1. /\ A = [c \in DOMAIN Single(x) |-> TestRows(Single(x)[c], g)]
        /\ B = [c \in DOMAIN Single(y) |-> TestRows(Single(y)[c], f)]
    BY <1>0, <1>4 DEF ScorePanel
  <2>2. Grown(x, y, k, size)
    BY <1>0, RelativeGrown
  <2> HIDE DEF x, y, A, B
  <2> QED
    BY <2>1, <2>2, SingleGrown, SlicedContinues
<1>5. CASE strategy = "linear_cross_sectional"
  <2> DEFINE x == LinearScore(q, fitted)
             y == LinearScore(p, fitted)
  <2>1. /\ A = [c \in DOMAIN Single(x) |-> TestRows(Single(x)[c], g)]
        /\ B = [c \in DOMAIN Single(y) |-> TestRows(Single(y)[c], f)]
    BY <1>0, <1>5 DEF ScorePanel
  <2>2. Grown(x, y, k, size)
    BY LinearGrown
  <2> HIDE DEF x, y, A, B
  <2> QED
    BY <2>1, <2>2, SingleGrown, SlicedContinues
<1>6. CASE strategy = "sma_crossover"
  <2> DEFINE x == SmaCrossover(q)
             y == SmaCrossover(p)
  <2>1. /\ A = [c \in DOMAIN Single(x) |-> TestRows(Single(x)[c], g)]
        /\ B = [c \in DOMAIN Single(y) |-> TestRows(Single(y)[c], f)]
    BY <1>0, <1>6 DEF ScorePanel
  <2>2. Grown(x, y, k, size)
    BY CrossoverGrown
  <2> HIDE DEF x, y, A, B
  <2> QED
    BY <2>1, <2>2, SingleGrown, SlicedContinues
<1>7. CASE strategy = "sma_trend_strength"
  <2> DEFINE x == SmaGap(q)
             y == SmaGap(p)
  <2>1. /\ A = [c \in DOMAIN Single(x) |-> TestRows(Single(x)[c], g)]
        /\ B = [c \in DOMAIN Single(y) |-> TestRows(Single(y)[c], f)]
    BY <1>0, <1>7 DEF ScorePanel
  <2>2. Grown(x, y, k, size)
    BY SmaGrown
  <2> HIDE DEF x, y, A, B
  <2> QED
    BY <2>1, <2>2, SingleGrown, SlicedContinues
<1>8. CASE strategy = "volatility_filtered_sma"
  <2> DEFINE x == FilteredSma(q, f.trainEnd)
             y == FilteredSma(p, f.trainEnd)
  <2>1. /\ A = [c \in DOMAIN Single(x) |-> TestRows(Single(x)[c], g)]
        /\ B = [c \in DOMAIN Single(y) |-> TestRows(Single(y)[c], f)]
    BY <1>0, <1>8 DEF ScorePanel
  <2>2. Grown(x, y, k, size)
    BY <1>0, FilteredGrown
  <2> HIDE DEF x, y, A, B
  <2> QED
    BY <2>1, <2>2, SingleGrown, SlicedContinues
<1>9. CASE strategy = "donchian_breakout"
  <2> DEFINE x == Breakout(q)
             y == Breakout(p)
  <2>1. /\ A = [c \in DOMAIN Single(x) |-> TestRows(Single(x)[c], g)]
        /\ B = [c \in DOMAIN Single(y) |-> TestRows(Single(y)[c], f)]
    BY <1>0, <1>9 DEF ScorePanel
  <2>2. Grown(x, y, k, size)
    BY BreakoutGrown
  <2> HIDE DEF x, y, A, B
  <2> QED
    BY <2>1, <2>2, SingleGrown, SlicedContinues
<1>10. CASE strategy = "market_regime_trend"
  <2> DEFINE x == RegimeTrend(q)
             y == RegimeTrend(p)
  <2>1. /\ A = [c \in DOMAIN Single(x) |-> TestRows(Single(x)[c], g)]
        /\ B = [c \in DOMAIN Single(y) |-> TestRows(Single(y)[c], f)]
    BY <1>0, <1>10 DEF ScorePanel
  <2>2. Grown(x, y, k, size)
    BY RegimeTrendGrown
  <2> HIDE DEF x, y, A, B
  <2> QED
    BY <2>1, <2>2, SingleGrown, SlicedContinues
<1>11. CASE strategy = "multi_horizon_trend"
  <2> DEFINE x == HorizonVotes(q)
             y == HorizonVotes(p)
  <2>1. /\ A = [c \in DOMAIN Single(x) |-> TestRows(Single(x)[c], g)]
        /\ B = [c \in DOMAIN Single(y) |-> TestRows(Single(y)[c], f)]
    BY <1>0, <1>11 DEF ScorePanel
  <2>2. Grown(x, y, k, size)
    BY VotesGrown
  <2> HIDE DEF x, y, A, B
  <2> QED
    BY <2>1, <2>2, SingleGrown, SlicedContinues
<1>12. CASE strategy = "carry_relative_strength"
  <2> DEFINE x == CarryRelativeStrength(q)
             y == CarryRelativeStrength(p)
  <2>1. /\ A = [c \in DOMAIN x |-> TestRows(x[c], g)]
        /\ B = [c \in DOMAIN y |-> TestRows(y[c], f)]
    BY <1>12 DEF ScorePanel
  <2>2. AllGrown(x, y, k, size)
    BY CompositesGrown
  <2> HIDE DEF x, y, A, B
  <2> QED
    BY <2>1, <2>2, SlicedContinues
<1>13. CASE strategy = "carry_consensus_strength"
  <2> DEFINE x == CarryConsensusStrength(q)
             y == CarryConsensusStrength(p)
  <2>1. /\ A = [c \in DOMAIN x |-> TestRows(x[c], g)]
        /\ B = [c \in DOMAIN y |-> TestRows(y[c], f)]
    BY <1>13 DEF ScorePanel
  <2>2. AllGrown(x, y, k, size)
    BY ConsensusGrown
  <2> HIDE DEF x, y, A, B
  <2> QED
    BY <2>1, <2>2, SlicedContinues
<1>14. CASE strategy = "carry_multi_horizon"
  <2> DEFINE x == CarryMultiHorizon(q)
             y == CarryMultiHorizon(p)
  <2>1. /\ A = [c \in DOMAIN x |-> TestRows(x[c], g)]
        /\ B = [c \in DOMAIN y |-> TestRows(y[c], f)]
    BY <1>14 DEF ScorePanel
  <2>2. AllGrown(x, y, k, size)
    BY CompositesGrown
  <2> HIDE DEF x, y, A, B
  <2> QED
    BY <2>1, <2>2, SlicedContinues
<1>15. CASE strategy = "carry_dual_trend"
  <2> DEFINE x == CarryDualTrend(q)
             y == CarryDualTrend(p)
  <2>1. /\ A = [c \in DOMAIN x |-> TestRows(x[c], g)]
        /\ B = [c \in DOMAIN y |-> TestRows(y[c], f)]
    BY <1>15 DEF ScorePanel
  <2>2. AllGrown(x, y, k, size)
    BY CompositesGrown
  <2> HIDE DEF x, y, A, B
  <2> QED
    BY <2>1, <2>2, SlicedContinues
<1>16. CASE strategy = "carry_multi_regime"
  <2> DEFINE x == CarryMultiRegime(q)
             y == CarryMultiRegime(p)
  <2>1. /\ A = [c \in DOMAIN x |-> TestRows(x[c], g)]
        /\ B = [c \in DOMAIN y |-> TestRows(y[c], f)]
    BY <1>16 DEF ScorePanel
  <2>2. AllGrown(x, y, k, size)
    BY MultiRegimeGrown
  <2> HIDE DEF x, y, A, B
  <2> QED
    BY <2>1, <2>2, SlicedContinues
<1>17. CASE strategy = "quarter_hour_flow"
  <2> DEFINE x == QuarterHourFlow(q, g)
             y == QuarterHourFlow(p, f)
  <2>1. A = Single(x) /\ B = Single(y)
    BY <1>17 DEF ScorePanel
  <2>2. \A r \in 1..m : \A s \in Symbols : y[r][s] # NaN
    <3> HIDE DEF x, y
    <3>1. ~HistoryMissing(Single(y))
      BY <2>1
    <3>2. DOMAIN y = 1..m
      BY <1>0, FlowRowsAre DEF y
    <3> QED
      BY <3>1, <3>2, SingleHasValues
  <2>3. Grown(x, y, n, m)
    BY <2>2, FlowGrown
  <2> HIDE DEF x, y, A, B
  <2> QED
    BY <2>1, <2>3, SingleContinues
<1>18. CASE strategy = "flow_absorption"
  <2> DEFINE x == FlowAbsorption(q, g)
             y == FlowAbsorption(p, f)
  <2>1. A = Single(x) /\ B = Single(y)
    BY <1>18 DEF ScorePanel
  <2>2. Grown(x, y, n, m)
    BY AbsorptionGrown
  <2> HIDE DEF x, y, A, B
  <2> QED
    BY <2>1, <2>2, SingleContinues
<1>19. CASE strategy = "volatility_compression_breakout"
  <2> DEFINE x == CompressionBreakout(q, g)
             y == CompressionBreakout(p, f)
  <2>1. A = Single(x) /\ B = Single(y)
    BY <1>19 DEF ScorePanel
  <2>2. Grown(x, y, n, m)
    BY CompressedGrown
  <2> HIDE DEF x, y, A, B
  <2> QED
    BY <2>1, <2>2, SingleContinues
<1>20. CASE strategy = "pair_spread_reversion"
  <2> DEFINE x == PairSpreadReversion(q, g, fitted)
             y == PairSpreadReversion(p, f, fitted)
  <2>1. A = x /\ B = y
    BY <1>20 DEF ScorePanel
  <2>2. Grown(x.score, y.score, n, m) /\ DOMAIN x = {"score", "pairs"}
    BY PairsGrown
  <2> HIDE DEF x, y, A, B
  <2>3. Columns(x) = {"score"}
    BY <2>2 DEF Columns
  <2> QED
    BY <2>1, <2>2, <2>3 DEF Continued
<1> QED
  BY <1>1, <1>2, <1>3, <1>4, <1>5, <1>6, <1>7, <1>8, <1>9, <1>10, <1>11, <1>12, <1>13, <1>14, <1>15, <1>16, <1>17, <1>18, <1>19, <1>20 DEF StrategyNames

LEMMA GrownBegins ==
  ASSUME NEW x, NEW y, NEW n, NEW m, Grown(x, y, n, m), n # 0
  PROVE  x = SubSeq(y, 1, n)
<1>1. n \in Nat /\ x = [r \in 1..n |-> x[r]] /\ \A r \in 1..n : x[r] = y[r]
  BY GrownIs
<1>2. 1 \in Nat \ {0} /\ 1 <= n /\ n - 1 + 1 = n
  BY <1>1
<1>3. SubSeq(y, 1, n) = [r \in 1..(n - 1 + 1) |-> y[1 + r - 1]]
  BY ONLY <1>1, <1>2, SubSeqIs
<1>4. \A r \in 1..n : 1 + r - 1 = r
  BY <1>1
<1> QED
  BY <1>1, <1>2, <1>3, <1>4

LEMMA BeginningGrown ==
  ASSUME NEW p, NEW size \in Nat, Len(p) = size, DOMAIN p = 1..size, NEW n \in 1..size
  PROVE  Grown(SubSeq(p, 1, n), p, n, size)
<1> DEFINE x == SubSeq(p, 1, n)
<1>1. n \in Nat /\ n <= size /\ 1 \in Nat \ {0} /\ 1 <= n /\ n - 1 + 1 = n
  OBVIOUS
<1>2. /\ x = [r \in 1..(n - 1 + 1) |-> p[1 + r - 1]]
      /\ Len(x) = n - 1 + 1 /\ DOMAIN x = 1..(n - 1 + 1)
  BY ONLY <1>1, SubSeqIs
<1> HIDE DEF x
<1>3. \A r \in 1..n : 1 + r - 1 = r
  BY <1>1
<1>4. x = [r \in 1..n |-> x[r]] /\ \A r \in 1..n : x[r] = p[r]
  BY <1>1, <1>2, <1>3
<1>5. Grown(x, p, n, size)
  BY <1>1, <1>2, <1>4 DEF Grown
<1> QED
  BY <1>5 DEF x

(* dataset.py, features and strategies (point in time): for every history,   *)
(* with whatever hours missing, the panel built when a row's outcome had     *)
(* just been recorded is the whole panel up to that row; and for every       *)
(* strategy, fold and fitted parameters the scores computed from the rows up *)
(* to a test row are those of the whole fold up to it: no later row can      *)
(* change a feature, a label or a score.                                     *)
THEOREM DecisionsAreKnown == Spec => []DecisionsAreCausal
<1>1. ASSUME RunInv PROVE DecisionsAreCausal
  <2>0. ResearchInv
    BY <1>1 DEF RunInv
  <2>1. ASSUME status = "ready", NEW i \in DOMAIN panel
        PROVE  BuildRows(KnownBy(panel[i])) = SubSeq(panel, 1, i)
    <3>1. hours \in Seq(Hour) /\ panel = BuildRows(hours)
      BY <2>0, <2>1, HistoriesAssumption DEF ResearchInv
    <3> HIDE DEF Hour
    <3>2. BuildRows(SubSeq(hours, 1, panel[i].hour + 2)) = SubSeq(panel, 1, i)
      BY <3>1, PanelBegins
    <3> QED
      BY <3>2 DEF KnownBy
  <2>2. ASSUME status = "scored", ~HistoryMissing(scores.columns), NEW r \in 1..TestBars
        PROVE  LET last == Fold.testStart + r - 1
                   known == ScorePanel(plan[1], SubSeq(panel, 1, last),
                                       [Fold EXCEPT !.testEnd = last], scores.fitted)
               IN  \A c \in Columns(known) : known[c] = SubSeq(scores.columns[c], 1, r)
    <3> DEFINE last == Fold.testStart + r - 1
               q == SubSeq(panel, 1, last)
               f == Fold
               g == [Fold EXCEPT !.testEnd = last]
               known == ScorePanel(plan[1], q, g, scores.fitted)
               size == Len(panel)
    <3> SUFFICES \A c \in Columns(known) : known[c] = SubSeq(scores.columns[c], 1, r)
      OBVIOUS
    <3>1. scores.columns = ScorePanel(plan[1], panel, f, scores.fitted) /\ plan[1] \in StrategyNames
      BY <1>1, <2>2, PlansAssumption DEF RunInv
    <3>2. /\ Dated(panel)
          /\ f.trainEnd \in 1..size /\ f.testStart \in 1..size /\ f.testEnd \in 1..size
          /\ f.trainEnd + 1 < f.testStart
          /\ f.testEnd = f.testStart + TestBars - 1
      BY <2>0, <2>2, RowsOfFold
    <3>3. g.trainEnd = f.trainEnd /\ g.testStart = f.testStart /\ g.testEnd = last
      BY DEF Fold, FoldRows
    <3>4. last = f.testStart + r - 1
      OBVIOUS
    <3>5. Readings(panel, size) /\ size \in Nat
      <4>1. hours \in Seq(Hour) /\ panel = BuildRows(hours)
        BY <2>0, <2>2, HistoriesAssumption DEF ResearchInv
      <4> QED
        BY <4>1, PanelReads
    <3>6. DOMAIN panel = 1..size
      BY <3>2 DEF Dated
    <3> HIDE DEF f, g, last, q, size
    <3>7. TestBars \in Nat /\ r \in Nat \ {0} /\ r <= TestBars
      BY FoldsAssumption
    <3>8. Shortened(g, f, r, TestBars)
      BY <3>2, <3>3, <3>4, <3>5, <3>7 DEF Shortened
    <3>9. last \in 1..size
      BY <3>2, <3>4, <3>5, <3>7
    <3>10. Grown(q, panel, last, size)
      BY <3>5, <3>6, <3>9, BeginningGrown DEF q, size
    <3>11. Grown(q, panel, g.testEnd, size)
      BY <3>3, <3>10
    <3>12. Continued(known, scores.columns, r, TestBars)
      BY <2>2, <3>1, <3>5, <3>8, <3>11, ScoresContinue
    <3> HIDE DEF known
    <3> QED
      BY <3>7, <3>12, GrownBegins DEF Continued
  <2> QED
    BY <2>1, <2>2 DEF DecisionsAreCausal
<1> QED
  BY <1>1, RunInvariant, PTL
=============================================================================

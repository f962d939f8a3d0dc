--------------------------- MODULE ResearchDataset ---------------------------
(* research/features and research/dataset.py: the features of the hours       *)
(* before each decision, and the panel with one row per decision hour.        *)
(* An hour holds, for every symbol, its open, close, high and low             *)
(* price level, its traded and taker-bought quote volume, the part of both    *)
(* that fell in the quarter-opening minutes, and the funding events of the    *)
(* hour in time order.  Prices are levels (log prices in the code), so        *)
(* returns are differences; shares, betas and ratios are in tenths.           *)
(* Windows of the code in hours: 24, 4, 168, 72 and beta_window_hours.        *)
EXTENDS Integers, Sequences, FiniteSets, FiniteSetsExt, SequencesExt, TLC

-----------------------------------------------------------------------------
(* The causal window statistics of research/features/rolling.py, the          *)
(* z-scores of strategies/fixed.py and features/volume.py and the segment     *)
(* logic that the return-based strategies share.  A matrix is a sequence of   *)
(* rows, a row a function from symbol to an integer or NaN; real values are   *)
(* integers in a fixed unit and z-scores are kept in tenths.                  *)

CONSTANTS Symbols,   \* the universe, numbered in its sorted order
          NaN        \* numpy's nan

ASSUME SymbolsAssumption ==
    Symbols \subseteq Nat /\ IsFiniteSet(Symbols) /\ Cardinality(Symbols) >= 3

Tenths == 10

(* The same sequence; TLC computes its elements once instead of at each use.  *)
Evaluated(seq) == seq \o <<>>

Sign(x) == IF x > 0 THEN 1 ELSE IF x < 0 THEN -1 ELSE 0
Abs(x) == IF x < 0 THEN -x ELSE x
Clip(x, bound) == IF x > bound THEN bound ELSE IF x < -bound THEN -bound ELSE x

(* x/y rounded toward zero, for y > 0. *)
Quot(x, y) == Sign(x) * (Abs(x) \div y)

(* Sum of the values of f, of those of the keys, and of the magnitudes. *)
RowSum(f) == MapThenSumSet(LAMBDA k : f[k], DOMAIN f)
SumOver(f, keys) == RowSum([k \in keys |-> f[k]])
RowGross(f) == RowSum([k \in DOMAIN f |-> Abs(f[k])])

(* The members of a finite set of numbers in ascending order. *)
Ascending(K) ==
    [i \in 1..Cardinality(K) |-> CHOOSE h \in K : Cardinality({k \in K : k < h}) = i - 1]

(* The largest r <= bound with r^2 <= x. *)
RootUpTo(x, bound) == Cardinality({r \in 1..bound : r * r <= x})

(* n^2 times the population variance of f. *)
Spread(f) ==
    Cardinality(DOMAIN f) * RowSum([k \in DOMAIN f |-> f[k] * f[k]]) - RowSum(f) * RowSum(f)

(* (f[k] - mean f) / std f in tenths; zero where f is constant. *)
ZScoreOf(f, k) ==
    LET n == Cardinality(DOMAIN f)
        dev == n * f[k] - RowSum(f)
    IN  IF Spread(f) = 0 THEN 0
        ELSE Sign(dev) * RootUpTo((Tenths * Tenths * dev * dev) \div Spread(f), Tenths * n)

ZScore(matrix) == Evaluated([r \in DOMAIN matrix |-> [s \in Symbols |-> ZScoreOf(matrix[r], s)]])

(* The window of a column that ends in row r, and whether it is full.         *)
Window(matrix, s, r, window) == [k \in r - window + 1 .. r |-> matrix[k][s]]
FullWindow(matrix, s, r, window) ==
    r >= window /\ \A k \in r - window + 1 .. r : matrix[k][s] # NaN

TrailingSum(matrix, window) ==
    [r \in DOMAIN matrix |-> [s \in Symbols |->
        IF FullWindow(matrix, s, r, window) THEN RowSum(Window(matrix, s, r, window)) ELSE NaN]]

RollingZScore(matrix, window) ==
    [r \in DOMAIN matrix |-> [s \in Symbols |->
        IF FullWindow(matrix, s, r, window) THEN ZScoreOf(Window(matrix, s, r, window), r) ELSE NaN]]

(* Square root of the trailing sum of squares. *)
RealizedVolatility(matrix, window, bound) ==
    LET sum == TrailingSum([r \in DOMAIN matrix |-> [s \in Symbols |-> matrix[r][s] * matrix[r][s]]],
                           window)
    IN  [r \in DOMAIN matrix |-> [s \in Symbols |->
            IF sum[r][s] = NaN THEN NaN ELSE RootUpTo(sum[r][s], bound)]]

(* The deque of row numbers that prior_rolling_extrema and _prior_extrema     *)
(* keep, which is ascending, as the set of its entries: the previous row      *)
(* pushes out the entries it dominates, rows older than the window leave at   *)
(* the front.  sign is 1 for the highest value and -1 for the lowest.         *)
PriorDeque(series, window, sign) ==
    LET step[r \in 1..Len(series)] ==
          IF r = 1 THEN {}
          ELSE {k \in step[r - 1] : sign * series[r - 1] < sign * series[k] /\ k >= r - window}
                 \union {r - 1}
    IN  step

(* Highest and lowest value of the window rows before each row. *)
PriorHigh(series, window) ==
    LET deque == PriorDeque(series, window, 1)
    IN  [r \in DOMAIN series |-> IF r > window THEN series[Min(deque[r])] ELSE NaN]
PriorLow(series, window) ==
    LET deque == PriorDeque(series, window, -1)
    IN  [r \in DOMAIN series |-> IF r > window THEN series[Min(deque[r])] ELSE NaN]

(* |net move| / path over the horizon, in tenths; zero on a flat path. *)
Efficiency(level, horizon) ==
    [r \in DOMAIN level |-> [s \in Symbols |->
        IF r <= horizon THEN NaN
        ELSE LET path == RowSum([k \in r - horizon + 1 .. r |-> Abs(level[k][s] - level[k - 1][s])])
             IN  IF path = 0 THEN 0
                 ELSE (Tenths * Abs(level[r][s] - level[r - horizon][s])) \div path]]

(* First row of the contiguous run of hours that row r belongs to. *)
SegmentStart(times, r) ==
    Max({k \in 1..r : k = 1 \/ times[k] # times[k - 1] + 1})

(* Mutant: the nearest finite value, a later one when there is no earlier one. *)
FillFromEitherSide(matrix) ==
    [r \in DOMAIN matrix |-> [s \in Symbols |->
        LET before == {k \in 1..r : matrix[k][s] # NaN}
            after == {k \in r..Len(matrix) : matrix[k][s] # NaN}
        IN  IF matrix[r][s] # NaN THEN matrix[r][s]
            ELSE IF after # {} THEN matrix[Min(after)][s]
            ELSE IF before = {} THEN NaN ELSE matrix[Max(before)][s]]]

(* The last finite value at or before each row. *)
ForwardFill(matrix) ==
    [r \in DOMAIN matrix |-> [s \in Symbols |->
        LET finite == {k \in 1..r : matrix[k][s] # NaN}
        IN  IF finite = {} THEN NaN ELSE matrix[Max(finite)][s]]]

(* Sum of the last window returns, only inside one segment; afterwards the    *)
(* last value that could be computed.                                         *)
SegmentReturn(times, returns, window) ==
    [r \in DOMAIN returns |-> [s \in Symbols |->
        IF r - SegmentStart(times, r) + 1 >= window
        THEN RowSum(Window(returns, s, r, window))
        ELSE NaN]]
RollingReturn(times, returns, window) ==
    Evaluated(ForwardFill(Evaluated(SegmentReturn(times, returns, window))))

(* numpy's quantile num/den of a sequence, times den: linear interpolation    *)
(* between the two neighbours in sorted order.                                *)
Quantile(values, num, den) ==
    LET sorted == SortSeq(values, LAMBDA a, b : a < b)
        position == num * (Len(values) - 1)
        low == sorted[position \div den + 1]
        high == sorted[IF position % den = 0 THEN position \div den + 1
                                             ELSE position \div den + 2]
    IN  den * low + (position % den) * (high - low)

-----------------------------------------------------------------------------
(* The features. *)

CONSTANTS BTC, ETH,          \* the two anchors of the benchmark
          DayHours, ShortHours, WeekHours, PriorHours, BetaHours

ASSUME AnchorsAssumption == BTC \in Symbols /\ ETH \in Symbols /\ BTC # ETH
(* A day is the history a decision needs, and no window on the recorded hours *)
(* themselves is longer: 240 and 1440 minutes (features/volatility.py).       *)
ASSUME WindowsAssumption ==
    /\ {DayHours, ShortHours, WeekHours, PriorHours, BetaHours} \subseteq Nat \ {0}
    /\ ShortHours <= DayHours

(* What is recorded of an hour. *)
FundingEvent == [boundary : BOOLEAN, rate : [Symbols -> Int]]
Hour ==
    [open : [Symbols -> Int], close : [Symbols -> Int], high : [Symbols -> Int], low : [Symbols -> Int],
     volume : [Symbols -> Nat], taker : [Symbols -> Nat],
     openingVolume : [Symbols -> Nat], openingTaker : [Symbols -> Nat],
     funding : Seq(FundingEvent)]

(* Ticks: hour h opens at 4h, its events are at its open (boundary) or inside *)
(* it, and it closes - the decision - one tick before the next open.          *)
OpenTime(h) == 4 * h
DecisionTime(h) == 4 * h + 3
EventTime(h, event) == IF event.boundary THEN OpenTime(h) ELSE OpenTime(h) + 2

(* One matrix per decision hour d; first is the hour of the first decision.   *)
Level(hours, first) == [d \in 1..(Len(hours) - first + 1) |-> hours[first + d - 1].close]

HourReturn(hours, first) ==
    [d \in 1..(Len(hours) - first + 1) |-> [s \in Symbols |->
        hours[first + d - 1].close[s] - hours[first + d - 2].close[s]]]

(* Twice the benchmark: the other anchor for an anchor, their mean otherwise. *)
Benchmark(returns) ==
    [d \in DOMAIN returns |-> [s \in Symbols |->
        IF s = BTC THEN 2 * returns[d][ETH]
        ELSE IF s = ETH THEN 2 * returns[d][BTC]
        ELSE returns[d][BTC] + returns[d][ETH]]]

Covariation(x, y) ==
    Cardinality(DOMAIN x) * RowSum([k \in DOMAIN x |-> x[k] * y[k]]) - RowSum(x) * RowSum(y)

(* Trailing OLS beta, NaN where the benchmark did not move. *)
RollingBeta(returns) ==
    LET bench == Benchmark(returns)
    IN  [d \in DOMAIN returns |-> [s \in Symbols |->
            IF d < BetaHours THEN NaN
            ELSE LET x == Window(bench, s, d, BetaHours)
                 IN  IF Spread(x) = 0 THEN NaN
                     ELSE Quot(2 * Tenths * Covariation(x, Window(returns, s, d, BetaHours)), Spread(x))]]

(* 20 times the return left over by beta and benchmark. *)
ResidualReturn(returns, beta) ==
    [d \in DOMAIN returns |-> [s \in Symbols |->
        IF beta[d][s] = NaN THEN NaN
        ELSE 2 * Tenths * returns[d][s] - beta[d][s] * Benchmark(returns)[d][s]]]

(* n^2 times the variance of the anchors' mean return over a day. *)
MarketRegime(returns) ==
    [d \in DOMAIN returns |-> [s \in Symbols |->
        IF d < DayHours THEN NaN
        ELSE Spread([k \in d - DayHours + 1 .. d |-> returns[k][BTC] + returns[k][ETH]])]]

Volume(hours, first) == [d \in 1..(Len(hours) - first + 1) |-> hours[first + d - 1].volume]

(* (2 bought - traded) / traded, NaN in a part of the hour without trades. *)
FlowShare(bought, traded) ==
    IF traded = 0 THEN NaN ELSE Quot(Tenths * (2 * bought - traded), traded)

TakerShare(hours, first) ==
    [d \in 1..(Len(hours) - first + 1) |-> [s \in Symbols |->
        FlowShare(hours[first + d - 1].taker[s], hours[first + d - 1].volume[s])]]

(* Flow share of the quarter-opening minutes less that of the other minutes. *)
QuarterExcess(hours, first) ==
    [d \in 1..(Len(hours) - first + 1) |-> [s \in Symbols |->
        LET hour == hours[first + d - 1]
            opening == FlowShare(hour.openingTaker[s], hour.openingVolume[s])
            others == FlowShare(hour.taker[s] - hour.openingTaker[s],
                                hour.volume[s] - hour.openingVolume[s])
        IN  IF opening = NaN \/ others = NaN THEN NaN ELSE opening - others]]

(* Sign of the flow times the return in units of the day's volatility. *)
FlowPriceAgreement(flowZ, returns, volatility) ==
    [d \in DOMAIN returns |-> [s \in Symbols |->
        IF flowZ[d][s] = NaN \/ volatility[d][s] = NaN THEN NaN
        ELSE Sign(flowZ[d][s]) * Quot(Tenths * returns[d][s], Max({volatility[d][s], 1}))]]

(* Short volatility relative to the week's. *)
Compression(returns) ==
    LET short == RealizedVolatility(returns, ShortHours, 40)
        week == RealizedVolatility(returns, WeekHours, 40)
    IN  [d \in DOMAIN returns |-> [s \in Symbols |->
            IF week[d][s] = NaN THEN NaN
            ELSE (Tenths * short[d][s]) \div Max({week[d][s], 1})]]

(* Highest high less lowest low of the short window. *)
IntradayRange(hours, first) ==
    [d \in 1..(Len(hours) - first + 1) |-> [s \in Symbols |->
        LET window == (first + d - ShortHours) .. (first + d - 1)
        IN  Max({hours[h].high[s] : h \in window}) - Min({hours[h].low[s] : h \in window})]]

(* Rates published at or before the decision of hour h, in time order. *)
Published(hours, h, s) ==
    LET rates(k) == [i \in DOMAIN hours[k].funding |-> hours[k].funding[i].rate[s]]
    IN  FlattenSeq([k \in 1..h |-> rates(k)])

FundingCurrent(hours, first) ==
    [d \in 1..(Len(hours) - first + 1) |-> [s \in Symbols |->
        LET rates == Published(hours, first + d - 1, s)
        IN  IF rates = <<>> THEN NaN ELSE Last(rates)]]
FundingChange(hours, first) ==
    [d \in 1..(Len(hours) - first + 1) |-> [s \in Symbols |->
        LET rates == Published(hours, first + d - 1, s)
        IN  IF Len(rates) < 2 THEN NaN ELSE Last(rates) - rates[Len(rates) - 1]]]

(* Every feature of the plan, one matrix each, for the decisions from first on. *)
Features(hours, first) ==
    LET returns == HourReturn(hours, first)
        beta == RollingBeta(returns)
        residual == ResidualReturn(returns, beta)
        flowZ == RollingZScore(TakerShare(hours, first), WeekHours)
        volatility == RealizedVolatility(returns, DayHours, 40)
        column(field, s) == [d \in DOMAIN returns |-> hours[first + d - 1][field][s]]
    IN  [log_return |-> returns,
         level |-> Level(hours, first),
         beta |-> beta,
         residual_1h |-> residual,
         residual_4h |-> TrailingSum(residual, ShortHours),
         residual_24h |-> TrailingSum(residual, DayHours),
         volatility |-> volatility,
         regime |-> MarketRegime(returns),
         range |-> IntradayRange(hours, first),
         taker_share |-> TakerShare(hours, first),
         volume_z |-> RollingZScore(Volume(hours, first), DayHours),
         flow_z |-> flowZ,
         quarter_z |-> RollingZScore(QuarterExcess(hours, first), WeekHours),
         agreement |-> FlowPriceAgreement(flowZ, returns, volatility),
         compression |-> Compression(returns),
         efficiency |-> Efficiency(Level(hours, first), DayHours),
         prior_high |-> [d \in DOMAIN returns |-> [s \in Symbols |-> PriorHigh(column("high", s), PriorHours)[d]]],
         prior_low |-> [d \in DOMAIN returns |-> [s \in Symbols |-> PriorLow(column("low", s), PriorHours)[d]]],
         funding_current |-> FundingCurrent(hours, first),
         funding_change |-> FundingChange(hours, first)]

-----------------------------------------------------------------------------
(* The rows: features end at the decision, the position is opened at the next *)
(* open and the outcome is what happens from there to the open one hour later.*)

Decided(h) == DecisionTime(h)
Execution(h) == OpenTime(h + 1)
LabelEnd(h) == OpenTime(h + 2)

(* Decision hours: a day of history behind them, a full label before the end. *)
FirstDecision == DayHours + 1
DecisionHours(hours) == FirstDecision .. Len(hours) - 2

FutureReturn(hours, h, s) == hours[h + 2].open[s] - hours[h + 1].open[s]

(* Mutant: a payment at the open is charged to the position opened there. *)
OutcomeFundingAtEntry(hours, h, s) ==
    LET paid == {p \in UNION {{k} \X DOMAIN hours[k].funding : k \in DOMAIN hours} :
                    /\ EventTime(p[1], hours[p[1]].funding[p[2]]) >= Execution(h)
                    /\ EventTime(p[1], hours[p[1]].funding[p[2]]) <= LabelEnd(h)}
    IN  RowSum([p \in paid |-> hours[p[1]].funding[p[2]].rate[s]])

(* Rates paid in (execution, label end]: an event at the open in which a      *)
(* position is replaced belongs to the position that is left.                 *)
OutcomeFunding(hours, h, s) ==
    LET paid == {p \in UNION {{k} \X DOMAIN hours[k].funding : k \in DOMAIN hours} :
                    /\ EventTime(p[1], hours[p[1]].funding[p[2]]) > Execution(h)
                    /\ EventTime(p[1], hours[p[1]].funding[p[2]]) <= LabelEnd(h)}
    IN  RowSum([p \in paid |-> hours[p[1]].funding[p[2]].rate[s]])

(* 20 times the return left over by the beta known at the decision. *)
FutureResidual(hours, h, s, beta) ==
    2 * Tenths * FutureReturn(hours, h, s)
      - beta * Benchmark(<<[x \in Symbols |-> FutureReturn(hours, h, x)]>>)[1][s]

(* A row exists when every feature of every symbol is finite at its decision. *)
Complete(features, d) ==
    \A f \in DOMAIN features, s \in Symbols : features[f][d][s] # NaN

RowOf(hours, features, h) ==
    LET d == h - FirstDecision + 1
    IN  [hour |-> h,
         decision |-> Decided(h),
         execution |-> Execution(h),
         labelEnd |-> LabelEnd(h),
         feature |-> [f \in DOMAIN features |-> features[f][d]],
         future |-> [s \in Symbols |-> FutureReturn(hours, h, s)],
         residual |-> [s \in Symbols |-> FutureResidual(hours, h, s, features.beta[d][s])],
         funding |-> [s \in Symbols |-> OutcomeFunding(hours, h, s)]]

(* The panel: the complete rows in time order. *)
BuildRows(hours) ==
    LET features == Features(hours, FirstDecision)
        kept == {h \in DecisionHours(hours) : Complete(features, h - FirstDecision + 1)}
        order == Ascending(kept)
    IN  [i \in DOMAIN order |-> RowOf(hours, features, order[i])]

(* Histories the builder accepts: more decisions than the beta window, every  *)
(* feature finite somewhere, and a row left.                                  *)
HistorySuffices(hours) ==
    LET features == Features(hours, FirstDecision)
        Finite(f) == {h \in DecisionHours(hours) :
                         \E s \in Symbols : features[f][h - FirstDecision + 1][s] # NaN}
    IN  /\ Cardinality(DecisionHours(hours)) > BetaHours
        /\ \A f \in DOMAIN features : Finite(f) # {}
        /\ BuildRows(hours) # <<>>

Times(panel) == [r \in DOMAIN panel |-> panel[r].hour]
FeatureMatrix(panel, f) == [r \in DOMAIN panel |-> panel[r].feature[f]]
=============================================================================

-------------------------- MODULE PortfolioPolicies --------------------------
(* research/portfolio: target weights of the test rows from their scores.     *)
(* Weights are integers, Unit being the whole capital; a weight is rounded    *)
(* toward zero, so a sum that the code keeps at zero is zero up to a unit per *)
(* symbol and rounding.                                                       *)
EXTENDS Strategies

CONSTANTS None,  \* no symbol, no earlier rebalance
          Risk   \* band, interval, gross, volatility, cap, threshold, ... (MCResearch)

(* The bounds of portfolio/registry.py: gross exposure above zero and at most *)
(* the capital, no negative limit, sleeve weights that share out the whole.   *)
ASSUME RiskAssumption ==
    /\ Risk.gross \in 1..Tenths /\ Risk.cap \in Nat
    /\ Risk.sleeves \in [1..3 -> Nat] /\ RowSum(Risk.sleeves) > 0
    /\ Risk.pair \in [1..2 -> Nat] /\ RowSum(Risk.pair) > 0
    /\ Risk.regime \in [1..2 -> Nat] /\ RowSum(Risk.regime) > 0

Unit == 400

NoWeights == [s \in Symbols |-> 0]

(* Mutant: every weight is cut at the limit, instead of all being scaled. *)
CutAtLimit(weights) == [s \in Symbols |-> Clip(weights[s], Risk.cap)]

(* No weight above the limit; the proportions are kept. *)
CapLargest(weights) ==
    LET largest == Max({Abs(weights[s]) : s \in Symbols})
    IN  IF largest > Risk.cap
        THEN [s \in Symbols |-> Quot(weights[s] * Risk.cap, largest)]
        ELSE weights

(* The largest gross exposure, in tenths of the capital, that keeps the       *)
(* volatility proxy at its target.                                            *)
TargetGross(normal, volatility) ==
    LET proxy == RowSum([s \in Symbols |-> normal[s] * normal[s] * volatility[s] * volatility[s]])
    IN  Cardinality({g \in 1..Risk.gross : g * g * proxy <= Tenths * Tenths * Risk.volatility * Risk.volatility * Unit * Unit})

(* A direction normalised, scaled to its risk and capped. *)
ScaledWeights(direction, volatility) ==
    IF RowGross(direction) = 0 THEN NoWeights
    ELSE LET normal == [s \in Symbols |-> Quot(Unit * direction[s], RowGross(direction))]
             gross == TargetGross(normal, volatility)
         IN  CapLargest([s \in Symbols |-> Quot(gross * normal[s], Tenths)])

(* The long-short pair projected on what is orthogonal to the market and to   *)
(* the betas, unless that would turn one of its legs around.                  *)
NeutralDirection(top, bottom, beta) ==
    LET raw == [s \in Symbols |-> IF s = top THEN 1 ELSE IF s = bottom THEN -1 ELSE 0]
        skew == beta[top] - beta[bottom]
        projected == [s \in Symbols |->
            Spread(beta) * raw[s] - (Cardinality(Symbols) * beta[s] - RowSum(beta)) * skew]
    IN  IF projected[top] <= 0 \/ projected[bottom] >= 0 THEN raw ELSE projected

FirstOf(S) == Min(S)
ArgMax(row) == FirstOf({s \in Symbols : \A x \in Symbols : row[x] <= row[s]})
ArgMin(row) == FirstOf({s \in Symbols : \A x \in Symbols : row[x] >= row[s]})

Unopened == [weights |-> NoWeights, top |-> None, bottom |-> None, last |-> None, failed |-> FALSE]

(* One row of the buffered neutral policies: keep the weights inside the      *)
(* interval; go flat when the scores do not differ enough; otherwise choose   *)
(* the tails, keeping the earlier ones within the band.                       *)
NeutralRow(carried, score, row, interval, minimumSpread) ==
    LET best == ArgMax(score)
        worst == ArgMin(score)
        top == IF carried.top # None /\ score[best] - score[carried.top] <= Risk.band
               THEN carried.top ELSE best
        bottom == IF carried.bottom # None /\ score[carried.bottom] - score[worst] <= Risk.band
                  THEN carried.bottom ELSE worst
    IN  IF carried.failed THEN carried
        ELSE IF carried.last # None /\ row.hour - carried.last < interval THEN carried
        ELSE IF score[best] - score[worst] < minimumSpread
        THEN [Unopened EXCEPT !.last = row.hour]
        ELSE IF top = bottom THEN [carried EXCEPT !.failed = TRUE]
        ELSE [weights |-> ScaledWeights(NeutralDirection(top, bottom, row.feature.beta),
                                        row.feature.volatility),
              top |-> top, bottom |-> bottom, last |-> row.hour, failed |-> FALSE]

NeutralRows(scores, rows, interval, minimumSpread) ==
    LET state[r \in 0..Len(rows)] ==
          IF r = 0 THEN Unopened
          ELSE NeutralRow(state[r - 1], scores[r], rows[r], interval, minimumSpread)
    IN  Evaluated([r \in 1..Len(rows) |-> state[r]])

InverseVolatility(volatility) ==
    [s \in Symbols |-> IF volatility[s] = 0 THEN 0 ELSE Unit \div volatility[s]]

(* Long what scores above the threshold, short what scores below its negative. *)
DirectionalWeights(score, row) ==
    ScaledWeights([s \in Symbols |->
        IF Abs(score[s]) > Risk.threshold
        THEN Sign(score[s]) * InverseVolatility(row.feature.volatility)[s] ELSE 0],
        row.feature.volatility)

LongFlatWeights(score, row) ==
    ScaledWeights([s \in Symbols |->
        IF score[s] > Risk.threshold THEN InverseVolatility(row.feature.volatility)[s] ELSE 0],
        row.feature.volatility)

(* The weights of the last rebalance at or before each row. *)
HeldRow(carried, weights, row, interval) ==
    IF carried.last # None /\ row.hour - carried.last < interval THEN carried
    ELSE [Unopened EXCEPT !.weights = weights, !.last = row.hour]

HeldRows(weights, rows, interval) ==
    LET state[r \in 0..Len(rows)] ==
          IF r = 0 THEN Unopened
          ELSE HeldRow(state[r - 1], weights[r], rows[r], interval)
    IN  Evaluated([r \in 1..Len(rows) |-> state[r]])

(* The hedged sum of the pairs scaled as a whole, so that every pair keeps    *)
(* its hedge ratio.                                                           *)
PairRows(scores, rows) ==
    [r \in DOMAIN rows |->
        [Unopened EXCEPT !.weights = ScaledWeights(scores[r], rows[r].feature.volatility)]]

(* Weighted sum of sleeves' rows, the parts out of the sum of all parts. *)
Blend(sleeves, parts) ==
    [r \in DOMAIN sleeves[1] |->
        [Unopened EXCEPT
            !.weights = [s \in Symbols |->
                Quot(RowSum([i \in DOMAIN sleeves |-> parts[i] * sleeves[i][r].weights[s]]),
                     RowSum(parts))],
            !.failed = \E i \in DOMAIN sleeves : sleeves[i][r].failed]]

ThreeSleeve(columns, rows) ==
    Blend(<<NeutralRows(columns.carry, rows, Risk.interval, 0),
            NeutralRows(columns.fast, rows, Risk.interval, 0),
            NeutralRows(columns.slow, rows, Risk.interval, 0)>>, Risk.sleeves)

(* The registered policies and the score columns that they refuse to miss. *)
PolicyNames ==
    {"neutral_long_short", "buffered_neutral_long_short", "buffered_directional",
     "buffered_long_flat", "buffered_pair_spread", "buffered_two_sleeve_neutral",
     "buffered_three_sleeve_neutral", "buffered_carry_regime"}
ColumnsRead(policy) ==
    CASE policy = "buffered_pair_spread" -> {"score", "pairs"}
      [] policy = "buffered_two_sleeve_neutral" -> {"carry", "relative"}
      [] policy = "buffered_three_sleeve_neutral" -> {"carry", "fast", "slow"}
      [] policy = "buffered_carry_regime" -> {"carry", "fast", "slow", "regime"}
      [] OTHER -> {"score"}

TargetRows(policy, columns, rows) ==
    CASE policy = "neutral_long_short" -> NeutralRows(columns.score, rows, 1, 0)
      [] policy = "buffered_neutral_long_short" ->
           NeutralRows(columns.score, rows, Risk.interval, Risk.minimumSpread)
      [] policy = "buffered_directional" ->
           HeldRows([r \in DOMAIN rows |-> DirectionalWeights(columns.score[r], rows[r])],
                    rows, Risk.interval)
      [] policy = "buffered_long_flat" ->
           HeldRows([r \in DOMAIN rows |-> LongFlatWeights(columns.score[r], rows[r])],
                    rows, Risk.interval)
      [] policy = "buffered_pair_spread" -> PairRows(columns.score, rows)
      [] policy = "buffered_two_sleeve_neutral" ->
           Blend(<<NeutralRows(columns.carry, rows, Risk.interval, 1),
                   NeutralRows(columns.relative, rows, Risk.interval, 1)>>, Risk.pair)
      [] policy = "buffered_three_sleeve_neutral" -> ThreeSleeve(columns, rows)
      [] policy = "buffered_carry_regime" ->
           Blend(<<ThreeSleeve(columns, rows),
                   HeldRows([r \in DOMAIN rows |-> LongFlatWeights(columns.regime[r], rows[r])],
                            rows, Risk.interval)>>, Risk.regime)
=============================================================================

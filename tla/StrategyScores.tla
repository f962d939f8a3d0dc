---------------------------- MODULE StrategyScores ----------------------------
(* The strategies of research/strategies that read only hourly returns: each  *)
(* scores every row of the panel from that row and the rows before it.        *)
EXTENDS ResearchDataset

CONSTANT Tuning    \* the strategies' parameters, a record (MCResearch)

(* causal_sparse_state refuses a holding period below one. *)
ASSUME HoldAssumption == {Tuning.hold, Tuning.maxHold} \subseteq Nat \ {0}

(* The strategies' validators: windows of at least one row, the fast (exit)   *)
(* one shorter than the slow (entry) one; weights and hedge ratios are        *)
(* numbers.                                                                   *)
ASSUME TuningAssumption ==
    /\ {Tuning.fast, Tuning.slow, Tuning.aggregation} \subseteq Nat \ {0} /\ Tuning.fast < Tuning.slow
    /\ Tuning.horizons \in [1..3 -> Nat \ {0}]
    /\ {Tuning.momentum, Tuning.carry, Tuning.votes} \subseteq [1..3 -> Int]
    /\ \A model \in Tuning.pairModels : model.beta \in Int

Matrix(n, Cell(_, _)) == Evaluated([r \in 1..n |-> [s \in Symbols |-> Cell(r, s)]])

Returns(panel) == FeatureMatrix(panel, "log_return")

(* causal_relative_strength, causal_rolling_return *)
Trend(panel, lookback) == RollingReturn(Times(panel), Returns(panel), lookback)

(* Price of each row relative to the first row of its segment. *)
SegmentPrice(panel, r, s) ==
    SumOver([k \in 1..r |-> Returns(panel)[k][s]], SegmentStart(Times(panel), r) + 1 .. r)

(* Fast less slow average of the segment's prices, times both windows. *)
SmaGap(panel) ==
    Evaluated(ForwardFill(Matrix(Len(panel), LAMBDA r, s :
        IF r - SegmentStart(Times(panel), r) + 1 < Tuning.slow THEN NaN
        ELSE LET price == [k \in r - Tuning.slow + 1 .. r |-> SegmentPrice(panel, k, s)]
             IN  Tuning.slow * SumOver(price, r - Tuning.fast + 1 .. r)
                   - Tuning.fast * RowSum(price))))

(* Position of the breakout rule in one symbol's segment: a new high or low   *)
(* over the entry window sets it, the opposite extreme over the shorter exit  *)
(* window clears it.                                                          *)
SegmentSignal(price) ==
    LET entryHigh == PriorHigh(price, Tuning.slow)
        entryLow == PriorLow(price, Tuning.slow)
        exitHigh == PriorHigh(price, Tuning.fast)
        exitLow == PriorLow(price, Tuning.fast)
        Moved(held, r) ==
          IF price[r] > entryHigh[r] THEN 1
          ELSE IF price[r] < entryLow[r] THEN -1
          ELSE IF \/ held > 0 /\ price[r] < exitLow[r]
                  \/ held < 0 /\ price[r] > exitHigh[r] THEN 0
          ELSE held
        position[r \in 0..Len(price)] ==
          IF r <= Tuning.slow THEN 0 ELSE Moved(position[r - 1], r)
    IN  position

(* Each row by the rule over the part of its segment that precedes it.  *)
Breakout(panel) ==
    Matrix(Len(panel), LAMBDA r, s :
        LET start == SegmentStart(Times(panel), r)
        IN  SegmentSignal([k \in 1..(r - start + 1) |->
                SegmentPrice(panel, start + k - 1, s)])[r - start + 1])

(* Up in both horizons while the market's slow trend is up. *)
RegimeTrend(panel) ==
    LET fast == Trend(panel, Tuning.fast)
        slow == Trend(panel, Tuning.slow)
    IN  Matrix(Len(panel), LAMBDA r, s :
            IF \E x \in Symbols : NaN \in {fast[r][x], slow[r][x]} THEN NaN
            ELSE IF RowSum(slow[r]) > 0 /\ fast[r][s] > 0 /\ slow[r][s] > 0 THEN Tenths ELSE 0)

(* Weighted signs of the trends of three horizons. *)
HorizonVotes(panel) ==
    LET trends == [i \in 1..3 |-> Trend(panel, Tuning.horizons[i])]
    IN  Matrix(Len(panel), LAMBDA r, s :
            IF \E i \in 1..3 : trends[i][r][s] = NaN THEN NaN
            ELSE RowSum([i \in 1..3 |-> Tuning.votes[i] * Sign(trends[i][r][s])]))

(* The gap of the averages where the volatility regime is at most the         *)
(* training rows' quantile, zero elsewhere.                                   *)
FilteredSma(panel, training) ==
    LET regime == [r \in DOMAIN panel |-> panel[r].feature.regime[BTC]]
        threshold == Quantile(SubSeq(regime, 1, training), Tuning.calm[1], Tuning.calm[2])
        gap == SmaGap(panel)
    IN  Matrix(Len(panel), LAMBDA r, s :
            IF threshold <= 0 THEN NaN
            ELSE IF Tuning.calm[2] * regime[r] > threshold THEN 0 ELSE gap[r][s])

-----------------------------------------------------------------------------
(* The cross-sectional strategies of research/strategies: scores built from   *)
(* the z-scores of one row, alone or as the sleeves of a composite.           *)
Standardised(panel, f) == ZScore(FeatureMatrix(panel, f))

(* ZScore of a matrix that may have rows without history. *)
StandardisedTrend(matrix) ==
    Evaluated([r \in DOMAIN matrix |->
        IF \E s \in Symbols : matrix[r][s] = NaN THEN [s \in Symbols |-> NaN]
        ELSE [s \in Symbols |-> ZScoreOf(matrix[r], s)]])

ResidualMomentum(panel) ==
    LET z1 == Standardised(panel, "residual_1h")
        z4 == Standardised(panel, "residual_4h")
        z24 == Standardised(panel, "residual_24h")
    IN  Matrix(Len(panel), LAMBDA r, s :
            Tuning.momentum[1] * z1[r][s] + Tuning.momentum[2] * z4[r][s] + Tuning.momentum[3] * z24[r][s])

(* The k-th smallest value of a row, and twice the median: the sum of the two *)
(* middle values, which are the same one for an odd number of symbols.        *)
OrderStatistic(row, k) ==
    CHOOSE v \in {row[s] : s \in Symbols} :
        /\ Cardinality({s \in Symbols : row[s] < v}) < k
        /\ k <= Cardinality({s \in Symbols : row[s] <= v})
DoubledMedian(row) ==
    LET n == Cardinality(Symbols)
    IN  OrderStatistic(row, (n + 1) \div 2) + OrderStatistic(row, n \div 2 + 1)

(* Momentum reversed, weaker where a symbol is more volatile than the median. *)
ResidualMeanReversion(panel) ==
    LET z1 == Standardised(panel, "residual_1h")
        z4 == Standardised(panel, "residual_4h")
    IN  Matrix(Len(panel), LAMBDA r, s :
            LET volatility == panel[r].feature.volatility
                doubled == DoubledMedian(volatility)
                raw == -(Tuning.momentum[1] * z1[r][s] + Tuning.momentum[2] * z4[r][s])
            IN  IF doubled = 0 THEN raw ELSE Quot(raw * doubled, 2 * Max({volatility[s], 1})))

FundingCarry(panel) ==
    LET rate == Standardised(panel, "funding_current")
        change == Standardised(panel, "funding_change")
        momentum == Standardised(panel, "residual_4h")
    IN  Matrix(Len(panel), LAMBDA r, s :
            Tuning.carry[3] * momentum[r][s] - Tuning.carry[1] * rate[r][s] - Tuning.carry[2] * change[r][s])

RelativeStrength(panel, lookback) == StandardisedTrend(Trend(panel, lookback))
SmaCrossover(panel) == StandardisedTrend(SmaGap(panel))

LinearFeatures == <<"residual_4h", "residual_24h", "volatility", "range", "volume_z", "taker_share">>

(* The ridge fit needs a training target that is not the same everywhere. *)
TargetDisperses(panel, training) ==
    \E r \in 1..training, s, x \in Symbols : panel[r].future[s] # panel[r].future[x]

(* The frozen coefficients over the standardised features, standardised. *)
LinearScore(panel, coefficients) ==
    LET z == Evaluated([i \in DOMAIN LinearFeatures |-> Standardised(panel, LinearFeatures[i])])
    IN  ZScore(Matrix(Len(panel), LAMBDA r, s :
            RowSum([i \in DOMAIN LinearFeatures |-> coefficients[i] * z[i][r][s]])))

Single(matrix) == [score |-> matrix]

(* Mean of the sleeves, kept beside them as the score. *)
Composite(sleeves) ==
    LET n == Cardinality(DOMAIN sleeves)
        any == CHOOSE c \in DOMAIN sleeves : TRUE
        mean == Matrix(Len(sleeves[any]), LAMBDA r, s :
                    IF \E c \in DOMAIN sleeves : sleeves[c][r][s] = NaN THEN NaN
                    ELSE Quot(RowSum([c \in DOMAIN sleeves |-> sleeves[c][r][s]]), n))
    IN  [c \in DOMAIN sleeves \union {"score"} |-> IF c = "score" THEN mean ELSE sleeves[c]]

CarryRelativeStrength(panel) ==
    Composite([carry |-> FundingCarry(panel), relative |-> RelativeStrength(panel, Tuning.slow)])

CarryMultiHorizon(panel) ==
    Composite([carry |-> FundingCarry(panel),
               fast |-> RelativeStrength(panel, Tuning.fast),
               slow |-> RelativeStrength(panel, Tuning.slow)])

CarryDualTrend(panel) ==
    Composite([carry |-> FundingCarry(panel),
               fast |-> RelativeStrength(panel, Tuning.slow),
               slow |-> SmaCrossover(panel)])

(* Fast and slow strength averaged where they agree in sign. *)
CarryConsensusStrength(panel) ==
    LET core == CarryMultiHorizon(panel)
        consensus == Matrix(Len(panel), LAMBDA r, s :
            IF NaN \in {core.fast[r][s], core.slow[r][s]} THEN NaN
            ELSE IF Sign(core.fast[r][s]) # Sign(core.slow[r][s]) THEN 0
            ELSE Quot(core.fast[r][s] + core.slow[r][s], 2))
    IN  Composite([carry |-> core.carry, relative |-> consensus])

CarryMultiRegime(panel) ==
    LET core == CarryMultiHorizon(panel)
    IN  [c \in DOMAIN core \union {"regime"} |-> IF c = "regime" THEN RegimeTrend(panel) ELSE core[c]]
===============================================================================

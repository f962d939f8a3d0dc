------------------------------ MODULE Strategies ------------------------------
(* The event-driven strategies of research/strategies, which hold a sparse    *)
(* state over the test rows of a fold, and the registry's dispatch over all   *)
(* of them.  A fold is a record with trainEnd, testStart and testEnd, rows of *)
(* the panel; fitted is what fit froze for the fold.                          *)
EXTENDS StrategyScores

(* causal_sparse_state (research/state_machine.py) for one column: a position *)
(* is entered only while flat, is held at most hold rows, and a row that      *)
(* leaves a position does not enter another.                                  *)
Flat == [value |-> 0, remaining |-> 0, entered |-> FALSE, exited |-> FALSE]

(* Mutant: the exit and a new entry may meet in one row. *)
SparseRowReentering(carried, entry, exit, hold) ==
    LET exited == carried.value # 0 /\ (exit \/ carried.remaining <= 0)
        value == IF exited THEN 0 ELSE carried.value
        entered == value = 0 /\ entry # 0
        held == IF entered THEN entry ELSE value
        remaining == IF entered THEN hold ELSE IF exited THEN 0 ELSE carried.remaining
    IN  [value |-> held,
         remaining |-> IF held # 0 THEN remaining - 1 ELSE remaining,
         entered |-> entered,
         exited |-> exited]

(* One row: what is carried from the row before, the row's entry value and    *)
(* its explicit exit.                                                         *)
SparseRow(carried, entry, exit, hold) ==
    LET exited == carried.value # 0 /\ (exit \/ carried.remaining <= 0)
        value == IF exited THEN 0 ELSE carried.value
        entered == value = 0 /\ ~exited /\ entry # 0
        held == IF entered THEN entry ELSE value
        remaining == IF exited THEN 0 ELSE IF entered THEN hold ELSE carried.remaining
    IN  [value |-> held,
         remaining |-> IF held # 0 THEN remaining - 1 ELSE remaining,
         entered |-> entered,
         exited |-> exited]

(* The rows of a column of a matrix that starts flat. *)
SparseColumn(entries, exits, hold) ==
    LET row[r \in 1..Len(entries)] ==
          SparseRow(IF r = 1 THEN Flat ELSE row[r - 1], entries[r], exits[r], hold)
    IN  row

-----------------------------------------------------------------------------
TestRows(matrix, fold) == SubSeq(matrix, fold.testStart, fold.testEnd)

(* The held values of a matrix of entries and explicit exits, per symbol. *)
SparseMatrix(entries, exits, hold) ==
    LET column == [s \in Symbols |->
            SparseColumn([r \in DOMAIN entries |-> entries[r][s]],
                         [r \in DOMAIN exits |-> exits[r][s]], hold)]
    IN  Matrix(Len(entries), LAMBDA r, s : column[s][r].value)

NoExits(entries) == Matrix(Len(entries), LAMBDA r, s : FALSE)

(* Mean excess flow of the last rows, clipped, where it is at least one. *)
QuarterHourFlow(panel, fold) ==
    LET sums == TestRows(TrailingSum(FeatureMatrix(panel, "quarter_z"), Tuning.aggregation), fold)
        entries == Matrix(Len(sums), LAMBDA r, s :
            IF sums[r][s] = NaN THEN NaN
            ELSE LET raw == Quot(sums[r][s], Tuning.aggregation)
                 IN  IF Abs(raw) >= Tenths THEN Clip(raw, 3 * Tenths) ELSE 0)
    IN  IF \E r \in DOMAIN entries, s \in Symbols : entries[r][s] = NaN THEN entries
        ELSE SparseMatrix(entries, NoExits(entries), Tuning.hold)

(* Against a flow that volume confirms and the price does not follow. *)
FlowAbsorption(panel, fold) ==
    LET x(r) == panel[fold.testStart + r - 1].feature
        entries == Matrix(fold.testEnd - fold.testStart + 1, LAMBDA r, s :
            IF /\ Abs(x(r).flow_z[s]) >= Tuning.flowThreshold
               /\ x(r).volume_z[s] >= 0
               /\ 4 * x(r).agreement[s] <= Tenths
            THEN -Clip(x(r).flow_z[s], 3 * Tenths) ELSE 0)
    IN  SparseMatrix(entries, NoExits(entries), Tuning.hold)

(* The training rows' compression quantile of a symbol. *)
CompressionThreshold(panel, training, s) ==
    Quantile([r \in 1..training |-> panel[r].feature.compression[s]],
             Tuning.compressed[1], Tuning.compressed[2])

(* A break of the prior range when the row before was compressed. *)
CompressionBreakout(panel, fold) ==
    LET x(r) == panel[fold.testStart + r - 1].feature
        Compressed(r, s) ==
            Tuning.compressed[2] * panel[fold.testStart + r - 2].feature.compression[s]
                <= CompressionThreshold(panel, fold.trainEnd, s)
        entries == Matrix(fold.testEnd - fold.testStart + 1, LAMBDA r, s :
            IF ~(Compressed(r, s) /\ x(r).volume_z[s] >= 0 /\ 4 * x(r).efficiency[s] >= Tenths) THEN 0
            ELSE IF x(r).level[s] < x(r).prior_low[s] THEN -Tenths
            ELSE IF x(r).level[s] > x(r).prior_high[s] THEN Tenths
            ELSE 0)
    IN  SparseMatrix(entries, NoExits(entries), Tuning.hold)

Alts == Symbols \ {BTC}

(* One pair's state over the test rows: against a spread of at least entryZ   *)
(* deviations, until it is back within half a deviation or held too long.     *)
PairState(panel, fold, alt, model) ==
    LET spread(r) == LET level == panel[fold.testStart + r - 1].feature.level
                     IN  Tenths * level[alt] - model.beta * level[BTC] - model.mean
        rows == 1..(fold.testEnd - fold.testStart + 1)
        entries == [r \in rows |-> IF Tenths * Abs(spread(r)) >= Tuning.entryZ * model.std
                                   THEN -Sign(spread(r)) ELSE 0]
        exits == [r \in rows |-> 2 * Abs(spread(r)) <= model.std]
    IN  [r \in rows |-> SparseColumn(entries, exits, Tuning.maxHold)[r].value]

(* The hedged contribution of each eligible pair, and their sum. *)
PairSpreadReversion(panel, fold, models) ==
    LET n == fold.testEnd - fold.testStart + 1
        state == [alt \in Alts |-> IF models[alt].eligible
                                   THEN PairState(panel, fold, alt, models[alt])
                                   ELSE [r \in 1..n |-> 0]]
        sleeve(alt) == Matrix(n, LAMBDA r, s :
                          IF s = alt THEN Tenths * state[alt][r]
                          ELSE IF s = BTC THEN -models[alt].beta * state[alt][r] ELSE 0)
    IN  [score |-> Matrix(n, LAMBDA r, s : RowSum([alt \in Alts |-> sleeve(alt)[r][s]])),
         pairs |-> [alt \in Alts |-> sleeve(alt)]]

(* What a strategy's fit may freeze: the ridge coefficients and the pair      *)
(* models are found by numerical regressions, here any member of a small set. *)
Fits(strategy) ==
    IF strategy = "linear_cross_sectional" THEN Tuning.coefficients
    ELSE IF strategy = "pair_spread_reversion" THEN [Alts -> Tuning.pairModels]
    ELSE {"frozen parameters"}

FitSucceeds(strategy, panel, fold) ==
    strategy = "linear_cross_sectional" => TargetDisperses(panel, fold.trainEnd)

(* The registered strategies and the columns of their scores. *)
StrategyNames ==
    {"residual_momentum", "residual_mean_reversion", "funding_carry", "relative_strength",
     "linear_cross_sectional", "sma_crossover", "sma_trend_strength", "volatility_filtered_sma",
     "donchian_breakout", "market_regime_trend", "multi_horizon_trend", "carry_relative_strength",
     "carry_consensus_strength", "carry_multi_horizon", "carry_dual_trend", "carry_multi_regime",
     "quarter_hour_flow", "flow_absorption", "volatility_compression_breakout", "pair_spread_reversion"}
ColumnsOf(strategy) ==
    CASE strategy \in {"carry_relative_strength", "carry_consensus_strength"} -> {"score", "carry", "relative"}
      [] strategy \in {"carry_multi_horizon", "carry_dual_trend"} -> {"score", "carry", "fast", "slow"}
      [] strategy = "carry_multi_regime" -> {"score", "carry", "fast", "slow", "regime"}
      [] strategy = "pair_spread_reversion" -> {"score", "pairs"}
      [] OTHER -> {"score"}

(* The score columns of a strategy over the test rows of a fold. *)
ScorePanel(strategy, panel, fold, fitted) ==
    LET sliced(columns) == [c \in DOMAIN columns |-> TestRows(columns[c], fold)]
    IN  CASE strategy = "residual_momentum" -> sliced(Single(ResidualMomentum(panel)))
          [] strategy = "residual_mean_reversion" -> sliced(Single(ResidualMeanReversion(panel)))
          [] strategy = "funding_carry" -> sliced(Single(FundingCarry(panel)))
          [] strategy = "relative_strength" -> sliced(Single(RelativeStrength(panel, Tuning.slow)))
          [] strategy = "linear_cross_sectional" -> sliced(Single(LinearScore(panel, fitted)))
          [] strategy = "sma_crossover" -> sliced(Single(SmaCrossover(panel)))
          [] strategy = "sma_trend_strength" -> sliced(Single(SmaGap(panel)))
          [] strategy = "volatility_filtered_sma" -> sliced(Single(FilteredSma(panel, fold.trainEnd)))
          [] strategy = "donchian_breakout" -> sliced(Single(Breakout(panel)))
          [] strategy = "market_regime_trend" -> sliced(Single(RegimeTrend(panel)))
          [] strategy = "multi_horizon_trend" -> sliced(Single(HorizonVotes(panel)))
          [] strategy = "carry_relative_strength" -> sliced(CarryRelativeStrength(panel))
          [] strategy = "carry_consensus_strength" -> sliced(CarryConsensusStrength(panel))
          [] strategy = "carry_multi_horizon" -> sliced(CarryMultiHorizon(panel))
          [] strategy = "carry_dual_trend" -> sliced(CarryDualTrend(panel))
          [] strategy = "carry_multi_regime" -> sliced(CarryMultiRegime(panel))
          [] strategy = "quarter_hour_flow" -> Single(QuarterHourFlow(panel, fold))
          [] strategy = "flow_absorption" -> Single(FlowAbsorption(panel, fold))
          [] strategy = "volatility_compression_breakout" -> Single(CompressionBreakout(panel, fold))
          [] strategy = "pair_spread_reversion" -> PairSpreadReversion(panel, fold, fitted)

(* Scoring fails where a column has no value: history is missing. *)
HistoryMissing(columns) ==
    NaN \in {columns[cell[1]][cell[2]][cell[3]] :
               cell \in UNION {{c} \X (DOMAIN columns[c]) \X Symbols : c \in DOMAIN columns \ {"pairs"}}}
===============================================================================

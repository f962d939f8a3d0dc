------------------------------ MODULE MCResearch ------------------------------
(* Short histories of three symbols for TLC: BTC = 1, ETH = 2 and one more.   *)
EXTENDS ResearchProperties

Closes == << <<0, 1, 0, 2, 1, 3, 2, 2, 4, 3, 5, 4, 6, 5, 4, 6, 7, 5, 6, 8, 7, 8>>,
             <<0, 1, 1, 2, 0, 2, 3, 1, 3, 4, 4, 5, 5, 6, 4, 5, 7, 6, 6, 7, 8, 8>>,
             <<0, -1, 1, 0, 2, 1, 1, 3, 2, 3, 2, 5, 4, 3, 6, 5, 4, 6, 7, 6, 5, 7>> >>

Before(s, i) == IF i = 1 THEN 0 ELSE Closes[s][i - 1]
PerSymbol(F(_)) == [s \in 1..3 |-> F(s)]

PaidAt(i) == IF i % 4 = 0
             THEN <<[boundary |-> TRUE, rate |-> PerSymbol(LAMBDA s : ((s * i) % 5) - 2)]>>
             ELSE <<>>

Usual(i) ==
    [open |-> PerSymbol(LAMBDA s : Before(s, i)),
     close |-> PerSymbol(LAMBDA s : Closes[s][i]),
     high |-> PerSymbol(LAMBDA s : IF Before(s, i) > Closes[s][i] THEN Before(s, i) ELSE Closes[s][i]),
     low |-> PerSymbol(LAMBDA s : IF Before(s, i) < Closes[s][i] THEN Before(s, i) ELSE Closes[s][i]),
     volume |-> PerSymbol(LAMBDA s : 10 + ((i * (s + 2)) % 7)),
     taker |-> PerSymbol(LAMBDA s : 3 + ((i * (s + 4)) % 5)),
     openingVolume |-> PerSymbol(LAMBDA s : 4 + ((i + s) % 3)),
     openingTaker |-> PerSymbol(LAMBDA s : 1 + ((i + 2 * s) % 3)),
     funding |-> PaidAt(i)]

(* The usual n hours, some of them changed. *)
History(n, changes) ==
    [i \in 1..n |-> IF i \in DOMAIN changes THEN changes[i] @@ Usual(i) ELSE Usual(i)]

NoTrading == [volume |-> PerSymbol(LAMBDA s : IF s = 3 THEN 0 ELSE 10),
              taker |-> PerSymbol(LAMBDA s : IF s = 3 THEN 0 ELSE 5),
              openingVolume |-> PerSymbol(LAMBDA s : IF s = 3 THEN 0 ELSE 4),
              openingTaker |-> PerSymbol(LAMBDA s : IF s = 3 THEN 0 ELSE 2)]
Buying == [volume |-> PerSymbol(LAMBDA s : 30), taker |-> PerSymbol(LAMBDA s : IF s = 3 THEN 28 ELSE 2)]
(* Ever more buying at a constant volume, from hour 9 on. *)
Rising == [i \in 9..19 |-> [volume |-> PerSymbol(LAMBDA s : 100),
                            taker |-> PerSymbol(LAMBDA s : 5 + (((i - 8) * (i - 7)) \div 2)),
                            openingVolume |-> PerSymbol(LAMBDA s : 20),
                            openingTaker |-> PerSymbol(LAMBDA s : IF i % 3 = 0 THEN 1 ELSE i - 8)]]
PaidInside == [funding |-> <<[boundary |-> FALSE, rate |-> PerSymbol(LAMBDA s : s - 3)]>>]
Collapse == [open |-> PerSymbol(LAMBDA s : -400)]
Parallel == [i \in 1..19 |-> [open |-> PerSymbol(LAMBDA s : Before(1, i)),
                              close |-> PerSymbol(LAMBDA s : Closes[1][i])]]
No == [i \in {} |-> {}]

Optional(i, change) == {No, i :> change}

(* No rows for the hours 16 to 18, in the middle of a fold; the first row     *)
(* after them executes at the open of hour 20, when funding is paid.          *)
GapInFold == History(22, 16 :> NoTrading)

MCHistories ==
    {History(19, a @@ b @@ c) : a \in Optional(12, Buying), b \in Optional(15, Buying),
                                c \in Optional(14, PaidInside)}
      \union {History(19, 13 :> NoTrading), History(19, 10 :> NoTrading),
              History(19, 19 :> Collapse), History(19, Parallel), History(19, Rising),
              History(6, No), History(14, No), History(22, No),
              History(22, 10 :> NoTrading @@ 15 :> NoTrading), GapInFold}

MCPlans ==
    {<<"residual_momentum", "neutral_long_short">>,
     <<"residual_mean_reversion", "neutral_long_short">>,
     <<"sma_crossover", "neutral_long_short">>,
     <<"funding_carry", "buffered_neutral_long_short">>,
     <<"linear_cross_sectional", "buffered_neutral_long_short">>,
     <<"relative_strength", "buffered_neutral_long_short">>,
     <<"carry_relative_strength", "buffered_two_sleeve_neutral">>,
     <<"carry_consensus_strength", "buffered_two_sleeve_neutral">>,
     <<"carry_multi_horizon", "buffered_three_sleeve_neutral">>,
     <<"carry_dual_trend", "buffered_three_sleeve_neutral">>,
     <<"carry_multi_regime", "buffered_carry_regime">>,
     <<"donchian_breakout", "buffered_directional">>,
     <<"donchian_breakout", "buffered_long_flat">>,
     <<"sma_trend_strength", "buffered_directional">>,
     <<"volatility_filtered_sma", "buffered_directional">>,
     <<"market_regime_trend", "buffered_long_flat">>,
     <<"multi_horizon_trend", "buffered_long_flat">>,
     <<"quarter_hour_flow", "buffered_directional">>,
     <<"flow_absorption", "buffered_directional">>,
     <<"volatility_compression_breakout", "buffered_directional">>,
     <<"pair_spread_reversion", "buffered_pair_spread">>}

MCTuning ==
    [fast |-> 2, slow |-> 3, horizons |-> <<1, 2, 3>>, votes |-> <<5, 3, 2>>, calm |-> <<3, 4>>,
     momentum |-> <<3, 2, 1>>, carry |-> <<3, 1, 1>>, aggregation |-> 2, hold |-> 1,
     flowThreshold |-> 10, compressed |-> <<3, 4>>, entryZ |-> 10, maxHold |-> 2,
     coefficients |-> {<<1, 1, 0, -1, 1, 1>>, <<-1, 0, 1, 0, 0, 1>>},
     pairModels |-> {[beta |-> 8, mean |-> 5, std |-> 8, eligible |-> TRUE],
                     [beta |-> 12, mean |-> 0, std |-> 15, eligible |-> FALSE]}]

MCRisk ==
    [band |-> 5, interval |-> 2, gross |-> 10, volatility |-> 2, cap |-> 160, threshold |-> 0,
     minimumSpread |-> 2, sleeves |-> <<2, 1, 1>>, pair |-> <<2, 1>>, regime |-> <<3, 1>>]

MCCosts == [fee |-> 2, spread |-> 1, slippage |-> 1]

(* The deque of the prior extrema against their definition. *)
ASSUME PriorExtremaAssumption ==
    \A n \in 1..5 : \A series \in [1..n -> 0..2], window \in 1..3, r \in 1..n :
       LET before == {series[k] : k \in (r - window) .. (r - 1)}
       IN  IF r <= window THEN PriorHigh(series, window)[r] = NaN /\ PriorLow(series, window)[r] = NaN
           ELSE PriorHigh(series, window)[r] = Max(before) /\ PriorLow(series, window)[r] = Min(before)
=============================================================================

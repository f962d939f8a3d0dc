----------------------------- MODULE WalkForward -----------------------------
(* research/dataset.py, research/backtest.py and research/trades.py as one    *)
(* run: the recorded hours become a panel; every walk-forward fold fits on    *)
(* the rows before it, scores and weighs its test rows, and trades them bar   *)
(* by bar; the positions are then cut into trade episodes.                    *)
EXTENDS PortfolioPolicies

CONSTANTS Histories,    \* the sequences of hours that may have been recorded
          Plans,        \* pairs of a strategy and a policy that accepts its scores
          Delays,       \* signal_delay_bars
          TrainBars, TestBars, EmbargoBars,
          Costs,        \* fee, spread and slippage per traded unit of weight
          FeesFrom, FeesUntil,  \* first and last execution time of the fee schedule
          Capital       \* the whole capital, in the unit of a profit

(* Windows and the embargo have at least one row, and no cost is negative     *)
(* (costs.py, config.py).                                                     *)
ASSUME FoldsAssumption ==
    /\ TrainBars \in Nat \ {0} /\ TestBars \in Nat \ {0} /\ EmbargoBars \in Nat \ {0}
    /\ Capital \in Nat \ {0}
    /\ FeesFrom \in Nat /\ FeesUntil \in Nat
    /\ Delays \subseteq Nat
    /\ {Costs.fee, Costs.spread, Costs.slippage} \subseteq Nat
ASSUME PlansAssumption ==
    \A p \in Plans : /\ p[1] \in StrategyNames /\ p[2] \in PolicyNames
                     /\ ColumnsRead(p[2]) \subseteq ColumnsOf(p[1])
ASSUME HistoriesAssumption == Histories \subseteq Seq(Hour)

VARIABLES status,     \* recorded, ready, folding, scored, trading, finished, reported or rejected
          hours,      \* the recorded hours
          panel,      \* the rows of the dataset
          plan, delay,
          fold,       \* number of the fold being run
          scores, targets, period,
          positions,  \* one record per traded row
          curve,      \* one record per traded row: its results
          trades      \* the reported episodes

vars == <<status, hours, panel, plan, delay, fold, scores, targets, period, positions, curve, trades>>

Init ==
    /\ status = "recorded"
    /\ hours \in Histories /\ panel = <<>>
    /\ plan = None /\ delay = 0 /\ fold = 0
    /\ scores = <<>> /\ targets = <<>> /\ period = 0
    /\ positions = <<>> /\ curve = <<>> /\ trades = {}

(* Mutant: testing starts right after training. *)
AdjacentFold(k) ==
    LET trainEnd == TrainBars + (k - 1) * TestBars
    IN  [trainEnd |-> trainEnd, testStart |-> trainEnd + 1, testEnd |-> trainEnd + TestBars]

(* Rows of the k-th fold: the training rows grow, the embargo separates them. *)
FoldRows(k) ==
    LET trainEnd == TrainBars + (k - 1) * TestBars
    IN  [trainEnd |-> trainEnd,
         testStart |-> trainEnd + 1 + EmbargoBars,
         testEnd |-> trainEnd + EmbargoBars + TestBars]

Fold == FoldRows(fold)
FoldExists(k) == FoldRows(k).testEnd <= Len(panel)
TestPanel == SubSeq(panel, Fold.testStart, Fold.testEnd)

Reject ==
    /\ status' = "rejected"
    /\ UNCHANGED <<hours, panel, plan, delay, fold, scores, targets, period, positions, curve, trades>>

(* build_point_in_time_frame *)
BuildPanel ==
    /\ status = "recorded" /\ HistorySuffices(hours)
    /\ status' = "ready" /\ panel' = BuildRows(hours)
    /\ UNCHANGED <<hours, plan, delay, fold, scores, targets, period, positions, curve, trades>>

RefuseHistory ==
    /\ status = "recorded" /\ ~HistorySuffices(hours)
    /\ Reject

(* run_walk_forward with one strategy, policy and signal delay. *)
StartRun ==
    /\ status = "ready" /\ FoldExists(1)
    /\ plan' \in Plans /\ delay' \in Delays
    /\ status' = "folding" /\ fold' = 1
    /\ UNCHANGED <<hours, panel, scores, targets, period, positions, curve, trades>>

TooFewDecisions ==
    /\ status = "ready" /\ ~FoldExists(1)
    /\ Reject

(* Targets act delay rows later, nothing is held before. *)
Delayed(rows) ==
    [r \in DOMAIN rows |-> IF r > delay THEN rows[r - delay].weights ELSE NoWeights]

(* Fit on the training rows and score the test rows. *)
FitAndScore ==
    /\ status = "folding" /\ FoldExists(fold) /\ FitSucceeds(plan[1], panel, Fold)
    /\ \E fitted \in Fits(plan[1]) :
          scores' = [fitted |-> fitted, columns |-> ScorePanel(plan[1], panel, Fold, fitted)]
    /\ status' = "scored"
    /\ UNCHANGED <<hours, panel, plan, delay, fold, targets, period, positions, curve, trades>>

FitFails ==
    /\ status = "folding" /\ FoldExists(fold) /\ ~FitSucceeds(plan[1], panel, Fold)
    /\ Reject

(* The policy's rows; a failed one stops the policy. *)
Weighed == TargetRows(plan[2], scores.columns, TestPanel)
Failed(rows) == {r \in DOMAIN rows : rows[r].failed}

WeighScores ==
    /\ status = "scored" /\ ~HistoryMissing(scores.columns) /\ Failed(Weighed) = {}
    /\ status' = "trading" /\ targets' = Delayed(Weighed) /\ period' = 0
    /\ UNCHANGED <<hours, panel, plan, delay, fold, scores, positions, curve, trades>>

ScoringFails ==
    /\ status = "scored" /\ HistoryMissing(scores.columns)
    /\ Reject

WeighingFails ==
    /\ status = "scored" /\ ~HistoryMissing(scores.columns) /\ Failed(Weighed) # {}
    /\ Reject

(* The weights before the bar: each fold starts flat. *)
Previous == IF period = 0 THEN NoWeights ELSE targets[period]
Rate == Costs.fee + Costs.spread + Costs.slippage

(* The bar that trades row r of the fold: what each symbol trades and earns. *)
BarOf(r) ==
    LET row == TestPanel[r]
        w == targets[r]
        traded == [s \in Symbols |->
            Abs(w[s] - Previous[s]) + (IF r = Len(targets) THEN Abs(w[s]) ELSE 0)]
    IN  [fold |-> fold, hour |-> row.hour, execution |-> row.execution, labelEnd |-> row.labelEnd,
         previous |-> Previous, target |-> w, traded |-> traded,
         price |-> [s \in Symbols |-> w[s] * row.future[s]],
         funding |-> [s \in Symbols |-> -w[s] * row.funding[s]],
         cost |-> [s \in Symbols |-> traded[s] * Rate]]

(* The row of the curve, from the totals over the symbols. *)
CurveRow(bar) ==
    LET turnover == RowSum(bar.traded)
    IN  [fold |-> fold, hour |-> bar.hour,
         price |-> RowSum(bar.price), funding |-> RowSum(bar.funding),
         fees |-> turnover * Costs.fee, spread |-> turnover * Costs.spread,
         slippage |-> turnover * Costs.slippage,
         net |-> RowSum(bar.price) + RowSum(bar.funding) - turnover * Rate,
         turnover |-> turnover, gross |-> RowGross(bar.target), exposure |-> RowSum(bar.target)]

Bar ==
    /\ status = "trading" /\ period < Len(targets)
    /\ LET bar == BarOf(period + 1)
       IN  /\ bar.execution \in FeesFrom .. FeesUntil
           /\ Capital + CurveRow(bar).net > 0
           /\ positions' = Append(positions, bar)
           /\ curve' = Append(curve, CurveRow(bar))
    /\ period' = period + 1
    /\ UNCHANGED <<status, hours, panel, plan, delay, fold, scores, targets, trades>>

(* No fee is registered for the execution time, or the equity is lost. *)
BarRefused ==
    /\ status = "trading" /\ period < Len(targets)
    /\ LET bar == BarOf(period + 1)
       IN  \/ bar.execution \notin FeesFrom .. FeesUntil
           \/ Capital + CurveRow(bar).net <= 0
    /\ Reject

NextFold ==
    /\ status = "trading" /\ period = Len(targets)
    /\ status' = "folding" /\ fold' = fold + 1
    /\ UNCHANGED <<hours, panel, plan, delay, scores, targets, period, positions, curve, trades>>

FinishRun ==
    /\ status = "folding" /\ ~FoldExists(fold)
    /\ status' = "finished"
    /\ UNCHANGED <<hours, panel, plan, delay, fold, scores, targets, period, positions, curve, trades>>

-----------------------------------------------------------------------------
(* research/trades.py: the positions of one fold and symbol cut into closed   *)
(* episodes.  A position row is a record with the previous and the target     *)
(* weight, the price and funding profit, and the cost per traded unit.        *)

NoTrade == [open |-> FALSE]

TradeSign(x) == IF x > 0 THEN 1 ELSE IF x < 0 THEN -1 ELSE 0
Size(x) == IF x < 0 THEN -x ELSE x

Opened(row) ==
    [open |-> TRUE, entered |-> row.execution, side |-> TradeSign(row.target),
     price |-> 0, funding |-> 0, turnover |-> Size(row.target), cost |-> Size(row.target) * row.rate]

Closed(trade, exited, reason) ==
    [entered |-> trade.entered, exited |-> exited, side |-> trade.side, reason |-> reason,
     price |-> trade.price, funding |-> trade.funding,
     turnover |-> trade.turnover, cost |-> trade.cost]

Charged(trade, units, rate) ==
    [trade EXCEPT !.turnover = @ + units, !.cost = @ + units * rate]

(* Mutant: the exit of an episode is not charged to it. *)
LeaveFree(state, row) ==
    IF state.active.open /\ TradeSign(row.previous) # TradeSign(row.target)
    THEN [active |-> NoTrade,
          events |-> Append(state.events,
              Closed(state.active, row.execution,
                     IF row.target # 0 THEN "direction_flip" ELSE "signal_exit"))]
    ELSE state

(* The row leaves the active episode: the sign of its weight changes. *)
Leave(state, row) ==
    IF state.active.open /\ TradeSign(row.previous) # TradeSign(row.target)
    THEN [active |-> NoTrade,
          events |-> Append(state.events,
              Closed(Charged(state.active, Size(row.previous), row.rate), row.execution,
                     IF row.target # 0 THEN "direction_flip" ELSE "signal_exit"))]
    ELSE state

(* It enters one, or rebalances the active one. *)
Enter(state, row) ==
    IF row.target # 0 /\ ~state.active.open THEN [state EXCEPT !.active = Opened(row)]
    ELSE IF state.active.open /\ TradeSign(row.previous) = TradeSign(row.target)
    THEN [state EXCEPT !.active = Charged(@, Size(row.target - row.previous), row.rate)]
    ELSE state

(* The episode earns the row's price and funding result. *)
Earn(state, row) ==
    IF state.active.open /\ row.target # 0
    THEN [state EXCEPT !.active.price = @ + row.price, !.active.funding = @ + row.funding]
    ELSE state

(* The last row of the fold closes what is open at its label's end. *)
CloseFold(state, row, last) ==
    IF last /\ state.active.open
    THEN [active |-> NoTrade,
          events |-> Append(state.events,
              Closed(Charged(state.active, Size(row.target), row.rate), row.labelEnd, "fold_close"))]
    ELSE state

Reconstruct(rows) ==
    LET state[i \in 0..Len(rows)] ==
          IF i = 0 THEN [active |-> NoTrade, events |-> <<>>]
          ELSE CloseFold(Earn(Enter(Leave(state[i - 1], rows[i]), rows[i]), rows[i]),
                         rows[i], i = Len(rows))
    IN  state[Len(rows)].events

(* The positions of one fold and symbol, in execution order. *)
SymbolRows(k, s) ==
    LET order == Ascending({i \in DOMAIN positions : positions[i].fold = k})
    IN  [i \in DOMAIN order |->
            LET bar == positions[order[i]]
            IN  [previous |-> bar.previous[s], target |-> bar.target[s],
                 rate |-> Rate,
                 price |-> bar.price[s], funding |-> bar.funding[s],
                 execution |-> bar.execution, labelEnd |-> bar.labelEnd]]

(* reconstruct_trade_events over every fold and symbol. *)
ReportTrades ==
    /\ status = "finished"
    /\ status' = "reported"
    /\ trades' = {[fold |-> k, symbol |-> s, events |-> Reconstruct(SymbolRows(k, s))] :
                     k \in {positions[i].fold : i \in DOMAIN positions}, s \in Symbols}
    /\ UNCHANGED <<hours, panel, plan, delay, fold, scores, targets, period, positions, curve>>

Next ==
    \/ BuildPanel \/ RefuseHistory
    \/ StartRun \/ TooFewDecisions
    \/ FitAndScore \/ FitFails \/ WeighScores \/ ScoringFails \/ WeighingFails
    \/ Bar \/ BarRefused \/ NextFold \/ FinishRun \/ ReportTrades

Spec == Init /\ [][Next]_vars
=============================================================================

-------------------------- MODULE ResearchProperties --------------------------
(* What a walk-forward run promises: no result depends on later data, the     *)
(* weights keep to the mandate and the books balance.                         *)
EXTENDS WalkForward

KnownBy(row) == SubSeq(hours, 1, row.hour + 2)
Columns(scored) == DOMAIN scored \ {"pairs"}

(* Nothing leaks back: the panel up to a row is the one built when the row's  *)
(* outcome had just been recorded, and the scores of a test row are those     *)
(* computed from the rows up to it (dataset.py, the strategies' fit and score,*)
(* docs/research: point in time).                                             *)
DecisionsAreCausal ==
    /\ status = "ready" =>
          \A i \in DOMAIN panel : BuildRows(KnownBy(panel[i])) = SubSeq(panel, 1, i)
    /\ status = "scored" /\ ~HistoryMissing(scores.columns) =>
          \A r \in 1..TestBars :
             LET last == Fold.testStart + r - 1
                 known == ScorePanel(plan[1], SubSeq(panel, 1, last),
                                     [Fold EXCEPT !.testEnd = last], scores.fitted)
             IN  \A c \in Columns(known) : known[c] = SubSeq(scores.columns[c], 1, r)

(* No label of a training row ends after the first decision that is tested on *)
(* it: the outcome would be known to the fit (make_walk_forward_folds).       *)
LabelsPrecedeTest ==
    status = "scored" => panel[Fold.trainEnd].labelEnd <= panel[Fold.testStart].decision

Neutral == {"neutral_long_short", "buffered_neutral_long_short",
            "buffered_two_sleeve_neutral", "buffered_three_sleeve_neutral"}
Rounding == 4 * Cardinality(Symbols)

(* Target weights keep to the mandate whatever the scores, the buffers and    *)
(* the delay: gross exposure and the largest weight are limited, a neutral    *)
(* policy nets to zero and a long-flat one is never short.                    *)
WeightsWithinMandate ==
    \A r \in DOMAIN targets :
        /\ Tenths * RowGross(targets[r]) <= Risk.gross * Unit
        /\ \A s \in Symbols : Abs(targets[r][s]) <= Risk.cap
        /\ plan[2] \in Neutral => Abs(RowSum(targets[r])) <= Rounding
        /\ plan[2] = "buffered_long_flat" => \A s \in Symbols : targets[r][s] >= 0

Held == {"quarter_hour_flow", "flow_absorption", "volatility_compression_breakout"}

(* An event-driven strategy is flat again after at most hold rows: no signal  *)
(* renews itself without a flat row (causal_sparse_state).                    *)
HoldIsBounded ==
    status = "scored" /\ plan[1] \in Held /\ ~HistoryMissing(scores.columns) =>
        \A s \in Symbols, r \in 1..(TestBars - Tuning.hold) :
            \E k \in r..(r + Tuning.hold) : scores.columns.score[k][s] = 0

FoldCurve(k) == {i \in DOMAIN curve : curve[i].fold = k}
CurveTotal(k, field) == RowSum([i \in FoldCurve(k) |-> curve[i][field]])
FoldTrades(k) == {t \in trades : t.fold = k}
Episodes(k) == UNION {{<<t, i>> : i \in DOMAIN t.events} : t \in FoldTrades(k)}
TradedTotal(k, field) == RowSum([e \in Episodes(k) |-> e[1].events[e[2]][field]])

(* Three books of one run agree: the closed episodes of each fold add up to   *)
(* its curve, in price, funding, turnover and cost, and the episodes of a     *)
(* symbol do not overlap (trades.py, backtest.py).                            *)
BooksBalance ==
    status = "reported" =>
        \A k \in 1..(fold - 1) :
            /\ \A field \in {"price", "funding", "turnover"} :
                  TradedTotal(k, field) = CurveTotal(k, field)
            /\ TradedTotal(k, "cost")
                  = CurveTotal(k, "fees") + CurveTotal(k, "spread") + CurveTotal(k, "slippage")
            /\ \A t \in FoldTrades(k) : \A i \in 1..(Len(t.events) - 1) :
                  t.events[i].exited <= t.events[i + 1].entered

Payments == UNION {{<<k, i>> : i \in DOMAIN hours[k].funding} : k \in DOMAIN hours}
PaidTime(p) == EventTime(p[1], hours[p[1]].funding[p[2]])

(* A position is carried until the next row of its fold executes, also over   *)
(* hours that have no row; the last one of a fold is closed at its label's end.*)
CarriedUntil(r) ==
    IF r + 1 \in DOMAIN positions /\ positions[r + 1].fold = positions[r].fold
    THEN positions[r + 1].execution
    ELSE positions[r].labelEnd

(* The rows whose weights are in force just before a payment falls due. *)
Holder(p) == {r \in DOMAIN positions :
                 positions[r].execution < PaidTime(p) /\ PaidTime(p) <= CarriedUntil(r)}

(* The decision hour that answers for a payment: at an open, the one before.  *)
(* The panel may have no row for it.                                          *)
DueHour(p) == IF hours[p[1]].funding[p[2]].boundary THEN p[1] - 2 ELSE p[1] - 1
InGap(p) == \A i \in DOMAIN panel : panel[i].hour # DueHour(p)

Charge(r, s, paid) ==
    RowSum([p \in paid |-> -positions[r].target[s] * hours[p[1]].funding[p[2]].rate[s]])

(* At most one position is in force when a payment falls due, also when       *)
(* positions change at that moment.  A position is charged all the payments   *)
(* that fall due while it is in force and no other one, except those of the   *)
(* hours without a row it is carried over, which nobody is charged, the one   *)
(* at the moment it is replaced included (dataset.py: _outcome_funding,       *)
(* backtest.py: _run_fold).                                                   *)
FundingPaidByHolder ==
    /\ \A p \in Payments : Cardinality(Holder(p)) <= 1
    /\ \A r \in DOMAIN positions, s \in Symbols :
          positions[r].funding[s]
            = Charge(r, s, {p \in Payments : r \in Holder(p) /\ ~InGap(p)})
=============================================================================

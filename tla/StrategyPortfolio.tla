--------------------------- MODULE StrategyPortfolio --------------------------
(***************************************************************************)
(* research/strategy_portfolio: a portfolio file declares how capital is   *)
(* split between experiments; the dashboard resolves each to an attempt    *)
(* whose artifacts verify, checks that the curves are comparable, and      *)
(* accounts period by period for two views of them: the sleeves, each with *)
(* its own trades, and the netted book, which trades the sum of their      *)
(* weights.  The trades are then reconstructed from the weights.           *)
(*                                                                         *)
(* Weights and profits are integers.  A curve is a sequence of rows, one   *)
(* per decision; the three costs of the code are one rate per traded unit. *)
(* trade_epsilon only separates zero from rounding, so it is zero here.    *)
(***************************************************************************)
EXTENDS Integers, Sequences, FiniteSets, FiniteSetsExt, SequencesExt

CONSTANTS
  Experiment,
  Symbols,        \* every symbol of a book
  Identity,       \* dataset, label, execution, cost and split of each experiment
  Books,          \* what an attempt of each may have decided: rows for every fold
  Files,          \* portfolio files: sequences of declarations
  Capital,        \* the whole capital, in the unit of a profit
  Times,          \* created_at_ms of an attempt: the clock may be set back
  MaxAttempts,    \* bound: attempts of all experiments
  MaxDamages,     \* bound: artifacts damaged
  None

Fields == {"dataset", "label", "execution", "cost", "split"}

(* What is decided and earned in a row of a book of the symbols S. *)
DecidedRow(S) ==
  [time : Int, execution : Int, weights : [S -> Int], price : Int, funding : Int]
Component == [experiment : Experiment, run : {None} \cup (Experiment \X Nat),
              label : STRING, capital : Nat]
PortfolioSpec == [mode : {"sleeve", "netted"}, policy : {"strict", "intersection"},
                  required : SUBSET Fields, components : Seq(Component) \ {<<>>}]

ASSUME PortfolioAssumption ==
  /\ IsFiniteSet(Symbols)
  /\ \A e \in Experiment : Identity[e].cost \in Nat
  /\ \A e \in Experiment : \A book \in Books[e] :
       \E S \in SUBSET Symbols : book \in Seq(Seq(DecidedRow(S)))
  /\ Files \subseteq Seq(PortfolioSpec)
  /\ Capital \in Nat /\ Times \subseteq Int /\ MaxAttempts \in Nat /\ MaxDamages \in Nat

VARIABLES
  attempts,       \* of each experiment, in the order of their numbers
  damages,        \* artifacts damaged so far (bound)
  status,         \* idle, loading, accounting, analysed or aborted
  file,           \* the portfolio file being built
  snapshots,      \* of its first portfolios: VALID or INVALID
  loaded,         \* the components of the next one
  grid,           \* its decision times
  previous,       \* the netted weights of the period before
  sleeve, netted, \* the rows of both views
  legs            \* the reconstructed trades of the netted book and of each component

building == <<file, snapshots, loaded, grid, previous, sleeve, netted, legs>>
vars == <<attempts, damages, status, building>>

Init ==
  /\ attempts = [e \in Experiment |-> <<>>]
  /\ damages = 0
  /\ status = "idle"
  /\ file = <<>> /\ snapshots = <<>> /\ loaded = <<>> /\ grid = <<>>
  /\ previous = None /\ sleeve = <<>> /\ netted = <<>> /\ legs = None

Size(x) == IF x < 0 THEN -x ELSE x
Total(f) == MapThenSumSet(LAMBDA x : f[x], DOMAIN f)
RowSize(w) == Total([s \in DOMAIN w |-> Size(w[s])])
Zero(w) == [s \in DOMAIN w |-> 0]

(* Traded from one row of weights to the next, and to close what a fold    *)
(* ends with.                                                              *)
Turnover(from, to, closes) ==
  Total([s \in DOMAIN to |-> Size(to[s] - from[s]) + (IF closes THEN Size(to[s]) ELSE 0)])

-----------------------------------------------------------------------------
(* Attempts and their artifacts. *)

(* The rows of one fold as the backtest books them: flat before the first  *)
(* decision and after the last.                                            *)
BookedFold(k, rows, rate) ==
  LET turnover == [i \in DOMAIN rows |->
        Turnover(IF i = 1 THEN Zero(rows[i].weights) ELSE rows[i - 1].weights,
                 rows[i].weights, i = Len(rows))]
  IN [i \in DOMAIN rows |->
        [fold |-> k, time |-> rows[i].time, execution |-> rows[i].execution,
         weights |-> rows[i].weights, price |-> rows[i].price, funding |-> rows[i].funding,
         turnover |-> turnover[i], cost |-> turnover[i] * rate,
         net |-> rows[i].price + rows[i].funding - turnover[i] * rate]]

(* The oos_curve of an attempt of e. *)
Curve(e, book) ==
  FlattenSeq([k \in DOMAIN book |-> BookedFold(k, book[k], Identity[e].cost)])

Successes(e) == {i \in DOMAIN attempts[e] : attempts[e][i].status = "SUCCEEDED"}
AttemptCount == Total([e \in Experiment |-> Len(attempts[e])])

(* A rerun that does not reproduce an earlier success fails; executions    *)
(* that overlap, which are not compared, are left out.                     *)
AttemptEnds(e, book, at) ==
  /\ AttemptCount < MaxAttempts
  /\ \E outcome \in {"SUCCEEDED", "FAILED"} :
       /\ outcome = "SUCCEEDED" =>
            \A i \in Successes(e) : attempts[e][i].curve = Curve(e, book)
       /\ attempts' = [attempts EXCEPT ![e] =
            Append(@, [at |-> at, status |-> outcome, intact |-> TRUE, curve |-> Curve(e, book)])]
  /\ UNCHANGED <<damages, status, building>>

(* An artifact is lost or changed on disk. *)
Damage(e, i) ==
  /\ damages < MaxDamages
  /\ i \in Successes(e) /\ attempts[e][i].intact
  /\ attempts' = [attempts EXCEPT ![e][i].intact = FALSE]
  /\ damages' = damages + 1
  /\ UNCHANGED <<status, building>>

-----------------------------------------------------------------------------
(* Loading. *)

Build(f) ==
  /\ status = "idle" /\ file = <<>>
  /\ status' = "loading" /\ file' = f
  /\ UNCHANGED <<attempts, damages, snapshots, loaded, grid, previous, sleeve, netted, legs>>

Remaining == Len(snapshots) < Len(file)
Portfolio == file[Len(snapshots) + 1]
Declared == Portfolio.components[Len(loaded) + 1]

Verified(e) == {i \in Successes(e) : attempts[e][i].intact}

(* By creation time, then by number. *)
Later(e, i, j) ==
  \/ attempts[e][i].at > attempts[e][j].at
  \/ attempts[e][i].at = attempts[e][j].at /\ i > j

(* The declared run, or the newest success that verifies. *)
Resolved(c) ==
  IF c.run # None
    THEN {i \in Verified(c.experiment) : c.run = <<c.experiment, i>>}
    ELSE {i \in Verified(c.experiment) :
            \A j \in Verified(c.experiment) \ {i} : Later(c.experiment, i, j)}

CurveIsValid(curve) ==
  /\ curve # <<>>
  /\ \A i \in DOMAIN curve :
       /\ i > 1 =>
            /\ curve[i - 1].time < curve[i].time
            /\ curve[i - 1].execution < curve[i].execution
            /\ curve[i - 1].fold <= curve[i].fold
            /\ DOMAIN curve[i].weights = DOMAIN curve[1].weights
       /\ curve[i].fold >= 1
       /\ Capital + curve[i].net > 0
       /\ curve[i].turnover >= 0
       /\ curve[i].net = curve[i].price + curve[i].funding - curve[i].cost

Loadable == {i \in Resolved(Declared) : CurveIsValid(attempts[Declared.experiment][i].curve)}
Loading == status = "loading" /\ Remaining /\ Len(loaded) < Len(Portfolio.components)

LoadComponent ==
  /\ Loading
  /\ \E i \in Loadable :
       loaded' = Append(loaded,
         [experiment |-> Declared.experiment, label |-> Declared.label,
          capital |-> Declared.capital, curve |-> attempts[Declared.experiment][i].curve])
  /\ UNCHANGED <<attempts, damages, status, file, snapshots, grid, previous, sleeve, netted, legs>>

(* The next portfolio is taken up; a failed one leaves an INVALID snapshot. *)
Conclude(verdict) ==
  /\ snapshots' = Append(snapshots, verdict)
  /\ status' = "loading"
  /\ loaded' = <<>> /\ grid' = <<>> /\ previous' = None
  /\ sleeve' = <<>> /\ netted' = <<>> /\ legs' = None
  /\ UNCHANGED <<attempts, damages, file>>

LoadFails == Loading /\ Loadable = {} /\ Conclude("INVALID")

-----------------------------------------------------------------------------
(* Compatibility. *)

Components == DOMAIN loaded
CurveTimes(i) == [k \in DOMAIN loaded[i].curve |-> loaded[i].curve[k].time]
TimeSet(i) == Range(CurveTimes(i))
RowAt(i, t) == CHOOSE row \in Range(loaded[i].curve) : row.time = t
Slot(row) == <<row.fold, row.execution>>

(* The largest step that divides every distance within a fold, or 0. *)
Frequency(curve) ==
  LET steps == {curve[i + 1].time - curve[i].time :
                  i \in {k \in 1..(Len(curve) - 1) : curve[k].fold = curve[k + 1].fold}}
      common == {d \in 1..(IF steps = {} THEN 0 ELSE Min(steps)) : \A x \in steps : x % d = 0}
  IN IF common = {} THEN 0 ELSE Max(common)

(* A value of each component is one value. *)
Same(values) == \A i \in Components : values[i] = values[1]

StaticIssues ==
  \/ \E field \in Fields :
       /\ Portfolio.mode = "netted" \/ field \in Portfolio.required
       /\ ~Same([i \in Components |-> Identity[loaded[i].experiment][field]])
  \/ ~Same([i \in Components |-> Frequency(loaded[i].curve)])
  \/ \E i \in Components : Frequency(loaded[i].curve) = 0
  \/ ~Same([i \in Components |-> DOMAIN loaded[i].curve[1].weights])

(* Mutant: the strict policy compares the decision times only. *)
StrictTimes == Same([i \in Components |-> CurveTimes(i)])

StrictlyAligned ==
  /\ Same([i \in Components |-> CurveTimes(i)])
  /\ Same([i \in Components |-> [k \in DOMAIN loaded[i].curve |-> Slot(loaded[i].curve[k])]])

(* The numbers of a set in increasing order: the k-th has k up to itself.  *)
Ascending(S) ==
  [k \in 1..Cardinality(S) |-> CHOOSE t \in S : Cardinality({u \in S : u <= t}) = k]
CommonTimes == {t \in TimeSet(1) : \A i \in Components : t \in TimeSet(i)}

Intersected ==
  /\ CommonTimes # {}
  /\ \A t \in CommonTimes : Same([i \in Components |-> Slot(RowAt(i, t))])

Compatible ==
  /\ ~StaticIssues
  /\ IF Portfolio.policy = "strict" THEN StrictlyAligned ELSE Intersected

Loaded == status = "loading" /\ Remaining /\ Len(loaded) = Len(Portfolio.components)

AcceptComponents ==
  /\ Loaded /\ Compatible
  /\ status' = "accounting"
  /\ grid' = IF Portfolio.policy = "strict" THEN CurveTimes(1)
                                            ELSE Ascending(CommonTimes)
  /\ previous' = Zero(loaded[1].curve[1].weights)
  /\ UNCHANGED <<attempts, damages, file, snapshots, loaded, sleeve, netted, legs>>

RefuseComponents == Loaded /\ ~Compatible /\ Conclude("INVALID")

-----------------------------------------------------------------------------
(* Accounting. *)

WholeCapital == Total([i \in Components |-> loaded[i].capital])
Weighted(values) == Total([i \in Components |-> loaded[i].capital * values[i]])
GridRow(i, k) == RowAt(i, grid[k])
FoldOf(k) == GridRow(1, k).fold
Target(k) ==
  [s \in DOMAIN loaded[1].curve[1].weights |->
     Weighted([i \in Components |-> GridRow(i, k).weights[s]])]

SleeveRow(k) ==
  [gross |-> Weighted([i \in Components |-> RowSize(GridRow(i, k).weights)]),
   turnover |-> Weighted([i \in Components |-> GridRow(i, k).turnover]),
   cost |-> Weighted([i \in Components |-> GridRow(i, k).cost]),
   net |-> Weighted([i \in Components |-> GridRow(i, k).net])]

(* Mutant: the book is not flat at the beginning of a fold. *)
HeldOverFolds(k) == previous

(* The weights the period trades from. *)
Held(k) == IF k > 1 /\ FoldOf(k - 1) = FoldOf(k) THEN previous ELSE Zero(previous)

(* The rates are those of the first component. *)
NettedRow(k) ==
  LET target == Target(k)
      turnover == Turnover(Held(k), target, k = Len(grid) \/ FoldOf(k + 1) # FoldOf(k))
      cost == turnover * Identity[loaded[1].experiment].cost
  IN [weights |-> target, gross |-> RowSize(target), turnover |-> turnover, cost |-> cost,
      net |-> Weighted([i \in Components |-> GridRow(i, k).price])
                + Weighted([i \in Components |-> GridRow(i, k).funding]) - cost]

Period == Len(netted) + 1
Solvent(k) ==
  /\ Capital * WholeCapital + SleeveRow(k).net > 0
  /\ Capital * WholeCapital + NettedRow(k).net > 0

AccountPeriod ==
  /\ status = "accounting" /\ Period <= Len(grid) /\ Solvent(Period)
  /\ sleeve' = Append(sleeve, SleeveRow(Period))
  /\ netted' = Append(netted, NettedRow(Period))
  /\ previous' = Target(Period)
  /\ UNCHANGED <<attempts, damages, status, file, snapshots, loaded, grid, legs>>

(* The error of one portfolio ends the build of all. *)
EquityLost ==
  /\ status = "accounting" /\ Period <= Len(grid) /\ ~Solvent(Period)
  /\ status' = "aborted"
  /\ UNCHANGED <<attempts, damages, building>>

-----------------------------------------------------------------------------
(* Reconstructed trades. *)

Sign(x) == IF x > 0 THEN 1 ELSE IF x < 0 THEN -1 ELSE 0

EventType(from, to) ==
  CASE from = 0 /\ to # 0 -> "entry"
    [] from # 0 /\ to = 0 -> "exit"
    [] Sign(from) * Sign(to) = -1 -> "flip"
    [] Sign(from) * Sign(to) = 1 /\ Size(to) > Size(from) -> "increase"
    [] OTHER -> "reduce"

(* The legs of a book: the changes of its weights, and the closing of what *)
(* a fold ends with.                                                       *)
BookLegs(weights) ==
  LET At(k, s) == weights[k][s]
      From(k, s) == IF k = 1 \/ FoldOf(k - 1) # FoldOf(k) THEN 0 ELSE At(k - 1, s)
      Ends(k) == k = Len(weights) \/ FoldOf(k + 1) # FoldOf(k)
      cells == (DOMAIN weights) \X (DOMAIN weights[1])
  IN {[period |-> x[1], symbol |-> x[2], forced |-> FALSE,
       delta |-> At(x[1], x[2]) - From(x[1], x[2]),
       type |-> EventType(From(x[1], x[2]), At(x[1], x[2]))] :
        x \in {y \in cells : At(y[1], y[2]) # From(y[1], y[2])}}
     \cup
     {[period |-> x[1], symbol |-> x[2], forced |-> TRUE, delta |-> -At(x[1], x[2]),
       type |-> "forced_fold_close"] :
        x \in {y \in cells : Ends(y[1]) /\ At(y[1], y[2]) # 0}}

ScaledWeights(i) ==
  [k \in DOMAIN grid |-> [s \in DOMAIN loaded[1].curve[1].weights |->
                            loaded[i].capital * GridRow(i, k).weights[s]]]

(* What the components with a leg of the same period, symbol and kind add  *)
(* to a leg of the netted book, by label: of two with one label the last.  *)
Contributions(parts, leg) ==
  LET Parts(i) == {part \in parts[i] : /\ part.period = leg.period
                                       /\ part.symbol = leg.symbol
                                       /\ part.forced = leg.forced}
      named == {i \in Components :
                  /\ Parts(i) # {}
                  /\ \A j \in Components :
                       j > i /\ Parts(j) # {} => loaded[j].label # loaded[i].label}
  IN Total([i \in named |-> (CHOOSE part \in Parts(i) : TRUE).delta])

(* reconstruct_trading *)
Reconstruction ==
  LET parts == [i \in Components |-> BookLegs(ScaledWeights(i))]
      book == BookLegs([k \in DOMAIN netted |-> netted[k].weights])
  IN [parts |-> parts, book |-> book,
      contributed |-> [leg \in book |-> Contributions(parts, leg)]]

Analyse ==
  /\ status = "accounting" /\ Period > Len(grid)
  /\ status' = "analysed"
  /\ legs' = Reconstruction
  /\ UNCHANGED <<attempts, damages, file, snapshots, loaded, grid, previous, sleeve, netted>>

Publish == status = "analysed" /\ Conclude("VALID")

(* The dashboard is written; another may be built. *)
Finish ==
  /\ status = "loading" /\ ~Remaining
  /\ status' = "idle"
  /\ file' = <<>> /\ snapshots' = <<>>
  /\ UNCHANGED <<attempts, damages, loaded, grid, previous, sleeve, netted, legs>>

Next ==
  \/ \E e \in Experiment : \E book \in Books[e], at \in Times : AttemptEnds(e, book, at)
  \/ \E e \in Experiment, i \in 1..MaxAttempts : Damage(e, i)
  \/ \E f \in Files : Build(f)
  \/ LoadComponent \/ LoadFails \/ AcceptComponents \/ RefuseComponents
  \/ AccountPeriod \/ EquityLost \/ Analyse \/ Publish \/ Finish

Spec == Init /\ [][Next]_vars

-----------------------------------------------------------------------------
Traded(part) == Total([leg \in part |-> Size(leg.delta)])
InPeriod(part, k) == {leg \in part : leg.period = k}

Comparable ==
  Portfolio.policy = "strict" /\ Same([i \in Components |-> Identity[loaded[i].experiment].cost])

(* ADR 0015: "Build both accounting views from the same verified OOS       *)
(* grid".  On one grid and one cost model, netting never trades, holds or  *)
(* costs more than the sleeves do on their own, in no period, and its      *)
(* result is better by exactly what it saves.                              *)
NettingOnlySaves ==
  status \in {"accounting", "analysed"} /\ Comparable =>
    \A k \in DOMAIN netted :
      /\ netted[k].turnover <= sleeve[k].turnover
      /\ netted[k].gross <= sleeve[k].gross
      /\ netted[k].cost <= sleeve[k].cost
      /\ netted[k].net - sleeve[k].net = sleeve[k].cost - netted[k].cost
      /\ Len(loaded) = 1 => netted[k].net = sleeve[k].net

(* Three pieces of code book the same trades: the backtest of each         *)
(* component, the netted account and the reconstruction from weights       *)
(* (backtest.py, accounting.py, trading.py).  Their totals agree in every  *)
(* period, the contributions of distinctly labelled components add up to   *)
(* each leg, and within a fold a position is left as often as entered.     *)
LegsExplainTheBooks ==
  status = "analysed" =>
    /\ \A k \in DOMAIN netted :
         /\ Traded(InPeriod(legs.book, k)) = netted[k].turnover
         /\ Portfolio.policy = "strict" =>
              Total([i \in Components |-> Traded(InPeriod(legs.parts[i], k))])
                = sleeve[k].turnover
    /\ (\A i, j \in Components : loaded[i].label = loaded[j].label => i = j) =>
         \A leg \in legs.book : legs.contributed[leg] = leg.delta
    /\ \A k \in DOMAIN grid, s \in DOMAIN loaded[1].curve[1].weights :
         LET cell(types) == {leg \in legs.book : leg.symbol = s /\ leg.type \in types
                                                 /\ FoldOf(leg.period) = FoldOf(k)}
         IN Cardinality(cell({"entry"})) = Cardinality(cell({"exit", "forced_fold_close"}))
===============================================================================

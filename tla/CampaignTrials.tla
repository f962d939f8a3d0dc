---------------------------- MODULE CampaignTrials ----------------------------
(***************************************************************************)
(* The trials a campaign specification expands to (plan_campaign).  A      *)
(* specification is a record: id, the content hash of all of it except     *)
(* maxTrials; fixed and grid, functions from qualified parameter names     *)
(* (strategy.x, portfolio.y) to a value and to a set of values; sums, the  *)
(* require_parameter_sum constraints; maxTrials; profile.                  *)
(***************************************************************************)
EXTENDS Integers, FiniteSets, Sequences
LOCAL INSTANCE FiniteSetsExt
LOCAL INSTANCE SequencesExt

CONSTANTS
  None,
  Parameters,         \* the numeric parameters of every trial, its tags
  Preregistered,      \* the trials whose hypothesis states success criteria
  RequiresCleanGit,   \* platform settings: promotion_requires_clean_git and the thresholds
  MinProfitableFolds, MaxMonthConcentration, MaxSymbolConcentration, MinPositiveNeighbors,
  Deflated(_, _)      \* does a Sharpe ratio pass min_dsr_probability among n trials?

(* _grid_combinations, each with the fixed parameters. *)
Combinations(spec) ==
  LET axes == DOMAIN spec.grid
      chosen == {f \in [axes -> UNION {spec.grid[a] : a \in axes}] :
                   \A a \in axes : f[a] \in spec.grid[a]}
  IN {[a \in axes \cup DOMAIN spec.fixed |->
         IF a \in axes THEN f[a] ELSE spec.fixed[a]] : f \in chosen}

ConstraintsKnown(spec) ==
  \A c \in spec.sums : c.fields \subseteq DOMAIN spec.grid \cup DOMAIN spec.fixed

ConstraintsPass(spec, p) ==
  \A c \in spec.sums : MapThenSumSet(LAMBDA a : p[a], c.fields) = c.equals

ValidCombinations(spec) == {p \in Combinations(spec) : ConstraintsPass(spec, p)}

(* plan_campaign returns a plan.  resume never allows a large campaign. *)
Plannable(spec, allowLarge) ==
  /\ ConstraintsKnown(spec)
  /\ ValidCombinations(spec) # {}
  /\ Cardinality(ValidCombinations(spec)) <= spec.maxTrials \/ allowLarge

(* The trials in the order of their content hashes: any fixed order. *)
TrialParameters(spec) == SetToSeq(ValidCombinations(spec))

(* An experiment id hashes the campaign id and the parameters. *)
TrialIds(spec) == {<<spec.id, i>> : i \in 1..Cardinality(ValidCombinations(spec))}

-----------------------------------------------------------------------------
(***************************************************************************)
(* The evidence a candidate is judged on (build_campaign_robustness and    *)
(* the gates of assess_candidate).  The argument trials maps every trial   *)
(* of the campaign that has a successful run NOW to the metrics of that    *)
(* run; the planned trials that have none are skipped.                     *)
(***************************************************************************)

(* By falling Sharpe, then by id. *)
Best(trials) ==
  CHOOSE t \in DOMAIN trials :
    \A u \in DOMAIN trials :
      \/ trials[u].sharpe < trials[t].sharpe
      \/ trials[u].sharpe = trials[t].sharpe /\ t[2] <= u[2]

Axes(trials) == DOMAIN Parameters[Best(trials)]
Extent(trials, a) ==
  LET values == {Parameters[t][a] : t \in DOMAIN trials} IN Max(values) - Min(values)
Varying(trials) == {a \in Axes(trials) : Extent(trials, a) > 0}

(* The squared normalised distance to the best trial, times the squares of *)
(* all the ranges.                                                         *)
Distance(trials, t) ==
  MapThenSumSet(
    LAMBDA a :
      LET step == (Parameters[t][a] - Parameters[Best(trials)][a])
                    * FoldSet(LAMBDA b, product : product * Extent(trials, b), 1,
                              Varying(trials) \ {a})
      IN step * step,
    Varying(trials))

(* parameter_neighborhood: the three nearest trials. *)
Neighbors(trials) ==
  LET others == DOMAIN trials \ {Best(trials)}
      Nearer(u, t) == \/ Distance(trials, u) < Distance(trials, t)
                      \/ Distance(trials, u) = Distance(trials, t) /\ u[2] < t[2]
  IN {t \in others : Cardinality({u \in others : Nearer(u, t)}) < 3}

NeighborhoodHolds(trials) ==
  /\ Cardinality(DOMAIN trials) >= 2
  /\ Varying(trials) # {}
  /\ LET near == Neighbors(trials)
     IN Cardinality({t \in near : trials[t].sharpe > 0}) * 100
          >= MinPositiveNeighbors * Cardinality(near)

(* The gates of assess_candidate; clean is the provenance of the code that *)
(* decides, and trials[t].clean that of the experiment.                    *)
GatesPass(trials, t, clean) ==
  /\ trials[t].intact
  /\ trials[t].clean
  /\ RequiresCleanGit => clean
  /\ t \in Preregistered
  /\ trials[t].netReturn > 0
  /\ trials[t].profitableFolds >= MinProfitableFolds
  /\ trials[t].monthConcentration <= MaxMonthConcentration
  /\ trials[t].symbolConcentration <= MaxSymbolConcentration
  /\ trials[t].costReturn > 0
  /\ trials[t].delayReturn > 0
  /\ NeighborhoodHolds(trials)
  /\ Deflated(trials[Best(trials)].sharpe, Cardinality(DOMAIN trials))
  /\ t = Best(trials)

-----------------------------------------------------------------------------
(***************************************************************************)
(* What a campaign's declared comparison of two trials says of a feature   *)
(* (ablation.py): the two trials, the differences with-minus-without and   *)
(* the decision.  A declaration is a record: feature; change, ADDED or     *)
(* REMOVED; baseline and candidate, partial functions from parameters to   *)
(* values; the thresholds minSharpe, minReturn, minFolds, needsCost; and   *)
(* override, a decision or None.                                           *)
(***************************************************************************)
FeatureDecisions ==
  {"SUPPORTED", "CONDITIONAL", "REJECTED", "INCONCLUSIVE", "INVALIDATED", "RETEST_REQUIRED"}

Selected(params, selector) ==
  {t \in DOMAIN params : \A a \in DOMAIN selector : /\ a \in DOMAIN params[t]
                                                    /\ params[t][a] = selector[a]}

(* Exactly one trial answers each selector, the two differ, and both have  *)
(* a successful run.                                                       *)
Resolvable(params, runs, declaration) ==
  LET baseline == Selected(params, declaration.baseline)
      candidate == Selected(params, declaration.candidate)
  IN /\ Cardinality(baseline) = 1 /\ Cardinality(candidate) = 1
     /\ baseline # candidate
     /\ \A t \in baseline \cup candidate : runs[t] # None

TrialFor(params, selector) == CHOOSE t \in Selected(params, selector) : TRUE

WithFeature(params, declaration) ==
  TrialFor(params, IF declaration.change = "REMOVED" THEN declaration.baseline
                                                     ELSE declaration.candidate)
WithoutFeature(params, declaration) ==
  TrialFor(params, IF declaration.change = "REMOVED" THEN declaration.candidate
                                                     ELSE declaration.baseline)

(* calculate_incremental_metrics, the deltas _decide uses. *)
Incremental(with, without) ==
  [netReturn |-> with.netReturn - without.netReturn,
   sharpe    |-> with.sharpe - without.sharpe,
   turnover  |-> with.turnover - without.turnover,
   cost      |-> with.cost - without.cost,
   gross     |-> with.gross - without.gross]

ImprovedFolds(with, without) ==
  Cardinality({f \in DOMAIN with.folds : with.folds[f] > without.folds[f]})

Supports(declaration, delta, improved, with) ==
  /\ delta.sharpe > declaration.minSharpe
  /\ delta.netReturn > declaration.minReturn
  /\ improved >= declaration.minFolds
  /\ declaration.needsCost => with.costReturn > 0

Rejects(delta) ==
  \/ /\ delta.gross > 0 /\ delta.netReturn < 0
     /\ delta.turnover > 0 \/ delta.cost > 0
  \/ delta.sharpe <= 0 /\ delta.netReturn <= 0

Decide(declaration, with, without) ==
  LET delta == Incremental(with, without)
  IN CASE declaration.override # None -> declaration.override
       [] Supports(declaration, delta, ImprovedFolds(with, without), with) -> "SUPPORTED"
       [] Rejects(delta) -> "REJECTED"
       [] OTHER -> "INCONCLUSIVE"
=============================================================================

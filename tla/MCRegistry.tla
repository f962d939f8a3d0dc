------------------------------ MODULE MCRegistry ------------------------------
(***************************************************************************)
(* An instance of ResearchRegistry: one feature in two code versions, one  *)
(* hypothesis, one campaign planned from its grid, two processes.          *)
(***************************************************************************)
EXTENDS ResearchRegistry, TLC

CONSTANTS m1, m2

MCManager == {m1, m2}
MCCleanGit == MCManager
Symmetric == Permutations(MCManager)

(* A window of 1 or 2 and a weight of 1 or 2 whose sum must be 3. *)
Sweep(max) ==
  [id |-> "sweep", name |-> "sweep", fixed |-> [a \in {"strategy.lag"} |-> 1],
   grid |-> [a \in {"strategy.window", "portfolio.weight"} |-> {1, 2}],
   sums |-> {[fields |-> {"strategy.window", "portfolio.weight"}, equals |-> 3]},
   maxTrials |-> max]

MCTrial == TrialIds(Sweep(2))
MCParameters == [t \in MCTrial |-> TrialParameters(Sweep(2))[t[2]]]
MCProfile == [t \in MCTrial |-> "full"]

Feature == <<"feature", 1>>
FeatureSet == <<"feature_set", 1>>
Hypothesis == <<"hypothesis", 1>>
Campaign == <<"campaign", 1>>
MCTrialKey(t) == <<"experiment", t[2]>>
MCMemberKey(t) == <<"member", t[2]>>
MCKey ==
  {Feature, FeatureSet, Hypothesis, Campaign} \cup
  {MCTrialKey(t) : t \in MCTrial} \cup {MCMemberKey(t) : t \in MCTrial}

Meaning(version, refs) == [version |-> version, refs |-> refs]
Call(key, version, refs) == [key |-> key, def |-> Meaning(version, refs)]

(* sync_builtin_registry of a version of the code. *)
Sync(version) == <<Call(Feature, version, {}), Call(FeatureSet, version, {Feature})>>
AddHypothesis(version) == <<Call(Hypothesis, version, {})>>

(* campaign run: sync, the campaign, then each trial and its membership.   *)
(* The stored specification holds maxTrials, the identity does not.        *)
TrialCalls(t) ==
  <<Call(MCTrialKey(t), 1, {Hypothesis, FeatureSet}),
    Call(MCMemberKey(t), 1, {Campaign, MCTrialKey(t)})>>
RunCampaign(spec) ==
  Sync(1) \o <<Call(Campaign, spec.maxTrials, {Hypothesis})>>
    \o TrialCalls(<<spec.id, 1>>) \o TrialCalls(<<spec.id, 2>>)

Plans == {Sweep(max) : max \in {1, 2, 3}}
MCCommands ==
  {Sync(2), AddHypothesis(1)} \cup
  {RunCampaign(spec) : spec \in {p \in Plans : Plannable(p, FALSE)}}
MCDefinition ==
  {calls[i].def : <<calls, i>> \in {x \in MCCommands \X (1..8) : x[2] \in DOMAIN x[1]}}

MCReviewed == {<<"sweep", 1>>}

Result(sharpe) ==
  [sharpe |-> sharpe, netReturn |-> sharpe, profitableFolds |-> 2,
   monthConcentration |-> 40, symbolConcentration |-> 40,
   costReturn |-> 1, delayReturn |-> 1, turnover |-> sharpe,
   cost |-> 1, gross |-> sharpe, folds |-> <<sharpe, sharpe>>, intact |-> TRUE, clean |-> TRUE]
MCMetrics ==
  [t \in MCTrial |-> IF t \in MCReviewed THEN {Result(4)} ELSE {Result(2), Result(6)}]

(* A Sharpe ratio that two trials could not reach by luck. *)
MCDeflated(sharpe, trials) == sharpe >= 2 * trials

MCDeclarations ==
  {[feature |-> Feature, change |-> "ADDED",
    baseline |-> [a \in {"strategy.window"} |-> 1],
    candidate |-> [a \in {"strategy.window"} |-> 2],
    minSharpe |-> 0, minReturn |-> 0, minFolds |-> 2, needsCost |-> TRUE, override |-> None]}

MCByHand ==
  {[from |-> "CANDIDATE", to |-> "LOCKBOX_EVALUATED", decision |-> "APPROVED"],
   [from |-> "REJECTED", to |-> "INVALIDATED", decision |-> "INVALIDATED"]}

MCTimes == {1, 2}
=============================================================================

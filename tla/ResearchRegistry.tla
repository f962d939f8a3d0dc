--------------------------- MODULE ResearchRegistry ---------------------------
(***************************************************************************)
(* The research registry as the commands of several processes use it:      *)
(* definitions that are registered once (INSERT OR IGNORE, then compared   *)
(* with what is stored), campaigns that are registered one row per         *)
(* transaction, promotion events, and feature evaluations.                 *)
(*                                                                         *)
(* Each call of the store is one IMMEDIATE transaction, hence one action.  *)
(* A command makes several: between them another process may run, or this  *)
(* one may be killed.  A command that only writes is the list of its       *)
(* remaining calls; one that reads first holds what it read.               *)
(***************************************************************************)
EXTENDS PromotionHistory, CampaignTrials

CONSTANTS
  Manager,            \* processes
  Key,                \* names of definitions: features, sets, hypotheses, campaigns, trials
  Definition,         \* what a name stands for; .refs are the names its foreign keys refer to
  Commands,           \* sequences of calls [key, def]: registry init, hypothesis add, run
  Trial,              \* experiments
  TrialKey(_),        \* the name of an experiment's row
  MemberKey(_),       \* the name of its row in the campaign
  Profile,            \* the validation profile of each trial: "full" or "discovery"
  Metrics,            \* what a successful run of each trial may report
  Times,              \* created_at_ms: the wall clock, which may be set back
  Declarations,       \* the ablations of the campaign
  Lockbox,            \* is platform.lockbox_manifest configured?
  CleanGit,           \* the processes that run from a clean checkout
  ByHand,             \* [from, to, decision] that callers of the store record
  Reviewed,           \* the experiments somebody asks to promote or reject
  MaxEvents,          \* bound: promotion events of an experiment
  MaxCommands         \* bound: registration commands

VARIABLES
  rows,          \* the registered definitions
  latest,        \* the latest successful run of each experiment
  promotions,    \* the events of each experiment, by rowid
  evaluations,   \* the decisions about features
  session,       \* the command each process is executing
  commands       \* registration commands so far (bound)

vars == <<rows, latest, promotions, evaluations, session, commands>>

Event ==
  [at : Times, from : Stages, to : Stages, decision : Decisions, passed : BOOLEAN,
   clean : BOOLEAN]

Idle == [step |-> "idle"]
Calls == [key : Key, def : Definition]

ASSUME RegistryAssumption ==
  /\ None \notin Definition
  /\ \A d \in Definition : d.refs \subseteq Key
  /\ Commands \subseteq Seq(Calls)
  /\ Reviewed \subseteq Trial
  /\ Times \subseteq Int
  /\ ByHand \subseteq [from : Stages, to : Stages, decision : Decisions]
  /\ \A d \in Declarations : d.feature \in Key /\ d.override \in FeatureDecisions \cup {None}
  /\ MaxCommands \in Nat

Init ==
  /\ rows = [k \in Key |-> None]
  /\ latest = [t \in Trial |-> None]
  /\ promotions = [t \in Trial |-> <<>>]
  /\ evaluations = {}
  /\ session = [m \in Manager |-> Idle]
  /\ commands = 0

Go(m, s) == session' = [session EXCEPT ![m] = s]

-----------------------------------------------------------------------------
(* Registration. *)

(* registry init, hypothesis add, campaign run (sync, then register). *)
StartCommand(m, calls) ==
  /\ session[m] = Idle /\ commands < MaxCommands
  /\ commands' = commands + 1
  /\ Go(m, [step |-> "write", todo |-> calls])
  /\ UNCHANGED <<rows, latest, promotions, evaluations>>

(* Mutant: INSERT OR IGNORE on a connection without foreign keys. *)
Unreferenced(call) ==
  IF rows[call.key] = None THEN [rows EXCEPT ![call.key] = call.def] ELSE rows

(* INSERT OR IGNORE keeps a row that exists; a foreign key without its row *)
(* is an error.                                                            *)
Inserted(call) ==
  IF rows[call.key] = None /\ \A k \in call.def.refs : rows[k] # None
    THEN [rows EXCEPT ![call.key] = call.def]
    ELSE rows

(* register_*: on a conflict with the stored definition the command fails. *)
Register(m) ==
  /\ session[m].step = "write" /\ session[m].todo # <<>>
  /\ LET call == Head(session[m].todo)
     IN /\ rows' = Inserted(call)
        /\ Go(m, IF rows'[call.key] = call.def
                   THEN [step |-> "write", todo |-> Tail(session[m].todo)]
                   ELSE Idle)
  /\ UNCHANGED <<commands, latest, promotions, evaluations>>

EndCommand(m) ==
  /\ session[m].step = "write" /\ session[m].todo = <<>>
  /\ Go(m, Idle)
  /\ UNCHANGED <<commands, rows, latest, promotions, evaluations>>

(* An attempt of the experiment succeeds (modules ExperimentRun and        *)
(* CampaignRun).  Of two results of one experiment, the first is kept.     *)
RunSucceeds(t, result) ==
  /\ rows[TrialKey(t)] # None /\ latest[t] = None
  /\ latest' = [latest EXCEPT ![t] = result]
  /\ UNCHANGED <<commands, rows, promotions, evaluations, session>>

(* The process is killed. *)
Killed(m) ==
  /\ session[m] # Idle
  /\ Go(m, Idle)
  /\ UNCHANGED <<commands, rows, latest, promotions, evaluations>>

-----------------------------------------------------------------------------
(* Promotion. *)

Known(t) == rows[TrialKey(t)] # None /\ Profile[t] # "discovery"

(* The trials of t's campaign that have a successful run. *)
Finished(t) == {u \in Trial : u[1] = t[1] /\ rows[MemberKey(u)] # None /\ latest[u] # None}

Evidence(t) ==
  [u \in Finished(t) |-> latest[u]]

(* assess_candidate, up to the gates. *)
AssessCandidate(m, t) ==
  /\ session[m] = Idle
  /\ Known(t) /\ rows[MemberKey(t)] # None
  /\ t \in Finished(t)
  /\ Go(m, [step |-> "assessed", trial |-> t,
            passed |-> GatesPass(Evidence(t), t, m \in CleanGit)])
  /\ UNCHANGED <<commands, rows, latest, promotions, evaluations>>

(* The event that a command will ask to be recorded: the stage it starts   *)
(* from was read in a transaction of its own.                              *)
Ask(m, t, from, to, decision, passed) ==
  Go(m, [step |-> "record", trial |-> t,
         event |-> [from |-> from, to |-> to, decision |-> decision, passed |-> passed,
                    clean |-> m \in CleanGit]])

(* promote_candidate goes on in DISCOVERY only. *)
AskCandidate(m) ==
  /\ session[m].step = "assessed"
  /\ LET s == session[m]
     IN /\ ReadsAs(promotions[s.trial], "DISCOVERY")
        /\ Ask(m, s.trial, "DISCOVERY", "CANDIDATE",
               IF s.passed THEN "APPROVED" ELSE "BLOCKED", s.passed)
  /\ UNCHANGED <<commands, rows, latest, promotions, evaluations>>

CandidateRefused(m) ==
  /\ session[m].step = "assessed"
  /\ ~ReadsAs(promotions[session[m].trial], "DISCOVERY")
  /\ Go(m, Idle)
  /\ UNCHANGED <<commands, rows, latest, promotions, evaluations>>

(* promote_phase4: BLOCKED at any stage but LOCKBOX_EVALUATED. *)
AskPhase4(m, t) ==
  /\ session[m] = Idle
  /\ Known(t) /\ rows[MemberKey(t)] # None /\ Finished(t) # {}
  /\ \E stage \in Stages :
       /\ ReadsAs(promotions[t], stage)
       /\ LET passed == stage = "LOCKBOX_EVALUATED" /\ Lockbox /\ m \in CleanGit
          IN Ask(m, t, stage, "PHASE4_CANDIDATE", IF passed THEN "APPROVED" ELSE "BLOCKED",
                 passed)
  /\ UNCHANGED <<commands, rows, latest, promotions, evaluations>>

(* reject. *)
AskRejection(m, t) ==
  /\ session[m] = Idle
  /\ rows[TrialKey(t)] # None
  /\ \E stage \in Stages :
       /\ ReadsAs(promotions[t], stage)
       /\ "REJECTED" \in PromotionTransitions[stage]
       /\ Ask(m, t, stage, "REJECTED", "REJECTED", FALSE)
  /\ UNCHANGED <<commands, rows, latest, promotions, evaluations>>

(* No command evaluates a lockbox or invalidates: a caller of the store    *)
(* records these events with the stage it believes in.                     *)
AskByHand(m, t, e) ==
  /\ session[m] = Idle
  /\ rows[TrialKey(t)] # None
  /\ Ask(m, t, e.from, e.to, e.decision, TRUE)
  /\ UNCHANGED <<commands, rows, latest, promotions, evaluations>>

Stamped(e, at) ==
  [at |-> at, from |-> e.from, to |-> e.to, decision |-> e.decision, passed |-> e.passed,
   clean |-> e.clean]

(* record_promotion_event: one transaction derives the stage anew, checks  *)
(* the event and inserts it.                                               *)
RecordEvent(m, at) ==
  /\ session[m].step = "record"
  /\ LET s == session[m]
         h == promotions[s.trial]
     IN /\ Len(h) < MaxEvents
        /\ promotions' =
             IF Accepts(h, s.event)
               THEN [promotions EXCEPT ![s.trial] = Append(h, Stamped(s.event, at))]
               ELSE promotions
  /\ Go(m, Idle)
  /\ UNCHANGED <<commands, rows, latest, evaluations>>

-----------------------------------------------------------------------------
(* Ablation. *)

InCampaign == [t \in {u \in Trial : rows[MemberKey(u)] # None} |-> Parameters[t]]

(* _evaluate reads the runs of both trials and computes the decision ... *)
Ablate(m, d) ==
  /\ session[m] = Idle
  /\ Resolvable(InCampaign, latest, d)
  /\ LET with == WithFeature(InCampaign, d)
         without == WithoutFeature(InCampaign, d)
     IN Go(m, [step |-> "ablated", feature |-> d.feature, trial |-> with,
               decision |-> Decide(d, latest[with], latest[without])])
  /\ UNCHANGED <<commands, rows, latest, promotions, evaluations>>

(* ... and record_feature_evaluations inserts the whole batch. *)
RecordEvaluations(m) ==
  /\ session[m].step = "ablated"
  /\ LET s == session[m]
     IN evaluations' =
          IF latest[s.trial] # None /\ rows[s.feature] # None
            THEN evaluations \cup {[feature |-> s.feature, trial |-> s.trial,
                                    decision |-> s.decision]}
            ELSE evaluations
  /\ Go(m, Idle)
  /\ UNCHANGED <<commands, rows, latest, promotions>>

-----------------------------------------------------------------------------
Next ==
  \/ \E m \in Manager, calls \in Commands : StartCommand(m, calls)
  \/ \E m \in Manager : Register(m)
  \/ \E m \in Manager : EndCommand(m)
  \/ \E m \in Manager : Killed(m)
  \/ \E t \in Trial : \E result \in Metrics[t] : RunSucceeds(t, result)
  \/ \E m \in Manager, t \in Reviewed : AssessCandidate(m, t)
  \/ \E m \in Manager : AskCandidate(m)
  \/ \E m \in Manager : CandidateRefused(m)
  \/ \E m \in Manager, t \in Reviewed : AskPhase4(m, t)
  \/ \E m \in Manager, t \in Reviewed : AskRejection(m, t)
  \/ \E m \in Manager, t \in Reviewed, e \in ByHand : AskByHand(m, t, e)
  \/ \E m \in Manager, at \in Times : RecordEvent(m, at)
  \/ \E m \in Manager, d \in Declarations : Ablate(m, d)
  \/ \E m \in Manager : RecordEvaluations(m)

Spec == Init /\ [][Next]_vars

-----------------------------------------------------------------------------
(* Properties. *)

Asked ==
  [from : Stages, to : Stages, decision : Decisions, passed : BOOLEAN, clean : BOOLEAN]
Sessions ==
  {Idle} \cup
  [step : {"write"}, todo : Seq(Calls)] \cup
  [step : {"assessed"}, trial : Trial, passed : BOOLEAN] \cup
  [step : {"record"}, trial : Trial, event : Asked] \cup
  [step : {"ablated"}, feature : Key, trial : Trial, decision : FeatureDecisions]

(* Every variable has its type, and what a registered row refers to is     *)
(* registered: a definition is never ahead of those it is made of, in      *)
(* whatever order the commands interleave and wherever they are killed.    *)
TypeOK ==
  /\ rows \in [Key -> Definition \cup {None}]
  /\ latest \in [Trial -> (UNION {Metrics[t] : t \in Trial}) \cup {None}]
  /\ promotions \in [Trial -> Seq(Event)]
  /\ evaluations \subseteq [feature : Key, trial : Trial, decision : FeatureDecisions]
  /\ session \in [Manager -> Sessions]
  /\ commands \in 0..MaxCommands
  /\ \A k \in Key : rows[k] # None => \A r \in rows[k].refs : rows[r] # None

(* The stage of an experiment by the order in which its events were        *)
(* recorded.                                                               *)
LastMove(h) == CHOOSE i \in Moves(h) : \A j \in Moves(h) : j <= i
RecordedStage(h) == IF Moves(h) = {} THEN "DISCOVERY" ELSE h[LastMove(h)].to

(* A promotion history is read in the order of its timestamps              *)
(* (record_promotion_event, list_promotions).  After the clock was set     *)
(* back it may be unreadable, but a history that can be read gives the     *)
(* stage that was recorded last, never an earlier one.                     *)
ReadStageIsTrue ==
  \A t \in Trial : \A s \in Stages :
    ReadsAs(promotions[t], s) => s = RecordedStage(promotions[t])

(* docs/adr/0013: "Promotion/rejection history is auditable and experiment *)
(* specs remain immutable".  The registry is an append-only record: no     *)
(* command, interleaved with any other and killed anywhere, redefines a    *)
(* name, moves an experiment along a transition that does not exist from   *)
(* the stage it is really in (two commands may have read the same stage),  *)
(* or loses a decision.                                                    *)
Audited ==
  INSTANCE ResearchRecord WITH
    Names <- Key, Meanings <- Definition, Undefined <- None, Subjects <- Trial,
    Conclusions <- [feature : Key, trial : Trial, decision : FeatureDecisions],
    FirstStage <- "DISCOVERY", Follows <- PromotionTransitions,
    meaning <- rows, stage <- [t \in Trial |-> RecordedStage(promotions[t])],
    concluded <- evaluations

RecordIsAppendOnly == Audited!Spec
=============================================================================

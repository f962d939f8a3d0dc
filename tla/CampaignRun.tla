----------------------------- MODULE CampaignRun -----------------------------
(***************************************************************************)
(* A campaign: research/experiments/campaign_runner.py (CampaignRunner.run *)
(* and _execute_pending) on the campaign state machine of store.py.  Each  *)
(* coordinator is one "campaign run" command on the same plan; it executes *)
(* its pending trials one after the other in its own process (one worker), *)
(* or in a pool of worker processes.  Attempts are module ExperimentRun's. *)
(*                                                                         *)
(* Attempts that belong to nobody are those of "experiment rerun" and of   *)
(* workers that outlived their coordinator.                                *)
(***************************************************************************)
EXTENDS ExperimentRun, FiniteSetsExt

CONSTANTS
  Coordinators,  \* the "campaign run" commands
  WorkerCounts,  \* the values of runner.max_workers the plan may have
  MaxCommands,   \* bound on the commands that are started
  MaxReruns,     \* bound on the "experiment rerun" commands among them
  MaxFaults,     \* bound on interrupts, killed processes and damaged bundles
  Nobody

ASSUME CampaignAssumption ==
  /\ WorkerCounts \subseteq Nat \ {0}
  /\ {MaxCommands, MaxReruns, MaxFaults} \subseteq Nat
  /\ MaxCommands <= MaxAttempts
  /\ Nobody \notin Coordinators

VARIABLES
  campaign,  \* research_campaigns.status, or "none" without a row
  plan,      \* runner.max_workers and runner.fail_fast
  local,     \* where each coordinator is, and its local variables
  owner,     \* the coordinator an attempt is executed for
  used       \* how many commands there were, and interrupts, kills and damages

vars == <<runVars, campaign, plan, local, owner, used>>

-----------------------------------------------------------------------------

CampaignStatus ==
  {"PLANNED", "QUEUED", "RUNNING", "COMPLETED", "PARTIAL", "FAILED", "CANCELLED"}

CampaignTransitions ==
  [s \in CampaignStatus |->
     CASE s = "PLANNED" -> {"QUEUED", "CANCELLED"}
       [] s = "QUEUED"  -> {"RUNNING", "CANCELLED"}
       [] s = "RUNNING" -> {"COMPLETED", "PARTIAL", "FAILED", "CANCELLED"}
       [] s = "PARTIAL" -> {"RUNNING"}
       [] OTHER         -> {}]

(* transition_campaign raises when the transition is not allowed. *)
CanMove(new) == campaign \in CampaignStatus /\ new \in CampaignTransitions[campaign]

(* seen is the status in the variable campaign of run, todo what the       *)
(* present loop has not come to, job the future of each pending request,   *)
(* target the attempt about to be marked STALE.                            *)
Idle ==
  [pc |-> "idle", seen |-> "none", todo |-> {}, cached |-> {}, pending |-> {},
   failures |-> {}, job |-> [t \in Trials |-> "none"], target |-> NoRun]

Init ==
  /\ RunInit
  /\ campaign = "none"
  /\ plan \in [workers : WorkerCounts, fail_fast : BOOLEAN]
  /\ local = [c \in Coordinators |-> Idle]
  /\ owner = [r \in Runs |-> Nobody]
  /\ used = [commands |-> 0, reruns |-> 0, faults |-> 0]

Sequential == plan.workers = 1
Jobs(c, states) == {t \in local[c].pending : local[c].job[t] \in states}
CountFault == used.faults < MaxFaults /\ used' = [used EXCEPT !.faults = @ + 1]

(* The command is over: its local variables go with it, and attempts that  *)
(* its workers still execute are nobody's.                                 *)
Leave(c) ==
  /\ local' = [local EXCEPT ![c] = Idle]
  /\ owner' = [r \in Runs |-> IF owner[r] = c THEN Nobody ELSE owner[r]]

-----------------------------------------------------------------------------
(* Before the trials are executed. *)

(* register is idempotent, and its record of the campaign is what run      *)
(* looks at afterwards.                                                    *)
Register(c) ==
  /\ local[c].pc = "idle"
  /\ used.commands < MaxCommands
  /\ used' = [used EXCEPT !.commands = @ + 1]
  /\ campaign' = IF campaign = "none" THEN "PLANNED" ELSE campaign
  /\ local' = [local EXCEPT ![c].pc = "planning", ![c].seen = campaign', ![c].todo = Trials]
  /\ UNCHANGED <<runVars, plan, owner>>

(* Mutant of IsCacheHit: any attempt that is over will do. *)
IsEndedHit(t) == LatestRun(t) # NoRun /\ ~Executing(LatestRun(t))

IsCacheHit(t) ==
  LET s == LatestSuccessfulRun(t) IN s # NoRun /\ VerifyRun(s)

(* The next trial of the plan is a cache hit or has to be executed. *)
PlanTrial(c) ==
  /\ local[c].pc = "planning"
  /\ local[c].todo # {}
  /\ LET t == Min(local[c].todo)
     IN  IF IsCacheHit(t)
         THEN local' = [local EXCEPT ![c].todo = @ \ {t}, ![c].cached = @ \cup {t}]
         ELSE local' = [local EXCEPT ![c].todo = @ \ {t}, ![c].pending = @ \cup {t}]
  /\ UNCHANGED <<runVars, campaign, plan, owner, used>>

Planned(c) == local[c].pc = "planning" /\ local[c].todo = {}

(* Everything is there, or the campaign cannot run from its status. *)
ReturnOrRefuse(c) ==
  /\ Planned(c)
  /\ local[c].seen \in {"COMPLETED", "FAILED", "CANCELLED"}
  /\ Leave(c)
  /\ UNCHANGED <<runVars, campaign, plan, used>>

(* transition_campaign to QUEUED, then to RUNNING.  Another command may     *)
(* have been faster: then the transition raises.                           *)
Advance(c, new) ==
  /\ IF CanMove(new)
     THEN /\ campaign' = new
          /\ local' = [local EXCEPT ![c].seen = new]
          /\ UNCHANGED owner
     ELSE Leave(c) /\ UNCHANGED campaign
  /\ UNCHANGED <<runVars, plan, used>>

QueueCampaign(c) ==
  /\ Planned(c)
  /\ local[c].seen = "PLANNED"
  /\ Advance(c, "QUEUED")

StartCampaign(c) ==
  /\ Planned(c)
  /\ local[c].seen \in {"QUEUED", "PARTIAL"}
  /\ Advance(c, "RUNNING")

(* A campaign that is RUNNING already is entered as well. *)
SubmitPending(c) ==
  /\ Planned(c)
  /\ local[c].seen = "RUNNING"
  /\ local' = [local EXCEPT
       ![c].pc = "executing",
       ![c].job = [t \in Trials |-> IF t \in local[c].pending THEN "waiting" ELSE "none"]]
  /\ UNCHANGED <<runVars, campaign, plan, owner, used>>

-----------------------------------------------------------------------------
(* The trials are executed. *)

(* A worker is free and takes the next request.  With one worker, the loop *)
(* of the coordinator has come to it.                                      *)
StartTrial(c, r) ==
  /\ local[c].pc \in {"executing", "draining", "stopping", "marking"}
  /\ Jobs(c, {"waiting"}) # {}
  /\ TrialOf(r) = Min(Jobs(c, {"waiting"}))
  /\ Cardinality(Jobs(c, {"running"})) < plan.workers
  /\ Sequential => Jobs(c, {"error"}) = {}
  /\ CreateRun(r)
  /\ owner' = [owner EXCEPT ![r] = c]
  /\ local' = [local EXCEPT ![c].job[TrialOf(r)] = "running"]
  /\ UNCHANGED <<campaign, plan, used>>

(* An attempt goes on; when it is over its future gets the result. *)
Execute(r) ==
  /\ RunStep(r)
  /\ local' = IF owner[r] = Nobody \/ exec'[r] \notin Ended THEN local
              ELSE [local EXCEPT ![owner[r]].job[TrialOf(r)] =
                      IF exec[r] = "completed" THEN "ok" ELSE "error"]
  /\ UNCHANGED <<campaign, plan, owner, used>>

(* A trial that failed is noted; the result of one that succeeded is not   *)
(* looked at any further.                                                  *)
CollectFailure(c, t) ==
  /\ local[c].pc = "executing"
  /\ t \in Jobs(c, {"error"})
  /\ ~plan.fail_fast
  /\ local' = [local EXCEPT ![c].failures = @ \cup {t}, ![c].job[t] = "collected"]
  /\ UNCHANGED <<runVars, campaign, plan, owner, used>>

(* The futures of the coordinator when the requests of cancelled are.  The  *)
(* pool has handed the first requests to its call queue, and executes them  *)
(* nevertheless.                                                            *)
AfterCancel(c, cancelled) ==
  [t \in Trials |-> IF t \in cancelled THEN "cancelled" ELSE local[c].job[t]]
Cancellable(c) ==
  {cancelled \in SUBSET Jobs(c, {"waiting"}) :
     \A t \in Jobs(c, {"waiting"}) \ cancelled, u \in cancelled : t < u}

(* fail_fast with one worker: the trials not yet executed count as failed. *)
FailFastSequential(c, t) ==
  /\ local[c].pc = "executing"
  /\ t \in Jobs(c, {"error"})
  /\ plan.fail_fast /\ Sequential
  /\ local' = [local EXCEPT
       ![c].failures = @ \cup {t} \cup Jobs(c, {"waiting"}),
       ![c].job = [AfterCancel(c, Jobs(c, {"waiting"})) EXCEPT ![t] = "collected"]]
  /\ UNCHANGED <<runVars, campaign, plan, owner, used>>

(* fail_fast with a pool: only the trial at hand counts as failed, and the *)
(* futures still open are no longer looked at.                             *)
FailFastParallel(c, t) ==
  /\ local[c].pc = "executing"
  /\ t \in Jobs(c, {"error"})
  /\ plan.fail_fast /\ ~Sequential
  /\ \E cancelled \in Cancellable(c) :
       local' = [local EXCEPT ![c].pc = "draining",
                              ![c].failures = @ \cup {t},
                              ![c].job = AfterCancel(c, cancelled)]
  /\ UNCHANGED <<runVars, campaign, plan, owner, used>>

(* Mutant of Executed: after fail_fast every future must be collected. *)
ExecutedAll(c) ==
  /\ local[c].pc \in {"executing", "draining"}
  /\ Jobs(c, {"waiting", "running", "error"}) = {}

Executed(c) ==
  \/ local[c].pc = "executing" /\ Jobs(c, {"waiting", "running", "error"}) = {}
  \/ local[c].pc = "draining" /\ Jobs(c, {"waiting", "running"}) = {}

SucceededCount(c) ==
  Cardinality(local[c].cached) + Cardinality(local[c].pending) - Cardinality(local[c].failures)

(* Mutant of FinalStatus: one failure is tolerated. *)
FinalStatusTolerant(c) ==
  IF SucceededCount(c) + 1 >= Cardinality(Trials) THEN "COMPLETED"
  ELSE IF SucceededCount(c) > 0 THEN "PARTIAL" ELSE "FAILED"

FinalStatus(c) ==
  IF SucceededCount(c) = Cardinality(Trials) THEN "COMPLETED"
  ELSE IF SucceededCount(c) > 0 THEN "PARTIAL" ELSE "FAILED"

FinishCampaign(c) ==
  /\ Executed(c)
  /\ campaign' = IF CanMove(FinalStatus(c)) THEN FinalStatus(c) ELSE campaign
  /\ Leave(c)
  /\ UNCHANGED <<runVars, plan, used>>

-----------------------------------------------------------------------------
(* Ctrl+C in the coordinator.  One that hits a trial executed in the same  *)
(* process is a Raise of that attempt, and the loop goes on.               *)

(* Between two trials with one worker, or while the pool is waited for:    *)
(* the handler of run gets it at once.                                     *)
InterruptLoop(c) ==
  /\ CountFault
  /\ \/ local[c].pc = "executing" /\ Sequential /\ Jobs(c, {"running"}) = {}
     \/ local[c].pc \in {"draining", "stopping"}
  /\ local' = [local EXCEPT
       ![c].pc = "marking",
       ![c].todo = local[c].pending,
       ![c].job = AfterCancel(c, IF Sequential THEN Jobs(c, {"waiting"}) ELSE {})]
  /\ UNCHANGED <<runVars, campaign, plan, owner>>

(* The pool is told to stop and is waited for. *)
InterruptPool(c) ==
  /\ CountFault
  /\ local[c].pc = "executing" /\ ~Sequential
  /\ \E cancelled \in Cancellable(c) :
       local' = [local EXCEPT ![c].pc = "stopping", ![c].job = AfterCancel(c, cancelled)]
  /\ UNCHANGED <<runVars, campaign, plan, owner>>

PoolStopped(c) ==
  /\ local[c].pc = "stopping"
  /\ Jobs(c, {"waiting", "running"}) = {}
  /\ local' = [local EXCEPT ![c].pc = "marking", ![c].todo = local[c].pending]
  /\ UNCHANGED <<runVars, campaign, plan, owner, used>>

(* The latest attempt of the next pending trial, whoever executes it. *)
ReadLatestRun(c) ==
  /\ local[c].pc = "marking"
  /\ local[c].todo # {}
  /\ local[c].target = NoRun
  /\ LET t == Min(local[c].todo)
         r == LatestRun(t)
     IN  IF r # NoRun /\ status[r] = "RUNNING"
         THEN local' = [local EXCEPT ![c].target = r]
         ELSE local' = [local EXCEPT ![c].todo = @ \ {t}]
  /\ UNCHANGED <<runVars, campaign, plan, owner, used>>

(* It becomes STALE, unless it came to its end since it was read: then the *)
(* handler itself raises and the campaign stays RUNNING.                   *)
MarkLatestStale(c) ==
  /\ local[c].pc = "marking"
  /\ local[c].target # NoRun
  /\ IF status[local[c].target] = "RUNNING"
     THEN /\ MarkStale(local[c].target)
          /\ local' = [local EXCEPT ![c].todo = @ \ {TrialOf(local[c].target)},
                                    ![c].target = NoRun]
          /\ UNCHANGED owner
     ELSE Leave(c) /\ UNCHANGED runVars
  /\ UNCHANGED <<campaign, plan, used>>

CancelCampaign(c) ==
  /\ local[c].pc = "marking"
  /\ local[c].todo = {}
  /\ campaign' = IF CanMove("CANCELLED") THEN "CANCELLED" ELSE campaign
  /\ Leave(c)
  /\ UNCHANGED <<runVars, plan, used>>

-----------------------------------------------------------------------------
(* Other processes, and processes that die. *)

(* "research experiment rerun" of one experiment. *)
Rerun(r) ==
  /\ campaign # "none"
  /\ used.commands < MaxCommands
  /\ used.reruns < MaxReruns
  /\ used' = [used EXCEPT !.commands = @ + 1, !.reruns = @ + 1]
  /\ CreateRun(r)
  /\ UNCHANGED <<campaign, plan, local, owner>>

(* The coordinator dies, with the trial it executes itself; the workers of *)
(* a pool finish the trial they have.                                      *)
CoordinatorDies(c) ==
  /\ CountFault
  /\ local[c].pc # "idle"
  /\ Kill({r \in Runs : Sequential /\ owner[r] = c})
  /\ Leave(c)
  /\ UNCHANGED <<campaign, plan>>

(* A process that executes an attempt dies.  In a pool, all futures still  *)
(* open get BrokenProcessPool and the other workers are terminated.        *)
WorkerDies(r) ==
  /\ CountFault
  /\ Executing(r)
  /\ IF owner[r] = Nobody
     THEN Kill({r}) /\ UNCHANGED local
     ELSE /\ ~Sequential
          /\ Kill({s \in Runs : owner[s] = owner[r]})
          /\ local' = [local EXCEPT ![owner[r]].job =
               [t \in Trials |-> IF @[t] \in {"waiting", "running"} THEN "error" ELSE @[t]]]
  /\ UNCHANGED <<campaign, plan, owner>>

DamageBundle(r) ==
  /\ CountFault
  /\ Damage(r)
  /\ UNCHANGED <<campaign, plan, local, owner>>

-----------------------------------------------------------------------------

CoordinatorStep(c) ==
  \/ PlanTrial(c)
  \/ ReturnOrRefuse(c)
  \/ QueueCampaign(c)
  \/ StartCampaign(c)
  \/ SubmitPending(c)
  \/ \E r \in Runs : StartTrial(c, r)
  \/ \E t \in Trials :
       \/ CollectFailure(c, t)
       \/ FailFastSequential(c, t)
       \/ FailFastParallel(c, t)
  \/ FinishCampaign(c)
  \/ PoolStopped(c)
  \/ ReadLatestRun(c)
  \/ MarkLatestStale(c)
  \/ CancelCampaign(c)

Next ==
  \/ \E c \in Coordinators :
       \/ Register(c)
       \/ CoordinatorStep(c)
       \/ InterruptLoop(c)
       \/ InterruptPool(c)
       \/ CoordinatorDies(c)
  \/ \E r \in Runs :
       \/ Execute(r)
       \/ Rerun(r)
       \/ WorkerDies(r)
       \/ DamageBundle(r)

Spec == Init /\ [][Next]_vars

(***************************************************************************)
(* A process that is not killed goes on, and the computations of an        *)
(* attempt come to an end.                                                 *)
(***************************************************************************)
Fairness ==
  /\ \A c \in Coordinators : WF_vars(CoordinatorStep(c))
  /\ \A r \in Runs : WF_vars(Execute(r))

FairSpec == Spec /\ Fairness

-----------------------------------------------------------------------------
(* Properties. *)

(* ADR 0010: "A partial filesystem or database write cannot appear as a    *)
(* successful run."  Whoever interrupts, kills or marks STALE meanwhile,   *)
(* and whatever the exception handler of run does to the bundle of an      *)
(* attempt that turned out to be registered: a success has its bundle in   *)
(* gold, with a digest, until somebody damages it there.                   *)
SucceededIsPublished ==
  \A r \in Runs :
    status[r] = "SUCCEEDED" => bundle[r] \in {"final", "damaged"} /\ digest[r] # NoDigest

(* docs/research_platform.md: a run ends SUCCEEDED, FAILED or STALE.  An   *)
(* attempt that is RUNNING in the registry is being executed, unless its   *)
(* process was killed or its exception handler raised: no other error or   *)
(* interrupt and no race with the marking of another command lets the      *)
(* runner give it up without a record.                                     *)
RunningIsExecuted ==
  \A r \in Runs :
    status[r] = "RUNNING" => Executing(r) \/ exec[r] \in {"killed", "unrecorded"}

(* A campaign is COMPLETED only when every trial has a success, successes  *)
(* are kept and the outcome is final, also when several commands run on    *)
(* the same campaign.                                                      *)
Abstract == INSTANCE CampaignOutcome
  WITH succeeded <- {t \in Trials : \E r \in RunsOf(t) : status[r] = "SUCCEEDED"},
       outcome <- IF campaign = "COMPLETED" THEN "completed"
                  ELSE IF campaign \in {"FAILED", "CANCELLED"} THEN "closed" ELSE "open"
CampaignOutcome == Abstract!Spec

(* A "campaign run" command comes to an end, also when its workers die or  *)
(* fail_fast gives up futures that are still open.                         *)
CampaignSettles ==
  \A c \in Coordinators : (local[c].pc # "idle") ~> (local[c].pc = "idle")

(* ADR 0011: "PARTIAL campaigns can resume; successful trials are not      *)
(* duplicated and failed/missing trials receive new attempts."  So no      *)
(* command on a campaign starts an attempt of a trial while another such   *)
(* command has a success of that trial which verifies.                     *)
SuccessNotDuplicated ==
  [][\A t \in Trials :
       (\E s \in RunsOf(t) : owner[s] # Nobody /\ status[s] = "SUCCEEDED" /\ VerifyRun(s))
         => \A r \in Runs : TrialOf(r) = t /\ status[r] = "none" => owner'[r] = Nobody]_vars
=============================================================================

---------------------------- MODULE CampaignProofs ----------------------------
(***************************************************************************)
(* Proofs about attempts and campaigns, for every number of trials,        *)
(* commands, workers and faults: a success is published, an attempt that   *)
(* is RUNNING is being executed unless its process or its handler failed,  *)
(* and a campaign implements CampaignOutcome.                              *)
(***************************************************************************)
EXTENDS CampaignRun, FiniteSetTheorems, TLAPS

USE RunAssumption, CampaignAssumption

-----------------------------------------------------------------------------
(* The inductive invariant, by parts. *)

RunTypeInv ==
  /\ status \in [Runs -> RunStatus \cup {"none"}]
  /\ bundle \in [Runs -> {"none", "final", "damaged"}]
  /\ digest \in [Runs -> Digests \cup {NoDigest}]
  /\ exec \in [Runs -> ExecStates]

(* Between its rename and its registration a bundle is in gold. *)
PromotedInv ==
  \A r \in Runs :
    exec[r] \in {"promoted", "persisted"} => bundle[r] = "final" /\ digest[r] # NoDigest

(* An attempt is a success only from complete_run on. *)
NotYetInv ==
  \A r \in Runs :
    exec[r] \in {"none", "created", "queued", "computing", "promoted", "persisted"}
      => status[r] # "SUCCEEDED"

(* RUNNING, the process is in the try block or its handler, or failed. *)
InTry ==
  {"computing", "promoted", "persisted", "failing", "failing_known", "recording",
   "killed", "unrecorded"}
RunningInv == \A r \in Runs : status[r] = "RUNNING" => exec[r] \in InTry

RunInv ==
  /\ RunTypeInv
  /\ PromotedInv
  /\ NotYetInv
  /\ RunningInv
  /\ SucceededIsPublished

-----------------------------------------------------------------------------
(* Each step on the registry preserves it. *)

(* What SUCCEEDED can become, and what can become SUCCEEDED. *)
LEMMA Transitions ==
  /\ RunTransitions["PENDING"] = {"QUEUED"}
  /\ RunTransitions["QUEUED"] = {"RUNNING", "CANCELLED"}
  /\ RunTransitions["RUNNING"] = {"SUCCEEDED", "FAILED", "STALE"}
  /\ RunTransitions["STALE"] = {"QUEUED"}
  /\ RunTransitions["SUCCEEDED"] = {}
  /\ RunTransitions["FAILED"] = {}
  /\ RunTransitions["CANCELLED"] = {}
BY DEF RunTransitions, RunStatus

(* Only a RUNNING attempt can succeed, and a success has no way out. *)
LEMMA SuccessIsFinal ==
  ASSUME NEW r, NEW new, TransitionRun(r, new)
  PROVE  /\ status[r] # "SUCCEEDED"
         /\ new \in RunStatus
         /\ new = "SUCCEEDED" => status[r] = "RUNNING"
         /\ new = "RUNNING" => status[r] = "QUEUED"
BY Transitions DEF TransitionRun, RunStatus

LEMMA CreateRunInv ==
  ASSUME RunInv, NEW r \in Runs, CreateRun(r)
  PROVE  RunInv'
BY DEF CreateRun, At, RunInv, RunTypeInv, PromotedInv, NotYetInv, RunningInv,
       SucceededIsPublished, InTry, ExecStates, RunStatus

LEMMA MarkStaleInv ==
  ASSUME RunInv, NEW r, MarkStale(r)
  PROVE  RunInv'
<1>1. status[r] # "SUCCEEDED" /\ status' = [status EXCEPT ![r] = "STALE"]
  BY SuccessIsFinal DEF MarkStale, TransitionRun
<1>2. UNCHANGED <<bundle, digest, exec>>
  BY DEF MarkStale
<1> QED
  BY <1>1, <1>2 DEF RunInv, RunTypeInv, PromotedInv, NotYetInv, RunningInv,
     SucceededIsPublished, InTry, ExecStates, RunStatus

LEMMA KillInv ==
  ASSUME RunInv, NEW runs, Kill(runs)
  PROVE  RunInv'
BY DEF Kill, Executing, Ended, RunInv, RunTypeInv, PromotedInv, NotYetInv, RunningInv,
       SucceededIsPublished, InTry, ExecStates, RunStatus

LEMMA DamageInv ==
  ASSUME RunInv, NEW r \in Runs, Damage(r)
  PROVE  RunInv'
BY DEF Damage, RunInv, RunTypeInv, PromotedInv, NotYetInv, RunningInv,
       SucceededIsPublished, InTry, ExecStates, RunStatus

(* What the executing process does. *)
LEMMA RunStepInv ==
  ASSUME RunInv, NEW r \in Runs, RunStep(r)
  PROVE  RunInv'
<1> USE DEF RunInv, RunTypeInv, PromotedInv, NotYetInv, RunningInv,
            SucceededIsPublished, InTry, ExecStates, RunStatus, At
<1>1. CASE QueueRun(r)
  BY <1>1, SuccessIsFinal DEF QueueRun, TransitionRun
<1>2. CASE StartRun(r)
  BY <1>2, SuccessIsFinal DEF StartRun, TransitionRun
<1>3. CASE \E d \in Digests : Promote(r, d)
  BY <1>3 DEF Promote
<1>4. CASE PersistReturns(r)
  BY <1>4 DEF PersistReturns
<1>5. CASE CompleteRun(r)
  BY <1>5, SuccessIsFinal DEF CompleteRun, TransitionRun
<1>6. CASE Return(r)
  BY <1>6 DEF Return
<1>7. CASE RaiseBeforeTry(r)
  BY <1>7 DEF RaiseBeforeTry
<1>8. CASE Raise(r)
  BY <1>8 DEF Raise, Quarantine
<1>9. CASE QuarantineFailed(r)
  BY <1>9 DEF QuarantineFailed, Quarantine
<1>10. CASE RecordFailure(r)
  BY <1>10, SuccessIsFinal DEF RecordFailure, TransitionRun
<1>11. CASE HandlerRaises(r)
  BY <1>11 DEF HandlerRaises
<1> QED
  BY <1>1, <1>2, <1>3, <1>4, <1>5, <1>6, <1>7, <1>8, <1>9, <1>10, <1>11 DEF RunStep

-----------------------------------------------------------------------------
(* Whatever commands do, attempts change only by these steps. *)

RegistryStep ==
  \/ \E r \in Runs : CreateRun(r) \/ RunStep(r) \/ Damage(r)
  \/ \E r : MarkStale(r)
  \/ \E runs : Kill(runs)

LEMMA CoordinatorRegistryStep ==
  ASSUME NEW c \in Coordinators, CoordinatorStep(c)
  PROVE  RegistryStep \/ UNCHANGED runVars
<1>1. CASE PlanTrial(c) \/ ReturnOrRefuse(c) \/ QueueCampaign(c) \/ StartCampaign(c)
           \/ SubmitPending(c)
  BY <1>1 DEF PlanTrial, ReturnOrRefuse, QueueCampaign, StartCampaign, Advance, SubmitPending
<1>2. CASE \E r \in Runs : StartTrial(c, r)
  BY <1>2 DEF StartTrial, RegistryStep
<1>3. CASE \E t \in Trials : CollectFailure(c, t) \/ FailFastSequential(c, t)
                             \/ FailFastParallel(c, t)
  BY <1>3 DEF CollectFailure, FailFastSequential, FailFastParallel
<1>4. CASE FinishCampaign(c) \/ PoolStopped(c) \/ ReadLatestRun(c) \/ CancelCampaign(c)
  BY <1>4 DEF FinishCampaign, PoolStopped, ReadLatestRun, CancelCampaign
<1>5. CASE MarkLatestStale(c)
  BY <1>5 DEF MarkLatestStale, RegistryStep
<1> QED BY <1>1, <1>2, <1>3, <1>4, <1>5 DEF CoordinatorStep

LEMMA NextRegistryStep ==
  ASSUME Next
  PROVE  RegistryStep \/ UNCHANGED runVars
<1>1. CASE \E c \in Coordinators : CoordinatorStep(c)
  BY <1>1, CoordinatorRegistryStep
<1>2. CASE \E c \in Coordinators : Register(c) \/ InterruptLoop(c) \/ InterruptPool(c)
  BY <1>2 DEF Register, InterruptLoop, InterruptPool
<1>3. CASE \E c \in Coordinators : CoordinatorDies(c)
  BY <1>3 DEF CoordinatorDies, RegistryStep
<1>4. CASE \E r \in Runs : Execute(r) \/ Rerun(r) \/ DamageBundle(r)
  BY <1>4 DEF Execute, Rerun, DamageBundle, RegistryStep
<1>5. CASE \E r \in Runs : WorkerDies(r)
  BY <1>5 DEF WorkerDies, RegistryStep
<1> QED BY <1>1, <1>2, <1>3, <1>4, <1>5 DEF Next

-----------------------------------------------------------------------------

LEMMA InitRunInv == Init => RunInv
BY DEF Init, RunInit, RunInv, RunTypeInv, PromotedInv, NotYetInv, RunningInv,
       SucceededIsPublished, ExecStates, RunStatus

LEMMA NextRunInv == RunInv /\ [Next]_vars => RunInv'
<1> SUFFICES ASSUME RunInv, [Next]_vars PROVE RunInv'
  OBVIOUS
<1>1. CASE UNCHANGED runVars
  BY <1>1 DEF runVars, RunInv, RunTypeInv, PromotedInv, NotYetInv, RunningInv,
     SucceededIsPublished
<1>2. CASE RegistryStep
  BY <1>2, CreateRunInv, RunStepInv, DamageInv, MarkStaleInv, KillInv DEF RegistryStep
<1> QED BY <1>1, <1>2, NextRegistryStep DEF vars

LEMMA SpecRunInv == Spec => []RunInv
BY InitRunInv, NextRunInv, PTL DEF Spec

(* A success has its bundle in gold and a digest until the bundle is       *)
(* damaged there, whatever the exception handler or another command does.  *)
THEOREM SuccessPublished == Spec => []SucceededIsPublished
<1>1. RunInv => SucceededIsPublished
  BY DEF RunInv
<1> QED BY <1>1, SpecRunInv, PTL

(* An attempt that is RUNNING is being executed, unless its process was    *)
(* killed or its exception handler raised.                                 *)
THEOREM RunningExecuted == Spec => []RunningIsExecuted
<1>1. RunInv => RunningIsExecuted
  BY DEF RunInv, RunTypeInv, RunningInv, RunningIsExecuted, InTry, Executing, Ended
<1> QED BY <1>1, SpecRunInv, PTL

-----------------------------------------------------------------------------
(* Helpers of the code: the next trial, the latest attempt. *)

LEMMA MinIsIn ==
  ASSUME NEW S \in SUBSET Nat, S # {}
  PROVE  Min(S) \in S /\ \A y \in S : Min(S) <= y
<1> DEFINE R == OpToRel(<, Nat)
<1>1. IsWellFoundedOn(R, Nat)
  BY NatLessThanWellFounded
<1>2. \A x, y \in Nat : <<y, x>> \in R <=> y < x
  BY DEF OpToRel
<1> HIDE DEF R
<1>3. PICK x \in S : \A y \in S : ~(<<y, x>> \in R)
  BY <1>1, WFMin
<1>4. \A y \in S : x <= y
  <2>1. TAKE y \in S
  <2>2. x \in Nat /\ y \in Nat
    OBVIOUS
  <2>3. ~(y < x)
    BY <1>2, <1>3, <2>2
  <2> QED
    BY <2>2, <2>3
<1> QED
  BY <1>4 DEF Min

(* max(attempts): the attempts of a trial are numbered up to a bound. *)
LEMMA LatestIsIn ==
  ASSUME NEW runs \in SUBSET Runs, runs # {}
  PROVE  Latest(runs) \in runs
<1> DEFINE rest == {MaxAttempts - r[2] : r \in runs}
<1>1. \A r \in runs : r[2] \in 1..MaxAttempts
  BY DEF Runs
<1>2. rest \in SUBSET Nat /\ rest # {}
  BY <1>1
<1>3. PICK r \in runs : MaxAttempts - r[2] = Min(rest)
  BY <1>2, MinIsIn
<1>4. \A s \in rest : Min(rest) <= s
  BY <1>2, MinIsIn
<1>5. \A s \in runs : s[2] <= r[2]
  BY <1>1, <1>3, <1>4
<1> QED
  BY <1>5 DEF Latest

-----------------------------------------------------------------------------
(* The inductive invariant of the coordinators. *)

Succeeded == {t \in Trials : \E r \in RunsOf(t) : status[r] = "SUCCEEDED"}

JobStates == {"none", "waiting", "running", "ok", "error", "collected", "cancelled"}

LocalRecords ==
  [pc : {"idle", "planning", "executing", "draining", "stopping", "marking"},
   seen : CampaignStatus \cup {"none"},
   todo : SUBSET Trials, cached : SUBSET Trials, pending : SUBSET Trials,
   failures : SUBSET Trials,
   job : [Trials -> JobStates],
   target : Runs \cup {NoRun}]

(* What the local variables of a command mean: a cache hit and a future    *)
(* with a result stand for a success, the plan is divided between cache    *)
(* hits and pending trials, and a future that was collected or cancelled   *)
(* counts as a failure.                                                    *)
Sound(l, successes) ==
  /\ l.cached \subseteq successes
  /\ \A t \in Trials : l.job[t] = "ok" => t \in successes
  /\ l.pc = "idle" => l.cached = {} /\ l.pending = {} /\ l.failures = {}
  /\ l.pc = "planning" =>
       /\ l.failures = {}
       /\ l.cached \cup l.pending \cup l.todo = Trials
       /\ l.cached \cap l.pending = {}
       /\ (l.cached \cup l.pending) \cap l.todo = {}
  /\ l.pc \in {"executing", "draining"} =>
       /\ l.cached \cup l.pending = Trials
       /\ l.cached \cap l.pending = {}
       /\ l.failures \subseteq l.pending
       /\ \A t \in l.pending : l.job[t] # "none"
  /\ l.pc = "executing" =>
       \A t \in l.pending : l.job[t] \in {"collected", "cancelled"} => t \in l.failures
  /\ l.pc = "draining" => l.failures # {}

CompletedInv == \A r \in Runs : exec[r] = "completed" => status[r] = "SUCCEEDED"

LocalInv ==
  /\ local \in [Coordinators -> LocalRecords]
  /\ \A c \in Coordinators : Sound(local[c], Succeeded)

CampaignInv ==
  /\ RunInv
  /\ CompletedInv
  /\ campaign \in CampaignStatus \cup {"none"}
  /\ owner \in [Runs -> Coordinators \cup {Nobody}]
  /\ LocalInv

LEMMA SucceededIs ==
  /\ Succeeded = {t \in Trials : \E r \in Runs : TrialOf(r) = t /\ status[r] = "SUCCEEDED"}
  /\ \A r \in Runs : TrialOf(r) \in Trials
BY DEF Succeeded, RunsOf, Runs, TrialOf

(* More successes leave it sound. *)
LEMMA SoundGrows ==
  ASSUME NEW l \in LocalRecords, NEW S, NEW T, S \subseteq T, Sound(l, S)
  PROVE  Sound(l, T)
BY DEF Sound

(* A step of one command. *)
LEMMA LocalChanges ==
  ASSUME LocalInv, NEW c \in Coordinators, NEW l \in LocalRecords,
         local' = [local EXCEPT ![c] = l], Succeeded \subseteq Succeeded', Sound(l, Succeeded')
  PROVE  LocalInv'
<1>1. local' \in [Coordinators -> LocalRecords]
  BY DEF LocalInv
<1>2. ASSUME NEW e \in Coordinators
      PROVE  Sound(local'[e], Succeeded')
  <2>1. CASE e = c
    BY <2>1 DEF LocalInv
  <2>2. CASE e # c
    <3>1. local'[e] = local[e]
      BY <2>2 DEF LocalInv
    <3>2. local[e] \in LocalRecords /\ Sound(local[e], Succeeded)
      BY DEF LocalInv
    <3> QED
      BY <3>1, <3>2, SoundGrows
  <2> QED
    BY <2>1, <2>2
<1> QED
  BY <1>1, <1>2 DEF LocalInv

LEMMA LocalStays ==
  ASSUME LocalInv, UNCHANGED local, Succeeded \subseteq Succeeded'
  PROVE  LocalInv'
BY SoundGrows DEF LocalInv

LEMMA IdleSound ==
  /\ Idle \in LocalRecords
  /\ \A S : Sound(Idle, S)
BY DEF Idle, LocalRecords, JobStates, Sound

LEMMA LeaveKeeps ==
  ASSUME LocalInv, owner \in [Runs -> Coordinators \cup {Nobody}], NEW c \in Coordinators, Leave(c),
         Succeeded \subseteq Succeeded'
  PROVE  LocalInv' /\ owner' \in [Runs -> Coordinators \cup {Nobody}]
BY LocalChanges, IdleSound DEF Leave

-----------------------------------------------------------------------------
(* What the steps on the registry do to successes. *)

LEMMA RunStepSucceeds ==
  ASSUME RunInv, NEW r \in Runs, RunStep(r)
  PROVE  /\ \A s \in Runs : status[s] = "SUCCEEDED" => status'[s] = "SUCCEEDED"
         /\ \A s \in Runs \ {r} : status'[s] = status[s] /\ exec'[s] = exec[s]
         /\ exec'[r] = "completed" => status'[r] = "SUCCEEDED"
<1> USE DEF RunInv, RunTypeInv, At
<1>1. CASE QueueRun(r) \/ StartRun(r) \/ CompleteRun(r)
  BY <1>1, SuccessIsFinal DEF QueueRun, StartRun, CompleteRun, TransitionRun
<1>2. CASE RecordFailure(r)
  BY <1>2, SuccessIsFinal DEF RecordFailure, TransitionRun
<1>3. CASE \/ (\E d \in Digests : Promote(r, d)) \/ PersistReturns(r) \/ Return(r) \/ RaiseBeforeTry(r)
           \/ Raise(r) \/ QuarantineFailed(r) \/ HandlerRaises(r)
  BY <1>3 DEF Promote, PersistReturns, Return, RaiseBeforeTry, Raise, QuarantineFailed,
     HandlerRaises
<1> QED
  BY <1>1, <1>2, <1>3 DEF RunStep

LEMMA OthersSucceedNothing ==
  ASSUME RunInv, CompletedInv,
         \/ \E r \in Runs : CreateRun(r) \/ Damage(r)
         \/ \E r : MarkStale(r)
         \/ \E runs : Kill(runs)
         \/ UNCHANGED runVars
  PROVE  Succeeded' = Succeeded /\ CompletedInv'
<1>1. /\ \A s \in Runs : status'[s] = "SUCCEEDED" <=> status[s] = "SUCCEEDED"
      /\ CompletedInv'
  <2> USE DEF RunInv, RunTypeInv, CompletedInv
  <2>1. CASE \E r \in Runs : CreateRun(r)
    BY <2>1 DEF CreateRun, At
  <2>2. CASE \E r \in Runs : Damage(r)
    BY <2>2 DEF Damage
  <2>3. ASSUME NEW r, MarkStale(r)
        PROVE  /\ \A s \in Runs : status'[s] = "SUCCEEDED" <=> status[s] = "SUCCEEDED"
               /\ CompletedInv'
    <3>1. status[r] # "SUCCEEDED" /\ status' = [status EXCEPT ![r] = "STALE"] /\ UNCHANGED exec
      BY <2>3, SuccessIsFinal DEF MarkStale, TransitionRun
    <3> QED
      BY <3>1
  <2>4. CASE \E runs : Kill(runs)
    BY <2>4 DEF Kill
  <2>5. CASE UNCHANGED runVars
    BY <2>5 DEF runVars
  <2> QED
    BY <2>1, <2>2, <2>3, <2>4, <2>5
<1>2. Succeeded' = {t \in Trials : \E r \in Runs : TrialOf(r) = t /\ status'[r] = "SUCCEEDED"}
  BY DEF Succeeded, RunsOf, Runs, TrialOf
<1> QED
  BY <1>1, <1>2, SucceededIs

LEMMA RunStepSuccess ==
  ASSUME RunInv, CompletedInv, NEW r \in Runs, RunStep(r)
  PROVE  /\ Succeeded' \in {Succeeded, Succeeded \cup {TrialOf(r)}}
         /\ CompletedInv'
         /\ exec'[r] = "completed" => TrialOf(r) \in Succeeded'
         /\ exec[r] = "completed" => TrialOf(r) \in Succeeded
<1>1. Succeeded' = {t \in Trials : \E s \in Runs : TrialOf(s) = t /\ status'[s] = "SUCCEEDED"}
  BY DEF Succeeded, RunsOf, Runs, TrialOf
<1>2. Succeeded \subseteq Succeeded' /\ Succeeded' \subseteq Succeeded \cup {TrialOf(r)}
  BY <1>1, SucceededIs, RunStepSucceeds
<1>3. CompletedInv'
  BY RunStepSucceeds DEF CompletedInv
<1> QED
  BY <1>1, <1>2, <1>3, SucceededIs, RunStepSucceeds DEF CompletedInv

-----------------------------------------------------------------------------
(* What a step may do to the local variables of a command. *)

Busy == {"executing", "draining", "stopping", "marking"}

(* Futures that start, fail, or get the result of a success. *)
LEMMA JobsSound ==
  ASSUME NEW S, NEW k \in LocalRecords, Sound(k, S), NEW j \in [Trials -> JobStates],
         \A t \in Trials : j[t] = k.job[t] \/ j[t] \in {"running", "error"} \/ (j[t] = "ok" /\ t \in S)
  PROVE  [k EXCEPT !.job = j] \in LocalRecords /\ Sound([k EXCEPT !.job = j], S)
<1> DEFINE l == [k EXCEPT !.job = j]
<1>1. l \in LocalRecords
  BY DEF LocalRecords
<1>2. /\ l.pc = k.pc /\ l.cached = k.cached /\ l.pending = k.pending /\ l.todo = k.todo
      /\ l.failures = k.failures /\ l.job = j
  BY DEF LocalRecords
<1>3. k.pending \subseteq Trials
  BY DEF LocalRecords
<1> HIDE DEF l
<1>4. Sound(l, S)
  BY <1>2, <1>3 DEF Sound
<1> QED
  BY <1>1, <1>4 DEF l

(* The plan is being executed, or was given up. *)
LEMMA ExecutionSound ==
  ASSUME NEW S, NEW k \in LocalRecords, Sound(k, S),
         NEW p \in Busy, NEW todo \in SUBSET Trials, NEW f \in SUBSET Trials,
         NEW j \in [Trials -> JobStates],
         \A t \in Trials : j[t] = "ok" => k.job[t] = "ok",
         p \in {"executing", "draining"} =>
           k.pc = "executing" /\ f \subseteq k.pending /\ \A t \in k.pending : j[t] # "none",
         p = "executing" =>
           \A t \in k.pending : j[t] \in {"collected", "cancelled"} => t \in f,
         p = "draining" => f # {}
  PROVE  LET l == [k EXCEPT !.pc = p, !.todo = todo, !.failures = f, !.job = j]
         IN  l \in LocalRecords /\ Sound(l, S)
<1> DEFINE l == [k EXCEPT !.pc = p, !.todo = todo, !.failures = f, !.job = j]
<1>1. l \in LocalRecords
  BY DEF LocalRecords, Busy
<1>2. l.pc = p /\ l.cached = k.cached /\ l.pending = k.pending /\ l.failures = f /\ l.job = j
  BY DEF LocalRecords
<1> HIDE DEF l
<1>3. Sound(l, S)
  BY <1>2 DEF Sound, Busy
<1> QED
  BY <1>1, <1>3 DEF l

LEMMA LocalFields ==
  ASSUME LocalInv, NEW c \in Coordinators
  PROVE  /\ local[c] \in LocalRecords
         /\ Sound(local[c], Succeeded)
         /\ local[c].seen \in CampaignStatus \cup {"none"}
         /\ local[c].todo \subseteq Trials /\ local[c].cached \subseteq Trials
         /\ local[c].pending \subseteq Trials /\ local[c].failures \subseteq Trials
         /\ local[c].job \in [Trials -> JobStates]
BY DEF LocalInv, LocalRecords

Kept ==
  /\ LocalInv
  /\ campaign \in CampaignStatus \cup {"none"}
  /\ owner \in [Runs -> Coordinators \cup {Nobody}]

(* A step of one command that touches neither registry nor campaign. *)
LEMMA OwnStepKeeps ==
  ASSUME CampaignInv, NEW c \in Coordinators, NEW l \in LocalRecords,
         local' = [local EXCEPT ![c] = l], Sound(l, Succeeded),
         UNCHANGED <<runVars, campaign, owner>>
  PROVE  Kept'
<1>1. Succeeded' = Succeeded
  BY OthersSucceedNothing DEF CampaignInv
<1> QED
  BY <1>1, LocalChanges DEF CampaignInv, Kept

-----------------------------------------------------------------------------
(* Each step of a command keeps its local variables sound. *)

LEMMA SubmitPendingKeeps ==
  ASSUME CampaignInv, NEW c \in Coordinators, SubmitPending(c)
  PROVE  Kept'
<1> DEFINE k == local[c]
           j == [t \in Trials |-> IF t \in k.pending THEN "waiting" ELSE "none"]
           l == [k EXCEPT !.pc = "executing", !.job = j]
<1>1. local' = [local EXCEPT ![c] = l] /\ UNCHANGED <<runVars, campaign, owner>>
  BY DEF SubmitPending, CampaignInv, LocalInv
<1>2. k \in LocalRecords /\ Sound(k, Succeeded) /\ k.pc = "planning" /\ k.todo = {}
  BY LocalFields DEF CampaignInv, SubmitPending, Planned
<1>3. j \in [Trials -> JobStates] /\ \A t \in Trials : j[t] # "ok" /\ (t \in k.pending => j[t] = "waiting")
  BY DEF JobStates
<1> HIDE DEF k, j
<1>4. l \in LocalRecords
  BY <1>2, <1>3 DEF LocalRecords
<1>5. /\ l.pc = "executing" /\ l.cached = k.cached /\ l.pending = k.pending
      /\ l.failures = k.failures /\ l.job = j /\ l.pending \subseteq Trials
  BY <1>2 DEF LocalRecords
<1> HIDE DEF l
<1>6. Sound(l, Succeeded)
  BY <1>2, <1>3, <1>5 DEF Sound
<1> QED
  BY <1>1, <1>4, <1>6, OwnStepKeeps

LEMMA CollectFailureKeeps ==
  ASSUME CampaignInv, NEW c \in Coordinators, NEW t \in Trials, CollectFailure(c, t)
  PROVE  Kept'
<1> DEFINE k == local[c]
           f == k.failures \cup {t}
           j == [k.job EXCEPT ![t] = "collected"]
           l == [k EXCEPT !.pc = "executing", !.todo = k.todo, !.failures = f, !.job = j]
<1>1. k \in LocalRecords /\ Sound(k, Succeeded) /\ k.pc = "executing" /\ t \in k.pending
  BY LocalFields DEF CampaignInv, CollectFailure, Jobs
<1>2. /\ k.todo \in SUBSET Trials /\ k.pending \subseteq Trials /\ k.failures \subseteq k.pending
      /\ k.job \in [Trials -> JobStates]
      /\ \A u \in k.pending : k.job[u] # "none"
      /\ \A u \in k.pending : k.job[u] \in {"collected", "cancelled"} => u \in k.failures
  BY <1>1 DEF LocalRecords, Sound
<1>3. f \in SUBSET Trials /\ f \subseteq k.pending /\ j \in [Trials -> JobStates]
  BY <1>1, <1>2 DEF JobStates
<1>4. l \in LocalRecords /\ Sound(l, Succeeded)
  <2>1. /\ \A u \in Trials : j[u] = "ok" => k.job[u] = "ok"
        /\ \A u \in k.pending : j[u] # "none"
        /\ \A u \in k.pending : j[u] \in {"collected", "cancelled"} => u \in f
    BY <1>1, <1>2
  <2> HIDE DEF k, f, j
  <2> QED
    BY <1>1, <1>2, <1>3, <2>1, ExecutionSound DEF Busy
<1>5. local' = [local EXCEPT ![c] = l] /\ UNCHANGED <<runVars, campaign, owner>>
  <2>1. [k EXCEPT !.failures = f, !.job = j] = l
    BY <1>1 DEF LocalRecords
  <2>2. local' = [local EXCEPT ![c] = [local[c] EXCEPT !.failures = f, !.job = j]]
    BY ONLY CollectFailure(c, t) DEF CollectFailure
  <2> QED
    BY <2>1, <2>2 DEF CollectFailure
<1> QED
  BY <1>4, <1>5, OwnStepKeeps

LEMMA FailFastSequentialKeeps ==
  ASSUME CampaignInv, NEW c \in Coordinators, NEW t \in Trials, FailFastSequential(c, t)
  PROVE  Kept'
<1> DEFINE k == local[c]
           waiting == Jobs(c, {"waiting"})
           f == k.failures \cup {t} \cup waiting
           j == [AfterCancel(c, waiting) EXCEPT ![t] = "collected"]
           l == [k EXCEPT !.pc = "executing", !.todo = k.todo, !.failures = f, !.job = j]
<1>1. k \in LocalRecords /\ Sound(k, Succeeded) /\ k.pc = "executing" /\ t \in k.pending
  BY LocalFields DEF CampaignInv, FailFastSequential, Jobs
<1>2. /\ k.todo \in SUBSET Trials /\ k.pending \subseteq Trials /\ k.failures \subseteq k.pending
      /\ k.job \in [Trials -> JobStates]
      /\ \A u \in k.pending : k.job[u] # "none"
      /\ \A u \in k.pending : k.job[u] \in {"collected", "cancelled"} => u \in k.failures
  BY <1>1 DEF LocalRecords, Sound
<1>3. /\ f \in SUBSET Trials /\ f \subseteq k.pending
      /\ j = [u \in Trials |-> IF u = t THEN "collected" ELSE IF u \in waiting THEN "cancelled" ELSE k.job[u]]
  BY <1>1, <1>2 DEF AfterCancel, Jobs
<1>4. l \in LocalRecords /\ Sound(l, Succeeded)
  <2>1. j \in [Trials -> JobStates]
    BY <1>2, <1>3 DEF JobStates
  <2> HIDE DEF j, k, waiting
  <2>2. /\ \A u \in Trials : j[u] = "ok" => k.job[u] = "ok"
        /\ \A u \in k.pending : j[u] # "none"
        /\ \A u \in k.pending : j[u] \in {"collected", "cancelled"} => u \in f
    BY <1>1, <1>2, <1>3
  <2> HIDE DEF f
  <2> QED
    BY <1>1, <1>2, <1>3, <2>1, <2>2, ExecutionSound DEF Busy
<1>5. local' = [local EXCEPT ![c] = l] /\ UNCHANGED <<runVars, campaign, owner>>
  <2>1. [k EXCEPT !.failures = f, !.job = j] = l
    BY <1>1 DEF LocalRecords
  <2>2. local' = [local EXCEPT ![c] = [local[c] EXCEPT !.failures = f, !.job = j]]
    BY DEF FailFastSequential, CampaignInv, LocalInv
  <2> QED
    BY <2>1, <2>2 DEF FailFastSequential
<1> QED
  BY <1>4, <1>5, OwnStepKeeps

LEMMA AfterCancelIs ==
  ASSUME LocalInv, NEW c \in Coordinators, NEW cancelled
  PROVE  /\ AfterCancel(c, cancelled) \in [Trials -> JobStates]
         /\ \A t \in Trials : AfterCancel(c, cancelled)[t] = "ok" => local[c].job[t] = "ok"
         /\ \A t \in Trials : local[c].job[t] # "none" => AfterCancel(c, cancelled)[t] # "none"
BY LocalFields DEF AfterCancel, JobStates

LEMMA FailFastParallelKeeps ==
  ASSUME CampaignInv, NEW c \in Coordinators, NEW t \in Trials, FailFastParallel(c, t)
  PROVE  Kept'
<1>1. PICK cancelled \in Cancellable(c) :
        local' = [local EXCEPT ![c].pc = "draining", ![c].failures = @ \cup {t},
                               ![c].job = AfterCancel(c, cancelled)]
  BY DEF FailFastParallel
<1> DEFINE k == local[c]
           f == k.failures \cup {t}
           j == AfterCancel(c, cancelled)
           l == [k EXCEPT !.pc = "draining", !.todo = k.todo, !.failures = f, !.job = j]
<1>2. k \in LocalRecords /\ Sound(k, Succeeded) /\ k.pc = "executing" /\ t \in k.pending
  BY LocalFields DEF CampaignInv, FailFastParallel, Jobs
<1>3. /\ k.todo \in SUBSET Trials /\ k.pending \subseteq Trials /\ k.failures \subseteq k.pending
      /\ \A u \in k.pending : k.job[u] # "none"
  BY <1>2 DEF LocalRecords, Sound
<1>4. f \in SUBSET Trials /\ f \subseteq k.pending /\ f # {}
  BY <1>2, <1>3
<1>5. /\ j \in [Trials -> JobStates]
      /\ \A u \in Trials : j[u] = "ok" => k.job[u] = "ok"
      /\ \A u \in k.pending : j[u] # "none"
  BY <1>3, AfterCancelIs DEF CampaignInv
<1>6. l \in LocalRecords /\ Sound(l, Succeeded)
  <2> HIDE DEF k, f, j
  <2> QED
    BY <1>2, <1>3, <1>4, <1>5, ExecutionSound DEF Busy
<1>7. local' = [local EXCEPT ![c] = l] /\ UNCHANGED <<runVars, campaign, owner>>
  <2>1. [k EXCEPT !.pc = "draining", !.failures = f, !.job = j] = l
    BY <1>2 DEF LocalRecords
  <2>2. local' = [local EXCEPT ![c] = [local[c] EXCEPT !.pc = "draining", !.failures = f, !.job = j]]
    BY <1>1 DEF CampaignInv, LocalInv
  <2> QED
    BY <2>1, <2>2 DEF FailFastParallel
<1> QED
  BY <1>6, <1>7, OwnStepKeeps

LEMMA InterruptPoolKeeps ==
  ASSUME CampaignInv, NEW c \in Coordinators, InterruptPool(c)
  PROVE  Kept'
<1>1. PICK cancelled \in Cancellable(c) :
        local' = [local EXCEPT ![c].pc = "stopping", ![c].job = AfterCancel(c, cancelled)]
  BY DEF InterruptPool
<1> DEFINE k == local[c]
           j == AfterCancel(c, cancelled)
           l == [k EXCEPT !.pc = "stopping", !.todo = k.todo, !.failures = k.failures, !.job = j]
<1>2. /\ k \in LocalRecords /\ Sound(k, Succeeded)
      /\ k.todo \in SUBSET Trials /\ k.failures \in SUBSET Trials
  BY LocalFields DEF CampaignInv
<1>3. j \in [Trials -> JobStates] /\ \A u \in Trials : j[u] = "ok" => k.job[u] = "ok"
  BY AfterCancelIs DEF CampaignInv
<1>4. l \in LocalRecords /\ Sound(l, Succeeded)
  <2> HIDE DEF k, j
  <2> QED
    BY <1>2, <1>3, ExecutionSound DEF Busy
<1>5. local' = [local EXCEPT ![c] = l] /\ UNCHANGED <<runVars, campaign, owner>>
  <2>1. [k EXCEPT !.pc = "stopping", !.job = j] = l
    BY <1>2 DEF LocalRecords
  <2>2. local' = [local EXCEPT ![c] = [local[c] EXCEPT !.pc = "stopping", !.job = j]]
    BY <1>1 DEF CampaignInv, LocalInv
  <2> QED
    BY <2>1, <2>2 DEF InterruptPool
<1> QED
  BY <1>4, <1>5, OwnStepKeeps

LEMMA InterruptLoopKeeps ==
  ASSUME CampaignInv, NEW c \in Coordinators, InterruptLoop(c)
  PROVE  Kept'
<1> DEFINE k == local[c]
           j == AfterCancel(c, IF Sequential THEN Jobs(c, {"waiting"}) ELSE {})
           l == [k EXCEPT !.pc = "marking", !.todo = k.pending, !.failures = k.failures, !.job = j]
<1>1. /\ k \in LocalRecords /\ Sound(k, Succeeded)
      /\ k.pending \in SUBSET Trials /\ k.failures \in SUBSET Trials
  BY LocalFields DEF CampaignInv
<1>2. j \in [Trials -> JobStates] /\ \A u \in Trials : j[u] = "ok" => k.job[u] = "ok"
  BY AfterCancelIs DEF CampaignInv
<1>3. l \in LocalRecords /\ Sound(l, Succeeded)
  <2> HIDE DEF k, j
  <2> QED
    BY <1>1, <1>2, ExecutionSound DEF Busy
<1>4. local' = [local EXCEPT ![c] = l] /\ UNCHANGED <<runVars, campaign, owner>>
  <2>1. [k EXCEPT !.pc = "marking", !.todo = k.pending, !.job = j] = l
    BY <1>1 DEF LocalRecords
  <2>2. local' = [local EXCEPT ![c] = [local[c] EXCEPT !.pc = "marking", !.todo = k.pending, !.job = j]]
    BY DEF InterruptLoop, CampaignInv, LocalInv
  <2> QED
    BY <2>1, <2>2 DEF InterruptLoop
<1> QED
  BY <1>3, <1>4, OwnStepKeeps

LEMMA PoolStoppedKeeps ==
  ASSUME CampaignInv, NEW c \in Coordinators, PoolStopped(c)
  PROVE  Kept'
<1> DEFINE k == local[c]
           l == [k EXCEPT !.pc = "marking", !.todo = k.pending, !.failures = k.failures, !.job = k.job]
<1>1. /\ k \in LocalRecords /\ Sound(k, Succeeded) /\ k.job \in [Trials -> JobStates]
      /\ k.pending \in SUBSET Trials /\ k.failures \in SUBSET Trials
  BY LocalFields DEF CampaignInv
<1>2. l \in LocalRecords /\ Sound(l, Succeeded)
  <2> HIDE DEF k
  <2> QED
    BY <1>1, ExecutionSound DEF Busy
<1>3. local' = [local EXCEPT ![c] = l] /\ UNCHANGED <<runVars, campaign, owner>>
  <2>1. [k EXCEPT !.pc = "marking", !.todo = k.pending] = l
    BY <1>1 DEF LocalRecords
  <2>2. local' = [local EXCEPT ![c] = [local[c] EXCEPT !.pc = "marking", !.todo = k.pending]]
    BY DEF PoolStopped, CampaignInv, LocalInv
  <2> QED
    BY <2>1, <2>2 DEF PoolStopped
<1> QED
  BY <1>2, <1>3, OwnStepKeeps

(* A step that plans: it moves a trial from the list to one of two sets. *)
LEMMA PlanningSound ==
  ASSUME NEW S, NEW k \in LocalRecords, Sound(k, S), k.pc = "planning", NEW t \in k.todo
  PROVE  /\ LET miss == [k EXCEPT !.todo = k.todo \ {t}, !.pending = k.pending \cup {t}]
            IN  miss \in LocalRecords /\ Sound(miss, S)
         /\ t \in S =>
              LET hit == [k EXCEPT !.todo = k.todo \ {t}, !.cached = k.cached \cup {t}]
              IN  hit \in LocalRecords /\ Sound(hit, S)
<1> DEFINE miss == [k EXCEPT !.todo = k.todo \ {t}, !.pending = k.pending \cup {t}]
           hit == [k EXCEPT !.todo = k.todo \ {t}, !.cached = k.cached \cup {t}]
<1>1. t \in Trials
  BY DEF LocalRecords
<1>2. miss \in LocalRecords /\ hit \in LocalRecords
  BY <1>1 DEF LocalRecords
<1>3. /\ miss.pc = k.pc /\ miss.todo = k.todo \ {t} /\ miss.pending = k.pending \cup {t}
      /\ miss.cached = k.cached /\ miss.failures = k.failures /\ miss.job = k.job
  BY DEF LocalRecords
<1>4. /\ hit.pc = k.pc /\ hit.todo = k.todo \ {t} /\ hit.cached = k.cached \cup {t}
      /\ hit.pending = k.pending /\ hit.failures = k.failures /\ hit.job = k.job
  BY DEF LocalRecords
<1> HIDE DEF miss, hit
<1>5. Sound(miss, S)
  BY <1>1, <1>3 DEF Sound
<1>6. t \in S => Sound(hit, S)
  BY <1>1, <1>4 DEF Sound
<1> QED
  BY <1>2, <1>5, <1>6 DEF miss, hit

(* A cache hit has a success. *)
LEMMA PlanTrialKeeps ==
  ASSUME CampaignInv, NEW c \in Coordinators, PlanTrial(c)
  PROVE  Kept'
<1> DEFINE k == local[c]
           t == Min(k.todo)
           hit  == [k EXCEPT !.todo = k.todo \ {t}, !.cached = k.cached \cup {t}]
           miss == [k EXCEPT !.todo = k.todo \ {t}, !.pending = k.pending \cup {t}]
<1>1. /\ k \in LocalRecords /\ Sound(k, Succeeded) /\ k.pc = "planning"
      /\ k.todo \subseteq Trials /\ k.todo # {}
      /\ UNCHANGED <<runVars, campaign, owner>>
  BY LocalFields DEF PlanTrial, CampaignInv
<1>2. t \in k.todo /\ t \in Trials
  <2>1. k.todo \in SUBSET Nat
    BY <1>1
  <2> QED
    BY <1>1, <2>1, MinIsIn
<1>3. CASE IsCacheHit(t)
  <2>1. local' = [local EXCEPT ![c] = hit]
    BY <1>3 DEF PlanTrial, CampaignInv, LocalInv
  <2>2. t \in Succeeded
    <3>1. PICK r \in RunsOf(t) : status[r] = "SUCCEEDED"
      BY <1>3 DEF IsCacheHit, LatestSuccessfulRun, Latest
    <3> QED
      BY <1>2, <3>1 DEF Succeeded
  <2>3. hit \in LocalRecords /\ Sound(hit, Succeeded)
    BY <1>1, <1>2, <2>2, PlanningSound
  <2> HIDE DEF hit
  <2> QED
    BY <1>1, <2>1, <2>3, OwnStepKeeps
<1>4. CASE ~IsCacheHit(t)
  <2>1. local' = [local EXCEPT ![c] = miss]
    BY <1>4 DEF PlanTrial, CampaignInv, LocalInv
  <2>2. miss \in LocalRecords /\ Sound(miss, Succeeded)
    BY <1>1, <1>2, PlanningSound
  <2> HIDE DEF miss
  <2> QED
    BY <1>1, <2>1, <2>2, OwnStepKeeps
<1> QED
  BY <1>3, <1>4

LEMMA RegisterKeeps ==
  ASSUME CampaignInv, NEW c \in Coordinators, Register(c)
  PROVE  Kept'
<1> DEFINE k == local[c]
           l == [k EXCEPT !.pc = "planning", !.seen = campaign', !.todo = Trials]
<1>1. /\ k \in LocalRecords /\ Sound(k, Succeeded) /\ k.pc = "idle"
      /\ UNCHANGED <<runVars, owner>> /\ campaign' \in CampaignStatus
  BY LocalFields DEF Register, CampaignInv, CampaignStatus
<1>2. local' = [local EXCEPT ![c] = l]
  BY DEF Register, CampaignInv, LocalInv
<1>3. l \in LocalRecords
  BY <1>1 DEF LocalRecords
<1>4. /\ l.pc = "planning" /\ l.todo = Trials /\ l.pending = k.pending /\ l.cached = k.cached
      /\ l.failures = k.failures /\ l.job = k.job
  BY <1>1 DEF LocalRecords
<1> HIDE DEF l
<1>5. Sound(l, Succeeded)
  BY <1>1, <1>4 DEF Sound
<1>6. Succeeded' = Succeeded
  BY <1>1, OthersSucceedNothing DEF CampaignInv
<1> QED
  BY <1>1, <1>2, <1>3, <1>5, <1>6, LocalChanges DEF CampaignInv, Kept

(* The loop over the trials of an interrupted command. *)
LEMMA MarkingSound ==
  ASSUME NEW S, NEW k \in LocalRecords, Sound(k, S), k.pc = "marking",
         NEW todo \in SUBSET Trials, NEW r \in Runs \cup {NoRun}
  PROVE  LET l == [k EXCEPT !.todo = todo, !.target = r]
         IN  l \in LocalRecords /\ Sound(l, S)
<1> DEFINE l == [k EXCEPT !.todo = todo, !.target = r]
<1>1. l \in LocalRecords
  BY DEF LocalRecords
<1>2. l.pc = k.pc /\ l.cached = k.cached /\ l.job = k.job
  BY DEF LocalRecords
<1> HIDE DEF l
<1>3. Sound(l, S)
  BY <1>2 DEF Sound
<1> QED
  BY <1>1, <1>3 DEF l

LEMMA ReadLatestRunKeeps ==
  ASSUME CampaignInv, NEW c \in Coordinators, ReadLatestRun(c)
  PROVE  Kept'
<1> DEFINE k == local[c]
           t == Min(k.todo)
           r == LatestRun(t)
           some == [k EXCEPT !.todo = k.todo, !.target = r]
           none == [k EXCEPT !.todo = k.todo \ {t}, !.target = NoRun]
<1>1. /\ k \in LocalRecords /\ Sound(k, Succeeded) /\ k.pc = "marking" /\ k.target = NoRun
      /\ k.todo \in SUBSET Trials
      /\ UNCHANGED <<runVars, campaign, owner>>
  BY LocalFields DEF ReadLatestRun, CampaignInv
<1>2. CASE r # NoRun /\ status[r] = "RUNNING"
  <2>1. local' = [local EXCEPT ![c] = [local[c] EXCEPT !.target = r]]
    BY <1>2 DEF ReadLatestRun, CampaignInv, LocalInv
  <2>2. [local[c] EXCEPT !.target = r] = some
    BY <1>1 DEF LocalRecords
  <2>3. r \in Runs
    <3>1. RunsOf(t) \in SUBSET Runs /\ RunsOf(t) # {}
      BY <1>2 DEF LatestRun, Latest, RunsOf
    <3> QED
      BY <3>1, LatestIsIn DEF LatestRun
  <2>4. some \in LocalRecords /\ Sound(some, Succeeded)
    <3> HIDE DEF k, r
    <3> QED
      BY <1>1, <2>3, MarkingSound
  <2> HIDE DEF some
  <2> QED
    BY <1>1, <2>1, <2>2, <2>4, OwnStepKeeps
<1>3. CASE ~(r # NoRun /\ status[r] = "RUNNING")
  <2>1. local' = [local EXCEPT ![c] = [local[c] EXCEPT !.todo = k.todo \ {t}]]
    BY <1>3 DEF ReadLatestRun, CampaignInv, LocalInv
  <2>2. [local[c] EXCEPT !.todo = k.todo \ {t}] = none
    BY <1>1 DEF LocalRecords
  <2>3. none \in LocalRecords /\ Sound(none, Succeeded)
    <3>1. k.todo \ {t} \in SUBSET Trials
      BY <1>1
    <3> HIDE DEF k, t
    <3> QED
      BY <1>1, <3>1, MarkingSound
  <2> HIDE DEF none
  <2> QED
    BY <1>1, <2>1, <2>2, <2>3, OwnStepKeeps
<1> QED
  BY <1>2, <1>3

LEMMA MarkLatestStaleKeeps ==
  ASSUME CampaignInv, NEW c \in Coordinators, MarkLatestStale(c)
  PROVE  Kept'
<1> DEFINE k == local[c]
           r == k.target
           l == [k EXCEPT !.todo = k.todo \ {TrialOf(r)}, !.target = NoRun]
<1>1. /\ k \in LocalRecords /\ Sound(k, Succeeded) /\ k.pc = "marking"
      /\ k.todo \ {TrialOf(r)} \in SUBSET Trials
      /\ UNCHANGED campaign
  BY LocalFields DEF MarkLatestStale, CampaignInv
<1>2. CASE status[r] = "RUNNING"
  <2>1. MarkStale(r) /\ UNCHANGED owner
    BY <1>2 DEF MarkLatestStale
  <2>2. Succeeded' = Succeeded
    BY <2>1, OthersSucceedNothing DEF CampaignInv
  <2>3. local' = [local EXCEPT ![c] = l]
    BY <1>2 DEF MarkLatestStale, CampaignInv, LocalInv
  <2>4. l \in LocalRecords /\ Sound(l, Succeeded)
    <3> HIDE DEF k, r
    <3> QED
      BY <1>1, MarkingSound
  <2> HIDE DEF l
  <2> QED
    BY <1>1, <2>1, <2>2, <2>3, <2>4, LocalChanges DEF CampaignInv, Kept
<1>3. CASE status[r] # "RUNNING"
  <2>1. Leave(c) /\ UNCHANGED runVars
    BY <1>3 DEF MarkLatestStale
  <2>2. Succeeded' = Succeeded
    BY <2>1, OthersSucceedNothing DEF CampaignInv
  <2> QED
    BY <1>1, <2>1, <2>2, LeaveKeeps DEF CampaignInv, Kept
<1> QED
  BY <1>2, <1>3

LEMMA AdvanceKeeps ==
  ASSUME CampaignInv, NEW c \in Coordinators, NEW new \in CampaignStatus, Planned(c), Advance(c, new)
  PROVE  Kept'
<1> DEFINE k == local[c]
           l == [k EXCEPT !.seen = new]
<1>1. Succeeded' = Succeeded
  BY OthersSucceedNothing DEF Advance, CampaignInv
<1>2. CASE CanMove(new)
  <2>1. local' = [local EXCEPT ![c] = l] /\ campaign' = new /\ UNCHANGED owner
    BY <1>2 DEF Advance, CampaignInv, LocalInv
  <2>2. k \in LocalRecords /\ Sound(k, Succeeded)
    BY LocalFields DEF CampaignInv
  <2>3. l \in LocalRecords
    BY <2>2 DEF LocalRecords
  <2>4. /\ l.pc = k.pc /\ l.todo = k.todo /\ l.pending = k.pending /\ l.cached = k.cached
        /\ l.failures = k.failures /\ l.job = k.job
    BY <2>2 DEF LocalRecords
  <2> HIDE DEF l, k
  <2>5. Sound(l, Succeeded)
    BY <2>2, <2>4 DEF Sound
  <2> QED
    BY <1>1, <2>1, <2>3, <2>5, LocalChanges DEF CampaignInv, Kept
<1>3. CASE ~CanMove(new)
  <2>1. Leave(c) /\ UNCHANGED campaign
    BY <1>3 DEF Advance
  <2> QED
    BY <1>1, <2>1, LeaveKeeps DEF CampaignInv, Kept
<1> QED
  BY <1>2, <1>3

(* The steps with which a command is over. *)
LEMMA LeavingKeeps ==
  ASSUME CampaignInv, NEW c \in Coordinators,
         ReturnOrRefuse(c) \/ FinishCampaign(c) \/ CancelCampaign(c) \/ CoordinatorDies(c)
  PROVE  Kept'
<1>1. Leave(c)
  BY DEF ReturnOrRefuse, FinishCampaign, CancelCampaign, CoordinatorDies
<1>2. Succeeded' = Succeeded
  <2>1. UNCHANGED runVars \/ \E runs : Kill(runs)
    BY DEF ReturnOrRefuse, FinishCampaign, CancelCampaign, CoordinatorDies
  <2> QED
    BY <2>1, OthersSucceedNothing DEF CampaignInv
<1>3. campaign' \in CampaignStatus \cup {"none"}
  BY DEF CampaignInv, ReturnOrRefuse, FinishCampaign, CancelCampaign, CoordinatorDies, CanMove,
     FinalStatus, CampaignStatus
<1> QED
  BY <1>1, <1>2, <1>3, LeaveKeeps DEF CampaignInv, Kept

(* Steps that set futures of one command. *)
LEMMA JobStepKeeps ==
  ASSUME CampaignInv, NEW c \in Coordinators, NEW j \in [Trials -> JobStates],
         local' = [local EXCEPT ![c].job = j], UNCHANGED campaign,
         owner' \in [Runs -> Coordinators \cup {Nobody}], Succeeded \subseteq Succeeded',
         \A t \in Trials : \/ j[t] = local[c].job[t] \/ j[t] \in {"running", "error"}
                          \/ (j[t] = "ok" /\ t \in Succeeded')
  PROVE  Kept'
<1> DEFINE k == local[c]
           l == [k EXCEPT !.job = j]
<1>1. k \in LocalRecords /\ Sound(k, Succeeded')
  BY LocalFields, SoundGrows DEF CampaignInv
<1>2. l \in LocalRecords /\ Sound(l, Succeeded')
  BY <1>1, JobsSound
<1>3. local' = [local EXCEPT ![c] = l]
  BY DEF CampaignInv, LocalInv
<1> HIDE DEF l
<1> QED
  BY <1>2, <1>3, LocalChanges DEF CampaignInv, Kept

LEMMA StartTrialKeeps ==
  ASSUME CampaignInv, NEW c \in Coordinators, NEW r \in Runs, StartTrial(c, r)
  PROVE  Kept'
<1> DEFINE j == [local[c].job EXCEPT ![TrialOf(r)] = "running"]
<1>1. local[c].job \in [Trials -> JobStates] /\ TrialOf(r) \in Trials
  BY LocalFields, SucceededIs DEF CampaignInv
<1>2. j \in [Trials -> JobStates] /\ \A t \in Trials : j[t] = local[c].job[t] \/ j[t] = "running"
  BY <1>1 DEF JobStates
<1>3. local' = [local EXCEPT ![c].job = j]
  BY DEF StartTrial, CampaignInv, LocalInv
<1>4. Succeeded' = Succeeded
  BY OthersSucceedNothing DEF StartTrial, CampaignInv
<1>5. UNCHANGED campaign /\ owner' \in [Runs -> Coordinators \cup {Nobody}]
  BY DEF StartTrial, CampaignInv
<1> HIDE DEF j
<1> QED
  BY <1>2, <1>3, <1>4, <1>5, JobStepKeeps

(* A future gets the result of a success only if the attempt is one. *)
LEMMA ExecuteKeeps ==
  ASSUME CampaignInv, NEW r \in Runs, Execute(r)
  PROVE  Kept'
<1>1. /\ UNCHANGED <<campaign, owner>> /\ owner \in [Runs -> Coordinators \cup {Nobody}]
      /\ campaign \in CampaignStatus \cup {"none"} /\ LocalInv
      /\ TrialOf(r) \in Trials
  BY SucceededIs DEF Execute, CampaignInv
<1>2. /\ Succeeded \subseteq Succeeded'
      /\ exec[r] = "completed" => TrialOf(r) \in Succeeded'
  BY RunStepSuccess DEF Execute, CampaignInv
<1>3. CASE local' = local
  BY <1>1, <1>2, <1>3, LocalStays DEF Kept
<1>4. CASE local' # local
  <2> DEFINE c == owner[r]
             x == IF exec[r] = "completed" THEN "ok" ELSE "error"
             j == [local[c].job EXCEPT ![TrialOf(r)] = x]
  <2>1. c \in Coordinators
    BY <1>1, <1>4 DEF Execute
  <2>2. local[c].job \in [Trials -> JobStates]
    BY <1>1, <2>1, LocalFields
  <2>3. /\ j \in [Trials -> JobStates]
        /\ \A t \in Trials : \/ j[t] = local[c].job[t] \/ j[t] = "error"
                             \/ (j[t] = "ok" /\ t \in Succeeded')
    BY <1>1, <1>2, <2>2 DEF JobStates
  <2>4. local' = [local EXCEPT ![c].job = j]
    BY <1>1, <1>4, <2>1 DEF Execute, LocalInv
  <2> HIDE DEF j, c
  <2> QED
    BY <1>1, <1>2, <2>1, <2>3, <2>4, JobStepKeeps
<1> QED
  BY <1>3, <1>4

LEMMA WorkerDiesKeeps ==
  ASSUME CampaignInv, NEW r \in Runs, WorkerDies(r)
  PROVE  Kept'
<1>1. UNCHANGED <<campaign, owner>> /\ owner \in [Runs -> Coordinators \cup {Nobody}] /\ LocalInv
  BY DEF WorkerDies, CampaignInv
<1>2. Succeeded' = Succeeded
  <2>1. \E runs : Kill(runs)
    BY DEF WorkerDies
  <2> QED
    BY <2>1, OthersSucceedNothing DEF CampaignInv
<1>3. CASE owner[r] = Nobody
  BY <1>1, <1>2, <1>3, LocalStays DEF WorkerDies, CampaignInv, Kept
<1>4. CASE owner[r] # Nobody
  <2> DEFINE c == owner[r]
             j == [t \in Trials |-> IF local[c].job[t] \in {"waiting", "running"} THEN "error"
                                    ELSE local[c].job[t]]
  <2>1. c \in Coordinators
    BY <1>1, <1>4
  <2>2. local[c].job \in [Trials -> JobStates]
    BY <1>1, <2>1, LocalFields
  <2>3. j \in [Trials -> JobStates] /\ \A t \in Trials : j[t] = local[c].job[t] \/ j[t] = "error"
    BY <2>2 DEF JobStates
  <2>4. local' = [local EXCEPT ![c].job = j]
    BY <1>1, <1>4, <2>1 DEF WorkerDies, LocalInv
  <2> HIDE DEF j, c
  <2> QED
    BY <1>1, <1>2, <2>1, <2>3, <2>4, JobStepKeeps
<1> QED
  BY <1>3, <1>4

LEMMA OthersKeep ==
  ASSUME CampaignInv, NEW r \in Runs, Rerun(r) \/ DamageBundle(r)
  PROVE  Kept'
<1>1. Succeeded' = Succeeded
  BY OthersSucceedNothing DEF Rerun, DamageBundle, CampaignInv
<1> QED
  BY <1>1, LocalStays DEF Rerun, DamageBundle, CampaignInv, Kept

LEMMA CoordinatorStepKeeps ==
  ASSUME CampaignInv, NEW c \in Coordinators, CoordinatorStep(c)
  PROVE  Kept'
<1>1. CASE PlanTrial(c) \/ SubmitPending(c) \/ PoolStopped(c) \/ ReadLatestRun(c) \/ MarkLatestStale(c)
  BY <1>1, PlanTrialKeeps, SubmitPendingKeeps, PoolStoppedKeeps, ReadLatestRunKeeps,
     MarkLatestStaleKeeps
<1>2. CASE ReturnOrRefuse(c) \/ FinishCampaign(c) \/ CancelCampaign(c)
  BY <1>2, LeavingKeeps
<1>3. CASE QueueCampaign(c) \/ StartCampaign(c)
  BY <1>3, AdvanceKeeps DEF QueueCampaign, StartCampaign, CampaignStatus
<1>4. CASE \E r \in Runs : StartTrial(c, r)
  BY <1>4, StartTrialKeeps
<1>5. CASE \E t \in Trials : CollectFailure(c, t) \/ FailFastSequential(c, t) \/ FailFastParallel(c, t)
  BY <1>5, CollectFailureKeeps, FailFastSequentialKeeps, FailFastParallelKeeps
<1> QED
  BY <1>1, <1>2, <1>3, <1>4, <1>5 DEF CoordinatorStep

LEMMA CompletedStays ==
  ASSUME RunInv, CompletedInv, [Next]_vars
  PROVE  CompletedInv' /\ Succeeded \subseteq Succeeded'
<1>1. CASE \E r \in Runs : RunStep(r)
  BY <1>1, RunStepSuccess
<1>2. CASE ~\E r \in Runs : RunStep(r)
  BY <1>2, OthersSucceedNothing, NextRegistryStep DEF RegistryStep, vars
<1> QED
  BY <1>1, <1>2

LEMMA NextCampaignInv == CampaignInv /\ [Next]_vars => CampaignInv'
<1> SUFFICES ASSUME CampaignInv, [Next]_vars PROVE CampaignInv'
  OBVIOUS
<1>1. RunInv' /\ CompletedInv'
  BY NextRunInv, CompletedStays DEF CampaignInv
<1>2. CASE UNCHANGED vars
  BY <1>1, <1>2, CompletedStays, LocalStays DEF vars, CampaignInv
<1>3. CASE Next
  <2>1. Kept'
    <3>1. CASE \E c \in Coordinators : Register(c) \/ CoordinatorStep(c)
      BY <3>1, RegisterKeeps, CoordinatorStepKeeps
    <3>2. CASE \E c \in Coordinators : InterruptLoop(c) \/ InterruptPool(c) \/ CoordinatorDies(c)
      BY <3>2, InterruptLoopKeeps, InterruptPoolKeeps, LeavingKeeps
    <3>3. CASE \E r \in Runs : Execute(r) \/ Rerun(r) \/ WorkerDies(r) \/ DamageBundle(r)
      BY <3>3, ExecuteKeeps, OthersKeep, WorkerDiesKeeps
    <3> QED
      BY <1>3, <3>1, <3>2, <3>3 DEF Next
  <2> QED
    BY <1>1, <2>1 DEF Kept, CampaignInv
<1> QED
  BY <1>2, <1>3

LEMMA InitCampaignInv == Init => CampaignInv
<1> SUFFICES ASSUME Init PROVE CampaignInv
  OBVIOUS
<1>1. RunInv
  BY InitRunInv
<1>2. LocalInv
  BY IdleSound DEF Init, LocalInv
<1> QED
  BY <1>1, <1>2 DEF Init, RunInit, CampaignInv, CompletedInv, CampaignStatus

LEMMA SpecCampaignInv == Spec => []CampaignInv
BY InitCampaignInv, NextCampaignInv, PTL DEF Spec

-----------------------------------------------------------------------------
(* A campaign implements CampaignOutcome. *)

LEMMA CampaignMoves ==
  ASSUME NEW new, CanMove(new)
  PROVE  /\ campaign \notin {"none", "COMPLETED", "FAILED", "CANCELLED"}
         /\ new \in {"COMPLETED", "FAILED", "PARTIAL"} => campaign = "RUNNING"
<1>1. /\ CampaignTransitions["PLANNED"] = {"QUEUED", "CANCELLED"}
      /\ CampaignTransitions["QUEUED"] = {"RUNNING", "CANCELLED"}
      /\ CampaignTransitions["RUNNING"] = {"COMPLETED", "PARTIAL", "FAILED", "CANCELLED"}
      /\ CampaignTransitions["PARTIAL"] = {"RUNNING"}
      /\ CampaignTransitions["COMPLETED"] = {}
      /\ CampaignTransitions["FAILED"] = {}
      /\ CampaignTransitions["CANCELLED"] = {}
  BY DEF CampaignTransitions, CampaignStatus
<1> QED
  BY <1>1 DEF CanMove, CampaignStatus

(* A command that counts no failure has a success of every trial: cache    *)
(* hits and pending trials are all trials, so the sum leaves no failure,   *)
(* and a future that is neither open nor a failure is a result.            *)
LEMMA CompletedMeansAll ==
  ASSUME CampaignInv, NEW c \in Coordinators, Executed(c), FinalStatus(c) = "COMPLETED"
  PROVE  Succeeded = Trials
<1> DEFINE k == local[c]
<1>1. /\ k.cached \subseteq Trials /\ k.pending \subseteq Trials /\ k.failures \subseteq Trials
      /\ k.job \in [Trials -> JobStates]
      /\ Sound(k, Succeeded) /\ k.pc \in {"executing", "draining"}
  BY LocalFields DEF CampaignInv, Executed
<1>2. k.cached \cup k.pending = Trials /\ k.cached \cap k.pending = {}
  BY <1>1 DEF Sound
<1>3. IsFiniteSet(k.cached) /\ IsFiniteSet(k.pending) /\ IsFiniteSet(k.failures)
  BY <1>1, FS_Subset
<1>4. Cardinality(k.cached) + Cardinality(k.pending) = Cardinality(Trials)
  <2> DEFINE a == Cardinality(k.cached)
             b == Cardinality(k.pending)
             n == Cardinality(Trials)
  <2>1. Cardinality(k.cached \cup k.pending) = a + b - Cardinality(k.cached \cap k.pending)
    BY <1>3, FS_Union
  <2>2. Cardinality(k.cached \cap k.pending) = 0
    BY <1>2, FS_EmptySet
  <2>3. n = a + b - 0
    BY <1>2, <2>1, <2>2
  <2>4. a \in Nat /\ b \in Nat
    BY <1>3, FS_CardinalityType
  <2>5. n = a + b
    <3> HIDE DEF a, b, n
    <3> QED
      BY <2>3, <2>4
  <2> QED
    BY <2>5
<1>5. k.failures = {}
  <2>1. SucceededCount(c) = Cardinality(Trials)
    BY DEF FinalStatus
  <2>2. Cardinality(k.failures) \in Nat /\ Cardinality(Trials) \in Nat
    BY <1>3, FS_CardinalityType
  <2>3. Cardinality(k.cached) \in Nat /\ Cardinality(k.pending) \in Nat
    BY <1>3, FS_CardinalityType
  <2> DEFINE a == Cardinality(k.cached)
             b == Cardinality(k.pending)
             f == Cardinality(k.failures)
             n == Cardinality(Trials)
  <2>4. a + b - f = n
    BY <2>1 DEF SucceededCount
  <2>5. f = 0
    <3> HIDE DEF a, b, f, n
    <3>1. a \in Nat /\ b \in Nat /\ f \in Nat /\ n \in Nat /\ a + b = n
      BY <1>4, <2>2, <2>3 DEF a, b, f, n
    <3> QED
      BY <2>4, <3>1
  <2> QED
    BY <1>3, <2>5, FS_EmptySet
<1>6. k.pc = "executing" /\ \A t \in k.pending : k.job[t] \notin {"waiting", "running", "error"}
  BY <1>1, <1>5 DEF Sound, Executed, Jobs
<1>7. \A t \in k.pending : k.job[t] = "ok"
  BY <1>1, <1>5, <1>6 DEF Sound, JobStates
<1>8. Trials \subseteq Succeeded
  BY <1>1, <1>2, <1>7 DEF Sound
<1> QED
  BY <1>8 DEF Succeeded

(* Who changes the status of a campaign, and how. *)
LEMMA CampaignChanges ==
  ASSUME CampaignInv, Next, campaign' # campaign
  PROVE  /\ UNCHANGED runVars
         /\ campaign \notin {"COMPLETED", "FAILED", "CANCELLED"}
         /\ campaign' = "COMPLETED" => Succeeded = Trials
<1>1. CASE \E c \in Coordinators : Register(c)
  BY <1>1 DEF Register
<1>2. CASE \E c \in Coordinators : QueueCampaign(c) \/ StartCampaign(c)
  BY <1>2, CampaignMoves DEF QueueCampaign, StartCampaign, Advance
<1>3. CASE \E c \in Coordinators : CancelCampaign(c)
  BY <1>3, CampaignMoves DEF CancelCampaign
<1>4. CASE \E c \in Coordinators : FinishCampaign(c)
  BY <1>4, CampaignMoves, CompletedMeansAll DEF FinishCampaign
<1>5. CASE \E c \in Coordinators :
             \/ PlanTrial(c) \/ ReturnOrRefuse(c) \/ SubmitPending(c)
             \/ \E r \in Runs : StartTrial(c, r)
             \/ \E t \in Trials :
                  CollectFailure(c, t) \/ FailFastSequential(c, t) \/ FailFastParallel(c, t)
             \/ PoolStopped(c) \/ ReadLatestRun(c) \/ MarkLatestStale(c)
             \/ InterruptLoop(c) \/ InterruptPool(c) \/ CoordinatorDies(c)
  <2> PICK c \in Coordinators :
             \/ PlanTrial(c) \/ ReturnOrRefuse(c) \/ SubmitPending(c)
             \/ \E r \in Runs : StartTrial(c, r)
             \/ \E t \in Trials :
                  CollectFailure(c, t) \/ FailFastSequential(c, t) \/ FailFastParallel(c, t)
             \/ PoolStopped(c) \/ ReadLatestRun(c) \/ MarkLatestStale(c)
             \/ InterruptLoop(c) \/ InterruptPool(c) \/ CoordinatorDies(c)
    BY <1>5
  <2>1. PlanTrial(c) \/ ReturnOrRefuse(c) \/ SubmitPending(c) => campaign' = campaign
    BY DEF PlanTrial, ReturnOrRefuse, SubmitPending
  <2>2. ASSUME NEW r \in Runs
        PROVE  StartTrial(c, r) => campaign' = campaign
    BY DEF StartTrial
  <2>3. ASSUME NEW t \in Trials
        PROVE  CollectFailure(c, t) \/ FailFastSequential(c, t) \/ FailFastParallel(c, t)
                 => campaign' = campaign
    BY DEF CollectFailure, FailFastSequential, FailFastParallel
  <2>4. PoolStopped(c) \/ ReadLatestRun(c) \/ MarkLatestStale(c) => campaign' = campaign
    BY DEF PoolStopped, ReadLatestRun, MarkLatestStale
  <2>5. InterruptLoop(c) \/ InterruptPool(c) \/ CoordinatorDies(c) => campaign' = campaign
    BY DEF InterruptLoop, InterruptPool, CoordinatorDies
  <2> QED
    BY <2>1, <2>2, <2>3, <2>4, <2>5
<1>6. CASE \E r \in Runs : Execute(r) \/ Rerun(r) \/ WorkerDies(r) \/ DamageBundle(r)
  BY <1>6 DEF Execute, Rerun, WorkerDies, DamageBundle
<1> QED
  BY <1>1, <1>2, <1>3, <1>4, <1>5, <1>6 DEF Next, CoordinatorStep

OutcomeOf(s) ==
  IF s = "COMPLETED" THEN "completed" ELSE IF s \in {"FAILED", "CANCELLED"} THEN "closed" ELSE "open"

LEMMA NextOutcome ==
  CampaignInv /\ [Next]_vars =>
    [Abstract!Next]_<<Succeeded, OutcomeOf(campaign)>>
<1> SUFFICES ASSUME CampaignInv, [Next]_vars
             PROVE  [Abstract!Next]_<<Succeeded, OutcomeOf(campaign)>>
  OBVIOUS
<1>1. CASE UNCHANGED vars
  <2>1. Succeeded' = Succeeded
    BY <1>1, OthersSucceedNothing DEF vars, CampaignInv
  <2> QED
    BY <1>1, <2>1 DEF vars, OutcomeOf
<1>2. CASE Next /\ campaign' = campaign
  <2>1. PICK t \in Trials \cup {NoRun} :
          \/ Succeeded' = Succeeded
          \/ t \in Trials /\ Succeeded' = Succeeded \cup {t}
    <3>1. CASE \E r \in Runs : RunStep(r)
      BY <3>1, RunStepSuccess, SucceededIs DEF CampaignInv
    <3>2. CASE ~\E r \in Runs : RunStep(r)
      BY <1>2, <3>2, OthersSucceedNothing, NextRegistryStep DEF RegistryStep, CampaignInv
    <3> QED
      BY <3>1, <3>2
  <2>2. OutcomeOf(campaign)' = OutcomeOf(campaign)
    BY <1>2 DEF OutcomeOf
  <2> QED
    BY <2>1, <2>2 DEF Abstract!Next, Abstract!Succeed, Succeeded, OutcomeOf
<1>3. CASE Next /\ campaign' # campaign
  <2>1. /\ UNCHANGED runVars
        /\ campaign \notin {"COMPLETED", "FAILED", "CANCELLED"}
        /\ campaign' = "COMPLETED" => Succeeded = Trials
    BY <1>3, CampaignChanges
  <2>2. Succeeded' = Succeeded
    BY <2>1, OthersSucceedNothing DEF CampaignInv
  <2>3. OutcomeOf(campaign) = "open"
    BY <2>1 DEF OutcomeOf
  <2>4. CASE campaign' = "COMPLETED"
    BY <2>1, <2>2, <2>3, <2>4 DEF Abstract!Next, Abstract!Complete, Succeeded, OutcomeOf
  <2>5. CASE campaign' \in {"FAILED", "CANCELLED"}
    BY <2>2, <2>3, <2>5 DEF Abstract!Next, Abstract!Close, Succeeded, OutcomeOf
  <2>6. CASE campaign' \notin {"COMPLETED", "FAILED", "CANCELLED"}
    BY <2>2, <2>3, <2>6 DEF OutcomeOf
  <2> QED
    BY <2>4, <2>5, <2>6
<1> QED
  BY <1>1, <1>2, <1>3

(* Whatever commands interleave, die or interrupt each other: a campaign   *)
(* is COMPLETED only when every trial has a success, successes are kept    *)
(* and the outcome is final.                                               *)
THEOREM CampaignImplementsOutcome == Spec => CampaignOutcome
<1>1. Init => Abstract!Init
  <2> SUFFICES ASSUME Init PROVE Abstract!Init
    OBVIOUS
  <2>1. \A r \in Runs : status[r] # "SUCCEEDED"
    BY DEF Init, RunInit
  <2>2. campaign = "none"
    BY DEF Init
  <2> QED
    BY <2>1, <2>2 DEF Abstract!Init, RunsOf
<1>2. CampaignInv /\ [Next]_vars => [Abstract!Next]_Abstract!vars
  BY NextOutcome DEF Abstract!vars, Succeeded, OutcomeOf
<1> QED
  BY <1>1, <1>2, SpecCampaignInv, PTL DEF Spec, CampaignOutcome, Abstract!Spec
=============================================================================

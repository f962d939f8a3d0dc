---------------------------- MODULE ExperimentRun ----------------------------
(***************************************************************************)
(* The attempts of experiments: research/experiments/runner.py             *)
(* (ExperimentRunner.run) on store.py (the run state machine, each         *)
(* operation one BEGIN IMMEDIATE transaction) and artifacts.py (a bundle   *)
(* is written to tmp, renamed into gold, or moved to quarantine).          *)
(*                                                                         *)
(* A step is one transaction or one change of gold: between any two of     *)
(* them the process may be interrupted or killed, and other processes work *)
(* on the same registry.  What happens within the memory of the executing  *)
(* process, or in its directory under tmp (its name holds the run id, so   *)
(* no other attempt ever looks at it), is merged with the step after it.   *)
(* The heartbeat has no effect here but to raise when the attempt is no    *)
(* longer RUNNING, which is one of the causes of Raise.                    *)
(***************************************************************************)
EXTENDS Naturals, FiniteSets

CONSTANTS
  Trials,        \* the experiments, numbered in the order of their plan
  MaxAttempts,   \* bound on the attempts of an experiment
  Digests,       \* the result digests an execution may come to
  NoDigest,
  NoRun

ASSUME RunAssumption ==
  /\ Trials \subseteq Nat
  /\ IsFiniteSet(Trials)
  /\ MaxAttempts \in Nat
  /\ NoDigest \notin Digests
  /\ NoRun \notin Trials \X (1..MaxAttempts)

VARIABLES
  status,    \* research_experiment_runs.status, or "none" without a row
  bundle,    \* what gold holds of an attempt: none, its bundle, or a damaged one
  digest,    \* what the metrics and artifacts in the bundle hash to
  previous,  \* result_digest of the local variable previous
  exec       \* where the process that executes an attempt is

runVars == <<status, bundle, digest, previous, exec>>

-----------------------------------------------------------------------------

Runs == Trials \X (1..MaxAttempts)
TrialOf(r) == r[1]
RunsOf(t) == {r \in Runs : TrialOf(r) = t /\ status[r] # "none"}

RunStatus ==
  {"PENDING", "QUEUED", "RUNNING", "SUCCEEDED", "FAILED", "CANCELLED", "STALE"}

RunTransitions ==
  [s \in RunStatus |->
     CASE s = "PENDING" -> {"QUEUED"}
       [] s = "QUEUED"  -> {"RUNNING", "CANCELLED"}
       [] s = "RUNNING" -> {"SUCCEEDED", "FAILED", "STALE"}
       [] s = "STALE"   -> {"QUEUED"}
       [] OTHER         -> {}]

ExecStates ==
  {"none", "created", "queued", "computing", "promoted", "persisted", "completed",
   "failing", "failing_known", "recording", "ended", "unrecorded", "killed"}
Ended == {"none", "ended", "unrecorded", "killed"}
Executing(r) == exec[r] \notin Ended

RunInit ==
  /\ status = [r \in Runs |-> "none"]
  /\ bundle = [r \in Runs |-> "none"]
  /\ digest = [r \in Runs |-> NoDigest]
  /\ previous = [r \in Runs |-> NoDigest]
  /\ exec = [r \in Runs |-> "none"]

-----------------------------------------------------------------------------
(* The registry. *)

(* The attempt with the highest number among some attempts of a trial. *)
Latest(runs) ==
  IF runs = {} THEN NoRun ELSE CHOOSE r \in runs : \A s \in runs : s[2] <= r[2]

LatestRun(t) == Latest(RunsOf(t))
LatestSuccessfulRun(t) == Latest({r \in RunsOf(t) : status[r] = "SUCCEEDED"})

(* verify_run: the registered artifacts are in place and intact. *)
VerifyRun(r) == bundle[r] = "final"

TransitionRun(r, new) ==
  /\ status[r] \in RunStatus
  /\ new \in RunTransitions[status[r]]
  /\ status' = [status EXCEPT ![r] = new]

(* The directory is moved out of gold. *)
Quarantine(r) == bundle' = [bundle EXCEPT ![r] = "none"]

At(r, before, after) ==
  /\ exec[r] = before
  /\ exec' = [exec EXCEPT ![r] = after]

-----------------------------------------------------------------------------
(* One attempt. *)

(* The latest success is read, then the next attempt gets its row.  Another *)
(* success between the two has the effect of one right after both.          *)
CreateRun(r) ==
  /\ status[r] = "none"
  /\ \A n \in 1..(r[2] - 1) : status[<<TrialOf(r), n>>] # "none"
  /\ status' = [status EXCEPT ![r] = "PENDING"]
  /\ previous' = [previous EXCEPT ![r] =
                    LET s == LatestSuccessfulRun(TrialOf(r))
                    IN  IF s = NoRun THEN NoDigest ELSE digest[s]]
  /\ At(r, "none", "created")
  /\ UNCHANGED <<bundle, digest>>

QueueRun(r) ==
  /\ At(r, "created", "queued")
  /\ TransitionRun(r, "QUEUED")
  /\ UNCHANGED <<bundle, digest, previous>>

StartRun(r) ==
  /\ At(r, "queued", "computing")
  /\ TransitionRun(r, "RUNNING")
  /\ UNCHANGED <<bundle, digest, previous>>

(* The walk-forward validation is over, its files were written to tmp and  *)
(* validated, and the directory is renamed into the immutable layout.      *)
Promote(r, d) ==
  /\ At(r, "computing", "promoted")
  /\ bundle' = [bundle EXCEPT ![r] = "final"]
  /\ digest' = [digest EXCEPT ![r] = d]
  /\ UNCHANGED <<status, previous>>

(* persist returns: from here on run knows the artifact directory. *)
PersistReturns(r) ==
  /\ At(r, "promoted", "persisted")
  /\ UNCHANGED <<status, bundle, digest, previous>>

(* The digest agrees with the previous one, the artifacts verify, and one  *)
(* transaction registers metrics, artifacts, digest and success.           *)
CompleteRun(r) ==
  /\ At(r, "persisted", "completed")
  /\ previous[r] \in {NoDigest, digest[r]}
  /\ TransitionRun(r, "SUCCEEDED")
  /\ UNCHANGED <<bundle, digest, previous>>

Return(r) ==
  /\ At(r, "completed", "ended")
  /\ UNCHANGED <<status, bundle, digest, previous>>

(* An exception before the try block: nothing is recorded. *)
RaiseBeforeTry(r) ==
  /\ exec[r] \in {"created", "queued"}
  /\ At(r, exec[r], "ended")
  /\ UNCHANGED <<status, bundle, digest, previous>>

(* Mutant of Raise: the handler catches Exception and not BaseException. *)
RaiseUncaught(r) ==
  /\ exec[r] \in {"computing", "promoted", "persisted", "completed"}
  /\ At(r, exec[r], "ended")
  /\ UNCHANGED <<status, bundle, digest, previous>>

(* An exception: any error, the determinism violation, a heartbeat or a    *)
(* completion that finds the attempt not RUNNING, or Ctrl+C.  The handler  *)
(* of persist moves what is in tmp or renamed, but after its try block     *)
(* nothing does until persist returned and run knows the directory.        *)
Raise(r) ==
  /\ \/ At(r, "computing", "failing") /\ UNCHANGED bundle
     \/ /\ At(r, "promoted", "failing")
        /\ UNCHANGED bundle \/ Quarantine(r)
     \/ exec[r] \in {"persisted", "completed"} /\ At(r, exec[r], "failing_known")
                                             /\ UNCHANGED bundle
  /\ UNCHANGED <<status, digest, previous>>

(* Mutant of QuarantineFailed: the handler does not look at the status. *)
QuarantineAnyFailed(r) ==
  /\ \/ At(r, "failing", "recording") /\ UNCHANGED bundle
     \/ /\ At(r, "failing_known", "recording")
        /\ Quarantine(r)
  /\ UNCHANGED <<status, digest, previous>>

(* The handler: an attempt still RUNNING has its known bundle moved away;  *)
(* any other is left alone.                                                *)
QuarantineFailed(r) ==
  /\ IF status[r] = "RUNNING"
     THEN \/ At(r, "failing", "recording") /\ UNCHANGED bundle
          \/ /\ At(r, "failing_known", "recording")
             /\ Quarantine(r)
     ELSE /\ exec[r] \in {"failing", "failing_known"}
          /\ At(r, exec[r], "ended")
          /\ UNCHANGED bundle
  /\ UNCHANGED <<status, digest, previous>>

RecordFailure(r) ==
  /\ At(r, "recording", "ended")
  /\ IF status[r] = "RUNNING" THEN TransitionRun(r, "FAILED") ELSE UNCHANGED status
  /\ UNCHANGED <<bundle, digest, previous>>

(* The handler raises itself: the registry or the disk refuses to answer,  *)
(* or a second Ctrl+C.  An exception after the attempt became RUNNING and  *)
(* before the try block has the same effect.                               *)
HandlerRaises(r) ==
  /\ exec[r] \in {"failing", "failing_known", "recording"}
  /\ At(r, exec[r], "unrecorded")
  /\ UNCHANGED <<status, bundle, digest, previous>>

(* What the executing process does next. *)
RunStep(r) ==
  \/ QueueRun(r)
  \/ StartRun(r)
  \/ \E d \in Digests : Promote(r, d)
  \/ PersistReturns(r)
  \/ CompleteRun(r)
  \/ Return(r)
  \/ RaiseBeforeTry(r)
  \/ Raise(r)
  \/ QuarantineFailed(r)
  \/ RecordFailure(r)
  \/ HandlerRaises(r)

-----------------------------------------------------------------------------
(* What happens to an attempt from outside. *)

MarkStale(r) ==
  /\ TransitionRun(r, "STALE")
  /\ UNCHANGED <<bundle, digest, previous, exec>>

(* The processes that execute some attempts are gone. *)
Kill(runs) ==
  /\ exec' = [r \in Runs |-> IF r \in runs /\ Executing(r) THEN "killed" ELSE exec[r]]
  /\ UNCHANGED <<status, bundle, digest, previous>>

(* Somebody changes or removes a file of a registered bundle. *)
Damage(r) ==
  /\ status[r] = "SUCCEEDED"
  /\ bundle[r] = "final"
  /\ bundle' = [bundle EXCEPT ![r] = "damaged"]
  /\ UNCHANGED <<status, digest, previous, exec>>
=============================================================================

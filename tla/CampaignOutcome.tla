--------------------------- MODULE CampaignOutcome ---------------------------
(***************************************************************************)
(* What the registry promises about a campaign, whoever executes it: a     *)
(* success is never taken back, the campaign is completed only when every  *)
(* trial has one, and its outcome is final.                                *)
(***************************************************************************)
CONSTANT Trials
VARIABLES succeeded, outcome

vars == <<succeeded, outcome>>

Init == succeeded = {} /\ outcome = "open"

Succeed(t) ==
  /\ succeeded' = succeeded \cup {t}
  /\ UNCHANGED outcome

Complete ==
  /\ outcome = "open"
  /\ succeeded = Trials
  /\ outcome' = "completed"
  /\ UNCHANGED succeeded

(* The campaign failed or was cancelled. *)
Close ==
  /\ outcome = "open"
  /\ outcome' = "closed"
  /\ UNCHANGED succeeded

Next ==
  \/ \E t \in Trials : Succeed(t)
  \/ Complete
  \/ Close

Spec == Init /\ [][Next]_vars
=============================================================================

--------------------------- MODULE LosslessCapture ---------------------------
(***************************************************************************)
(* What a capture promises to its caller, with no queue, writer or gate:   *)
(* run_recorder may return only when every event received from the network *)
(* is persisted, and what it returned about never changes afterwards.  It  *)
(* may raise at any time, and then promises nothing about the remainder.   *)
(***************************************************************************)
CONSTANT Events
VARIABLES received, persisted, result

vars == <<received, persisted, result>>

Init ==
  /\ received = {}
  /\ persisted = {}
  /\ result = "running"

Receive(e) ==
  /\ result = "running"
  /\ received' = received \cup {e}
  /\ UNCHANGED <<persisted, result>>

(* A batch of received events becomes durable, even late, after a raise. *)
Persist(batch) ==
  /\ result # "returned"
  /\ batch \subseteq received
  /\ persisted' = persisted \cup batch
  /\ UNCHANGED <<received, result>>

Return ==
  /\ result = "running"
  /\ persisted = received
  /\ result' = "returned"
  /\ UNCHANGED <<received, persisted>>

Raise ==
  /\ result = "running"
  /\ result' = "raised"
  /\ UNCHANGED <<received, persisted>>

Next ==
  \/ \E e \in Events : Receive(e)
  \/ \E batch \in SUBSET Events : Persist(batch)
  \/ Return
  \/ Raise

Spec == Init /\ [][Next]_vars
=============================================================================

---------------------------- MODULE VisibleBatches ---------------------------
(***************************************************************************)
(* What readers of the recorder's data may rely on, whatever crashes:      *)
(* batches become visible one at a time, each together with the checkpoint *)
(* of its stream, and a visible batch stays visible.                       *)
(***************************************************************************)
CONSTANTS Batches, Streams, StreamOf, NoBatch
VARIABLES visible, checkpoint

vars == <<visible, checkpoint>>

Init ==
  /\ visible = {}
  /\ checkpoint = [s \in Streams |-> NoBatch]

Publish(b) ==
  /\ b \notin visible
  /\ visible' = visible \cup {b}
  /\ checkpoint' = [checkpoint EXCEPT ![StreamOf[b]] = b]

Next == \E b \in Batches : Publish(b)

Spec == Init /\ [][Next]_vars
=============================================================================

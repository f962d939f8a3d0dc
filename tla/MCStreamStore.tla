---------------------------- MODULE MCStreamStore ----------------------------
(***************************************************************************)
(* Four batches of two streams; two of them are orphans from before, the   *)
(* other two are flushed by the runs of the behaviour.  Batch 3 is flushed *)
(* before batch 4 and holds the row received last, as when a late event of *)
(* the hour before is in the same micro-batch.                             *)
(***************************************************************************)
EXTENDS StreamStore, TLC

CONSTANTS book, mark

MCStreamOf == 1 :> book @@ 2 :> mark @@ 3 :> book @@ 4 :> book
MCLastReceived == 1 :> 1 @@ 2 :> 2 @@ 3 :> 4 @@ 4 :> 3
=============================================================================

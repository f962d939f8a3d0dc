---------------------------- MODULE MCRecorderRun ----------------------------
(***************************************************************************)
(* Two routes, four events in three partitions of two event types, a queue *)
(* of one slot and micro-batches of two rows: enough for two producers to  *)
(* block on the queue at once, for a flush of two partitions to fail       *)
(* between them and for two flushes of the same partition.                 *)
(***************************************************************************)
EXTENDS RecorderProperties

CONSTANTS public, market, e1, e2, e3, e4

MCRouteOf == e1 :> public @@ e2 :> public @@ e3 :> market @@ e4 :> market
MCPartitionOf == e1 :> 1 @@ e2 :> 2 @@ e3 :> 3 @@ e4 :> 2
MCEventTypeOf == 1 :> "book_ticker" @@ 2 :> "book_ticker" @@ 3 :> "mark_price"
MCEventTypes == {"book_ticker", "mark_price"}
=============================================================================

------------------------- MODULE RecorderProperties --------------------------
(***************************************************************************)
(* What must hold of a capture (module RecorderRun).                       *)
(***************************************************************************)
EXTENDS RecorderRun

-----------------------------------------------------------------------------

(* Every variable has its type, and the queue never exceeds its capacity: *)
(* asyncio.Queue(maxsize=queue_capacity) in run_recorder.                 *)
TypeOK ==
  /\ phase \in {"capturing", "finishing", "draining", "auditing", "ended"}
  /\ producer \in [Routes -> ProducerStates]
  /\ inHand \in [Routes -> Events \cup {NoEvent}]
  /\ queue \in Seq(Events)
  /\ Len(queue) <= Capacity
  /\ writer \in WriterStates
  /\ buffered \subseteq Events
  /\ pending \subseteq Events
  /\ persisted \subseteq Events
  /\ counted \subseteq Events
  /\ dropped \in Nat
  /\ failure \in Failures
  /\ report \in {"none", "passed", "failed"}
  /\ result \in {"running", "returned", "raised"}
  /\ received \subseteq Events
  /\ discarded \subseteq Events

(* run_recorder returns normally only when every event a route received is *)
(* in a VALIDATED file: neither a put cut short at shutdown nor a writer   *)
(* error nobody looked at (the task was already done when it would have    *)
(* been awaited) can hide behind counters that happen to agree.            *)
ReturnedIsLossless == result = "returned" => persisted = received

(* An event counted in messages_by_stream is in the queue, in the buffers, *)
(* in the flush in progress or persisted, as long as the writer has not    *)
(* failed and was not cancelled: a flush takes all rows of the buffers and *)
(* the writer loses none between two awaits.                               *)
CountedIsAccounted ==
  \/ writer \in {"failed", "cancelled"}
  \/ counted \subseteq ToSet(queue) \cup buffered \cup pending \cup persisted

(* A report that passed is final although a cancelled writer may have left *)
(* a flush running in its thread: nothing counted is still on its way to   *)
(* disk when audit_recorder_run compares counters with rows.               *)
PassedReportIsFinal ==
  report = "passed" =>
    /\ counted = persisted
    /\ queue = <<>>
    /\ buffered = {}
    /\ pending = {}

(* README.md on the recorder: "nunca descarta silenciosamente.  Saturacao  *)
(* encerra a captura com erro e incrementa recorder_dropped_events_total". *)
(* So a quality report that passed, with no dropped event, is about a      *)
(* capture in which no producer gave up a received event.                  *)
NeverDiscardsSilently == report = "passed" => discarded = {}

(* The capture promises what LosslessCapture says; its variables keep      *)
(* their names.                                                            *)
Abstract == INSTANCE LosslessCapture
LosslessCapture == Abstract!Spec

(* The capture is stopped by its duration, an error or an interrupt, and   *)
(* run_recorder then gets as far as the audit, with every producer and the *)
(* writer over for good, even if a route never gets rid of its event and   *)
(* the thread of a flush never returns.                                    *)
ShutdownReachesAudit ==
  <>[](/\ phase \in {"auditing", "ended"}
       /\ \A r \in Routes : producer[r] \in ProducerEnded
       /\ writer \in WriterEnded)

(* Once producer_done is set nothing is received, counted or dropped any   *)
(* more: every producer is over, or was cancelled, before the writer is    *)
(* drained and before the gate looks at the counters.                      *)
CountersStableAfterGate ==
  [][ProducerDone => UNCHANGED <<received, counted, dropped>>]_vars
=============================================================================

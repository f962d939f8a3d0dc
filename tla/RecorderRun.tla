----------------------------- MODULE RecorderRun -----------------------------
(***************************************************************************)
(* One capture of data/recorder.py: run_recorder.  One producer per route  *)
(* (RoutedPublicWebSocket) receives events and puts them in the bounded    *)
(* asyncio queue; the writer (StreamMicroBatchWriter.run) takes them into  *)
(* its buffers and flushes these, partition by partition, in a thread; the *)
(* coordinator ends the capture, stops the producers, drains the writer    *)
(* and lets the quality gate compare counters with what was persisted.     *)
(*                                                                         *)
(* asyncio tasks interleave only where they await, so an action is the     *)
(* code between two awaits.  Timers are choices: a timeout may fire        *)
(* whenever its await is pending.  What a flushed partition becomes on     *)
(* disk, and what a crash leaves, is module StreamStore.                   *)
(***************************************************************************)
EXTENDS Naturals, Sequences, FiniteSets, SequencesExt

CONSTANTS
  Routes,        \* the WebSocket routes that have a subscription
  Events,        \* the canonical events the routes may deliver in this run
  Partitions,    \* PartitionKeys (type, day, hour, symbol), numbered in sort order
  EventTypes,    \* the enabled event types, all of them expected by the gate
  RouteOf,       \* the route that delivers an event
  PartitionOf,   \* the PartitionKey of an event
  EventTypeOf,   \* the event type of a PartitionKey
  Capacity,      \* recorder.queue_capacity
  MaxRows,       \* storage.micro_batch_max_rows
  CancelCanHitPut, \* stale_after + queue_put_timeout >= shutdown_timeout
  NoEvent        \* no event in hand

ASSUME RecorderAssumption ==
  /\ IsFiniteSet(Events)
  /\ NoEvent \notin Events
  /\ Partitions \subseteq Nat
  /\ RouteOf \in [Events -> Routes]
  /\ PartitionOf \in [Events -> Partitions]
  /\ EventTypes # {}
  /\ EventTypeOf \in [Partitions -> EventTypes]
  /\ Capacity \in Nat \ {0}
  /\ MaxRows \in Nat \ {0}
  /\ CancelCanHitPut \in BOOLEAN

VARIABLES
  phase,      \* where run_recorder is
  producer,   \* the state of each producer task
  inHand,     \* the event a producer is blocked on in queue.put
  queue,      \* the asyncio queue
  writer,     \* the state of the writer task
  buffered,   \* the rows in the writer's _buffers
  pending,    \* the rows flush_all has taken and not yet written
  persisted,  \* the rows of this run in VALIDATED files
  counted,    \* the events counted in messages_by_stream
  dropped,    \* WebSocketRunStats.dropped_events
  failure,    \* the local variable failure of run_recorder
  report,     \* the verdict of the quality report, once written
  result,     \* whether run_recorder returned or raised
  received,   \* history: every event a producer got from its socket
  discarded   \* history: the received events no producer put in the queue

producerVars == <<producer, inHand, queue, counted, dropped, received, discarded>>
writerVars == <<writer, buffered, pending, persisted>>
outcomeVars == <<report, result>>
vars == <<phase, failure, producerVars, writerVars, outcomeVars>>

-----------------------------------------------------------------------------

ProducerStates == {"offline", "receiving", "putting", "finished", "saturated", "cancelled"}
ProducerEnded == {"finished", "saturated", "cancelled"}
WriterStates == {"polling", "flushing", "done", "failed", "cancelled"}
WriterEnded == {"done", "failed", "cancelled"}
Failures == {"none", "saturated", "writer", "interrupted", "timeout"}

(* stop_event and producer_done are set and never cleared. *)
StopSet == phase # "capturing"
ProducerDone == phase \in {"draining", "auditing", "ended"}

RowsOf(rows, p) == {e \in rows : PartitionOf[e] = p}
RowsOfType(rows, t) == {e \in rows : EventTypeOf[PartitionOf[e]] = t}

Init ==
  /\ phase = "capturing"
  /\ producer = [r \in Routes |-> "offline"]
  /\ inHand = [r \in Routes |-> NoEvent]
  /\ queue = <<>>
  /\ writer = "polling"
  /\ buffered = {}
  /\ pending = {}
  /\ persisted = {}
  /\ counted = {}
  /\ dropped = 0
  /\ failure = "none"
  /\ report = "none"
  /\ result = "running"
  /\ received = {}
  /\ discarded = {}

-----------------------------------------------------------------------------
(* The producers: RoutedPublicWebSocket.run, _receive, _enqueue, _observe. *)

(* ws_connect succeeds, after a first attempt or a reconnect delay. *)
Connect(r) ==
  /\ ~StopSet
  /\ producer[r] = "offline"
  /\ producer' = [producer EXCEPT ![r] = "receiving"]
  /\ UNCHANGED <<phase, failure, inHand, queue, counted, dropped, received, discarded,
                 writerVars, outcomeVars>>

(* The socket closes, goes stale, rotates or delivers what does not parse. *)
Disconnect(r) ==
  /\ producer[r] = "receiving"
  /\ producer' = [producer EXCEPT ![r] = IF StopSet THEN "finished" ELSE "offline"]
  /\ UNCHANGED <<phase, failure, inHand, queue, counted, dropped, received, discarded,
                 writerVars, outcomeVars>>

(* A producer outside receive sees stop_event: between connections, or at  *)
(* the head of _receive after a control frame.                             *)
ObserveStop(r) ==
  /\ StopSet
  /\ producer[r] \in {"offline", "receiving"}
  /\ producer' = [producer EXCEPT ![r] = "finished"]
  /\ UNCHANGED <<phase, failure, inHand, queue, counted, dropped, received, discarded,
                 writerVars, outcomeVars>>

(* Mutant of Enqueue: the queue is unbounded. *)
EnqueueUnbounded(r, e) ==
  /\ queue' = Append(queue, e)
  /\ counted' = counted \cup {e}
  /\ producer' = [producer EXCEPT ![r] = IF StopSet THEN "finished" ELSE "receiving"]

(* put_nowait, then _observe, with no await between them; then the loop of *)
(* _receive looks at stop_event.                                           *)
Enqueue(r, e) ==
  /\ Len(queue) < Capacity
  /\ queue' = Append(queue, e)
  /\ counted' = counted \cup {e}
  /\ producer' = [producer EXCEPT ![r] = IF StopSet THEN "finished" ELSE "receiving"]

(* A message arrives and there is room in the queue. *)
ReceiveAndPut(r, e) ==
  /\ producer[r] = "receiving"
  /\ e \notin received
  /\ RouteOf[e] = r
  /\ received' = received \cup {e}
  /\ Enqueue(r, e)
  /\ UNCHANGED <<phase, failure, inHand, dropped, discarded, writerVars, outcomeVars>>

(* A message arrives and the queue is full: queue.put awaits a free slot. *)
ReceiveAndBlock(r, e) ==
  /\ producer[r] = "receiving"
  /\ e \notin received
  /\ RouteOf[e] = r
  /\ Len(queue) = Capacity
  /\ received' = received \cup {e}
  /\ inHand' = [inHand EXCEPT ![r] = e]
  /\ producer' = [producer EXCEPT ![r] = "putting"]
  /\ UNCHANGED <<phase, failure, queue, counted, dropped, discarded, writerVars, outcomeVars>>

(* The writer made room before the put timed out. *)
PutResumes(r) ==
  /\ producer[r] = "putting"
  /\ Enqueue(r, inHand[r])
  /\ inHand' = [inHand EXCEPT ![r] = NoEvent]
  /\ UNCHANGED <<phase, failure, dropped, received, discarded, writerVars, outcomeVars>>

(* Mutant of PutTimesOut: the dropped event is not counted. *)
PutTimesOutUncounted(r) ==
  /\ producer[r] = "putting"
  /\ discarded' = discarded \cup {inHand[r]}
  /\ inHand' = [inHand EXCEPT ![r] = NoEvent]
  /\ producer' = [producer EXCEPT ![r] = "saturated"]
  /\ UNCHANGED <<phase, failure, queue, counted, dropped, received, writerVars, outcomeVars>>

(* queue_put_timeout: the event is counted as dropped and the route raises *)
(* QueueSaturatedError out of run, which does not reconnect.               *)
PutTimesOut(r) ==
  /\ producer[r] = "putting"
  /\ dropped' = dropped + 1
  /\ discarded' = discarded \cup {inHand[r]}
  /\ inHand' = [inHand EXCEPT ![r] = NoEvent]
  /\ producer' = [producer EXCEPT ![r] = "saturated"]
  /\ UNCHANGED <<phase, failure, queue, counted, received, writerVars, outcomeVars>>

-----------------------------------------------------------------------------
(* The writer: StreamMicroBatchWriter.run and flush_all.                   *)

(* flush_all starts by taking the buffers; run awaits the thread. *)
StartFlush(rows) ==
  /\ pending' = rows
  /\ buffered' = {}
  /\ writer' = "flushing"

(* An event is taken and appended; a full micro-batch is flushed. *)
WriterTake ==
  /\ writer = "polling"
  /\ queue # <<>>
  /\ queue' = Tail(queue)
  /\ LET rows == buffered \cup {Head(queue)}
     IN  IF Cardinality(rows) >= MaxRows
         THEN StartFlush(rows)
         ELSE buffered' = rows /\ UNCHANGED <<pending, writer>>
  /\ UNCHANGED <<phase, failure, producer, inHand, counted, dropped, received, discarded,
                 persisted, outcomeVars>>

(* queue.get times out: what is buffered is flushed when it is due, or     *)
(* when the producers are done.  The age of the batch is left open.        *)
WriterPollTimesOut ==
  /\ writer = "polling"
  /\ queue = <<>>
  /\ buffered # {}
  /\ StartFlush(buffered)
  /\ UNCHANGED <<phase, failure, producerVars, persisted, outcomeVars>>

(* The producers are done and nothing is left. *)
WriterFinishes ==
  /\ writer = "polling"
  /\ ProducerDone
  /\ queue = <<>>
  /\ buffered = {}
  /\ writer' = "done"
  /\ UNCHANGED <<phase, failure, producerVars, buffered, pending, persisted, outcomeVars>>

(* sorted(pending): the next partition flush_all writes. *)
NextPartition(p) ==
  /\ RowsOf(pending, p) # {}
  /\ \A q \in Partitions : RowsOf(pending, q) # {} => p <= q

(* Mutant of FlushPartition: flush_all returns after its first partition. *)
FlushPartitionOnce(p) ==
  /\ NextPartition(p)
  /\ persisted' = persisted \cup RowsOf(pending, p)
  /\ pending' = {}
  /\ writer' = IF writer = "flushing" THEN "polling" ELSE writer
  /\ UNCHANGED <<phase, failure, producerVars, buffered, outcomeVars>>

(* _flush_partition makes a VALIDATED file of the partition; after the     *)
(* last one run resumes, unless it was cancelled meanwhile.                *)
FlushPartition(p) ==
  /\ NextPartition(p)
  /\ persisted' = persisted \cup RowsOf(pending, p)
  /\ pending' = pending \ RowsOf(pending, p)
  /\ writer' = IF writer = "flushing" /\ pending' = {} THEN "polling" ELSE writer
  /\ UNCHANGED <<phase, failure, producerVars, buffered, outcomeVars>>

(* _flush_partition raises, before or after the file became VALIDATED: the *)
(* remaining partitions are lost with the thread's local variable.         *)
FlushFails(p, committed) ==
  /\ NextPartition(p)
  /\ persisted' = IF committed THEN persisted \cup RowsOf(pending, p) ELSE persisted
  /\ pending' = {}
  /\ writer' = IF writer = "flushing" THEN "failed" ELSE writer
  /\ UNCHANGED <<phase, failure, producerVars, buffered, outcomeVars>>

-----------------------------------------------------------------------------
(* The coordinator: run_recorder and _finish_producers.                    *)

(* The errors of the tasks that asyncio.wait reports as done. *)
RaisedByTasks ==
  {"saturated" : r \in {q \in Routes : producer[q] = "saturated"}}
    \cup (IF writer = "failed" THEN {"writer"} ELSE {})

(* asyncio.wait returns: a task raised, or the duration elapsed. *)
StopCapture ==
  /\ phase = "capturing"
  /\ phase' = "finishing"
  /\ IF RaisedByTasks = {} THEN failure' = "none" ELSE failure' \in RaisedByTasks
  /\ UNCHANGED <<producerVars, writerVars, outcomeVars>>

(* producer_done.set(): the writer is awaited only if it is still running, *)
(* so the error of a writer that failed earlier is not looked at again.    *)
SetProducerDone == phase' = IF writer \in WriterEnded THEN "auditing" ELSE "draining"

(* Task.cancel() on every producer: an event held in queue.put is lost and *)
(* no counter changes.                                                     *)
CancelProducers ==
  /\ producer' = [r \in Routes |-> IF producer[r] \in ProducerEnded THEN producer[r]
                                                                    ELSE "cancelled"]
  /\ discarded' = discarded \cup {inHand[r] : r \in {q \in Routes : producer[q] = "putting"}}
  /\ inHand' = [r \in Routes |-> NoEvent]
  /\ UNCHANGED <<queue, counted, dropped, received>>

(* Ctrl+C while the capture runs cancels the main task. *)
Interrupt ==
  /\ phase = "capturing"
  /\ failure' = "interrupted"
  /\ CancelProducers
  /\ SetProducerDone
  /\ UNCHANGED <<writerVars, outcomeVars>>

ProducersFinish ==
  /\ phase = "finishing"
  /\ \A r \in Routes : producer[r] \in ProducerEnded
  /\ SetProducerDone
  /\ UNCHANGED <<failure, producerVars, writerVars, outcomeVars>>

(* Mutant of ProducersTimeOut: the late producers are not cancelled. *)
ProducersLeftRunning ==
  /\ phase = "finishing"
  /\ \E r \in Routes : producer[r] \notin ProducerEnded
  /\ SetProducerDone
  /\ UNCHANGED <<failure, producerVars, writerVars, outcomeVars>>

(* shutdown_timeout expires on the producers.  One that holds an event is  *)
(* hit only if a put can outlive that timeout.                             *)
ProducersTimeOut ==
  /\ phase = "finishing"
  /\ \E r \in Routes : producer[r] \notin ProducerEnded
  /\ CancelCanHitPut \/ \A r \in Routes : producer[r] # "putting"
  /\ CancelProducers
  /\ SetProducerDone
  /\ UNCHANGED <<failure, writerVars, outcomeVars>>

WriterAwaited ==
  /\ phase = "draining"
  /\ writer \in WriterEnded
  /\ phase' = "auditing"
  /\ failure' = IF writer = "failed" /\ failure = "none" THEN "writer" ELSE failure
  /\ UNCHANGED <<producerVars, writerVars, outcomeVars>>

(* Mutant of WriterTimesOut: a flush in progress is waited for. *)
WriterTimesOutWhenIdle ==
  /\ phase = "draining"
  /\ writer = "polling"
  /\ writer' = "cancelled"
  /\ phase' = "auditing"
  /\ failure' = IF failure = "none" THEN "timeout" ELSE failure
  /\ UNCHANGED <<producerVars, buffered, pending, persisted, outcomeVars>>

(* shutdown_timeout expires on the writer: the task is cancelled; a flush  *)
(* in progress goes on in its thread.                                      *)
WriterTimesOut ==
  /\ phase = "draining"
  /\ writer \notin WriterEnded
  /\ writer' = "cancelled"
  /\ phase' = "auditing"
  /\ failure' = IF failure = "none" THEN "timeout" ELSE failure
  /\ UNCHANGED <<producerVars, buffered, pending, persisted, outcomeVars>>

-----------------------------------------------------------------------------
(* The gate: audit_recorder_run, on the VALIDATED records of the run.      *)

(* Mutant of CountsAgree: the gate looks for too many rows only. *)
NoSurplusRows ==
  /\ Cardinality(persisted) <= Cardinality(counted)
  /\ \A t \in EventTypes :
       Cardinality(RowsOfType(persisted, t)) <= Cardinality(RowsOfType(counted, t))

(* The counters against the rows, in total and for each event type. *)
CountsAgree ==
  /\ Cardinality(counted) = Cardinality(persisted)
  /\ \A t \in EventTypes :
       Cardinality(RowsOfType(counted, t)) = Cardinality(RowsOfType(persisted, t))

(* With no file of some expected type there is no report. *)
AuditImpossible == \E t \in EventTypes : RowsOfType(persisted, t) = {}

(* The audit raises before a report: it is impossible, or the manifest or  *)
(* DuckDB fails.                                                           *)
AuditRaises ==
  /\ phase = "auditing"
  /\ phase' = "ended"
  /\ result' = "raised"
  /\ UNCHANGED <<failure, producerVars, writerVars, report>>

(* Mutant of Audit: a report that passed hides why the capture stopped. *)
AuditIgnoresFailure(otherGates) ==
  /\ phase = "auditing"
  /\ ~AuditImpossible
  /\ phase' = "ended"
  /\ report' = IF dropped = 0 /\ CountsAgree /\ otherGates THEN "passed" ELSE "failed"
  /\ result' = IF report' = "passed" THEN "returned" ELSE "raised"
  /\ UNCHANGED <<failure, producerVars, writerVars>>

(* The report is written; otherGates stands for duplicates, sequence gaps, *)
(* market values, checksums and schema.                                    *)
Audit(otherGates) ==
  /\ phase = "auditing"
  /\ ~AuditImpossible
  /\ phase' = "ended"
  /\ report' = IF dropped = 0 /\ CountsAgree /\ otherGates THEN "passed" ELSE "failed"
  /\ result' = IF failure = "none" /\ report' = "passed" THEN "returned" ELSE "raised"
  /\ UNCHANGED <<failure, producerVars, writerVars>>

(* The process is over and nothing runs in the background. *)
Terminated ==
  /\ phase = "ended"
  /\ pending = {}
  /\ UNCHANGED vars

-----------------------------------------------------------------------------

ProducerStep(r) ==
  \/ Connect(r)
  \/ Disconnect(r)
  \/ ObserveStop(r)
  \/ \E e \in Events : ReceiveAndPut(r, e) \/ ReceiveAndBlock(r, e)
  \/ PutResumes(r)
  \/ PutTimesOut(r)

WriterStep ==
  \/ WriterTake
  \/ WriterPollTimesOut
  \/ WriterFinishes

FlushStep ==
  \E p \in Partitions :
    \/ FlushPartition(p)
    \/ \E committed \in BOOLEAN : FlushFails(p, committed)

(* The coordinator as long as it awaits, always with a timeout. *)
ShutdownStep ==
  \/ StopCapture
  \/ Interrupt
  \/ ProducersFinish
  \/ ProducersTimeOut
  \/ WriterAwaited
  \/ WriterTimesOut

(* The audit runs on the event loop: SQLite, DuckDB, every Parquet file. *)
AuditStep ==
  \/ AuditRaises
  \/ \E otherGates \in BOOLEAN : Audit(otherGates)

CoordinatorStep == ShutdownStep \/ AuditStep

Next ==
  \/ \E r \in Routes : ProducerStep(r)
  \/ WriterStep
  \/ FlushStep
  \/ CoordinatorStep
  \/ Terminated

Spec == Init /\ [][Next]_vars

(***************************************************************************)
(* The timers of the event loop fire: duration, queue_put_timeout and the  *)
(* two uses of shutdown_timeout.  Nothing is assumed of the network, of    *)
(* the writer and its flush thread, or of the audit, which reads the disk  *)
(* without a timeout.                                                      *)
(***************************************************************************)
Fairness ==
  /\ WF_vars(ShutdownStep)
  /\ \A r \in Routes : WF_vars(PutTimesOut(r))

FairSpec == Spec /\ Fairness
=============================================================================

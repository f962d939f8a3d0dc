---------------------------- MODULE RecorderProofs ---------------------------
(***************************************************************************)
(* Proofs about the recorder.  First one capture: its types, and that what *)
(* run_recorder returns about is lossless, for every number of routes,     *)
(* events, partitions, for every queue capacity and batch size.  Then its  *)
(* files across captures: for every set of batches and any number of       *)
(* crashes, what is VALIDATED is durable, checkpoints point at visible     *)
(* batches, and recovery leaves nothing behind.                            *)
(***************************************************************************)
EXTENDS RecorderProperties, StreamStore, FiniteSetTheorems, SequenceTheorems, TLAPS

-----------------------------------------------------------------------------
(* Facts about the queue as a set of events. *)

LEMMA AppendAsSet ==
  ASSUME NEW S, NEW q \in Seq(S), NEW e \in S
  PROVE  /\ Append(q, e) \in Seq(S)
         /\ Len(Append(q, e)) = Len(q) + 1
         /\ ToSet(Append(q, e)) = ToSet(q) \cup {e}
<1>1. /\ Append(q, e) \in Seq(S)
      /\ Len(Append(q, e)) = Len(q) + 1
      /\ \A i \in 1..Len(q) : Append(q, e)[i] = q[i]
      /\ Append(q, e)[Len(q) + 1] = e
  OBVIOUS
<1>2. DOMAIN Append(q, e) = DOMAIN q \cup {Len(q) + 1}
  <2>1. Len(q) \in Nat
    OBVIOUS
  <2> QED BY <1>1, <2>1
<1>3. DOMAIN q = 1..Len(q)
  OBVIOUS
<1> QED BY <1>1, <1>2, <1>3 DEF ToSet

LEMMA TailAsSet ==
  ASSUME NEW S, NEW q \in Seq(S), q # <<>>
  PROVE  /\ Tail(q) \in Seq(S)
         /\ Len(Tail(q)) = Len(q) - 1
         /\ Head(q) \in S
         /\ ToSet(q) = {Head(q)} \cup ToSet(Tail(q))
<1>1. /\ Tail(q) \in Seq(S)
      /\ Len(Tail(q)) = Len(q) - 1
      /\ Len(q) \in Nat \ {0}
      /\ Head(q) = q[1]
      /\ \A i \in 1..(Len(q) - 1) : Tail(q)[i] = q[i + 1]
  OBVIOUS
<1>2. DOMAIN q = 1..Len(q) /\ DOMAIN Tail(q) = 1..(Len(q) - 1)
  BY <1>1
<1>3. ToSet(q) \subseteq {Head(q)} \cup ToSet(Tail(q))
  <2>1. SUFFICES ASSUME NEW i \in 1..Len(q), i # 1
                 PROVE  q[i] \in ToSet(Tail(q))
    BY <1>1, <1>2 DEF ToSet
  <2>2. i - 1 \in 1..(Len(q) - 1) /\ Tail(q)[i - 1] = q[i]
    BY <1>1, <2>1
  <2> QED BY <1>2, <2>2 DEF ToSet
<1>4. {Head(q)} \cup ToSet(Tail(q)) \subseteq ToSet(q)
  <2>1. SUFFICES ASSUME NEW i \in 1..(Len(q) - 1)
                 PROVE  Tail(q)[i] \in ToSet(q)
    BY <1>1, <1>2 DEF ToSet
  <2>2. i + 1 \in 1..Len(q) /\ Tail(q)[i] = q[i + 1]
    BY <1>1, <2>1
  <2> QED BY <1>2, <2>2 DEF ToSet
<1> QED BY <1>1, <1>3, <1>4

-----------------------------------------------------------------------------
(* The inductive invariant, by parts. *)

(* A producer blocked in queue.put holds an event of its own route that it *)
(* has received and nobody has counted; any other producer holds none.     *)
HandInv ==
  \A r \in Routes :
    IF producer[r] = "putting"
    THEN /\ inHand[r] \in received \ counted
         /\ RouteOf[inHand[r]] = r
    ELSE inHand[r] = NoEvent

(* What the progress of run_recorder says about the tasks. *)
PhaseInv ==
  /\ phase = "capturing" => failure = "none"
  /\ ProducerDone => \A r \in Routes : producer[r] \in ProducerEnded
  /\ phase \in {"auditing", "ended"} => writer \in WriterEnded
  /\ result = "running" <=> phase # "ended"
  /\ report # "none" => phase = "ended"

(* What is on its way to disk was counted, and what was counted received. *)
ContentInv ==
  /\ counted \subseteq received
  /\ ToSet(queue) \cup buffered \cup pending \cup persisted \subseteq counted

(* A received event that is not counted was discarded or is in hand. *)
ReceivedInv ==
  \A e \in received \ counted :
    \/ e \in discarded
    \/ \E r \in Routes : producer[r] = "putting" /\ inHand[r] = e

(* Unless a put can outlive the shutdown timeout, an event is discarded    *)
(* only with a drop counted or in an interrupted run.                      *)
DiscardInv ==
  discarded # {} => dropped > 0 \/ failure = "interrupted" \/ CancelCanHitPut

(* An event is in one place only, and once in the queue. *)
DisjointInv ==
  /\ \A i, j \in 1..Len(queue) : queue[i] = queue[j] => i = j
  /\ ToSet(queue) \cap (buffered \cup pending \cup persisted) = {}
  /\ buffered \cap (pending \cup persisted) = {}
  /\ pending \cap persisted = {}

(* What the gate has established stays true. *)
GateInv ==
  /\ report = "passed" => counted = persisted /\ dropped = 0
  /\ result = "returned" => report = "passed" /\ failure = "none"

-----------------------------------------------------------------------------
(* Type correctness. *)

TypeInv == TypeOK /\ HandInv

USE RecorderAssumption

LEMMA InitTypeInv == Init => TypeInv
BY DEF Init, TypeInv, TypeOK, HandInv, ProducerStates, WriterStates, Failures

LEMMA ProducerTypeInv ==
  ASSUME TypeInv, ContentInv, NEW r \in Routes, ProducerStep(r)
  PROVE  TypeInv'
<1> USE DEF TypeInv, TypeOK, HandInv, ContentInv, ProducerStates, writerVars, outcomeVars
<1>1. CASE Connect(r) \/ Disconnect(r) \/ ObserveStop(r)
  BY <1>1 DEF Connect, Disconnect, ObserveStop
<1>2. ASSUME NEW e \in Events, ReceiveAndPut(r, e)
      PROVE  TypeInv'
  <2>1. queue' \in Seq(Events) /\ Len(queue') <= Capacity
    BY <1>2, AppendAsSet DEF ReceiveAndPut, Enqueue
  <2>2. HandInv'
    BY <1>2 DEF ReceiveAndPut, Enqueue
  <2> QED
    BY <1>2, <2>1, <2>2 DEF ReceiveAndPut, Enqueue
<1>3. ASSUME NEW e \in Events, ReceiveAndBlock(r, e)
      PROVE  TypeInv'
  BY <1>3 DEF ReceiveAndBlock
<1>4. CASE PutResumes(r)
  <2>1. inHand[r] \in Events
    BY <1>4 DEF PutResumes
  <2>2. queue' \in Seq(Events) /\ Len(queue') <= Capacity
    BY <1>4, <2>1, AppendAsSet DEF PutResumes, Enqueue
  <2>3. HandInv'
    BY <1>4, <2>1 DEF PutResumes, Enqueue
  <2> QED
    BY <1>4, <2>1, <2>2, <2>3 DEF PutResumes, Enqueue
<1>5. CASE PutTimesOut(r)
  BY <1>5 DEF PutTimesOut
<1> QED BY <1>1, <1>2, <1>3, <1>4, <1>5 DEF ProducerStep

LEMMA WriterTypeInv ==
  ASSUME TypeInv, WriterStep
  PROVE  TypeInv'
<1> USE DEF TypeInv, TypeOK, HandInv, WriterStates, producerVars, outcomeVars, StartFlush
<1>1. CASE WriterTake
  <2>1. queue' \in Seq(Events) /\ Len(queue') <= Capacity /\ Head(queue) \in Events
    BY <1>1, TailAsSet DEF WriterTake
  <2> QED
    BY <1>1, <2>1 DEF WriterTake
<1>2. CASE WriterPollTimesOut
  BY <1>2 DEF WriterPollTimesOut
<1>3. CASE WriterFinishes
  BY <1>3 DEF WriterFinishes
<1> QED BY <1>1, <1>2, <1>3 DEF WriterStep

LEMMA FlushTypeInv ==
  ASSUME TypeInv, FlushStep
  PROVE  TypeInv'
<1> USE DEF TypeInv, TypeOK, HandInv, WriterStates, producerVars, outcomeVars, RowsOf
<1>1. ASSUME NEW p \in Partitions, FlushPartition(p)
      PROVE  TypeInv'
  BY <1>1 DEF FlushPartition
<1>2. ASSUME NEW p \in Partitions, NEW committed \in BOOLEAN, FlushFails(p, committed)
      PROVE  TypeInv'
  BY <1>2 DEF FlushFails
<1> QED BY <1>1, <1>2 DEF FlushStep

LEMMA CoordinatorTypeInv ==
  ASSUME TypeInv, CoordinatorStep
  PROVE  TypeInv'
<1> USE DEF TypeInv, TypeOK, HandInv, Failures, WriterStates, ProducerStates, ProducerEnded,
            producerVars, writerVars, outcomeVars
<1>1. CASE StopCapture
  BY <1>1 DEF StopCapture, RaisedByTasks
<1>2. CASE Interrupt
  BY <1>2 DEF Interrupt, CancelProducers, SetProducerDone
<1>3. CASE ProducersFinish
  BY <1>3 DEF ProducersFinish, SetProducerDone
<1>4. CASE ProducersTimeOut
  BY <1>4 DEF ProducersTimeOut, CancelProducers, SetProducerDone
<1>5. CASE WriterAwaited \/ WriterTimesOut \/ AuditRaises
  BY <1>5 DEF WriterAwaited, WriterTimesOut, AuditRaises
<1>6. ASSUME NEW otherGates \in BOOLEAN, Audit(otherGates)
      PROVE  TypeInv'
  BY <1>6 DEF Audit
<1> QED BY <1>1, <1>2, <1>3, <1>4, <1>5, <1>6 DEF CoordinatorStep, ShutdownStep, AuditStep

-----------------------------------------------------------------------------
(* Where the events are. *)

PlaceInv == ContentInv /\ ReceivedInv /\ DisjointInv

LEMMA InitPlaceInv == Init => PlaceInv
BY DEF Init, PlaceInv, ContentInv, ReceivedInv, DisjointInv, ToSet

(* Putting an event nobody has counted keeps every place apart. *)
LEMMA EnqueuePlaceInv ==
  ASSUME TypeInv, PlaceInv, NEW r \in Routes, NEW e \in Events, e \notin counted,
         Enqueue(r, e), e \in received', received \subseteq received',
         UNCHANGED writerVars
  PROVE  ContentInv' /\ DisjointInv'
<1> USE DEF TypeInv, TypeOK, PlaceInv, ContentInv, DisjointInv, Enqueue, writerVars
<1>1. queue \in Seq(Events) /\ queue' = Append(queue, e)
  OBVIOUS
<1>2. /\ queue' \in Seq(Events)
      /\ Len(queue') = Len(queue) + 1
      /\ ToSet(queue') = ToSet(queue) \cup {e}
  BY <1>1, AppendAsSet
<1>3. ContentInv'
  BY <1>2
<1>4. ASSUME NEW i \in 1..Len(queue'), NEW j \in 1..Len(queue'), queue'[i] = queue'[j]
      PROVE  i = j
  <2>1. Len(queue) \in Nat /\ \A k \in 1..Len(queue) : queue'[k] = queue[k]
    BY <1>1
  <2>2. queue'[Len(queue) + 1] = e
    BY <1>1
  <2>3. \A k \in 1..Len(queue) : queue[k] # e
    <3>1. DOMAIN queue = 1..Len(queue)
      BY <1>1
    <3> QED BY <3>1 DEF ToSet
  <2> QED BY <1>2, <1>4, <2>1, <2>2, <2>3
<1> QED BY <1>2, <1>3, <1>4

LEMMA ProducerPlaceInv ==
  ASSUME TypeInv, PlaceInv, NEW r \in Routes, ProducerStep(r)
  PROVE  PlaceInv'
<1>1. CASE Connect(r) \/ Disconnect(r) \/ ObserveStop(r)
  <2>1. UNCHANGED <<queue, counted, received, discarded, inHand, writerVars>>
    BY <1>1 DEF Connect, Disconnect, ObserveStop
  <2>2. \A q \in Routes : producer[q] = "putting" => producer'[q] = "putting"
    BY <1>1 DEF Connect, Disconnect, ObserveStop, TypeInv, TypeOK
  <2> QED
    BY <2>1, <2>2 DEF PlaceInv, ContentInv, ReceivedInv, DisjointInv, writerVars
<1>2. ASSUME NEW e \in Events, ReceiveAndPut(r, e)
      PROVE  PlaceInv'
  <2>1. e \notin counted /\ Enqueue(r, e) /\ e \in received' /\ received \subseteq received'
        /\ UNCHANGED writerVars
    BY <1>2 DEF ReceiveAndPut, PlaceInv, ContentInv
  <2>2. ContentInv' /\ DisjointInv'
    BY <2>1, EnqueuePlaceInv
  <2>3. ReceivedInv'
    BY <1>2 DEF ReceiveAndPut, Enqueue, PlaceInv, ReceivedInv, TypeInv, TypeOK
  <2> QED BY <2>2, <2>3 DEF PlaceInv
<1>3. ASSUME NEW e \in Events, ReceiveAndBlock(r, e)
      PROVE  PlaceInv'
  BY <1>3 DEF ReceiveAndBlock, PlaceInv, ContentInv, ReceivedInv, DisjointInv, TypeInv, TypeOK,
              writerVars
<1>4. CASE PutResumes(r)
  <2>1. inHand[r] \in Events /\ inHand[r] \notin counted /\ Enqueue(r, inHand[r])
        /\ inHand[r] \in received' /\ received \subseteq received' /\ UNCHANGED writerVars
    BY <1>4 DEF PutResumes, TypeInv, TypeOK, HandInv
  <2>2. ContentInv' /\ DisjointInv'
    BY <2>1, EnqueuePlaceInv
  <2>3. ReceivedInv'
    BY <1>4 DEF PutResumes, Enqueue, PlaceInv, ReceivedInv, TypeInv, TypeOK
  <2> QED BY <2>2, <2>3 DEF PlaceInv
<1>5. CASE PutTimesOut(r)
  BY <1>5 DEF PutTimesOut, PlaceInv, ContentInv, ReceivedInv, DisjointInv, TypeInv, TypeOK,
              writerVars
<1> QED BY <1>1, <1>2, <1>3, <1>4, <1>5 DEF ProducerStep

(* StartFlush replaces pending: nothing is lost because a polling writer    *)
(* has no flush in progress.                                               *)
FlushInv == pending # {} => writer \in {"flushing", "cancelled"}

LEMMA WriterPlaceInv ==
  ASSUME TypeInv, PlaceInv, FlushInv, WriterStep
  PROVE  PlaceInv' /\ FlushInv'
<1> USE DEF TypeInv, TypeOK, PlaceInv, ContentInv, ReceivedInv, DisjointInv, FlushInv,
            producerVars, StartFlush
<1>1. CASE WriterTake
  <2>1. queue \in Seq(Events) /\ queue # <<>> /\ queue' = Tail(queue)
    BY <1>1 DEF WriterTake
  <2>2. /\ queue' \in Seq(Events)
        /\ Len(queue') = Len(queue) - 1
        /\ ToSet(queue) = {Head(queue)} \cup ToSet(queue')
    BY <2>1, TailAsSet
  <2>3. Len(queue) \in Nat \ {0} /\ Head(queue) = queue[1]
        /\ \A i \in 1..Len(queue') : queue'[i] = queue[i + 1]
    BY <2>1
  <2>4. Head(queue) \notin ToSet(queue')
    <3>1. DOMAIN queue' = 1..Len(queue')
      BY <2>2
    <3>2. \A i \in 1..Len(queue') : queue'[i] # queue[1]
      BY <2>2, <2>3
    <3> QED BY <2>3, <3>1, <3>2 DEF ToSet
  <2>5. \A i, j \in 1..Len(queue') : queue'[i] = queue'[j] => i = j
    BY <2>2, <2>3
  <2>6. /\ pending = {}
        /\ buffered' \cup pending' = buffered \cup {Head(queue)}
        /\ buffered' \cap pending' = {}
        /\ UNCHANGED <<counted, received, discarded, producer, inHand, persisted>>
        /\ pending' # {} => writer' = "flushing"
    BY <1>1 DEF WriterTake
  <2> QED BY <2>2, <2>4, <2>5, <2>6
<1>2. CASE WriterPollTimesOut
  BY <1>2 DEF WriterPollTimesOut
<1>3. CASE WriterFinishes
  BY <1>3 DEF WriterFinishes
<1> QED BY <1>1, <1>2, <1>3 DEF WriterStep

LEMMA FlushPlaceInv ==
  ASSUME TypeInv, PlaceInv, FlushInv, FlushStep
  PROVE  PlaceInv' /\ FlushInv'
<1> USE DEF TypeInv, TypeOK, PlaceInv, ContentInv, ReceivedInv, DisjointInv, FlushInv,
            producerVars, RowsOf
<1>1. ASSUME NEW p \in Partitions, FlushPartition(p)
      PROVE  PlaceInv' /\ FlushInv'
  BY <1>1 DEF FlushPartition
<1>2. ASSUME NEW p \in Partitions, NEW committed \in BOOLEAN, FlushFails(p, committed)
      PROVE  PlaceInv' /\ FlushInv'
  BY <1>2 DEF FlushFails
<1> QED BY <1>1, <1>2 DEF FlushStep

LEMMA CoordinatorPlaceInv ==
  ASSUME TypeInv, PlaceInv, FlushInv, CoordinatorStep
  PROVE  PlaceInv' /\ FlushInv'
<1>1. CASE StopCapture \/ ProducersFinish \/ WriterAwaited \/ AuditRaises
  BY <1>1 DEF StopCapture, ProducersFinish, WriterAwaited, AuditRaises, producerVars,
              writerVars, PlaceInv, ContentInv, ReceivedInv, DisjointInv, FlushInv
<1>2. CASE Interrupt \/ ProducersTimeOut
  <2>1. UNCHANGED <<queue, counted, received, writerVars>> /\ CancelProducers
    BY <1>2 DEF Interrupt, ProducersTimeOut, CancelProducers
  <2>2. ContentInv' /\ DisjointInv' /\ FlushInv'
    BY <2>1 DEF PlaceInv, ContentInv, DisjointInv, FlushInv, writerVars
  <2>3. ReceivedInv'
    BY <2>1 DEF PlaceInv, ReceivedInv, CancelProducers
  <2> QED BY <2>2, <2>3 DEF PlaceInv
<1>3. CASE WriterTimesOut
  BY <1>3 DEF WriterTimesOut, producerVars, PlaceInv, ContentInv, ReceivedInv, DisjointInv,
              FlushInv, TypeInv, TypeOK
<1>4. ASSUME NEW otherGates \in BOOLEAN, Audit(otherGates)
      PROVE  PlaceInv' /\ FlushInv'
  BY <1>4 DEF Audit, producerVars, writerVars, PlaceInv, ContentInv, ReceivedInv, DisjointInv,
              FlushInv
<1> QED BY <1>1, <1>2, <1>3, <1>4 DEF CoordinatorStep, ShutdownStep, AuditStep

-----------------------------------------------------------------------------
(* What the coordinator knows when it ends. *)

OutcomeInv == PhaseInv /\ DiscardInv /\ GateInv

LEMMA InitOutcomeInv == Init => OutcomeInv
BY DEF Init, OutcomeInv, PhaseInv, DiscardInv, GateInv, ProducerDone

(* A producer that still takes steps runs before producer_done is set. *)
LEMMA ProducerOutcomeInv ==
  ASSUME TypeInv, OutcomeInv, NEW r \in Routes, ProducerStep(r)
  PROVE  OutcomeInv'
<1> USE DEF TypeInv, TypeOK, OutcomeInv, PhaseInv, DiscardInv, GateInv, ProducerDone,
            ProducerEnded, writerVars, outcomeVars
<1>1. /\ ~ProducerDone
      /\ UNCHANGED <<phase, failure, writerVars, outcomeVars>>
      /\ \/ dropped' = dropped /\ discarded' = discarded
         \/ dropped' = dropped + 1
  BY DEF ProducerStep, Connect, Disconnect, ObserveStop, ReceiveAndPut, ReceiveAndBlock,
         PutResumes, PutTimesOut, Enqueue
<1> QED BY <1>1

LEMMA WriterOutcomeInv ==
  ASSUME OutcomeInv, WriterStep
  PROVE  OutcomeInv'
BY DEF OutcomeInv, PhaseInv, DiscardInv, GateInv, ProducerDone, WriterEnded, producerVars,
       outcomeVars, StartFlush, WriterStep, WriterTake, WriterPollTimesOut, WriterFinishes

(* After a report that passed, a flush can only write what is there. *)
LEMMA FlushOutcomeInv ==
  ASSUME TypeInv, PlaceInv, OutcomeInv, FlushStep
  PROVE  OutcomeInv'
<1> USE DEF TypeInv, TypeOK, PlaceInv, ContentInv, OutcomeInv, PhaseInv, DiscardInv, GateInv,
            ProducerDone, WriterEnded, producerVars, outcomeVars, RowsOf
<1>1. ASSUME NEW p \in Partitions, FlushPartition(p)
      PROVE  OutcomeInv'
  BY <1>1 DEF FlushPartition
<1>2. ASSUME NEW p \in Partitions, NEW committed \in BOOLEAN, FlushFails(p, committed)
      PROVE  OutcomeInv'
  BY <1>2 DEF FlushFails
<1> QED BY <1>1, <1>2 DEF FlushStep

(* Equal numbers of counted and persisted events are the same events,      *)
(* because what is persisted was counted and the capture is finite.        *)
LEMMA CountsAgreeMeansEqual ==
  ASSUME TypeInv, PlaceInv, CountsAgree
  PROVE  counted = persisted
<1>1. IsFiniteSet(counted)
  BY FS_Subset DEF TypeInv, TypeOK
<1>2. persisted \in SUBSET counted
  BY DEF PlaceInv, ContentInv
<1> QED BY <1>1, <1>2, FS_Subset DEF CountsAgree

LEMMA CoordinatorOutcomeInv ==
  ASSUME TypeInv, PlaceInv, OutcomeInv, CoordinatorStep
  PROVE  OutcomeInv'
<1> USE DEF OutcomeInv, PhaseInv, DiscardInv, GateInv, ProducerDone, ProducerEnded,
            WriterEnded, SetProducerDone, producerVars, writerVars, outcomeVars
<1>1. CASE StopCapture
  BY <1>1 DEF StopCapture
<1>2. CASE Interrupt
  BY <1>2 DEF Interrupt, CancelProducers
<1>3. CASE ProducersFinish
  BY <1>3 DEF ProducersFinish
<1>4. CASE ProducersTimeOut
  <2>1. CancelCanHitPut \/ discarded' = discarded
    BY <1>4 DEF ProducersTimeOut, CancelProducers
  <2> QED BY <1>4, <2>1 DEF ProducersTimeOut, CancelProducers
<1>5. CASE WriterAwaited \/ WriterTimesOut \/ AuditRaises
  BY <1>5 DEF WriterAwaited, WriterTimesOut, AuditRaises
<1>6. ASSUME NEW otherGates \in BOOLEAN, Audit(otherGates)
      PROVE  OutcomeInv'
  BY <1>6, CountsAgreeMeansEqual DEF Audit
<1> QED BY <1>1, <1>2, <1>3, <1>4, <1>5, <1>6 DEF CoordinatorStep, ShutdownStep, AuditStep

-----------------------------------------------------------------------------
(* The inductive invariant holds, and what follows from it. *)

IInv == TypeInv /\ PlaceInv /\ FlushInv /\ OutcomeInv

LEMMA InitIInv == Init => IInv
BY InitTypeInv, InitPlaceInv, InitOutcomeInv DEF IInv, FlushInv, Init

LEMMA NextIInv ==
  ASSUME IInv, [Next]_vars
  PROVE  IInv'
<1> USE DEF IInv
<1>1. ASSUME NEW r \in Routes, ProducerStep(r)
      PROVE  IInv'
  <2>1. TypeInv' /\ PlaceInv' /\ OutcomeInv'
    BY <1>1, ProducerTypeInv, ProducerPlaceInv, ProducerOutcomeInv DEF PlaceInv
  <2>2. FlushInv'
    BY <1>1 DEF FlushInv, ProducerStep, Connect, Disconnect, ObserveStop, ReceiveAndPut,
                ReceiveAndBlock, PutResumes, PutTimesOut, Enqueue, writerVars
  <2> QED BY <2>1, <2>2
<1>2. CASE WriterStep
  BY <1>2, WriterTypeInv, WriterPlaceInv, WriterOutcomeInv
<1>3. CASE FlushStep
  BY <1>3, FlushTypeInv, FlushPlaceInv, FlushOutcomeInv
<1>4. CASE CoordinatorStep
  BY <1>4, CoordinatorTypeInv, CoordinatorPlaceInv, CoordinatorOutcomeInv
<1>5. CASE UNCHANGED vars
  BY <1>5 DEF vars, producerVars, writerVars, outcomeVars, TypeInv, TypeOK, HandInv, PlaceInv,
              ContentInv, ReceivedInv, DisjointInv, FlushInv, OutcomeInv, PhaseInv,
              DiscardInv, GateInv, ProducerDone
<1> QED BY <1>1, <1>2, <1>3, <1>4, <1>5 DEF Next, Terminated

LEMMA SpecIInv == Spec => []IInv
BY InitIInv, NextIInv, PTL DEF Spec

(* The queue never exceeds its capacity and every variable has its type,   *)
(* for every capacity and number of routes.                                *)
THEOREM TypeCorrect == Spec => []TypeOK
<1>1. IInv => TypeOK
  BY DEF IInv, TypeInv
<1> QED BY <1>1, SpecIInv, PTL

LEMMA IInvLossless ==
  ASSUME IInv, ~CancelCanHitPut
  PROVE  ReturnedIsLossless
<1> SUFFICES ASSUME result = "returned"
             PROVE  persisted = received
  BY DEF ReturnedIsLossless
<1>1. report = "passed" /\ failure = "none" /\ counted = persisted /\ dropped = 0
  BY DEF IInv, OutcomeInv, GateInv
<1>2. discarded = {}
  BY <1>1 DEF IInv, OutcomeInv, DiscardInv
<1>3. \A r \in Routes : producer[r] # "putting"
  BY DEF IInv, OutcomeInv, PhaseInv, ProducerDone, ProducerEnded
<1>4. received \subseteq counted
  BY <1>2, <1>3 DEF IInv, PlaceInv, ReceivedInv
<1> QED BY <1>1, <1>4 DEF IInv, PlaceInv, ContentInv

(* run_recorder returns only about a lossless capture, for every capacity, *)
(* batch size and number of routes, as long as a put that was blocked when *)
(* the capture stopped times out before the shutdown timeout does          *)
(* (stale_after + queue_put_timeout < shutdown_timeout, as configured).    *)
THEOREM ReturnedLossless ==
  ASSUME ~CancelCanHitPut
  PROVE  Spec => []ReturnedIsLossless
<1>1. IInv => ReturnedIsLossless
  BY IInvLossless
<1> QED BY <1>1, SpecIInv, PTL

(* A flush left running by a cancelled writer cannot change the rows that  *)
(* a report which passed is about, nor is any counted event still waiting. *)
THEOREM PassedReportFinal == Spec => []PassedReportIsFinal
<1>1. IInv => PassedReportIsFinal
  <2> SUFFICES ASSUME IInv, report = "passed"
               PROVE  counted = persisted /\ queue = <<>> /\ buffered = {} /\ pending = {}
    BY DEF PassedReportIsFinal
  <2>1. counted = persisted
    BY DEF IInv, OutcomeInv, GateInv
  <2>2. ToSet(queue) = {} /\ buffered = {} /\ pending = {}
    BY <2>1 DEF IInv, PlaceInv, ContentInv, DisjointInv
  <2>3. queue \in Seq(Events)
    BY DEF IInv, TypeInv, TypeOK
  <2>4. queue = <<>>
    <3> SUFFICES ASSUME queue # <<>> PROVE FALSE
      OBVIOUS
    <3>1. Head(queue) \in ToSet(queue)
      BY <2>3, TailAsSet
    <3> QED BY <2>2, <3>1
  <2> QED BY <2>1, <2>2, <2>4
<1> QED BY <1>1, SpecIInv, PTL

(* Once producer_done is set no counter moves and nothing is received: the *)
(* gate compares final numbers.                                            *)
THEOREM CountersStable == Spec => CountersStableAfterGate
<1>1. ASSUME IInv, [Next]_vars
      PROVE  [ProducerDone => UNCHANGED <<received, counted, dropped>>]_vars
  <2> SUFFICES ASSUME ProducerDone, Next
               PROVE  UNCHANGED <<received, counted, dropped>>
    BY <1>1
  <2>1. \A r \in Routes : ~ProducerStep(r)
    BY <1>1 DEF IInv, OutcomeInv, PhaseInv, ProducerDone, ProducerEnded, StopSet, ProducerStep,
           Connect, Disconnect, ObserveStop, ReceiveAndPut, ReceiveAndBlock, PutResumes,
           PutTimesOut
  <2> QED
    BY <2>1 DEF Next, WriterStep, WriterTake, WriterPollTimesOut, WriterFinishes, FlushStep,
           FlushPartition, FlushFails, CoordinatorStep, ShutdownStep, AuditStep, StopCapture,
           Interrupt, CancelProducers,
           ProducersFinish, ProducersTimeOut, WriterAwaited, WriterTimesOut, AuditRaises, Audit,
           Terminated, vars, producerVars
<1> QED BY <1>1, SpecIInv, PTL DEF Spec, CountersStableAfterGate

-----------------------------------------------------------------------------
(* No counted event is lost while the writer is sound. *)

LEMMA NextAccounted ==
  ASSUME IInv, CountedIsAccounted, [Next]_vars
  PROVE  CountedIsAccounted'
<1> USE DEF IInv, TypeInv, TypeOK, CountedIsAccounted
<1>1. ASSUME NEW r \in Routes, ProducerStep(r)
      PROVE  CountedIsAccounted'
  <2>1. UNCHANGED writerVars /\ (UNCHANGED <<queue, counted>> \/ \E e \in Events : Enqueue(r, e))
    BY <1>1 DEF ProducerStep, Connect, Disconnect, ObserveStop, ReceiveAndPut, ReceiveAndBlock,
                PutResumes, PutTimesOut, HandInv
  <2>2. ASSUME NEW e \in Events, Enqueue(r, e)
        PROVE  ToSet(queue') = ToSet(queue) \cup {e} /\ counted' = counted \cup {e}
    BY <2>2, AppendAsSet DEF Enqueue
  <2> QED BY <2>1, <2>2 DEF writerVars
<1>2. CASE WriterStep
  <2>1. CASE WriterTake
    <3>1. ToSet(queue) = {Head(queue)} \cup ToSet(queue')
      BY <2>1, TailAsSet DEF WriterTake
    <3>2. /\ UNCHANGED <<counted, persisted>>
          /\ pending = {}
          /\ buffered \cup {Head(queue)} = buffered' \cup pending'
      BY <2>1 DEF WriterTake, StartFlush, FlushInv
    <3>3. writer \notin {"failed", "cancelled"}
      BY <2>1 DEF WriterTake
    <3> QED BY <3>1, <3>2, <3>3
  <2>2. CASE WriterPollTimesOut
    BY <2>2 DEF WriterPollTimesOut, StartFlush, FlushInv, producerVars
  <2>3. CASE WriterFinishes
    BY <2>3 DEF WriterFinishes, producerVars
  <2> QED BY <1>2, <2>1, <2>2, <2>3 DEF WriterStep
<1>3. CASE FlushStep
  <2>1. ASSUME NEW p \in Partitions, FlushPartition(p)
        PROVE  CountedIsAccounted'
    BY <2>1 DEF FlushPartition, RowsOf, FlushInv, producerVars
  <2>2. ASSUME NEW p \in Partitions, NEW committed \in BOOLEAN, FlushFails(p, committed)
        PROVE  CountedIsAccounted'
    <3>1. pending # {}
      BY <2>2 DEF FlushFails, NextPartition, RowsOf
    <3> QED BY <2>2, <3>1 DEF FlushFails, FlushInv
  <2> QED BY <1>3, <2>1, <2>2 DEF FlushStep
<1>4. CASE CoordinatorStep
  BY <1>4 DEF CoordinatorStep, ShutdownStep, AuditStep, StopCapture, Interrupt,
              CancelProducers, ProducersFinish,
              ProducersTimeOut, WriterAwaited, WriterTimesOut, AuditRaises, Audit,
              producerVars, writerVars
<1>5. CASE UNCHANGED vars
  BY <1>5 DEF vars, producerVars, writerVars
<1> QED BY <1>1, <1>2, <1>3, <1>4, <1>5 DEF Next, Terminated

(* Whatever the routes, the writer and the coordinator do, a counted event  *)
(* is queued, buffered, being flushed or persisted unless the writer        *)
(* failed or was cancelled.                                                *)
THEOREM CountedAccounted == Spec => []CountedIsAccounted
<1>1. Init => CountedIsAccounted
  BY DEF Init, CountedIsAccounted
<1> QED BY <1>1, SpecIInv, NextAccounted, PTL DEF Spec

-----------------------------------------------------------------------------
(* A capture implements LosslessCapture. *)

LEMMA InitAbstract == Init => Abstract!Init
BY DEF Init, Abstract!Init

LEMMA NextAbstract ==
  ASSUME IInv, ReturnedIsLossless', [Next]_vars
  PROVE  [Abstract!Next]_(Abstract!vars)
<1> USE DEF Abstract!vars
<1>1. ASSUME NEW r \in Routes, ProducerStep(r)
      PROVE  Abstract!Next \/ UNCHANGED Abstract!vars
  <2>1. UNCHANGED <<persisted, result>>
    BY <1>1 DEF ProducerStep, Connect, Disconnect, ObserveStop, ReceiveAndPut, ReceiveAndBlock,
                PutResumes, PutTimesOut, writerVars, outcomeVars
  <2>2. result = "running"
    BY <1>1 DEF IInv, OutcomeInv, PhaseInv, ProducerDone, ProducerEnded, ProducerStep, Connect,
                Disconnect, ObserveStop, ReceiveAndPut, ReceiveAndBlock, PutResumes, PutTimesOut
  <2>3. received' = received \/ \E e \in Events : received' = received \cup {e}
    BY <1>1 DEF ProducerStep, Connect, Disconnect, ObserveStop, ReceiveAndPut, ReceiveAndBlock,
                PutResumes, PutTimesOut
  <2> QED BY <2>1, <2>2, <2>3 DEF Abstract!Next, Abstract!Receive
<1>2. CASE WriterStep
  BY <1>2 DEF WriterStep, WriterTake, WriterPollTimesOut, WriterFinishes, producerVars,
              outcomeVars
<1>3. CASE FlushStep
  <2>1. UNCHANGED <<received, result>>
    BY <1>3 DEF FlushStep, FlushPartition, FlushFails, producerVars, outcomeVars
  <2>2. PICK batch \in SUBSET pending : persisted' = persisted \cup batch
    BY <1>3 DEF FlushStep, FlushPartition, FlushFails, RowsOf
  <2>3. batch \subseteq received /\ batch \in SUBSET Events
    BY <2>2 DEF IInv, PlaceInv, ContentInv, TypeInv, TypeOK
  <2>4. CASE result = "returned"
    <3>1. pending = {}
      BY <2>4 DEF IInv, PlaceInv, ContentInv, DisjointInv, OutcomeInv, GateInv
    <3> QED BY <2>1, <2>2, <3>1
  <2>5. CASE result # "returned"
    BY <2>1, <2>2, <2>3, <2>5 DEF Abstract!Next, Abstract!Persist
  <2> QED BY <2>4, <2>5
<1>4. CASE CoordinatorStep
  <2>1. UNCHANGED <<received, persisted>>
    BY <1>4 DEF CoordinatorStep, ShutdownStep, AuditStep, StopCapture, Interrupt,
              CancelProducers, ProducersFinish,
                ProducersTimeOut, WriterAwaited, WriterTimesOut, AuditRaises, Audit,
                producerVars, writerVars
  <2>2. result' = result \/ (result = "running" /\ result' \in {"returned", "raised"})
    BY <1>4 DEF CoordinatorStep, ShutdownStep, AuditStep, StopCapture, Interrupt,
              CancelProducers, ProducersFinish,
                ProducersTimeOut, WriterAwaited, WriterTimesOut, AuditRaises, Audit,
                outcomeVars, IInv, OutcomeInv, PhaseInv
  <2>3. result' = "returned" => persisted = received
    BY <2>1 DEF ReturnedIsLossless
  <2> QED BY <2>1, <2>2, <2>3 DEF Abstract!Next, Abstract!Return, Abstract!Raise
<1>5. CASE UNCHANGED vars
  BY <1>5 DEF vars, producerVars, writerVars, outcomeVars
<1> QED BY <1>1, <1>2, <1>3, <1>4, <1>5 DEF Next, Terminated

(* The capture implements its abstract specification: every step receives,  *)
(* persists, returns or raises as LosslessCapture allows, or is invisible.  *)
THEOREM CaptureIsLossless ==
  ASSUME ~CancelCanHitPut
  PROVE  Spec => LosslessCapture
<1>1. IInv => ReturnedIsLossless
  BY IInvLossless
<1> QED
  BY <1>1, SpecIInv, InitAbstract, NextAbstract, PTL DEF Spec, LosslessCapture, Abstract!Spec

-----------------------------------------------------------------------------
(* The files of the recorder across runs, crashes and restarts. *)

USE StoreAssumption

-----------------------------------------------------------------------------
(* The inductive invariant, by parts. *)

(* The recorder's rows only ever have these states. *)
RecorderStatus == {"none", "DOWNLOADING", "DOWNLOADED", "VALIDATED", "QUARANTINED", "FAILED"}

StoreTypeInv == StoreTypeOK /\ status \in [Batches -> RecorderStatus]

(* Only a running recorder has a batch, only recovery has files to do. *)
StageInv ==
  /\ current # NoBatch => mode = "running"
  /\ todo # {} => mode \in {"inflight", "orphans"}

(* A file the recorder has not registered is intact and was not there. *)
FreshInv ==
  \A b \in Batches :
    /\ b \in Foreign => disk[b] \in {"final", "quarantine"}
    /\ b \notin Foreign /\ status[b] = "none" => content[b] = "good"

(* The batch being flushed is intact, and once it is DOWNLOADED its file is *)
(* in place with the checksum of what is on disk.                           *)
CurrentInv ==
  current # NoBatch =>
    /\ status[current] \in InFlight
    /\ content[current] = "good"
    /\ status[current] = "DOWNLOADED" => disk[current] = "final" /\ checksum[current] = "good"

(* What recovery still has to look at is in place and not decided yet. *)
TodoInv ==
  \A b \in todo :
    /\ disk[b] = "final"
    /\ status[b] \in InFlight \cup {"none"}
    /\ mode = "inflight" => status[b] # "none"

(* What each stage of recovery has left behind it. *)
StageDoneInv ==
  \A b \in Batches :
    /\ mode \in {"inflight", "orphans"} => disk[b] # "tmp"
    /\ mode = "inflight" =>
         /\ disk[b] = "final" /\ status[b] \in InFlight => b \in todo
         /\ status[b] = "none" <=> b \notin manifested
    /\ mode = "orphans" =>
         (disk[b] = "final" /\ status[b] \in InFlight \cup {"none"} => b \in todo)

StoreInv ==
  /\ StoreTypeInv
  /\ StageInv
  /\ FreshInv
  /\ CurrentInv
  /\ TodoInv
  /\ StageDoneInv
  /\ RecoveryLeavesNothingBehind
  /\ ValidatedIsDurable
  /\ CheckpointIsVisible

-----------------------------------------------------------------------------
(* What the transactions do to a row. *)

LEMMA RecorderStatusIsStatus ==
  ASSUME NEW f \in [Batches -> RecorderStatus]
  PROVE  f \in [Batches -> DataFileStatus \cup {"none"}]
<1>1. RecorderStatus \subseteq DataFileStatus \cup {"none"}
  BY DEF RecorderStatus, DataFileStatus
<1> QED
  BY ONLY <1>1

LEMMA TransitionFacts ==
  ASSUME StoreTypeInv, NEW b \in Batches, NEW new \in RecorderStatus \ {"none"},
         NEW sum \in {"none", "good", "bad"}, TransitionDataFile(b, new, sum)
  PROVE  /\ status[b] # "none"
         /\ status' = [status EXCEPT ![b] = new]
         /\ status' \in [Batches -> RecorderStatus]
         /\ checksum' \in [Batches -> {"none", "good", "bad"}]
         /\ checksum'[b] = IF sum = "none" THEN checksum[b] ELSE sum
         /\ \A c \in Batches \ {b} : checksum'[c] = checksum[c]
         /\ checkpoint' = checkpoint
<1>1. "none" \notin DataFileStatus
  BY DEF DataFileStatus
<1> QED
  BY <1>1 DEF TransitionDataFile, CanTransition, StoreTypeInv, StoreTypeOK

LEMMA ValidateFacts ==
  ASSUME StoreTypeInv, NEW b \in Batches, NEW sum \in {"none", "good", "bad"},
         ValidateWithCheckpoint(b, sum)
  PROVE  /\ status' = [status EXCEPT ![b] = "VALIDATED"]
         /\ status' \in [Batches -> RecorderStatus]
         /\ checksum' = [checksum EXCEPT ![b] = sum]
         /\ checksum' \in [Batches -> {"none", "good", "bad"}]
         /\ checkpoint' = [checkpoint EXCEPT ![StreamOf[b]] = b]
         /\ checkpoint' \in [Streams -> Batches \cup {NoBatch}]
BY DEF ValidateWithCheckpoint, StoreTypeInv, StoreTypeOK, RecorderStatus

(* The steps that publish a batch, and what they publish. *)
LEMMA PublishingSteps ==
  ASSUME StoreInv, NEW b \in Batches, Validate(b) \/ RecoverValidated(b)
  PROVE  /\ status[b] = "DOWNLOADED"
         /\ disk[b] = "final"
         /\ content[b] = "good"
         /\ ValidateWithCheckpoint(b, "good")
         /\ UNCHANGED <<manifested, fileVars, crashes, mode>>
<1>1. CASE Validate(b)
  <2>1. current = b /\ b # NoBatch
    BY <1>1 DEF Validate
  <2> QED BY <1>1, <2>1 DEF Validate, StoreInv, CurrentInv
<1>2. CASE RecoverValidated(b)
  BY <1>2 DEF RecoverValidated, StoreInv, TodoInv
<1> QED BY <1>1, <1>2

-----------------------------------------------------------------------------
(* Every step keeps the invariant. *)

LEMMA InitStoreInv == StoreInit => StoreInv
BY DEF StoreInit, StoreInv, StoreTypeInv, StoreTypeOK, StageInv, FreshInv, CurrentInv, TodoInv,
       StageDoneInv, RecoveryLeavesNothingBehind, ValidatedIsDurable, CheckpointIsVisible,
       RecorderStatus, DataFileStatus, Modes

(* Publishing an intact file in place that is DOWNLOADED. *)
LEMMA PublishKeepsInv ==
  ASSUME StoreInv, NEW b \in Batches, Validate(b) \/ RecoverValidated(b)
  PROVE  StoreInv'
<1> USE DEF StoreInv
<1>1. /\ status[b] = "DOWNLOADED" /\ disk[b] = "final" /\ content[b] = "good"
      /\ UNCHANGED <<manifested, fileVars, crashes, mode>>
      /\ ValidateWithCheckpoint(b, "good")
  BY PublishingSteps
<1>2. /\ status' = [status EXCEPT ![b] = "VALIDATED"]
      /\ status' \in [Batches -> RecorderStatus]
      /\ checksum' = [checksum EXCEPT ![b] = "good"]
      /\ checksum' \in [Batches -> {"none", "good", "bad"}]
      /\ checkpoint' = [checkpoint EXCEPT ![StreamOf[b]] = b]
      /\ checkpoint' \in [Streams -> Batches \cup {NoBatch}]
  BY <1>1, ValidateFacts
<1>3. \/ current' = NoBatch /\ todo' = todo /\ current = b /\ b # NoBatch
      \/ current' = current /\ todo' = todo \ {b} /\ b \in todo
  BY DEF Validate, RecoverValidated
<1>4. ValidatedIsDurable' /\ CheckpointIsVisible'
  BY <1>1, <1>2 DEF ValidatedIsDurable, CheckpointIsVisible, fileVars, StoreTypeInv, StoreTypeOK
<1>5. StoreTypeInv' /\ StageInv' /\ FreshInv' /\ CurrentInv'
  <2>1. StoreTypeInv'
    <3>1. /\ UNCHANGED <<manifested, disk, content, crashes, mode>>
          /\ current' \in Batches \cup {NoBatch} /\ todo' \subseteq Batches
      BY <1>1, <1>3 DEF StoreTypeInv, StoreTypeOK, fileVars
    <3>2. status' \in [Batches -> DataFileStatus \cup {"none"}]
      BY <1>2, RecorderStatusIsStatus
    <3> QED
      BY ONLY StoreTypeInv, <1>2, <3>1, <3>2 DEF StoreTypeInv, StoreTypeOK
  <2>2. StageInv' /\ FreshInv' /\ CurrentInv'
    BY <1>1, <1>2, <1>3 DEF StoreTypeInv, StoreTypeOK, fileVars, StageInv, FreshInv, CurrentInv
  <2> QED BY <2>1, <2>2
<1>6. disk' = disk /\ status \in [Batches -> RecorderStatus] /\ todo \subseteq Batches
      /\ mode' = mode /\ manifested' = manifested
  BY <1>1 DEF fileVars, StoreTypeInv, StoreTypeOK
<1>7. TodoInv'
  BY ONLY StageInv, TodoInv, <1>1, <1>2, <1>3, <1>6 DEF TodoInv, StageInv
<1>8. StageDoneInv'
  BY <1>1, <1>2, <1>3, <1>6 DEF StageDoneInv, StageInv, InFlight
<1>9. RecoveryLeavesNothingBehind'
  BY <1>1, <1>2, <1>3, <1>6 DEF RecoveryLeavesNothingBehind, StageInv
<1> QED BY <1>4, <1>5, <1>7, <1>8, <1>9

(* Recording a file of the writer or of recovery as DOWNLOADED. *)
LEMMA DownloadKeepsInv ==
  ASSUME StoreInv, NEW b \in Batches, MarkDownloaded(b) \/ RecoverDownloaded(b)
  PROVE  StoreInv'
<1> USE DEF StoreInv
<1>1. /\ status[b] = "DOWNLOADING" /\ content[b] = "good" /\ disk[b] = "final"
      /\ UNCHANGED <<processVars, fileVars, crashes>>
      /\ TransitionDataFile(b, "DOWNLOADED", "good")
  BY DEF MarkDownloaded, RecoverDownloaded, CurrentInv, TodoInv
<1>2. /\ status' = [status EXCEPT ![b] = "DOWNLOADED"]
      /\ status' \in [Batches -> RecorderStatus]
      /\ checksum' \in [Batches -> {"none", "good", "bad"}]
      /\ checksum'[b] = "good"
      /\ \A c \in Batches \ {b} : checksum'[c] = checksum[c]
      /\ checkpoint' = checkpoint
  BY <1>1, TransitionFacts DEF RecorderStatus
<1>3. StoreTypeInv'
  BY <1>1, <1>2 DEF StoreTypeInv, StoreTypeOK, fileVars, processVars, RecorderStatus, DataFileStatus
<1>4. StageInv' /\ FreshInv' /\ CurrentInv' /\ TodoInv' /\ StageDoneInv'
  BY <1>1, <1>2 DEF StoreTypeInv, StoreTypeOK, fileVars, processVars, StageInv, FreshInv, CurrentInv,
     TodoInv, StageDoneInv, InFlight
<1>5. RecoveryLeavesNothingBehind' /\ ValidatedIsDurable' /\ CheckpointIsVisible'
  BY <1>1, <1>2 DEF StoreTypeInv, StoreTypeOK, fileVars, processVars, RecoveryLeavesNothingBehind,
     ValidatedIsDurable, CheckpointIsVisible
<1> QED BY <1>3, <1>4, <1>5

(* Giving up a row: a failed flush, or a damaged file in flight. *)
LEMMA GiveUpKeepsInv ==
  ASSUME StoreInv, NEW b \in Batches, BatchFlushFails(b) \/ QuarantineRecord(b)
  PROVE  StoreInv'
<1> USE DEF StoreInv
<1>1. PICK new \in {"FAILED", "QUARANTINED"} : TransitionDataFile(b, new, "none")
  BY DEF BatchFlushFails, QuarantineRecord
<1>2. /\ status[b] # "none"
      /\ status' = [status EXCEPT ![b] = new]
      /\ status' \in [Batches -> RecorderStatus]
      /\ checksum' \in [Batches -> {"none", "good", "bad"}]
      /\ \A c \in Batches : checksum'[c] = checksum[c]
      /\ checkpoint' = checkpoint
  BY <1>1, TransitionFacts DEF RecorderStatus
<1>3. status[b] \in InFlight
  BY DEF BatchFlushFails, QuarantineRecord, CurrentInv, TodoInv
<1>4. UNCHANGED <<manifested, content, crashes>>
  BY DEF BatchFlushFails, QuarantineRecord, fileVars
<1>5. \/ /\ mode' = "down" /\ current' = NoBatch /\ todo' = todo /\ current = b /\ b # NoBatch
         /\ \/ disk' = disk
            \/ disk[b] = "tmp" /\ disk' = [disk EXCEPT ![b] = "absent"]
      \/ /\ mode = "inflight" /\ mode' = mode /\ current' = current /\ disk' = disk
         /\ b \in todo /\ todo' = todo \ {b}
  BY DEF BatchFlushFails, QuarantineRecord, fileVars
<1>6. StoreTypeInv'
  <2>1. /\ current' \in Batches \cup {NoBatch} /\ todo' \subseteq Batches /\ mode' \in Modes
        /\ disk' \in [Batches -> {"absent", "tmp", "final", "quarantine"}]
    BY <1>5 DEF StoreTypeInv, StoreTypeOK, Modes
  <2>2. status' \in [Batches -> DataFileStatus \cup {"none"}]
    BY <1>2, RecorderStatusIsStatus
  <2> QED
    BY ONLY StoreTypeInv, <1>2, <1>4, <2>1, <2>2 DEF StoreTypeInv, StoreTypeOK
<1>7. StageInv' /\ FreshInv' /\ CurrentInv' /\ TodoInv'
  <2>1. StageInv' /\ FreshInv'
    BY <1>2, <1>4, <1>5 DEF StoreTypeInv, StoreTypeOK, StageInv, FreshInv
  <2>2. CurrentInv'
    BY <1>2, <1>4, <1>5 DEF StageInv, CurrentInv
  <2>3. status \in [Batches -> RecorderStatus] /\ todo \subseteq Batches
    BY DEF StoreTypeInv, StoreTypeOK
  <2>4. TodoInv'
    BY <1>2, <1>5, <2>3 DEF TodoInv, StageInv
  <2> QED BY <2>1, <2>2, <2>4
<1>8. StageDoneInv' /\ RecoveryLeavesNothingBehind'
  BY <1>2, <1>3, <1>4, <1>5 DEF StoreTypeInv, StoreTypeOK, StageDoneInv, StageInv, InFlight,
     RecoveryLeavesNothingBehind
<1>9. ValidatedIsDurable' /\ CheckpointIsVisible'
  BY <1>2, <1>3, <1>4, <1>5 DEF StoreTypeInv, StoreTypeOK, ValidatedIsDurable, CheckpointIsVisible,
     InFlight
<1> QED BY <1>6, <1>7, <1>8, <1>9

(* The steps of recovery that change no row. *)
LEMMA RecoveryKeepsInv ==
  ASSUME StoreInv,
         Start \/ ListRecords \/ ListOrphans \/ FinishRecovery
           \/ \E b \in Batches : QuarantineTemporary(b) \/ QuarantineOrphan(b)
  PROVE  StoreInv'
<1> USE DEF StoreInv
<1>1. UNCHANGED <<current, content, manifestVars, crashes>>
  BY DEF Start, ListRecords, ListOrphans, FinishRecovery, QuarantineTemporary, QuarantineOrphan,
     processVars, fileVars
<1>2. CASE Start \/ ListRecords \/ ListOrphans \/ FinishRecovery
  <2>1. StoreTypeInv' /\ StageInv' /\ FreshInv' /\ CurrentInv'
    BY <1>1, <1>2 DEF StoreTypeInv, StoreTypeOK, Modes, StageInv, FreshInv, CurrentInv, manifestVars,
       fileVars, Start, ListRecords, ListOrphans, FinishRecovery
  <2>2. TodoInv' /\ StageDoneInv'
    BY <1>1, <1>2 DEF StoreTypeInv, StoreTypeOK, TodoInv, StageDoneInv, StageInv, manifestVars,
       fileVars, Start, ListRecords, ListOrphans, FinishRecovery, InFlight
  <2>3. RecoveryLeavesNothingBehind'
    BY <1>1, <1>2 DEF StoreTypeInv, StoreTypeOK, StageDoneInv, RecoveryLeavesNothingBehind,
       manifestVars, fileVars, Start, ListRecords, ListOrphans, FinishRecovery, InFlight,
       RecorderStatus
  <2>4. ValidatedIsDurable' /\ CheckpointIsVisible'
    BY <1>1, <1>2 DEF ValidatedIsDurable, CheckpointIsVisible, manifestVars,
       fileVars, Start, ListRecords, ListOrphans, FinishRecovery
  <2> QED BY <2>1, <2>2, <2>3, <2>4
<1>3. ASSUME NEW b \in Batches, QuarantineTemporary(b) \/ QuarantineOrphan(b)
      PROVE  StoreInv'
  <2>1. /\ status[b] # "VALIDATED" /\ mode \in {"temporaries", "orphans"}
        /\ disk[b] \in {"tmp", "final"}
        /\ disk' = [disk EXCEPT ![b] = "quarantine"]
        /\ todo' \in {todo, todo \ {b}} /\ UNCHANGED <<mode, manifested>>
    BY <1>3 DEF QuarantineTemporary, QuarantineOrphan, ValidatedIsDurable, TodoInv, InFlight,
       processVars
  <2>2. b \notin todo'
    BY <1>3 DEF QuarantineTemporary, QuarantineOrphan, processVars, StageInv
  <2>3. StoreTypeInv' /\ StageInv' /\ FreshInv' /\ CurrentInv' /\ TodoInv'
    BY <1>1, <2>1, <2>2 DEF StoreTypeInv, StoreTypeOK, StageInv, FreshInv, CurrentInv, TodoInv,
       manifestVars
  <2>4. StageDoneInv' /\ RecoveryLeavesNothingBehind' /\ ValidatedIsDurable'
        /\ CheckpointIsVisible'
    BY <1>1, <2>1 DEF StoreTypeInv, StoreTypeOK, StageDoneInv, RecoveryLeavesNothingBehind,
       ValidatedIsDurable, CheckpointIsVisible, manifestVars
  <2> QED BY <2>3, <2>4
<1> QED BY <1>2, <1>3

(* A new row, of an orphan or of the next batch. *)
LEMMA RegisterKeepsInv ==
  ASSUME StoreInv, NEW b \in Batches, RegisterOrphan(b) \/ RegisterBatch(b)
  PROVE  StoreInv'
<1> USE DEF StoreInv
<1>1. /\ mode' = mode /\ UNCHANGED <<todo, manifested, fileVars, crashes, checksum, checkpoint>>
      /\ \/ mode = "orphans" /\ b \in todo /\ current' = current
         \/ mode = "running" /\ current = NoBatch /\ current' = b /\ disk[b] = "absent"
  BY DEF RegisterOrphan, RegisterBatch, RegisterDataFile, processVars
<1>2. status[b] = "none" /\ content[b] = "good"
  <2>1. CASE RegisterOrphan(b)
    BY <2>1 DEF RegisterOrphan
  <2>2. CASE RegisterBatch(b)
    <3>1. b \notin Foreign
      BY <2>2 DEF RegisterBatch, FreshInv
    <3>2. b >= b
      OBVIOUS
    <3> QED BY <2>2, <3>1, <3>2 DEF RegisterBatch, FreshInv
  <2> QED BY <2>1, <2>2
<1>3. status' = [status EXCEPT ![b] = "DOWNLOADING"]
  BY <1>2 DEF RegisterOrphan, RegisterBatch, RegisterDataFile, StoreTypeInv, StoreTypeOK
<1>4. status \in [Batches -> RecorderStatus] /\ disk' = disk /\ content' = content
      /\ todo \subseteq Batches
  BY <1>1 DEF StoreTypeInv, StoreTypeOK, fileVars
<1>5. StoreTypeInv'
  BY <1>1, <1>3, <1>4 DEF StoreTypeInv, StoreTypeOK, RecorderStatus, DataFileStatus
<1>6. StageInv' /\ FreshInv' /\ CurrentInv' /\ TodoInv'
  BY <1>1, <1>2, <1>3, <1>4 DEF StageInv, FreshInv, CurrentInv, TodoInv, InFlight
<1>7. StageDoneInv' /\ RecoveryLeavesNothingBehind'
  BY <1>1, <1>2, <1>3, <1>4 DEF StageDoneInv, RecoveryLeavesNothingBehind, InFlight
<1>8. ValidatedIsDurable' /\ CheckpointIsVisible'
  BY <1>1, <1>2, <1>3, <1>4 DEF ValidatedIsDurable, CheckpointIsVisible, StoreTypeInv, StoreTypeOK
<1> QED BY <1>5, <1>6, <1>7, <1>8

(* The file system steps of a flush, and the end of a run. *)
LEMMA FileKeepsInv ==
  ASSUME StoreInv, Stop \/ Crash \/ \E b \in Batches : WriteTemporary(b) \/ Promote(b) \/ Damage(b)
  PROVE  StoreInv'
<1> USE DEF StoreInv
<1>1. CASE Stop \/ Crash
  <2>1. /\ mode' = "down" /\ current' = NoBatch /\ todo' = {}
        /\ UNCHANGED <<manifested, fileVars, manifestVars>>
    BY <1>1 DEF Stop, Crash, StageInv
  <2>2. crashes' \in 0..MaxCrashes
    BY <1>1 DEF Stop, Crash, StoreTypeInv, StoreTypeOK
  <2>3. StoreTypeInv'
    BY <2>1, <2>2 DEF StoreTypeInv, StoreTypeOK, Modes, fileVars, manifestVars
  <2>4. StageInv' /\ FreshInv' /\ CurrentInv' /\ TodoInv' /\ StageDoneInv'
    BY <2>1 DEF StageInv, FreshInv, CurrentInv, TodoInv, StageDoneInv, fileVars, manifestVars
  <2>5. RecoveryLeavesNothingBehind' /\ ValidatedIsDurable' /\ CheckpointIsVisible'
    BY <2>1 DEF RecoveryLeavesNothingBehind, ValidatedIsDurable, CheckpointIsVisible, fileVars,
       manifestVars
  <2> QED BY <2>3, <2>4, <2>5
<1>2. ASSUME NEW b \in Batches, WriteTemporary(b) \/ Promote(b)
      PROVE  StoreInv'
  <2>1. /\ current = b /\ mode = "running" /\ todo = {} /\ status[b] \in InFlight
        /\ UNCHANGED <<processVars, content, manifestVars, crashes>>
        /\ disk[b] \in {"absent", "tmp"}
        /\ \/ disk' = [disk EXCEPT ![b] = "tmp"]
           \/ disk' = [disk EXCEPT ![b] = "final"]
    BY <1>2 DEF WriteTemporary, Promote, StageInv, CurrentInv
  <2>2. StoreTypeInv' /\ StageInv' /\ FreshInv' /\ CurrentInv' /\ TodoInv'
    BY <2>1 DEF processVars, manifestVars, StoreTypeInv, StoreTypeOK, StageInv, FreshInv, CurrentInv,
       TodoInv
  <2>3. StageDoneInv' /\ RecoveryLeavesNothingBehind' /\ ValidatedIsDurable'
        /\ CheckpointIsVisible'
    BY <2>1 DEF processVars, manifestVars, StoreTypeInv, StoreTypeOK, StageDoneInv,
       RecoveryLeavesNothingBehind, ValidatedIsDurable, CheckpointIsVisible, InFlight
  <2> QED BY <2>2, <2>3
<1>3. ASSUME NEW b \in Batches, Damage(b)
      PROVE  StoreInv'
  <2>1. /\ mode = "down" /\ current = NoBatch /\ todo = {} /\ status[b] \in InFlight
        /\ UNCHANGED <<processVars, disk, manifestVars, crashes>>
        /\ content' = [content EXCEPT ![b] = "bad"]
    BY <1>3 DEF Damage, StageInv
  <2>2. StoreTypeInv'
    BY <2>1 DEF processVars, manifestVars, StoreTypeInv, StoreTypeOK
  <2>3. StageInv' /\ CurrentInv' /\ TodoInv' /\ StageDoneInv' /\ RecoveryLeavesNothingBehind'
        /\ CheckpointIsVisible'
    BY <2>1 DEF processVars, manifestVars, StageInv, CurrentInv, TodoInv, StageDoneInv,
       RecoveryLeavesNothingBehind, CheckpointIsVisible
  <2>4. FreshInv' /\ ValidatedIsDurable'
    BY <2>1 DEF manifestVars, StoreTypeInv, StoreTypeOK, FreshInv, ValidatedIsDurable, InFlight
  <2> QED BY <2>2, <2>3, <2>4
<1> QED BY <1>1, <1>2, <1>3

LEMMA NextStoreInv ==
  ASSUME StoreInv, [StoreNext]_storeVars
  PROVE  StoreInv'
<1>1. CASE UNCHANGED storeVars
  BY <1>1 DEF storeVars, processVars, fileVars, manifestVars, StoreInv, StoreTypeInv, StoreTypeOK, StageInv,
     FreshInv, CurrentInv, TodoInv, StageDoneInv, RecoveryLeavesNothingBehind,
     ValidatedIsDurable, CheckpointIsVisible
<1>2. CASE StoreNext
  BY <1>2, PublishKeepsInv, DownloadKeepsInv, GiveUpKeepsInv, RecoveryKeepsInv,
     RegisterKeepsInv, FileKeepsInv DEF StoreNext, RecoveryStep, BatchFlushStep
<1> QED BY <1>1, <1>2

LEMMA SpecStoreInv == StoreSpec => []StoreInv
BY InitStoreInv, NextStoreInv, PTL DEF StoreSpec

-----------------------------------------------------------------------------
(* What follows. *)

(* Every variable has its type, for every set of batches. *)
THEOREM StoreTypeCorrect == StoreSpec => []StoreTypeOK
<1>1. StoreInv => StoreTypeOK
  BY DEF StoreInv, StoreTypeInv
<1> QED BY <1>1, SpecStoreInv, PTL

(* A VALIDATED row has a file in place that reads and matches its          *)
(* checksum, wherever the process died before.                             *)
THEOREM ValidatedDurable == StoreSpec => []ValidatedIsDurable
<1>1. StoreInv => ValidatedIsDurable
  BY DEF StoreInv
<1> QED BY <1>1, SpecStoreInv, PTL

(* A checkpoint names a visible batch of its own stream. *)
THEOREM CheckpointVisible == StoreSpec => []CheckpointIsVisible
<1>1. StoreInv => CheckpointIsVisible
  BY DEF StoreInv
<1> QED BY <1>1, SpecStoreInv, PTL

(* When a run starts after any number of crashes, in recovery or out of it, *)
(* no temporary, no file in flight and no orphan is left.                   *)
THEOREM NothingLeftBehind == StoreSpec => []RecoveryLeavesNothingBehind
<1>1. StoreInv => RecoveryLeavesNothingBehind
  BY DEF StoreInv
<1> QED BY <1>1, SpecStoreInv, PTL

-----------------------------------------------------------------------------
(* Readers see VisibleBatches. *)

LEMMA InitVisible == StoreInit => AbstractStore!Init
BY DEF StoreInit, AbstractStore!Init

LEMMA PublishVisible ==
  ASSUME StoreInv, NEW b \in Batches, Validate(b) \/ RecoverValidated(b)
  PROVE  AbstractStore!Publish(b)
<1>1. status[b] = "DOWNLOADED" /\ ValidateWithCheckpoint(b, "good")
  BY PublishingSteps
<1>2. status \in [Batches -> RecorderStatus]
  BY DEF StoreInv, StoreTypeInv
<1> QED BY <1>1, <1>2 DEF ValidateWithCheckpoint, AbstractStore!Publish

(* No other step makes a row VALIDATED, changes one that is, or moves a    *)
(* checkpoint.                                                             *)
LEMMA OtherStepsInvisible ==
  ASSUME StoreInv, StoreNext, \A b \in Batches : ~Validate(b) /\ ~RecoverValidated(b)
  PROVE  /\ \A b \in Batches : status'[b] = "VALIDATED" <=> status[b] = "VALIDATED"
         /\ checkpoint' = checkpoint
<1> USE DEF StoreInv
<1>1. ASSUME NEW b \in Batches, RegisterOrphan(b) \/ RegisterBatch(b)
      PROVE  /\ \A c \in Batches : status'[c] = "VALIDATED" <=> status[c] = "VALIDATED"
             /\ checkpoint' = checkpoint
  BY <1>1 DEF RegisterOrphan, RegisterBatch, RegisterDataFile, StoreTypeInv
<1>2. ASSUME NEW b \in Batches, MarkDownloaded(b) \/ RecoverDownloaded(b)
      PROVE  /\ \A c \in Batches : status'[c] = "VALIDATED" <=> status[c] = "VALIDATED"
             /\ checkpoint' = checkpoint
  BY <1>2 DEF MarkDownloaded, RecoverDownloaded, TransitionDataFile, StoreTypeInv
<1>3. ASSUME NEW b \in Batches, BatchFlushFails(b) \/ QuarantineRecord(b)
      PROVE  /\ \A c \in Batches : status'[c] = "VALIDATED" <=> status[c] = "VALIDATED"
             /\ checkpoint' = checkpoint
  <2>1. status[b] # "VALIDATED"
    BY <1>3 DEF BatchFlushFails, QuarantineRecord, CurrentInv, TodoInv, InFlight
  <2> QED
    BY <1>3, <2>1 DEF BatchFlushFails, QuarantineRecord, TransitionDataFile, StoreTypeInv
<1>4. ASSUME Start \/ ListRecords \/ ListOrphans \/ FinishRecovery \/ Stop \/ Crash
               \/ \E b \in Batches : QuarantineTemporary(b) \/ QuarantineOrphan(b)
                    \/ WriteTemporary(b) \/ Promote(b) \/ Damage(b)
      PROVE  UNCHANGED <<status, checkpoint>>
  BY <1>4 DEF Start, ListRecords, ListOrphans, FinishRecovery, Stop, Crash, QuarantineTemporary,
     QuarantineOrphan, WriteTemporary, Promote, Damage, manifestVars
<1> QED BY <1>1, <1>2, <1>3, <1>4 DEF StoreNext, RecoveryStep, BatchFlushStep

LEMMA NextVisible ==
  ASSUME StoreInv, [StoreNext]_storeVars
  PROVE  [AbstractStore!Next]_(AbstractStore!vars)
<1> USE DEF AbstractStore!vars
<1>1. CASE UNCHANGED storeVars
  BY <1>1 DEF storeVars, manifestVars
<1>2. ASSUME NEW b \in Batches, Validate(b) \/ RecoverValidated(b)
      PROVE  AbstractStore!Next
  BY <1>2, PublishVisible DEF AbstractStore!Next
<1>3. CASE StoreNext /\ \A b \in Batches : ~Validate(b) /\ ~RecoverValidated(b)
  BY <1>3, OtherStepsInvisible
<1> QED BY <1>1, <1>2, <1>3

(* Row and checkpoint change together, a batch is published once and never *)
(* withdrawn: the store with its crashes implements VisibleBatches.        *)
THEOREM StoreIsVisibleBatches == StoreSpec => VisibleBatches
BY SpecStoreInv, InitVisible, NextVisible, PTL DEF StoreSpec, VisibleBatches, AbstractStore!Spec

=============================================================================

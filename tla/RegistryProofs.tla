---------------------------- MODULE RegistryProofs ----------------------------
(***************************************************************************)
(* Proofs about the research registry, for every number of processes,      *)
(* names, experiments, events and clocks.                                  *)
(***************************************************************************)
EXTENDS ResearchRegistry, FiniteSetTheorems, TLAPS

USE RegistryAssumption

-----------------------------------------------------------------------------
(* Every permitted transition leads to a stage of higher rank, so a        *)
(* history moves at most four times.                                       *)
Rank ==
  [s \in Stages |->
     CASE s = "DISCOVERY" -> 0
       [] s = "CANDIDATE" -> 1
       [] s = "LOCKBOX_EVALUATED" -> 2
       [] s \in {"PHASE4_CANDIDATE", "REJECTED"} -> 3
       [] s = "INVALIDATED" -> 4]

LEMMA RankGrows ==
  ASSUME NEW s \in Stages, NEW d \in PromotionTransitions[s]
  PROVE  /\ d \in Stages
         /\ Rank[s] \in 0..4 /\ Rank[d] \in 1..4
         /\ Rank[s] < Rank[d]
<1>1. CASE s = "DISCOVERY"
  BY <1>1 DEF PromotionTransitions, Rank, Stages
<1>2. CASE s = "CANDIDATE"
  BY <1>2 DEF PromotionTransitions, Rank, Stages
<1>3. CASE s = "LOCKBOX_EVALUATED"
  BY <1>3 DEF PromotionTransitions, Rank, Stages
<1>4. CASE s \in {"PHASE4_CANDIDATE", "REJECTED"}
  BY <1>4 DEF PromotionTransitions, Rank, Stages
<1>5. CASE s = "INVALIDATED"
  BY <1>5 DEF PromotionTransitions, Rank, Stages
<1> QED
  BY <1>1, <1>2, <1>3, <1>4, <1>5 DEF Stages

(* What every recorded history is: each move follows a permitted           *)
(* transition, a later insertion has a higher rank, and if anything moved  *)
(* there is a last move.                                                   *)
History(h) ==
  /\ h \in Seq(Event)
  /\ \A i \in Moves(h) : h[i].to \in PromotionTransitions[h[i].from]
  /\ \A i, j \in Moves(h) : i < j => Rank[h[i].to] < Rank[h[j].to]
  /\ Moves(h) # {} => \E l \in Moves(h) : \A j \in Moves(h) : j <= l

LEMMA MoveTyped ==
  ASSUME NEW h, History(h), NEW i \in Moves(h)
  PROVE  /\ i \in 1..Len(h) /\ h[i] \in Event
         /\ h[i].at \in Int /\ h[i].from \in Stages /\ h[i].to \in Stages
         /\ Rank[h[i].from] \in 0..4 /\ Rank[h[i].to] \in 1..4
         /\ Rank[h[i].from] < Rank[h[i].to]
<1>1. i \in 1..Len(h) /\ h[i] \in Event
  BY DEF History, Moves
<1>2. h[i].at \in Int /\ h[i].from \in Stages
  BY <1>1 DEF Event
<1>3. h[i].to \in PromotionTransitions[h[i].from]
  BY DEF History
<1> QED
  BY <1>1, <1>2, <1>3, RankGrows

LEMMA RecordedStageOfLast ==
  ASSUME NEW h, History(h), NEW l \in Moves(h), \A j \in Moves(h) : j <= l
  PROVE  RecordedStage(h) = h[l].to
<1>1. \A i \in Moves(h) : i \in Int
  BY MoveTyped
<1>2. LastMove(h) = l
  BY <1>1 DEF LastMove
<1> QED
  BY <1>2 DEF RecordedStage

-----------------------------------------------------------------------------
(* A readable history cannot be read to end before its last insertion.     *)

(* A move that is read after the last insertion l starts where a move of   *)
(* lower rank ends that is read after l too.                               *)
LEMMA Descent ==
  ASSUME NEW h, History(h), Readable(h),
         NEW l \in Moves(h), \A j \in Moves(h) : j <= l,
         NEW x \in Moves(h), Earlier(h, l, x)
  PROVE  \E n \in Moves(h) : Earlier(h, l, n) /\ Rank[h[n].to] < Rank[h[x].to]
<1>1. x \in DOMAIN h /\ l \in DOMAIN h
  BY DEF Moves
<1>2. l \in Past(h, x) \cap Moves(h)
  BY <1>1 DEF Past
<1>3. Leaves(h, Past(h, x), h[x].from)
  BY <1>1 DEF Readable
<1>4. PICK n \in Past(h, x) \cap Moves(h) :
        /\ h[x].from = h[n].to
        /\ \A j \in Past(h, x) \cap Moves(h) : j # n => Earlier(h, j, n)
  BY <1>2, <1>3 DEF Leaves
<1>5. Rank[h[n].to] < Rank[h[x].to]
  BY <1>4, MoveTyped
<1>6. n # l
  <2>1. l # x
    BY MoveTyped DEF Earlier
  <2>2. x < l
    BY <2>1, MoveTyped
  <2>3. Rank[h[x].to] < Rank[h[l].to]
    BY <2>2 DEF History
  <2>4. /\ Rank[h[x].to] \in Int /\ Rank[h[l].to] \in Int /\ Rank[h[n].to] \in Int
    BY MoveTyped, <1>4
  <2> QED
    BY <1>5, <2>3, <2>4
<1>7. Earlier(h, l, n)
  BY <1>2, <1>4, <1>6
<1> QED
  BY <1>4, <1>5, <1>7

LEMMA LastIsReadLast ==
  ASSUME NEW h, History(h), Readable(h),
         NEW l \in Moves(h), \A j \in Moves(h) : j <= l,
         NEW x \in Moves(h)
  PROVE  ~Earlier(h, l, x)
<1> DEFINE Above(k) == \E n \in Moves(h) : Earlier(h, l, n) /\ Rank[h[n].to] <= k
<1>1. ASSUME NEW k \in 1..4, Above(k)
      PROVE  Above(k - 1)
  <2>1. PICK y \in Moves(h) : Earlier(h, l, y) /\ Rank[h[y].to] <= k
    BY <1>1
  <2>2. PICK n \in Moves(h) : Earlier(h, l, n) /\ Rank[h[n].to] < Rank[h[y].to]
    BY <2>1, Descent
  <2>3. Rank[h[n].to] \in Int /\ Rank[h[y].to] \in Int
    BY MoveTyped
  <2>4. Rank[h[n].to] <= k - 1
    BY <2>1, <2>2, <2>3
  <2> QED
    BY <2>2, <2>4
<1>2. ~Above(0)
  BY MoveTyped
<1>3. Above(4) => FALSE
  <2> HIDE DEF Above
  <2>1. Above(4) => Above(3)
    BY <1>1, 4 - 1 = 3
  <2>2. Above(3) => Above(2)
    BY <1>1, 3 - 1 = 2
  <2>3. Above(2) => Above(1)
    BY <1>1, 2 - 1 = 1
  <2>4. Above(1) => Above(0)
    BY <1>1, 1 - 1 = 0
  <2> QED
    BY <1>2, <2>1, <2>2, <2>3, <2>4
<1>4. Rank[h[x].to] <= 4
  BY MoveTyped
<1> QED
  BY <1>3, <1>4

LEMMA ReadIsRecorded ==
  ASSUME NEW h, History(h), NEW s \in Stages, ReadsAs(h, s)
  PROVE  s = RecordedStage(h)
<1>1. Readable(h) /\ Leaves(h, DOMAIN h, s)
  BY DEF ReadsAs
<1>2. CASE Moves(h) = {}
  BY <1>1, <1>2 DEF Leaves, RecordedStage
<1>3. CASE Moves(h) # {}
  <2>1. PICK l \in Moves(h) : \A j \in Moves(h) : j <= l
    BY <1>3 DEF History
  <2>2. DOMAIN h \cap Moves(h) = Moves(h)
    BY DEF Moves
  <2>3. PICK m \in Moves(h) :
          s = h[m].to /\ \A j \in Moves(h) : j # m => Earlier(h, j, m)
    BY <1>1, <1>3, <2>2 DEF Leaves
  <2>4. m = l
    BY <1>1, <2>1, <2>3, LastIsReadLast
  <2> QED
    BY <2>1, <2>3, <2>4, RecordedStageOfLast
<1> QED
  BY <1>2, <1>3

-----------------------------------------------------------------------------
(* Every variable keeps its type and its references.                       *)

LEMMA TypeInit == Init => TypeOK
BY DEF Init, TypeOK, Sessions, Idle

LEMMA GoTyped ==
  ASSUME NEW m \in Manager, NEW s \in Sessions, session \in [Manager -> Sessions], Go(m, s)
  PROVE  session' \in [Manager -> Sessions]
BY DEF Go

LEMMA IdleTyped == Idle \in Sessions
BY DEF Sessions

(* The session of a process that is in a given step. *)
LEMMA SessionOfStep ==
  ASSUME NEW s \in Sessions
  PROVE  /\ s.step = "write" => s \in [step : {"write"}, todo : Seq(Calls)]
         /\ s.step = "assessed" => s \in [step : {"assessed"}, trial : Trial, passed : BOOLEAN]
         /\ s.step = "record" => s \in [step : {"record"}, trial : Trial, event : Asked]
         /\ s.step = "ablated"
              => s \in [step : {"ablated"}, feature : Key, trial : Trial,
                        decision : FeatureDecisions]
BY DEF Sessions, Idle

(* A step that leaves the record alone. *)
LEMMA OnlySession ==
  ASSUME TypeOK, NEW m \in Manager, NEW s \in Sessions, Go(m, s),
         UNCHANGED <<commands, rows, latest, promotions, evaluations>>
  PROVE  TypeOK'
BY GoTyped DEF TypeOK

LEMMA StartCommandTyped ==
  ASSUME TypeOK, NEW m \in Manager, NEW calls \in Commands, StartCommand(m, calls)
  PROVE  TypeOK'
<1>1. [step |-> "write", todo |-> calls] \in Sessions
  BY DEF Sessions
<1>2. session' \in [Manager -> Sessions]
  BY <1>1, GoTyped DEF StartCommand, TypeOK
<1>3. commands' \in 0..MaxCommands
  BY DEF StartCommand, TypeOK
<1> QED
  BY <1>2, <1>3 DEF StartCommand, TypeOK

LEMMA RegisterTyped ==
  ASSUME TypeOK, NEW m \in Manager, Register(m)
  PROVE  TypeOK'
<1> DEFINE call == Head(session[m].todo)
<1>1. session[m] \in [step : {"write"}, todo : Seq(Calls)] /\ session[m].todo # <<>>
  BY SessionOfStep DEF Register, TypeOK
<1>2. call \in Calls /\ Tail(session[m].todo) \in Seq(Calls)
  BY <1>1
<1>3. call.key \in Key /\ call.def \in Definition
  BY <1>2 DEF Calls
<1>4. rows' = Inserted(call)
  BY DEF Register
<1>5. session' \in [Manager -> Sessions]
  <2>1. [step |-> "write", todo |-> Tail(session[m].todo)] \in Sessions
    BY <1>2 DEF Sessions
  <2>2. PICK s \in Sessions : Go(m, s)
    BY <2>1, IdleTyped DEF Register
  <2> QED
    BY <2>2, GoTyped DEF TypeOK
<1>6. /\ rows' \in [Key -> Definition \cup {None}]
      /\ \A k \in Key : rows'[k] # None => \A r \in rows'[k].refs : rows'[r] # None
  <2>1. CASE rows[call.key] = None /\ \A k \in call.def.refs : rows[k] # None
    <3>1. rows' = [rows EXCEPT ![call.key] = call.def]
      BY <1>4, <2>1 DEF Inserted
    <3>2. rows' \in [Key -> Definition \cup {None}]
      BY <1>3, <3>1 DEF TypeOK
    <3>3. \A k \in Key : rows[k] # None => rows'[k] # None
      BY <1>3, <3>1 DEF TypeOK
    <3>4. ASSUME NEW k \in Key, rows'[k] # None, NEW r \in rows'[k].refs
          PROVE  rows'[r] # None
      <4>1. CASE k = call.key
        <5>1. r \in call.def.refs
          BY <1>3, <3>1, <3>4, <4>1 DEF TypeOK
        <5>2. r \in Key
          BY <1>3, <5>1
        <5> QED
          BY <2>1, <3>3, <5>1, <5>2
      <4>2. CASE k # call.key
        <5>1. rows[k] # None /\ r \in rows[k].refs
          BY <1>3, <3>1, <3>4, <4>2 DEF TypeOK
        <5>2. rows[k] \in Definition
          BY <5>1 DEF TypeOK
        <5>3. r \in Key /\ rows[r] # None
          BY <5>1, <5>2 DEF TypeOK
        <5> QED
          BY <3>3, <5>3
      <4> QED
        BY <4>1, <4>2
    <3> QED
      BY <3>2, <3>4
  <2>2. CASE ~(rows[call.key] = None /\ \A k \in call.def.refs : rows[k] # None)
    <3>1. rows' = rows
      BY <1>4, <2>2 DEF Inserted
    <3> QED
      BY <3>1 DEF TypeOK
  <2> QED
    BY <2>1, <2>2
<1> QED
  BY <1>5, <1>6 DEF Register, TypeOK

LEMMA RunSucceedsTyped ==
  ASSUME TypeOK, NEW t \in Trial, NEW result \in Metrics[t], RunSucceeds(t, result)
  PROVE  TypeOK'
<1>1. result \in UNION {Metrics[u] : u \in Trial}
  OBVIOUS
<1>2. latest' \in [Trial -> (UNION {Metrics[u] : u \in Trial}) \cup {None}]
  BY <1>1 DEF RunSucceeds, TypeOK
<1> QED
  BY <1>2 DEF RunSucceeds, TypeOK

LEMMA AskTyped ==
  ASSUME TypeOK, NEW m \in Manager, NEW t \in Trial,
         NEW from \in Stages, NEW to \in Stages, NEW decision \in Decisions,
         NEW passed \in BOOLEAN,
         Ask(m, t, from, to, decision, passed),
         UNCHANGED <<commands, rows, latest, promotions, evaluations>>
  PROVE  TypeOK'
<1> DEFINE event == [from |-> from, to |-> to, decision |-> decision, passed |-> passed,
                     clean |-> m \in CleanGit]
<1>1. event \in Asked
  BY DEF Asked
<1>2. [step |-> "record", trial |-> t, event |-> event] \in Sessions
  <2> HIDE DEF event
  <2> QED BY <1>1 DEF Sessions
<1>3. Go(m, [step |-> "record", trial |-> t, event |-> event])
  BY DEF Ask
<1> QED
  BY <1>2, <1>3, OnlySession

LEMMA AssessCandidateTyped ==
  ASSUME TypeOK, NEW m \in Manager, NEW t \in Trial, AssessCandidate(m, t)
  PROVE  TypeOK'
<1> DEFINE passed == GatesPass(Evidence(t), t, m \in CleanGit)
<1>1. passed \in BOOLEAN
  BY DEF GatesPass
<1>2. [step |-> "assessed", trial |-> t, passed |-> passed] \in Sessions
  <2> HIDE DEF passed
  <2> QED BY <1>1 DEF Sessions
<1> QED
  BY <1>2, OnlySession DEF AssessCandidate

LEMMA AskCandidateTyped ==
  ASSUME TypeOK, NEW m \in Manager, AskCandidate(m)
  PROVE  TypeOK'
<1>1. session[m] \in [step : {"assessed"}, trial : Trial, passed : BOOLEAN]
  BY SessionOfStep DEF AskCandidate, TypeOK
<1>2. /\ "DISCOVERY" \in Stages /\ "CANDIDATE" \in Stages
      /\ "APPROVED" \in Decisions /\ "BLOCKED" \in Decisions
  BY DEF Stages, Decisions
<1> QED
  BY <1>1, <1>2, AskTyped DEF AskCandidate

LEMMA AskPhase4Typed ==
  ASSUME TypeOK, NEW m \in Manager, NEW t \in Trial, AskPhase4(m, t)
  PROVE  TypeOK'
<1>1. PICK stage \in Stages, passed \in BOOLEAN, decision \in Decisions :
        Ask(m, t, stage, "PHASE4_CANDIDATE", decision, passed)
  <2>1. PICK stage \in Stages :
          LET passed == stage = "LOCKBOX_EVALUATED" /\ Lockbox /\ m \in CleanGit
          IN Ask(m, t, stage, "PHASE4_CANDIDATE",
                 IF passed THEN "APPROVED" ELSE "BLOCKED", passed)
    BY DEF AskPhase4
  <2>2. "APPROVED" \in Decisions /\ "BLOCKED" \in Decisions
    BY DEF Decisions
  <2> QED
    BY <2>1, <2>2
<1>2. "PHASE4_CANDIDATE" \in Stages
  BY DEF Stages
<1> QED
  BY <1>1, <1>2, AskTyped DEF AskPhase4

LEMMA AskRejectionTyped ==
  ASSUME TypeOK, NEW m \in Manager, NEW t \in Trial, AskRejection(m, t)
  PROVE  TypeOK'
<1>1. PICK stage \in Stages : Ask(m, t, stage, "REJECTED", "REJECTED", FALSE)
  BY DEF AskRejection
<1>2. "REJECTED" \in Stages /\ "REJECTED" \in Decisions
  BY DEF Stages, Decisions
<1> QED
  BY <1>1, <1>2, AskTyped DEF AskRejection

LEMMA AskByHandTyped ==
  ASSUME TypeOK, NEW m \in Manager, NEW t \in Trial, NEW e \in ByHand, AskByHand(m, t, e)
  PROVE  TypeOK'
<1>1. e.from \in Stages /\ e.to \in Stages /\ e.decision \in Decisions
  OBVIOUS
<1> QED
  BY <1>1, AskTyped DEF AskByHand

LEMMA StampedTyped ==
  ASSUME NEW e \in Asked, NEW at \in Times
  PROVE  Stamped(e, at) \in Event
BY DEF Asked, Stamped, Event

LEMMA RecordEventTyped ==
  ASSUME TypeOK, NEW m \in Manager, NEW at \in Times, RecordEvent(m, at)
  PROVE  /\ TypeOK'
         /\ session[m].trial \in Trial /\ session[m].event \in Asked
<1> DEFINE t == session[m].trial  e == session[m].event  h == promotions[t]
<1>1. session[m] \in [step : {"record"}, trial : Trial, event : Asked]
  BY SessionOfStep DEF RecordEvent, TypeOK
<1>2. t \in Trial /\ e \in Asked
  BY <1>1
<1>3. Append(h, Stamped(e, at)) \in Seq(Event)
  BY <1>2, StampedTyped DEF TypeOK
<1>4. promotions' \in [Trial -> Seq(Event)]
  BY <1>2, <1>3 DEF RecordEvent, TypeOK
<1>5. session' \in [Manager -> Sessions]
  BY IdleTyped, GoTyped DEF RecordEvent, TypeOK
<1> QED
  BY <1>2, <1>4, <1>5 DEF RecordEvent, TypeOK

(* A selector that one trial answers names a trial. *)
LEMMA WithFeatureTyped ==
  ASSUME NEW d \in Declarations, Resolvable(InCampaign, latest, d)
  PROVE  WithFeature(InCampaign, d) \in Trial
<1> DEFINE selector == IF d.change = "REMOVED" THEN d.baseline ELSE d.candidate
<1>1. Cardinality(Selected(InCampaign, selector)) = 1
  BY DEF Resolvable
<1>2. Selected(InCampaign, selector) # {}
  <2>1. Cardinality({}) = 0
    BY FS_EmptySet
  <2> QED
    BY <1>1, <2>1, 0 # 1
<1>3. Selected(InCampaign, selector) \subseteq DOMAIN InCampaign
  BY DEF Selected
<1>4. DOMAIN InCampaign \subseteq Trial
  BY DEF InCampaign
<1>5. TrialFor(InCampaign, selector) \in Selected(InCampaign, selector)
  BY <1>2 DEF TrialFor
<1>6. WithFeature(InCampaign, d) = TrialFor(InCampaign, selector)
  BY DEF WithFeature
<1> QED
  BY <1>3, <1>4, <1>5, <1>6

LEMMA DecideTyped ==
  ASSUME NEW d \in Declarations, NEW with, NEW without
  PROVE  Decide(d, with, without) \in FeatureDecisions
<1>1. d.override # None => d.override \in FeatureDecisions
  OBVIOUS
<1>2. {"SUPPORTED", "REJECTED", "INCONCLUSIVE"} \subseteq FeatureDecisions
  BY DEF FeatureDecisions
<1> QED
  BY <1>1, <1>2 DEF Decide

LEMMA AblateTyped ==
  ASSUME TypeOK, NEW m \in Manager, NEW d \in Declarations, Ablate(m, d)
  PROVE  TypeOK'
<1> DEFINE with == WithFeature(InCampaign, d)
           decision == Decide(d, latest[with], latest[WithoutFeature(InCampaign, d)])
<1>1. with \in Trial
  BY WithFeatureTyped DEF Ablate
<1>2. decision \in FeatureDecisions
  BY DecideTyped
<1>3. Go(m, [step |-> "ablated", feature |-> d.feature, trial |-> with, decision |-> decision])
  BY DEF Ablate
<1>4. UNCHANGED <<commands, rows, latest, promotions, evaluations>>
  BY DEF Ablate
<1> HIDE DEF with, decision
<1>5. [step |-> "ablated", feature |-> d.feature, trial |-> with, decision |-> decision] \in Sessions
  BY <1>1, <1>2 DEF Sessions
<1> QED
  BY <1>3, <1>4, <1>5, OnlySession

LEMMA RecordEvaluationsTyped ==
  ASSUME TypeOK, NEW m \in Manager, RecordEvaluations(m)
  PROVE  TypeOK'
<1> DEFINE s == session[m]
<1>1. s \in [step : {"ablated"}, feature : Key, trial : Trial, decision : FeatureDecisions]
  BY SessionOfStep DEF RecordEvaluations, TypeOK
<1>2. [feature |-> s.feature, trial |-> s.trial, decision |-> s.decision]
        \in [feature : Key, trial : Trial, decision : FeatureDecisions]
  BY <1>1
<1>3. evaluations' \subseteq [feature : Key, trial : Trial, decision : FeatureDecisions]
  BY <1>2 DEF RecordEvaluations, TypeOK
<1>4. session' \in [Manager -> Sessions]
  BY IdleTyped, GoTyped DEF RecordEvaluations, TypeOK
<1> QED
  BY <1>3, <1>4 DEF RecordEvaluations, TypeOK

LEMMA TypeStep == TypeOK /\ [Next]_vars => TypeOK'
<1> SUFFICES ASSUME TypeOK, [Next]_vars PROVE TypeOK'
  OBVIOUS
<1>1. ASSUME NEW m \in Manager, NEW calls \in Commands, StartCommand(m, calls) PROVE TypeOK'
  BY <1>1, StartCommandTyped
<1>2. ASSUME NEW m \in Manager, Register(m) PROVE TypeOK'
  BY <1>2, RegisterTyped
<1>3. ASSUME NEW m \in Manager, EndCommand(m) \/ Killed(m) \/ CandidateRefused(m) PROVE TypeOK'
  BY <1>3, OnlySession, IdleTyped DEF EndCommand, Killed, CandidateRefused
<1>4. ASSUME NEW t \in Trial, NEW result \in Metrics[t], RunSucceeds(t, result) PROVE TypeOK'
  BY <1>4, RunSucceedsTyped
<1>5. ASSUME NEW m \in Manager, NEW t \in Reviewed,
             AssessCandidate(m, t) \/ AskPhase4(m, t) \/ AskRejection(m, t)
      PROVE  TypeOK'
  BY <1>5, AssessCandidateTyped, AskPhase4Typed, AskRejectionTyped
<1>6. ASSUME NEW m \in Manager, AskCandidate(m) PROVE TypeOK'
  BY <1>6, AskCandidateTyped
<1>7. ASSUME NEW m \in Manager, NEW t \in Reviewed, NEW e \in ByHand, AskByHand(m, t, e)
      PROVE  TypeOK'
  BY <1>7, AskByHandTyped
<1>8. ASSUME NEW m \in Manager, NEW at \in Times, RecordEvent(m, at) PROVE TypeOK'
  BY <1>8, RecordEventTyped
<1>9. ASSUME NEW m \in Manager, NEW d \in Declarations, Ablate(m, d) PROVE TypeOK'
  BY <1>9, AblateTyped
<1>10. ASSUME NEW m \in Manager, RecordEvaluations(m) PROVE TypeOK'
  BY <1>10, RecordEvaluationsTyped
<1>11. CASE UNCHANGED vars
  BY <1>11 DEF vars, TypeOK
<1> QED
  BY <1>1, <1>2, <1>3, <1>4, <1>5, <1>6, <1>7, <1>8, <1>9, <1>10, <1>11 DEF Next

(* The registry keeps its types, and whatever a registered row refers to   *)
(* is registered (the foreign keys of migrations.py, over the              *)
(* interleavings and kills of commands).                                   *)
THEOREM RegistryTyped == Spec => []TypeOK
BY TypeInit, TypeStep, PTL DEF Spec

-----------------------------------------------------------------------------
(* Recorded histories are histories, and the stage moves by transitions.   *)

HistoryInv == \A t \in Trial : History(promotions[t])

LEMMA EmptyHistory == History(<<>>)
BY DEF History, Moves

(* An accepted event extends a history by a permitted transition from the  *)
(* stage that was recorded last, or leaves that stage alone.               *)
LEMMA AcceptedExtends ==
  ASSUME NEW h, History(h), NEW e \in Asked, NEW at \in Times, Accepts(h, e)
  PROVE  LET g == Append(h, Stamped(e, at))
         IN /\ History(g)
            /\ \/ RecordedStage(g) = RecordedStage(h)
               \/ RecordedStage(g) \in PromotionTransitions[RecordedStage(h)]
<1> DEFINE f == Stamped(e, at)
           g == Append(h, f)
           n == Len(h) + 1
<1>1. f \in Event /\ f.from = e.from /\ f.to = e.to /\ f.decision = e.decision
  BY StampedTyped DEF Stamped
<1> HIDE DEF f
<1>2. h \in Seq(Event) /\ Len(h) \in Nat
  BY DEF History
<1>3. /\ g \in Seq(Event) /\ DOMAIN g = 1..n /\ g[n] = f
      /\ \A i \in 1..Len(h) : g[i] = h[i]
  BY <1>1, <1>2
<1> HIDE DEF g
<1>4. e.from = RecordedStage(h) /\ e.from \in Stages
  BY ReadIsRecorded DEF Accepts, Asked
<1>5. Moves(h) \subseteq 1..Len(h)
  BY <1>2 DEF Moves
<1>6. CASE e.decision = "BLOCKED"
  <2>1. Moves(g) = Moves(h)
    BY <1>1, <1>2, <1>3, <1>6 DEF Moves
  <2>2. History(g)
    BY <1>3, <1>5, <2>1 DEF History
  <2>3. LastMove(g) = LastMove(h)
    BY <2>1 DEF LastMove
  <2>4. Moves(h) # {} => LastMove(h) \in Moves(h)
    BY DEF History, LastMove
  <2>5. RecordedStage(g) = RecordedStage(h)
    BY <1>3, <1>5, <2>1, <2>3, <2>4 DEF RecordedStage
  <2> QED
    BY <2>2, <2>5 DEF g, f
<1>7. CASE e.decision # "BLOCKED"
  <2>1. Moves(g) = Moves(h) \cup {n}
    BY <1>1, <1>2, <1>3, <1>7 DEF Moves
  <2>2. e.to \in PromotionTransitions[e.from]
    BY <1>7 DEF Accepts, Permitted
  <2>3. \A i \in Moves(g) : g[i].to \in PromotionTransitions[g[i].from]
    BY <1>1, <1>3, <1>5, <2>1, <2>2 DEF History
  <2>4. \A i \in Moves(h) : Rank[h[i].to] < Rank[e.to]
    <3>1. SUFFICES ASSUME NEW i \in Moves(h) PROVE Rank[h[i].to] < Rank[e.to]
      OBVIOUS
    <3>2. PICK l \in Moves(h) : \A j \in Moves(h) : j <= l
      BY DEF History
    <3>3. e.from = h[l].to
      BY <1>4, <3>2, RecordedStageOfLast
    <3>4. Rank[h[l].to] < Rank[e.to]
      BY <1>4, <2>2, <3>3, RankGrows
    <3>5. i = l \/ Rank[h[i].to] < Rank[h[l].to]
      BY <1>5, <3>2 DEF History
    <3>6. Rank[h[i].to] \in Int /\ Rank[h[l].to] \in Int /\ Rank[e.to] \in Int
      BY <1>4, <2>2, RankGrows, MoveTyped
    <3> QED
      BY <3>4, <3>5, <3>6
  <2>5. \A i, j \in Moves(g) : i < j => Rank[g[i].to] < Rank[g[j].to]
    <3>1. SUFFICES ASSUME NEW i \in Moves(g), NEW j \in Moves(g), i < j
                   PROVE  Rank[g[i].to] < Rank[g[j].to]
      OBVIOUS
    <3>2. i \in Moves(h)
      BY <1>2, <1>5, <2>1, <3>1
    <3>3. CASE j = n
      BY <1>1, <1>3, <1>5, <2>4, <3>2, <3>3
    <3>4. CASE j \in Moves(h)
      BY <1>3, <1>5, <3>1, <3>2, <3>4 DEF History
    <3> QED
      BY <2>1, <3>3, <3>4
  <2>6. n \in Moves(g) /\ \A j \in Moves(g) : j <= n
    BY <1>2, <1>5, <2>1
  <2>7. History(g)
    BY <1>3, <2>3, <2>5, <2>6 DEF History
  <2>8. RecordedStage(g) = e.to
    BY <1>1, <1>3, <2>6, <2>7, RecordedStageOfLast
  <2> QED
    BY <1>4, <2>2, <2>7, <2>8 DEF g, f
<1> QED
  BY <1>6, <1>7

(* What RecordEvent does to one experiment, in terms of AcceptedExtends.   *)
LEMMA RecordEventExtends ==
  ASSUME TypeOK, HistoryInv, NEW m \in Manager, NEW at \in Times, RecordEvent(m, at)
  PROVE  /\ HistoryInv'
         /\ \/ promotions' = promotions
            \/ \E t \in Trial :
                 /\ promotions' = [promotions EXCEPT ![t] = promotions'[t]]
                 /\ \/ RecordedStage(promotions'[t]) = RecordedStage(promotions[t])
                    \/ RecordedStage(promotions'[t])
                         \in PromotionTransitions[RecordedStage(promotions[t])]
<1> DEFINE t == session[m].trial  e == session[m].event  h == promotions[t]
           g == Append(h, Stamped(e, at))
<1>1. t \in Trial /\ e \in Asked
  BY RecordEventTyped
<1>2. promotions \in [Trial -> Seq(Event)]
  BY DEF TypeOK
<1>3. CASE ~Accepts(h, e)
  BY <1>3 DEF RecordEvent, HistoryInv
<1>4. CASE Accepts(h, e)
  <2>1. promotions' = [promotions EXCEPT ![t] = g]
    BY <1>4 DEF RecordEvent
  <2>2. /\ History(g)
        /\ \/ RecordedStage(g) = RecordedStage(h)
           \/ RecordedStage(g) \in PromotionTransitions[RecordedStage(h)]
    BY <1>1, <1>4, AcceptedExtends DEF HistoryInv
  <2> HIDE DEF t, g
  <2>3. promotions'[t] = g /\ \A u \in Trial : u # t => promotions'[u] = promotions[u]
    BY <1>1, <1>2, <2>1
  <2>4. HistoryInv'
    BY <2>2, <2>3 DEF HistoryInv
  <2> QED
    BY <1>1, <2>1, <2>2, <2>3, <2>4
<1> QED
  BY <1>3, <1>4

LEMMA PromotionsChange ==
  ASSUME [Next]_vars
  PROVE  \/ promotions' = promotions
         \/ \E m \in Manager, at \in Times : RecordEvent(m, at)
<1>1. ASSUME NEW m \in Manager, \/ \E calls \in Commands : StartCommand(m, calls)
                                \/ Register(m) \/ EndCommand(m) \/ Killed(m)
      PROVE  promotions' = promotions
  BY <1>1 DEF StartCommand, Register, EndCommand, Killed
<1>2. ASSUME NEW t \in Trial, NEW result \in Metrics[t], RunSucceeds(t, result)
      PROVE  promotions' = promotions
  BY <1>2 DEF RunSucceeds
<1>3. ASSUME NEW m \in Manager,
             NEW t \in Reviewed, \/ AssessCandidate(m, t) \/ AskPhase4(m, t)
                                \/ AskRejection(m, t) \/ \E e \in ByHand : AskByHand(m, t, e)
      PROVE  promotions' = promotions
  BY <1>3 DEF AssessCandidate, AskPhase4, AskRejection, AskByHand
<1>4. ASSUME NEW m \in Manager, \/ AskCandidate(m) \/ CandidateRefused(m)
                                \/ \E d \in Declarations : Ablate(m, d)
                                \/ RecordEvaluations(m)
      PROVE  promotions' = promotions
  BY <1>4 DEF AskCandidate, CandidateRefused, Ablate, RecordEvaluations
<1>5. CASE UNCHANGED vars
  BY <1>5 DEF vars
<1> QED
  BY <1>1, <1>2, <1>3, <1>4, <1>5 DEF Next

LEMMA HistoryStep == TypeOK /\ HistoryInv /\ [Next]_vars => HistoryInv'
BY PromotionsChange, RecordEventExtends DEF HistoryInv

LEMMA HistoryInit == Init => HistoryInv
BY EmptyHistory DEF Init, HistoryInv

LEMMA HistoryAlways == Spec => []HistoryInv
BY RegistryTyped, HistoryInit, HistoryStep, PTL DEF Spec

(* Whatever the clock does, a promotion history that can be read gives the *)
(* stage that was recorded last (record_promotion_event).                  *)
THEOREM StageIsTrue == Spec => []ReadStageIsTrue
<1>1. HistoryInv => ReadStageIsTrue
  BY ReadIsRecorded DEF HistoryInv, ReadStageIsTrue
<1> QED
  BY <1>1, HistoryAlways, PTL

-----------------------------------------------------------------------------
(* The registry implements the append-only record.                         *)

ReadStages == [t \in Trial |-> RecordedStage(promotions[t])]

LEMMA RecordInit == Init => Audited!Init
<1> SUFFICES ASSUME Init PROVE Audited!Init
  OBVIOUS
<1>1. \A t \in Trial : RecordedStage(promotions[t]) = "DISCOVERY"
  BY DEF Init, RecordedStage, Moves
<1>2. ReadStages = [t \in Trial |-> "DISCOVERY"]
  BY <1>1 DEF ReadStages
<1> QED
  BY <1>2 DEF Init, Audited!Init, ReadStages

LEMMA RegisterDefines ==
  ASSUME TypeOK, NEW m \in Manager, Register(m)
  PROVE  rows' = rows \/ \E k \in Key : Audited!Define(k)
<1> DEFINE call == Head(session[m].todo)
<1>1. session[m] \in [step : {"write"}, todo : Seq(Calls)] /\ session[m].todo # <<>>
  BY SessionOfStep DEF Register, TypeOK
<1>2. call.key \in Key /\ call.def \in Definition
  <2>1. call \in Calls
    BY <1>1
  <2> QED
    BY <2>1 DEF Calls
<1>3. rows' = Inserted(call) /\ promotions' = promotions /\ evaluations' = evaluations
  BY DEF Register
<1> HIDE DEF call
<1>4. \/ rows' = rows
      \/ rows[call.key] = None /\ rows' = [rows EXCEPT ![call.key] = call.def]
  BY <1>3 DEF Inserted
<1> QED
  BY <1>2, <1>3, <1>4 DEF Audited!Define

LEMMA EvaluationsConclude ==
  ASSUME TypeOK, NEW m \in Manager, RecordEvaluations(m)
  PROVE  Audited!Conclude \/ evaluations' = evaluations
<1> DEFINE s == session[m]
           c == [feature |-> s.feature, trial |-> s.trial, decision |-> s.decision]
<1>1. s \in [step : {"ablated"}, feature : Key, trial : Trial, decision : FeatureDecisions]
  BY SessionOfStep DEF RecordEvaluations, TypeOK
<1>2. c \in [feature : Key, trial : Trial, decision : FeatureDecisions]
  BY <1>1
<1>3. /\ evaluations' = evaluations \cup {c} \/ evaluations' = evaluations
      /\ rows' = rows /\ promotions' = promotions
  BY DEF RecordEvaluations
<1> HIDE DEF c
<1> QED
  BY <1>2, <1>3 DEF Audited!Conclude

LEMMA EventAdvances ==
  ASSUME TypeOK, HistoryInv, NEW m \in Manager, NEW at \in Times, RecordEvent(m, at)
  PROVE  \/ \E t \in Trial : Audited!Advance(t)
         \/ UNCHANGED <<rows, ReadStages, evaluations>>
<1>1. rows' = rows /\ evaluations' = evaluations
  BY DEF RecordEvent
<1>2. CASE promotions' = promotions
  BY <1>1, <1>2 DEF ReadStages
<1>3. ASSUME NEW t \in Trial,
             promotions' = [promotions EXCEPT ![t] = promotions'[t]],
             \/ RecordedStage(promotions'[t]) = RecordedStage(promotions[t])
             \/ RecordedStage(promotions'[t])
                  \in PromotionTransitions[RecordedStage(promotions[t])]
      PROVE  Audited!Advance(t) \/ UNCHANGED <<rows, ReadStages, evaluations>>
  <2>1. promotions \in [Trial -> Seq(Event)]
    BY DEF TypeOK
  <2>2. \A u \in Trial : u # t => promotions'[u] = promotions[u]
    BY <1>3, <2>1
  <2>3. ReadStages' = [ReadStages EXCEPT ![t] = RecordedStage(promotions'[t])]
    BY <2>2 DEF ReadStages
  <2>4. ReadStages[t] = RecordedStage(promotions[t])
    BY DEF ReadStages
  <2>5. CASE RecordedStage(promotions'[t]) = RecordedStage(promotions[t])
    <3>1. ReadStages' = ReadStages
      BY <2>2, <2>5 DEF ReadStages
    <3> QED
      BY <1>1, <3>1
  <2>6. CASE RecordedStage(promotions'[t])
               \in PromotionTransitions[RecordedStage(promotions[t])]
    <3>1. Audited!Advance(t)
      BY <1>1, <2>3, <2>4, <2>6 DEF Audited!Advance, ReadStages
    <3> QED
      BY <3>1
  <2> QED
    BY <1>3, <2>5, <2>6
<1> QED
  BY <1>2, <1>3, RecordEventExtends

LEMMA RecordStep ==
  ASSUME TypeOK, HistoryInv, [Next]_vars
  PROVE  [Audited!Next]_<<rows, ReadStages, evaluations>>
<1>1. ASSUME NEW m \in Manager, Register(m)
      PROVE  Audited!Next \/ UNCHANGED <<rows, ReadStages, evaluations>>
  BY <1>1, RegisterDefines DEF Register, ReadStages, Audited!Next
<1>2. ASSUME NEW m \in Manager, RecordEvaluations(m)
      PROVE  Audited!Next \/ UNCHANGED <<rows, ReadStages, evaluations>>
  BY <1>2, EvaluationsConclude DEF RecordEvaluations, ReadStages, Audited!Next
<1>3. ASSUME NEW m \in Manager, NEW at \in Times, RecordEvent(m, at)
      PROVE  Audited!Next \/ UNCHANGED <<rows, ReadStages, evaluations>>
  BY <1>3, EventAdvances DEF Audited!Next
<1>4. ASSUME NEW m \in Manager, \/ \E calls \in Commands : StartCommand(m, calls)
                                \/ EndCommand(m) \/ Killed(m)
      PROVE  UNCHANGED <<rows, ReadStages, evaluations>>
  BY <1>4 DEF StartCommand, EndCommand, Killed, ReadStages
<1>5. ASSUME NEW t \in Trial, NEW result \in Metrics[t], RunSucceeds(t, result)
      PROVE  UNCHANGED <<rows, ReadStages, evaluations>>
  BY <1>5 DEF RunSucceeds, ReadStages
<1>6. ASSUME NEW m \in Manager,
             NEW t \in Reviewed, \/ AssessCandidate(m, t) \/ AskPhase4(m, t)
                                \/ AskRejection(m, t) \/ \E e \in ByHand : AskByHand(m, t, e)
      PROVE  UNCHANGED <<rows, ReadStages, evaluations>>
  BY <1>6 DEF AssessCandidate, AskPhase4, AskRejection, AskByHand, ReadStages
<1>7. ASSUME NEW m \in Manager, \/ AskCandidate(m) \/ CandidateRefused(m)
                                \/ \E d \in Declarations : Ablate(m, d)
      PROVE  UNCHANGED <<rows, ReadStages, evaluations>>
  BY <1>7 DEF AskCandidate, CandidateRefused, Ablate, ReadStages
<1>8. CASE UNCHANGED vars
  BY <1>8 DEF vars, ReadStages
<1> QED
  BY <1>1, <1>2, <1>3, <1>4, <1>5, <1>6, <1>7, <1>8 DEF Next

(* The registry implements the append-only record: names keep their        *)
(* meaning, the recorded stage moves by permitted transitions, decisions   *)
(* stay (docs/adr/0013).                                                   *)
THEOREM AppendOnly == Spec => RecordIsAppendOnly
<1>1. Spec => Audited!Init
  BY RecordInit, PTL DEF Spec
<1>2. TypeOK /\ HistoryInv /\ [Next]_vars => [Audited!Next]_<<rows, ReadStages, evaluations>>
  BY RecordStep
<1> QED
  BY <1>1, <1>2, RegistryTyped, HistoryAlways, PTL
     DEF Spec, RecordIsAppendOnly, Audited!Spec, ReadStages
=============================================================================

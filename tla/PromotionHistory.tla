--------------------------- MODULE PromotionHistory ---------------------------
(***************************************************************************)
(* The stage of an experiment, as it is derived from its append-only       *)
(* promotion events: PROMOTION_TRANSITIONS, the derivation that            *)
(* record_promotion_event and current_research_stage share, and what       *)
(* record_promotion_event accepts.  A history h is the sequence of events  *)
(* in the order of insertion (rowid); the code reads it by created_at_ms   *)
(* and only then by rowid, and a clock that is set back makes the two      *)
(* orders differ.                                                          *)
(***************************************************************************)
EXTENDS Integers, Sequences

Stages ==
  {"DISCOVERY", "CANDIDATE", "LOCKBOX_EVALUATED", "PHASE4_CANDIDATE", "REJECTED", "INVALIDATED"}
Decisions == {"APPROVED", "BLOCKED", "REJECTED", "INVALIDATED"}

PromotionTransitions ==
  [from \in Stages |->
     CASE from = "DISCOVERY" -> {"CANDIDATE", "REJECTED", "INVALIDATED"}
       [] from = "CANDIDATE" -> {"LOCKBOX_EVALUATED", "REJECTED", "INVALIDATED"}
       [] from = "LOCKBOX_EVALUATED" -> {"PHASE4_CANDIDATE", "REJECTED", "INVALIDATED"}
       [] from \in {"PHASE4_CANDIDATE", "REJECTED"} -> {"INVALIDATED"}
       [] OTHER -> {}]

(* A BLOCKED event leaves the stage alone. *)
Moves(h) == {i \in DOMAIN h : h[i].decision # "BLOCKED"}

Earlier(h, i, j) == h[i].at < h[j].at \/ (h[i].at = h[j].at /\ i < j)

(* The stage s that the events of the set past leave, read by time: the    *)
(* destination of the latest that moves.                                   *)
Leaves(h, past, s) ==
  \/ past \cap Moves(h) = {} /\ s = "DISCOVERY"
  \/ \E m \in past \cap Moves(h) :
       /\ s = h[m].to
       /\ \A j \in past \cap Moves(h) : j # m => Earlier(h, j, m)

Past(h, i) == {j \in DOMAIN h : Earlier(h, j, i)}

(* Each event starts from the stage that the events before it leave;       *)
(* otherwise the history is inconsistent and every reader of it raises.    *)
Readable(h) == \A i \in DOMAIN h : Leaves(h, Past(h, i), h[i].from)

(* Mutant: the derivation without the check of consistency. *)
ReadsAsUnchecked(h, s) == Leaves(h, DOMAIN h, s)

ReadsAs(h, s) == Readable(h) /\ Leaves(h, DOMAIN h, s)

-----------------------------------------------------------------------------
(* What an event is apart from its time: its promotion_id. *)
SameEvent(e, f) ==
  /\ e.from = f.from /\ e.to = f.to /\ e.decision = f.decision
  /\ e.passed = f.passed /\ e.clean = f.clean

Recorded(h, e) == \E i \in DOMAIN h : SameEvent(h[i], e)

(* The destination agrees with the decision and the transitions. *)
Permitted(e) ==
  /\ e.decision # "BLOCKED" => e.to \in PromotionTransitions[e.from]
  /\ e.decision = "REJECTED" => e.to = "REJECTED"
  /\ e.decision = "INVALIDATED" => e.to = "INVALIDATED"

(* Mutant: the stage the caller read is not compared with the present one. *)
AcceptsStale(h, e) ==
  /\ \E s \in Stages : ReadsAs(h, s)
  /\ Permitted(e)
  /\ ~Recorded(h, e)

(* The transaction of record_promotion_event inserts e.  Otherwise it      *)
(* returns the identical event that exists already, or raises.             *)
Accepts(h, e) ==
  /\ ReadsAs(h, e.from)
  /\ Permitted(e)
  /\ ~Recorded(h, e)
=============================================================================

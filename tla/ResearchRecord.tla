---------------------------- MODULE ResearchRecord ----------------------------
(***************************************************************************)
(* What an auditor may rely on, whatever the commands did: the record of   *)
(* the research is append-only.  A name that was registered means for ever *)
(* what it meant first, an experiment's stage moves by permitted           *)
(* transitions only, and a decision about a feature stays.                 *)
(***************************************************************************)
CONSTANTS Names, Meanings, Undefined, Subjects, Conclusions, FirstStage, Follows

VARIABLES meaning, stage, concluded

Init ==
  /\ meaning = [n \in Names |-> Undefined]
  /\ stage = [x \in Subjects |-> FirstStage]
  /\ concluded = {}

Define(n) ==
  /\ meaning[n] = Undefined
  /\ \E d \in Meanings : meaning' = [meaning EXCEPT ![n] = d]
  /\ UNCHANGED <<stage, concluded>>

Advance(x) ==
  /\ \E s \in Follows[stage[x]] : stage' = [stage EXCEPT ![x] = s]
  /\ UNCHANGED <<meaning, concluded>>

Conclude ==
  /\ \E c \in Conclusions : concluded' = concluded \cup {c}
  /\ UNCHANGED <<meaning, stage>>

Next ==
  \/ \E n \in Names : Define(n)
  \/ \E x \in Subjects : Advance(x)
  \/ Conclude

Spec == Init /\ [][Next]_<<meaning, stage, concluded>>
=============================================================================

------------------------------ MODULE ServedDays ------------------------------
(***************************************************************************)
(* What the readers of canonical klines may rely on: a day is served by    *)
(* one published version that can be used, for ever, and the catalogue     *)
(* lists served days only and forgets none.                                *)
(***************************************************************************)
CONSTANTS Days, Usable, NoFile

VARIABLES served, listed

Init == served = [d \in Days |-> NoFile] /\ listed = {}

Serve(d) ==
  /\ served[d] = NoFile
  /\ \E v \in Usable : served' = [served EXCEPT ![d] = v]
  /\ UNCHANGED listed

List ==
  /\ listed' = {d \in Days : served[d] # NoFile}
  /\ UNCHANGED served

Next == List \/ \E d \in Days : Serve(d)

Spec == Init /\ [][Next]_<<served, listed>>
=============================================================================

------------------------------ MODULE MCArchive ------------------------------
EXTENDS ArchiveProperties

Row(t) == [t |-> t, ok |-> TRUE]

(* Version 1 has every minute of the day, one of them twice and out of     *)
(* order; version 2 lacks the last minute, version 3 cannot be used.       *)
MCRows == <<<<Row(2), Row(0), Row(0), Row(4)>>, <<Row(0), Row(2)>>, <<Row(0)>>>>
=============================================================================

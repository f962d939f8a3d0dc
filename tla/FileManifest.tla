----------------------------- MODULE FileManifest ----------------------------
(***************************************************************************)
(* The operational manifest's file states (data/manifest.py) and the rule  *)
(* that StateStore.transition_data_file applies inside its transaction.    *)
(***************************************************************************)

DataFileStatus ==
  {"DOWNLOADING", "DOWNLOADED", "VALIDATED", "NORMALIZED", "COMPACTED",
   "QUARANTINED", "FAILED"}

AllowedFileTransitions ==
  [s \in DataFileStatus |->
     CASE s = "DOWNLOADING" -> {"DOWNLOADED", "FAILED", "QUARANTINED"}
       [] s = "DOWNLOADED"  -> {"VALIDATED", "FAILED", "QUARANTINED"}
       [] s = "VALIDATED"   -> {"NORMALIZED", "FAILED", "QUARANTINED"}
       [] s = "NORMALIZED"  -> {"COMPACTED", "FAILED", "QUARANTINED"}
       [] s = "COMPACTED"   -> {"QUARANTINED"}
       [] OTHER             -> {"DOWNLOADING"}]

(* A transition to the status a file already has is accepted. *)
CanTransition(from, to) ==
  /\ from \in DataFileStatus
  /\ from = to \/ to \in AllowedFileTransitions[from]

(* What validate_stream_file_with_checkpoint accepts. *)
CanValidateStream(from) == from \in {"DOWNLOADED", "VALIDATED"}
=============================================================================

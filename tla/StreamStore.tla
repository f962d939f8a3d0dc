----------------------------- MODULE StreamStore -----------------------------
(***************************************************************************)
(* The micro-batch files of the recorder across runs, crashes and          *)
(* restarts: data/writer.py (_flush_partition, recover_recorder_artifacts) *)
(* on data/storage.py (write_parquet_atomic) and data/state_store.py.      *)
(*                                                                         *)
(* A batch is one Parquet file: its path holds the run id, the partition   *)
(* and a sequence number, so it is written at most once.  A step is one    *)
(* transaction of the manifest or one change of the file system, because a *)
(* crash of the process can fall between any two of them.  One recorder    *)
(* runs at a time (README.md).                                             *)
(***************************************************************************)
EXTENDS Naturals, FiniteSets, FileManifest

CONSTANTS
  Batches,       \* the micro-batch files, numbered in the order they are flushed
  Foreign,       \* batches found on disk that the manifest does not know
  Streams,       \* the checkpoint keys, event_type:symbol
  StreamOf,      \* the stream of a batch
  LastReceived,  \* the received_time_ns of the last row of a batch
  MaxCrashes,    \* bound on the crashes of a behaviour
  NoBatch

ASSUME StoreAssumption ==
  /\ Batches \subseteq Nat
  /\ Foreign \subseteq Batches
  /\ NoBatch \notin Batches
  /\ StreamOf \in [Batches -> Streams]
  /\ LastReceived \in [Batches -> Nat]
  /\ MaxCrashes \in Nat

VARIABLES
  mode,        \* the recorder process: down, a stage of recovery, or running
  current,     \* the batch _flush_partition is working on
  todo,        \* the files the recovery stage still has to look at
  manifested,  \* the batches in the list of records recovery has read
  disk,        \* where the Parquet file of a batch is
  content,     \* whether that file passes _inspect_recorder_parquet
  status,      \* data_files.status, or "none" without a row
  checksum,    \* data_files.checksum: the content that was hashed
  checkpoint,  \* stream_checkpoints: the file_id in the checkpoint of a stream
  crashes      \* how many crashes there were

manifestVars == <<status, checksum, checkpoint>>
fileVars == <<disk, content>>
processVars == <<mode, current, todo, manifested>>
storeVars == <<processVars, fileVars, manifestVars, crashes>>

Modes == {"down", "temporaries", "inflight", "orphans", "running"}
InFlight == {"DOWNLOADING", "DOWNLOADED"}

StoreInit ==
  /\ mode = "down"
  /\ current = NoBatch
  /\ todo = {}
  /\ manifested = {}
  /\ disk = [b \in Batches |-> IF b \in Foreign THEN "final" ELSE "absent"]
  /\ content \in {c \in [Batches -> {"good", "bad"}] :
                    \A b \in Batches \ Foreign : c[b] = "good"}
  /\ status = [b \in Batches |-> "none"]
  /\ checksum = [b \in Batches |-> "none"]
  /\ checkpoint = [s \in Streams |-> NoBatch]
  /\ crashes = 0

-----------------------------------------------------------------------------
(* The transactions of data/state_store.py. *)

(* INSERT OR IGNORE: a row that exists stays as it is. *)
RegisterDataFile(b) ==
  /\ status' = [status EXCEPT ![b] = IF @ = "none" THEN "DOWNLOADING" ELSE @]
  /\ UNCHANGED <<checksum, checkpoint>>

TransitionDataFile(b, new, sum) ==
  /\ CanTransition(status[b], new)
  /\ status' = [status EXCEPT ![b] = new]
  /\ checksum' = [checksum EXCEPT ![b] = IF sum = "none" THEN @ ELSE sum]
  /\ UNCHANGED checkpoint

(* Mutant of ValidateWithCheckpoint: stream key and checkpoint swapped. *)
ValidateWithKeyAsCheckpoint(b, sum) ==
  /\ CanValidateStream(status[b])
  /\ status' = [status EXCEPT ![b] = "VALIDATED"]
  /\ checksum' = [checksum EXCEPT ![b] = sum]
  /\ checkpoint' = [checkpoint EXCEPT ![StreamOf[b]] = StreamOf[b]]

(* The file becomes visible and its stream's checkpoint is overwritten, in *)
(* one transaction.                                                        *)
ValidateWithCheckpoint(b, sum) ==
  /\ CanValidateStream(status[b])
  /\ status' = [status EXCEPT ![b] = "VALIDATED"]
  /\ checksum' = [checksum EXCEPT ![b] = sum]
  /\ checkpoint' = [checkpoint EXCEPT ![StreamOf[b]] = b]

-----------------------------------------------------------------------------
(* Recovery, before every run. *)

Start ==
  /\ mode = "down"
  /\ mode' = "temporaries"
  /\ UNCHANGED <<current, todo, manifested, fileVars, manifestVars, crashes>>

QuarantineTemporary(b) ==
  /\ mode = "temporaries"
  /\ disk[b] = "tmp"
  /\ disk' = [disk EXCEPT ![b] = "quarantine"]
  /\ UNCHANGED <<processVars, content, manifestVars, crashes>>

(* Mutant of ListRecords: rows still DOWNLOADING are not looked at. *)
ListDownloadedRecords ==
  /\ mode = "temporaries"
  /\ \A b \in Batches : disk[b] # "tmp"
  /\ mode' = "inflight"
  /\ todo' = {b \in Batches : status[b] = "DOWNLOADED" /\ disk[b] = "final"}
  /\ manifested' = {b \in Batches : status[b] # "none"}
  /\ UNCHANGED <<current, fileVars, manifestVars, crashes>>

(* The records are listed once; those in flight whose file exists are next. *)
ListRecords ==
  /\ mode = "temporaries"
  /\ \A b \in Batches : disk[b] # "tmp"
  /\ mode' = "inflight"
  /\ todo' = {b \in Batches : status[b] \in InFlight /\ disk[b] = "final"}
  /\ manifested' = {b \in Batches : status[b] # "none"}
  /\ UNCHANGED <<current, fileVars, manifestVars, crashes>>

(* The row is quarantined; the file stays where it is. *)
QuarantineRecord(b) ==
  /\ mode = "inflight"
  /\ b \in todo
  /\ content[b] = "bad"
  /\ TransitionDataFile(b, "QUARANTINED", "none")
  /\ todo' = todo \ {b}
  /\ UNCHANGED <<mode, current, manifested, fileVars, crashes>>

(* An orphan that reads well gets its row. *)
RegisterOrphan(b) ==
  /\ mode = "orphans"
  /\ b \in todo
  /\ content[b] = "good"
  /\ status[b] = "none"
  /\ RegisterDataFile(b)
  /\ UNCHANGED <<processVars, fileVars, crashes>>

(* Mutant of QuarantineOrphan: an orphan that does not read ends recovery. *)
OrphanEndsRecovery(b) ==
  /\ mode = "orphans"
  /\ b \in todo
  /\ content[b] = "bad"
  /\ mode' = "down"
  /\ todo' = {}
  /\ UNCHANGED <<current, manifested, fileVars, manifestVars, crashes>>

QuarantineOrphan(b) ==
  /\ mode = "orphans"
  /\ b \in todo
  /\ content[b] = "bad"
  /\ disk' = [disk EXCEPT ![b] = "quarantine"]
  /\ todo' = todo \ {b}
  /\ UNCHANGED <<mode, current, manifested, content, manifestVars, crashes>>

(* Both kinds of file then go the way the writer would have taken them. *)
RecoverDownloaded(b) ==
  /\ b \in todo
  /\ content[b] = "good"
  /\ status[b] = "DOWNLOADING"
  /\ TransitionDataFile(b, "DOWNLOADED", content[b])
  /\ UNCHANGED <<processVars, fileVars, crashes>>

(* Mutant of RecoverValidated: the recorded checksum is taken for granted. *)
RecoverUninspected(b) ==
  /\ b \in todo
  /\ status[b] = "DOWNLOADED"
  /\ ValidateWithCheckpoint(b, checksum[b])
  /\ todo' = todo \ {b}
  /\ UNCHANGED <<mode, current, manifested, fileVars, crashes>>

(* Mutant of RecoverValidated: a plain transition, without a checkpoint. *)
RecoverWithoutCheckpoint(b) ==
  /\ b \in todo
  /\ content[b] = "good"
  /\ status[b] = "DOWNLOADED"
  /\ TransitionDataFile(b, "VALIDATED", content[b])
  /\ todo' = todo \ {b}
  /\ UNCHANGED <<mode, current, manifested, fileVars, crashes>>

RecoverValidated(b) ==
  /\ b \in todo
  /\ content[b] = "good"
  /\ status[b] = "DOWNLOADED"
  /\ ValidateWithCheckpoint(b, content[b])
  /\ todo' = todo \ {b}
  /\ UNCHANGED <<mode, current, manifested, fileVars, crashes>>

ListOrphans ==
  /\ mode = "inflight"
  /\ todo = {}
  /\ mode' = "orphans"
  /\ todo' = {b \in Batches \ manifested : disk[b] = "final"}
  /\ UNCHANGED <<current, manifested, fileVars, manifestVars, crashes>>

FinishRecovery ==
  /\ mode = "orphans"
  /\ todo = {}
  /\ mode' = "running"
  /\ UNCHANGED <<current, todo, manifested, fileVars, manifestVars, crashes>>

-----------------------------------------------------------------------------
(* _flush_partition, for one batch at a time. *)

RegisterBatch(b) ==
  /\ mode = "running"
  /\ current = NoBatch
  /\ disk[b] = "absent"
  /\ \A c \in Batches \ Foreign : c >= b => status[c] = "none"
  /\ RegisterDataFile(b)
  /\ current' = b
  /\ UNCHANGED <<mode, todo, manifested, fileVars, crashes>>

(* frame.write_parquet, fsync and the read back of the temporary. *)
WriteTemporary(b) ==
  /\ current = b
  /\ disk[b] = "absent"
  /\ disk' = [disk EXCEPT ![b] = "tmp"]
  /\ UNCHANGED <<processVars, content, manifestVars, crashes>>

Promote(b) ==
  /\ current = b
  /\ disk[b] = "tmp"
  /\ disk' = [disk EXCEPT ![b] = "final"]
  /\ UNCHANGED <<processVars, content, manifestVars, crashes>>

(* Mutant of MarkDownloaded: the checkpoint is written with the download. *)
MarkDownloadedWithCheckpoint(b) ==
  /\ current = b
  /\ disk[b] = "final"
  /\ status[b] = "DOWNLOADING"
  /\ status' = [status EXCEPT ![b] = "DOWNLOADED"]
  /\ checksum' = [checksum EXCEPT ![b] = content[b]]
  /\ checkpoint' = [checkpoint EXCEPT ![StreamOf[b]] = b]
  /\ UNCHANGED <<processVars, fileVars, crashes>>

MarkDownloaded(b) ==
  /\ current = b
  /\ disk[b] = "final"
  /\ status[b] = "DOWNLOADING"
  /\ TransitionDataFile(b, "DOWNLOADED", content[b])
  /\ UNCHANGED <<processVars, fileVars, crashes>>

Validate(b) ==
  /\ current = b
  /\ status[b] = "DOWNLOADED"
  /\ ValidateWithCheckpoint(b, checksum[b])
  /\ current' = NoBatch
  /\ UNCHANGED <<mode, todo, manifested, fileVars, crashes>>

(* Any step of the flush fails: the row becomes FAILED and the writer's    *)
(* error ends the run.  A temporary is removed, unless it was rejected     *)
(* when it was read back (StorageError skips the removal).                 *)
BatchFlushFails(b) ==
  /\ current = b
  /\ TransitionDataFile(b, "FAILED", "none")
  /\ \/ UNCHANGED disk
     \/ disk[b] = "tmp" /\ disk' = [disk EXCEPT ![b] = "absent"]
  /\ mode' = "down"
  /\ current' = NoBatch
  /\ UNCHANGED <<todo, manifested, content, crashes>>

(* The run is over between two flushes. *)
Stop ==
  /\ mode = "running"
  /\ current = NoBatch
  /\ mode' = "down"
  /\ UNCHANGED <<current, todo, manifested, fileVars, manifestVars, crashes>>

-----------------------------------------------------------------------------

(* The process dies, or an error of recovery or of the handling of an error *)
(* ends it: the files and the manifest stay as they are.                    *)
Crash ==
  /\ mode # "down"
  /\ crashes < MaxCrashes
  /\ crashes' = crashes + 1
  /\ mode' = "down"
  /\ current' = NoBatch
  /\ todo' = {}
  /\ UNCHANGED <<manifested, fileVars, manifestVars>>

(* A file that is not VALIDATED yet is found damaged after a crash. *)
Damage(b) ==
  /\ mode = "down"
  /\ crashes > 0
  /\ disk[b] = "final"
  /\ status[b] \in InFlight
  /\ content' = [content EXCEPT ![b] = "bad"]
  /\ UNCHANGED <<processVars, disk, manifestVars, crashes>>

RecoveryStep ==
  \/ ListRecords
  \/ ListOrphans
  \/ FinishRecovery
  \/ \E b \in Batches :
       \/ QuarantineTemporary(b)
       \/ QuarantineRecord(b)
       \/ RegisterOrphan(b)
       \/ QuarantineOrphan(b)
       \/ RecoverDownloaded(b)
       \/ RecoverValidated(b)

BatchFlushStep ==
  \E b \in Batches :
    \/ RegisterBatch(b)
    \/ WriteTemporary(b)
    \/ Promote(b)
    \/ MarkDownloaded(b)
    \/ Validate(b)
    \/ BatchFlushFails(b)

StoreNext ==
  \/ Start
  \/ RecoveryStep
  \/ BatchFlushStep
  \/ Stop
  \/ Crash
  \/ \E b \in Batches : Damage(b)

StoreSpec == StoreInit /\ [][StoreNext]_storeVars

(***************************************************************************)
(* The operator starts the recorder again whenever it is down, and a run   *)
(* that is neither killed nor stopped goes on.                             *)
(***************************************************************************)
StoreFairness == WF_storeVars(Start) /\ WF_storeVars(RecoveryStep) /\ WF_storeVars(BatchFlushStep)

FairStoreSpec == StoreSpec /\ StoreFairness

-----------------------------------------------------------------------------
(* Properties. *)

(* Every variable has its type. *)
StoreTypeOK ==
  /\ mode \in Modes
  /\ current \in Batches \cup {NoBatch}
  /\ todo \subseteq Batches
  /\ manifested \subseteq Batches
  /\ disk \in [Batches -> {"absent", "tmp", "final", "quarantine"}]
  /\ content \in [Batches -> {"good", "bad"}]
  /\ status \in [Batches -> DataFileStatus \cup {"none"}]
  /\ checksum \in [Batches -> {"none", "good", "bad"}]
  /\ checkpoint \in [Streams -> Batches \cup {NoBatch}]
  /\ crashes \in 0..MaxCrashes

(* README.md: the checkpoint changes only after the atomic promotion and   *)
(* the VALIDATED row.  Whatever crashed in between, a checkpoint names a   *)
(* visible batch of its own stream.                                        *)
CheckpointIsVisible ==
  \A s \in Streams :
    checkpoint[s] # NoBatch =>
      /\ status[checkpoint[s]] = "VALIDATED"
      /\ StreamOf[checkpoint[s]] = s

(* A VALIDATED row has its file in place, readable, with the checksum of   *)
(* what is on disk: the writer records the checksum one transaction before *)
(* it validates, recovery computes it anew, and a crash with a damaged     *)
(* file between the two must not let an old checksum through.              *)
ValidatedIsDurable ==
  \A b \in Batches :
    status[b] = "VALIDATED" =>
      disk[b] = "final" /\ content[b] = "good" /\ checksum[b] = "good"

(* docs/operations.md: after a crash between the rename and the manifest   *)
(* the restart validates and promotes the file.  When a run starts, no     *)
(* temporary and no file in flight or without a row is left over: each     *)
(* file in place is VALIDATED, or its row says that it FAILED or was       *)
(* QUARANTINED.  Only the batch being flushed may be on its way.           *)
RecoveryLeavesNothingBehind ==
  mode = "running" =>
    \A b \in Batches \ {current} :
      /\ disk[b] # "tmp"
      /\ disk[b] = "final" => status[b] \in {"VALIDATED", "FAILED", "QUARANTINED"}

(* Readers see VisibleBatches: row and checkpoint change together, a batch *)
(* is published once, by the writer or by a recovery, and never withdrawn. *)
AbstractStore == INSTANCE VisibleBatches
              WITH visible <- {b \in Batches : status[b] = "VALIDATED"}
VisibleBatches == AbstractStore!Spec

(* A readable file that reached its final name and has no verdict yet is   *)
(* validated, or found damaged, if the recorder is started again and       *)
(* crashes finitely often: recovery does not get stuck on other files and  *)
(* no crash inside recovery makes it forget one.                           *)
PromotedIsRecovered ==
  \A b \in Batches :
    (disk[b] = "final" /\ status[b] \in InFlight \cup {"none"}) ~>
      (disk[b] = "quarantine" \/ status[b] \in {"VALIDATED", "FAILED", "QUARANTINED"})

(* data/state_store.py on validate_stream_file_with_checkpoint: "make a    *)
(* downloaded stream file visible and advance its checkpoint".             *)
CheckpointAdvances ==
  [][\A s \in Streams :
       checkpoint[s] # NoBatch =>
         LastReceived[checkpoint'[s]] >= LastReceived[checkpoint[s]]]_storeVars
=============================================================================

--------------------------- MODULE ArchiveDownload ---------------------------
(***************************************************************************)
(* The backfill command: data/archive_client.py (ArchiveDownloader) on     *)
(* data/state_store.py, with the job of cli.py (_run_kline_backfill).      *)
(*                                                                         *)
(* A step is one transaction of the manifest, one rename, or one HTTP      *)
(* exchange, since the process can die between any two of them.  The venue *)
(* may replace a published archive at any time.  One backfill runs at a    *)
(* time.                                                                   *)
(***************************************************************************)
EXTENDS ArchiveStore

At(d, pc) == command = "running" /\ task[d].pc = pc
Goto(d, pc) == task' = [task EXCEPT ![d].pc = pc]

-----------------------------------------------------------------------------
(* transition_data_file on the row of a raw archive; a refused transition  *)
(* raises InvalidStateTransition, which _guarded_download catches.         *)
Transition(d, new, sum, next) ==
  IF CanTransition(rawStatus[d], new)
  THEN /\ rawStatus' = [rawStatus EXCEPT ![d] = new]
       /\ rawSum' = [rawSum EXCEPT ![d] = IF sum = NoFile THEN @ ELSE sum]
       /\ task' = [task EXCEPT ![d].pc = next, ![d].rec = new]
  ELSE Goto(d, "failing") /\ UNCHANGED rawRow

(* The job row and the tasks of asyncio.gather. *)
StartBackfill ==
  /\ command = "down"
  /\ Overlap \/ norm.pc = "down"
  /\ command' = "created"
  /\ job' = "PENDING"
  /\ task' = [d \in Days |-> [Idle EXCEPT !.pc = "waiting"]]
  /\ UNCHANGED <<remoteVars, rawRow, rawFiles, part, faults, normVars>>

RunJob ==
  /\ command = "created"
  /\ command' = "running"
  /\ job' = "RUNNING"
  /\ UNCHANGED <<remoteVars, rawRow, rawFiles, part, task, faults, normVars>>

(* Mutant of FinishJob: failed targets are not counted. *)
FinishJobAnyway ==
  /\ command = "running"
  /\ \A d \in Days : task[d].pc \in Finished
  /\ job' = "COMPLETED"
  /\ command' = "down"
  /\ task' = [d \in Days |-> Idle]
  /\ UNCHANGED <<remoteVars, rawRow, rawFiles, part, faults, normVars>>

FinishJob ==
  /\ command = "running"
  /\ \A d \in Days : task[d].pc \in Finished
  /\ job' = IF \E d \in Days : task[d].pc = "failed" THEN "FAILED" ELSE "COMPLETED"
  /\ command' = "down"
  /\ task' = [d \in Days |-> Idle]
  /\ UNCHANGED <<remoteVars, rawRow, rawFiles, part, faults, normVars>>

(* The semaphore admits a task, INSERT OR IGNORE keeps the row of a day. *)
Active == {d \in Days : task[d].pc \notin {"idle", "waiting"} \cup Finished}

RegisterRaw(d) ==
  /\ At(d, "waiting")
  /\ Cardinality(Active) < MaxConcurrency
  /\ rawStatus' = [rawStatus EXCEPT ![d] = IF @ = "none" THEN "DOWNLOADING" ELSE @]
  /\ task' = [task EXCEPT ![d].pc = "local", ![d].rec = rawStatus'[d]]
  /\ UNCHANGED <<remoteVars, rawSum, rawFiles, part, command, job, faults, normVars>>

-----------------------------------------------------------------------------
(* What is on disk from before. *)

(* Mutant of CanExtract: the members of the ZIP are not checked. *)
CanExtractAny(d) == IF csv[d] # NoFile THEN csv[d] # Damaged ELSE zip[d] \in Versions

(* validate_and_extract_kline_archive: an extracted CSV is read again, not *)
(* extracted again, and never compared with the archive.                   *)
CanExtract(d) == IF csv[d] # NoFile THEN csv[d] # Damaged ELSE zip[d] \in Versions \ Unusable
ExtractInto(d) == csv' = [csv EXCEPT ![d] = IF @ = NoFile THEN zip[d] ELSE @]

LocalValid(d) == sums[d] \in Versions /\ zip[d] = sums[d] /\ CanExtract(d)
LocalFiles(d) == zip[d] # NoFile \/ sums[d] # NoFile \/ csv[d] # NoFile

ValidateLocal(d) ==
  /\ At(d, "local")
  /\ LocalValid(d)
  /\ ExtractInto(d)
  /\ task' = [task EXCEPT ![d].pc = "promote", ![d].exp = sums[d]]
  /\ UNCHANGED <<remoteVars, rawRow, zip, sums, part, command, job, faults, normVars>>

(* Mutant of RejectLocal: what does not agree stays where it is. *)
RejectKeeping(d) ==
  /\ At(d, "local")
  /\ ~LocalValid(d)
  /\ Goto(d, IF task[d].rec \in {"FAILED", "QUARANTINED"} THEN "reopen" ELSE "sums")
  /\ UNCHANGED <<remoteVars, rawRow, rawFiles, part, command, job, faults, normVars>>

RejectLocal(d) ==
  /\ At(d, "local")
  /\ ~LocalValid(d)
  /\ Goto(d, IF LocalFiles(d) THEN "stale"
             ELSE IF task[d].rec \in {"FAILED", "QUARANTINED"} THEN "reopen"
             ELSE "sums")
  /\ UNCHANGED <<remoteVars, rawRow, rawFiles, part, command, job, faults, normVars>>

(* _quarantine_existing: one rename after the other. *)
QuarantineFile(d) ==
  /\ At(d, "stale")
  /\ zip' = [zip EXCEPT ![d] = NoFile]
  /\ sums' = [sums EXCEPT ![d] = IF zip[d] # NoFile THEN @ ELSE NoFile]
  /\ csv' = [csv EXCEPT ![d] = IF zip[d] # NoFile \/ sums[d] # NoFile THEN @ ELSE NoFile]
  /\ Goto(d, IF sums'[d] # NoFile \/ csv'[d] # NoFile THEN "stale"
             ELSE IF task[d].rec \in {"FAILED", "QUARANTINED"} THEN "reopen"
             ELSE "mark")
  /\ UNCHANGED <<remoteVars, rawRow, part, command, job, faults, normVars>>

MarkQuarantined(d) ==
  /\ At(d, "mark")
  /\ Transition(d, "QUARANTINED", NoFile, "reopen")
  /\ UNCHANGED <<remoteVars, rawFiles, part, command, job, faults, normVars>>

Reopen(d) ==
  /\ At(d, "reopen")
  /\ Transition(d, "DOWNLOADING", NoFile, "sums")
  /\ UNCHANGED <<remoteVars, rawFiles, part, command, job, faults, normVars>>

(* Mutant of Promote: a row that failed before is not opened again. *)
PromoteOpenRows(d) ==
  /\ At(d, "promote")
  /\ \/ task[d].rec = "DOWNLOADING" /\ Transition(d, "DOWNLOADED", task[d].exp, "promote")
     \/ task[d].rec \in {"DOWNLOADED", "VALIDATED"} /\ Transition(d, "VALIDATED", task[d].exp, "done")
     \/ /\ task[d].rec \notin {"DOWNLOADING", "DOWNLOADED", "VALIDATED"}
        /\ Goto(d, "done") /\ UNCHANGED rawRow
  /\ UNCHANGED <<remoteVars, rawFiles, part, command, job, faults, normVars>>

(* _promote_manifest_to_validated, from the status read at registration. *)
Promote(d) ==
  /\ At(d, "promote")
  /\ \/ task[d].rec \in {"FAILED", "QUARANTINED"} /\ Transition(d, "DOWNLOADING", NoFile, "promote")
     \/ task[d].rec = "DOWNLOADING" /\ Transition(d, "DOWNLOADED", task[d].exp, "promote")
     \/ task[d].rec \in {"DOWNLOADED", "VALIDATED"} /\ Transition(d, "VALIDATED", task[d].exp, "done")
     \/ /\ task[d].rec \notin {"FAILED", "QUARANTINED", "DOWNLOADING", "DOWNLOADED", "VALIDATED"}
        /\ Goto(d, "done") /\ UNCHANGED rawRow
  /\ UNCHANGED <<remoteVars, rawFiles, part, command, job, faults, normVars>>

-----------------------------------------------------------------------------
(* The download. *)

FetchChecksum(d) ==
  /\ At(d, "sums")
  /\ sums' = [sums EXCEPT ![d] = remote[d]]
  /\ task' = [task EXCEPT ![d].pc = "fetch", ![d].exp = remote[d], ![d].attempt = 1]
  /\ UNCHANGED <<remoteVars, rawRow, zip, csv, part, command, job, faults, normVars>>

(* Not found, malformed, too large, or every attempt used up. *)
ChecksumUnavailable(d) ==
  /\ At(d, "sums")
  /\ Goto(d, "failing")
  /\ UNCHANGED <<remoteVars, rawRow, rawFiles, part, command, job, faults, normVars>>

PartComplete(d) == task[d].attempt = 1 /\ part[d] = [of |-> task[d].exp, full |-> TRUE]

(* A .part that already has the expected checksum is not downloaded again. *)
AdoptPart(d) ==
  /\ At(d, "fetch")
  /\ PartComplete(d)
  /\ zip' = [zip EXCEPT ![d] = task[d].exp]
  /\ part' = [part EXCEPT ![d] = NoPart]
  /\ Goto(d, "save")
  /\ UNCHANGED <<remoteVars, rawRow, sums, csv, command, job, faults, normVars>>

Requesting(d) == At(d, "fetch") /\ ~PartComplete(d)

(* The next round of the loop, or ArchiveError after the last. *)
Retry(d) ==
  task' = [task EXCEPT ![d].pc = IF task[d].attempt < MaxAttempts THEN "fetch" ELSE "failing",
                       ![d].attempt = IF @ < MaxAttempts THEN @ + 1 ELSE @]

(* 404, another status, a Content-Range that does not fit. *)
ArchiveRefused(d) ==
  /\ Requesting(d)
  /\ Goto(d, "failing")
  /\ UNCHANGED <<remoteVars, rawRow, rawFiles, part, command, job, faults, normVars>>

(* 429, 5xx, a connection error or a timeout before the body. *)
ArchiveBusy(d) ==
  /\ Requesting(d)
  /\ Retry(d)
  /\ UNCHANGED <<remoteVars, rawRow, rawFiles, part, command, job, faults, normVars>>

(* 416: the .part has at least as many bytes as the archive. *)
RangeNotSatisfiable(d) ==
  /\ Requesting(d)
  /\ part[d].full
  /\ part' = [part EXCEPT ![d] = NoPart]
  /\ Retry(d)
  /\ UNCHANGED <<remoteVars, rawRow, rawFiles, command, job, faults, normVars>>

(* What is in the .part after a 206, which appends, or a 200, which writes *)
(* from the start: bytes of two versions make neither of them.             *)
Received(d, resumed, complete) ==
  [of |-> IF resumed /\ part[d].of # remote[d] THEN Mixed ELSE remote[d], full |-> complete]

CanResume(d) == part[d] # NoPart /\ part[d] # [of |-> remote[d], full |-> TRUE]

ReceiveBody(d, resumed) ==
  /\ Requesting(d)
  /\ resumed => CanResume(d)
  /\ part' = [part EXCEPT ![d] = Received(d, resumed, TRUE)]
  /\ Goto(d, "check")
  /\ UNCHANGED <<remoteVars, rawRow, rawFiles, command, job, faults, normVars>>

(* The connection breaks in the body; what came so far stays in the .part. *)
BodyBreaks(d, resumed) ==
  /\ Requesting(d)
  /\ resumed => CanResume(d)
  /\ part' = [part EXCEPT ![d] = Received(d, resumed, FALSE)]
  /\ Retry(d)
  /\ UNCHANGED <<remoteVars, rawRow, rawFiles, command, job, faults, normVars>>

(* Mutant of CheckPart: the checksum is not compared after a resume. *)
CheckNothing(d) ==
  /\ At(d, "check")
  /\ part' = [part EXCEPT ![d] = NoPart]
  /\ zip' = [zip EXCEPT ![d] = part[d].of]
  /\ Goto(d, "save")
  /\ UNCHANGED <<remoteVars, rawRow, sums, csv, command, job, faults, normVars>>

(* The .part becomes the archive only with the checksum of the CHECKSUM    *)
(* file; otherwise it is quarantined.                                      *)
CheckPart(d) ==
  /\ At(d, "check")
  /\ part' = [part EXCEPT ![d] = NoPart]
  /\ IF part[d].of = task[d].exp
     THEN zip' = [zip EXCEPT ![d] = task[d].exp] /\ Goto(d, "save")
     ELSE zip' = zip /\ Retry(d)
  /\ UNCHANGED <<remoteVars, rawRow, sums, csv, command, job, faults, normVars>>

SaveDownloaded(d) ==
  /\ At(d, "save")
  /\ Transition(d, "DOWNLOADED", task[d].exp, "extract")
  /\ UNCHANGED <<remoteVars, rawFiles, part, command, job, faults, normVars>>

Extract(d) ==
  /\ At(d, "extract")
  /\ IF CanExtract(d) THEN ExtractInto(d) /\ Goto(d, "validate")
     ELSE UNCHANGED csv /\ Goto(d, "failing")
  /\ UNCHANGED <<remoteVars, rawRow, zip, sums, part, command, job, faults, normVars>>

SaveValidated(d) ==
  /\ At(d, "validate")
  /\ Transition(d, "VALIDATED", task[d].exp, "done")
  /\ UNCHANGED <<remoteVars, rawFiles, part, command, job, faults, normVars>>

(* The handler of _guarded_download. *)
FailRaw(d) ==
  /\ At(d, "failing")
  /\ rawStatus' = [rawStatus EXCEPT ![d] = IF CanTransition(@, "FAILED") THEN "FAILED" ELSE @]
  /\ Goto(d, "failed")
  /\ UNCHANGED <<remoteVars, rawSum, rawFiles, part, command, job, faults, normVars>>

-----------------------------------------------------------------------------
(* The environment. *)

Replace(d, v) ==
  /\ replacements < MaxReplacements
  /\ v # remote[d]
  /\ remote' = [remote EXCEPT ![d] = v]
  /\ replacements' = replacements + 1
  /\ UNCHANGED <<rawRow, rawFiles, part, command, job, task, faults, normVars>>

(* The process dies or Ctrl+C; the job stays as it is. *)
CrashBackfill ==
  /\ command # "down"
  /\ faults < MaxFaults
  /\ faults' = faults + 1
  /\ command' = "down"
  /\ task' = [d \in Days |-> Idle]
  /\ UNCHANGED <<remoteVars, rawRow, rawFiles, part, job, normVars>>

(* A file is damaged while no backfill runs. *)
DamageRaw(d) ==
  /\ command = "down"
  /\ faults < MaxFaults
  /\ faults' = faults + 1
  /\ \/ /\ zip[d] # NoFile
        /\ zip' = [zip EXCEPT ![d] = Damaged]
        /\ UNCHANGED csv
     \/ /\ csv[d] # NoFile
        /\ csv' = [csv EXCEPT ![d] = Damaged]
        /\ UNCHANGED zip
  /\ UNCHANGED <<remoteVars, rawRow, sums, part, command, job, task, normVars>>

-----------------------------------------------------------------------------
LocalStep(d) ==
  \/ RegisterRaw(d) \/ ValidateLocal(d) \/ RejectLocal(d) \/ QuarantineFile(d)
  \/ MarkQuarantined(d) \/ Reopen(d) \/ Promote(d) \/ AdoptPart(d) \/ CheckPart(d)
  \/ SaveDownloaded(d) \/ Extract(d) \/ SaveValidated(d) \/ FailRaw(d)

NetworkFails(d) ==
  \/ ChecksumUnavailable(d) \/ ArchiveRefused(d) \/ ArchiveBusy(d) \/ RangeNotSatisfiable(d)
  \/ \E resumed \in BOOLEAN : BodyBreaks(d, resumed)

NetworkServes(d) ==
  \/ FetchChecksum(d)
  \/ \E resumed \in BOOLEAN : ReceiveBody(d, resumed)
=============================================================================

-------------------------- MODULE KlineNormalization --------------------------
(***************************************************************************)
(* The normalise command (data/normalize.py, data/catalog.py, cli.py       *)
(* data_normalize) and the quality gate (data/quality.py): processes of    *)
(* their own that share raw_archives and the manifest with the backfill.   *)
(* A canonical Parquet file has the checksum prefix of the raw row in its  *)
(* name; its manifest row is found by the id of the raw file alone.        *)
(***************************************************************************)
EXTENDS ArchiveDownload

Normalizing(d, pc) == norm.pc = pc /\ norm.day = d
NormGoto(pc) == norm' = [norm EXCEPT !.pc = pc]
Name(d) == norm.raw[d].sum

-----------------------------------------------------------------------------
(* list_data_files(statuses = {VALIDATED, NORMALIZED}). *)
StartNormalize ==
  /\ norm.pc = "down"
  /\ Overlap \/ command = "down"
  /\ LET listed == {d \in Days : rawStatus[d] \in {"VALIDATED", "NORMALIZED"}} IN
       /\ listed # {}
       /\ norm' = [Down EXCEPT !.pc = "next", !.left = listed,
                    !.raw = [d \in listed |-> [status |-> rawStatus[d], sum |-> rawSum[d]]]]
  /\ UNCHANGED <<archiveVars, bronzeVars>>

NextDay(d) ==
  /\ norm.pc = "next"
  /\ d \in norm.left
  /\ norm' = [norm EXCEPT !.pc = "open", !.day = d, !.left = @ \ {d},
                          !.held = NoFile, !.out = "none"]
  /\ UNCHANGED <<archiveVars, bronzeVars>>

(* rebuild_kline_catalog from what is NORMALIZED by then. *)
FinishNormalize ==
  /\ norm.pc = "next"
  /\ norm.left = {}
  /\ norm' = Down
  /\ LET normalized == {d \in Days : bronzeStatus[d] = "NORMALIZED"} IN
       catalog' = IF normalized # {} /\ \A d \in normalized : bronze[d][bronzeName[d]] # Damaged
                  THEN normalized ELSE catalog
  /\ UNCHANGED <<archiveVars, bronzeStatus, bronzeName, bronzeSum, bronze, verdicts>>

(* The CSV is extracted from whatever archive is there if it is missing. *)
OpenArchive(d) ==
  /\ Normalizing(d, "open")
  /\ IF csv[d] # NoFile THEN NormGoto("read")
     ELSE IF zip[d] \in Versions \ Unusable
     THEN norm' = [norm EXCEPT !.pc = "extract", !.held = zip[d]]
     ELSE NormGoto("next")
  /\ UNCHANGED <<archiveVars, bronzeVars>>

ExtractCsv(d) ==
  /\ Normalizing(d, "extract")
  /\ csv' = [csv EXCEPT ![d] = norm.held]
  /\ NormGoto("read")
  /\ UNCHANGED <<remoteVars, rawRow, zip, sums, part, command, job, task, faults, bronzeVars>>

ReadCsv(d) ==
  /\ Normalizing(d, "read")
  /\ IF csv[d] \in {NoFile, Damaged} THEN NormGoto("next")
     ELSE norm' = [norm EXCEPT !.pc = "register", !.held = csv[d]]
  /\ UNCHANGED <<archiveVars, bronzeVars>>

AfterRow(status) ==
  IF status = "NORMALIZED" THEN "verify"
  ELSE IF status \in {"FAILED", "QUARANTINED"} THEN "reopen"
  ELSE "write"

(* Mutant of RegisterBronze: a row that exists gets the new path. *)
UpsertBronze(d) ==
  /\ Normalizing(d, "register")
  /\ IF bronzeStatus[d] = "none"
     THEN bronzeStatus' = [bronzeStatus EXCEPT ![d] = "DOWNLOADING"]
     ELSE UNCHANGED bronzeStatus
  /\ bronzeName' = [bronzeName EXCEPT ![d] = Name(d)]
  /\ norm' = [norm EXCEPT !.out = bronzeStatus'[d], !.pc = AfterRow(bronzeStatus'[d])]
  /\ UNCHANGED <<archiveVars, bronzeSum, bronze, verdicts, catalog>>

(* INSERT OR IGNORE by the id of the raw file; a row with another path is  *)
(* a "file id collision".                                                  *)
RegisterBronze(d) ==
  /\ Normalizing(d, "register")
  /\ IF bronzeStatus[d] = "none"
     THEN /\ bronzeStatus' = [bronzeStatus EXCEPT ![d] = "DOWNLOADING"]
          /\ bronzeName' = [bronzeName EXCEPT ![d] = Name(d)]
     ELSE UNCHANGED <<bronzeStatus, bronzeName>>
  /\ norm' = [norm EXCEPT !.out = bronzeStatus'[d],
                          !.pc = IF bronzeName'[d] # Name(d) THEN "failing"
                                 ELSE AfterRow(bronzeStatus'[d])]
  /\ UNCHANGED <<archiveVars, bronzeSum, bronze, verdicts, catalog>>

(* A rerun: the file must still have the checksum of the row; of the new   *)
(* data only the number of rows is compared.                               *)
Height(v) == Len(Canonical(Rows[v]))

VerifyBronze(d) ==
  /\ Normalizing(d, "verify")
  /\ NormGoto(IF bronze[d][Name(d)] = bronzeSum[d] /\ Height(norm.held) = Height(bronzeSum[d])
              THEN "raw" ELSE "failing")
  /\ UNCHANGED <<archiveVars, bronzeVars>>

ReopenBronze(d) ==
  /\ Normalizing(d, "reopen")
  /\ bronzeStatus' = [bronzeStatus EXCEPT ![d] = "DOWNLOADING"]
  /\ norm' = [norm EXCEPT !.out = "DOWNLOADING", !.pc = "write"]
  /\ UNCHANGED <<archiveVars, bronzeName, bronzeSum, bronze, verdicts, catalog>>

(* write_parquet_atomic: same data is accepted, other data refused, and a  *)
(* file that cannot be read raises what nobody catches.                    *)
WriteBronze(d) ==
  /\ Normalizing(d, "write")
  /\ bronze' = [bronze EXCEPT ![d][Name(d)] = IF @ = NoFile THEN norm.held ELSE @]
  /\ IF bronze'[d][Name(d)] = norm.held THEN NormGoto("save")
     ELSE IF bronze[d][Name(d)] = Damaged THEN norm' = Down
     ELSE NormGoto("failing")
  /\ UNCHANGED <<archiveVars, bronzeStatus, bronzeName, bronzeSum, verdicts, catalog>>

NextStatus == [DOWNLOADING |-> "DOWNLOADED", DOWNLOADED |-> "VALIDATED", VALIDATED |-> "NORMALIZED"]

(* Up to NORMALIZED in a transaction each. *)
SaveBronze(d) ==
  /\ Normalizing(d, "save")
  /\ bronzeStatus' = [bronzeStatus EXCEPT ![d] = NextStatus[norm.out]]
  /\ bronzeSum' = [bronzeSum EXCEPT ![d] = norm.held]
  /\ norm' = [norm EXCEPT !.out = NextStatus[@],
                          !.pc = IF NextStatus[norm.out] = "NORMALIZED" THEN "raw" ELSE "save"]
  /\ UNCHANGED <<archiveVars, bronzeName, bronze, verdicts, catalog>>

(* The raw row follows if it was VALIDATED when it was listed. *)
MarkRawNormalized(d) ==
  /\ Normalizing(d, "raw")
  /\ IF norm.raw[d].status = "VALIDATED"
     THEN IF CanTransition(rawStatus[d], "NORMALIZED")
          THEN rawStatus' = [rawStatus EXCEPT ![d] = "NORMALIZED"] /\ NormGoto("next")
          ELSE UNCHANGED rawStatus /\ NormGoto("failing")
     ELSE UNCHANGED rawStatus /\ NormGoto("next")
  /\ UNCHANGED <<remoteVars, rawSum, rawFiles, part, command, job, task, faults, bronzeVars>>

(* Mutant of FailBronze: a failed rerun takes a normalised day back. *)
FailAnyBronze(d) ==
  /\ Normalizing(d, "failing")
  /\ bronzeStatus' = [bronzeStatus EXCEPT ![d] = "FAILED"]
  /\ NormGoto("next")
  /\ UNCHANGED <<archiveVars, bronzeName, bronzeSum, bronze, verdicts, catalog>>

FailBronze(d) ==
  /\ Normalizing(d, "failing")
  /\ bronzeStatus' = [bronzeStatus EXCEPT ![d] =
                        IF @ \in {"FAILED", "QUARANTINED", "NORMALIZED"} THEN @ ELSE "FAILED"]
  /\ NormGoto("next")
  /\ UNCHANGED <<archiveVars, bronzeName, bronzeSum, bronze, verdicts, catalog>>

CrashNormalize ==
  /\ norm.pc # "down"
  /\ faults < MaxFaults
  /\ faults' = faults + 1
  /\ norm' = Down
  /\ UNCHANGED <<remoteVars, rawRow, rawFiles, part, command, job, task, bronzeVars>>

DamageBronze(d, v) ==
  /\ norm.pc = "down"
  /\ faults < MaxFaults
  /\ faults' = faults + 1
  /\ bronze[d][v] \notin {NoFile, Damaged}
  /\ bronze' = [bronze EXCEPT ![d][v] = Damaged]
  /\ UNCHANGED <<remoteVars, rawRow, rawFiles, part, command, job, task,
                 bronzeStatus, bronzeName, bronzeSum, verdicts, catalog, norm>>

(* audit_kline_files: a result is inserted once and never replaced; a file *)
(* that cannot be read ends the audit.                                     *)
AuditBronze(d) ==
  /\ bronzeStatus[d] = "NORMALIZED"
  /\ bronze[d][bronzeName[d]] \in Versions
  /\ LET passed == /\ bronze[d][bronzeName[d]] = bronzeSum[d]
                   /\ FramePasses(Canonical(Rows[bronze[d][bronzeName[d]]]))
     IN verdicts' = [verdicts EXCEPT ![d] = @ \cup {passed}]
  /\ UNCHANGED <<archiveVars, bronzeStatus, bronzeName, bronzeSum, bronze, catalog, norm>>

-----------------------------------------------------------------------------
DayStep(d) ==
  \/ NextDay(d) \/ OpenArchive(d) \/ ExtractCsv(d) \/ ReadCsv(d) \/ RegisterBronze(d)
  \/ VerifyBronze(d) \/ ReopenBronze(d) \/ WriteBronze(d) \/ SaveBronze(d)
  \/ MarkRawNormalized(d) \/ FailBronze(d)

-----------------------------------------------------------------------------
(* The historical plane: the backfill, the normalise command and the       *)
(* quality gate as processes next to each other, with a venue that may     *)
(* replace archives and a network that may fail.                           *)
BackfillStep == RunJob \/ FinishJob \/ \E d \in Days : LocalStep(d)
NormalizeStep == FinishNormalize \/ \E d \in Days : DayStep(d)

Next ==
  \/ StartBackfill
  \/ BackfillStep
  \/ StartNormalize
  \/ NormalizeStep
  \/ \E d \in Days :
       \/ NetworkFails(d)
       \/ NetworkServes(d)
       \/ AuditBronze(d)
       \/ DamageRaw(d)
       \/ \E v \in Versions : Replace(d, v) \/ DamageBronze(d, v)
  \/ CrashBackfill
  \/ CrashNormalize

Spec == Init /\ [][Next]_vars

(***************************************************************************)
(* The operator repeats the two commands until everything is there, as     *)
(* docs/operations.md tells, and a command that is not killed goes on.     *)
(* Every request that is repeated for ever is answered in full at some     *)
(* time, although any number of them may fail before.                      *)
(***************************************************************************)
Fairness ==
  /\ SF_vars(StartBackfill) /\ WF_vars(BackfillStep)
  /\ SF_vars(StartNormalize) /\ WF_vars(NormalizeStep)
  /\ \A d \in Days :
       /\ SF_vars(FetchChecksum(d))
       /\ SF_vars(\E resumed \in BOOLEAN : ReceiveBody(d, resumed))

FairSpec == Spec /\ Fairness
===============================================================================

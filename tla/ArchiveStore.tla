----------------------------- MODULE ArchiveStore -----------------------------
(***************************************************************************)
(* What the backfill and the normalise command share: the venue, the raw   *)
(* archives, canonical Parquet files and manifest rows of the targets.     *)
(*                                                                         *)
(* A target is a day.  The content of an archive is the version that the   *)
(* venue published; a CHECKSUM file and the checksum of a row name a       *)
(* version too.                                                            *)
(***************************************************************************)
EXTENDS FileManifest, KlineFrames

CONSTANTS
  Days,             \* the targets of the backfill
  Versions,         \* contents of an archive the venue may publish
  Unusable,         \* those whose ZIP or CSV is rejected although the checksum agrees
  Rows,             \* the rows of the CSV of a version
  NoFile, Damaged, Mixed,
  MaxConcurrency,   \* archives.max_concurrency
  MaxAttempts,      \* archives.max_attempts
  MaxReplacements,  \* bound on the archives the venue replaces
  MaxFaults,        \* bound on crashes, Ctrl+C and damaged files
  Overlap           \* whether normalise runs next to a backfill

ASSUME ArchiveAssumption ==
  /\ Unusable \subseteq Versions
  /\ NoFile \notin Versions /\ Damaged \notin Versions /\ Mixed \notin Versions
  /\ NoFile # Damaged /\ NoFile # Mixed /\ Damaged # Mixed
  /\ MaxConcurrency \in Nat \ {0}
  /\ MaxAttempts \in Nat \ {0}
  /\ MaxReplacements \in Nat
  /\ MaxFaults \in Nat
  /\ Overlap \in BOOLEAN
(* The rows of a usable archive are cast: integer times, checked values.  *)
ASSUME RowsAssumption == \A v \in Versions \ Unusable : Rows[v] \in Seq([t : Int, ok : BOOLEAN])

VARIABLES
  remote,        \* the version at the venue
  replacements,  \* how many archives the venue has replaced
  rawStatus,     \* data_files.status of the raw archive, or "none" without a row
  rawSum,        \* its checksum
  zip,           \* the archive in raw_archives
  sums,          \* its CHECKSUM file
  csv,           \* the extracted CSV
  part,          \* the .part file: whose bytes it has and whether it has all of them
  command,       \* the backfill process
  job,           \* status of the last backfill job
  task,          \* where _guarded_download is, per day
  faults,
  bronzeStatus,  \* data_files.status of the Parquet file, or "none"
  bronzeName,    \* the checksum in the path of its row
  bronzeSum,     \* its checksum: the version whose rows were hashed
  bronze,        \* the rows in the file at a path, by the checksum in its name
  verdicts,      \* quality_results of the Parquet file
  catalog,       \* the days in the view klines of DuckDB
  norm           \* the normalise process

remoteVars == <<remote, replacements>>
rawRow == <<rawStatus, rawSum>>
rawFiles == <<zip, sums, csv>>
archiveVars == <<remoteVars, rawRow, rawFiles, part, command, job, task, faults>>
bronzeVars == <<bronzeStatus, bronzeName, bronzeSum, bronze, verdicts, catalog>>
normVars == <<bronzeVars, norm>>
vars == <<archiveVars, normVars>>

NoPart == [of |-> NoFile, full |-> FALSE]
Idle == [pc |-> "idle", rec |-> "none", exp |-> NoFile, attempt |-> 0]
Finished == {"done", "failed"}

(* raw holds the records that list_data_files returned, left the days to do. *)
Down == [pc |-> "down", day |-> NoFile, left |-> {}, raw |-> <<>>, held |-> NoFile, out |-> "none"]

Init ==
  /\ remote \in [Days -> Versions]
  /\ replacements = 0
  /\ rawStatus = [d \in Days |-> "none"]
  /\ rawSum = [d \in Days |-> NoFile]
  /\ zip = [d \in Days |-> NoFile]
  /\ sums = [d \in Days |-> NoFile]
  /\ csv = [d \in Days |-> NoFile]
  /\ part = [d \in Days |-> NoPart]
  /\ command = "down"
  /\ job = "none"
  /\ task = [d \in Days |-> Idle]
  /\ faults = 0
  /\ bronzeStatus = [d \in Days |-> "none"]
  /\ bronzeName = [d \in Days |-> NoFile]
  /\ bronzeSum = [d \in Days |-> NoFile]
  /\ bronze = [d \in Days |-> [v \in Versions |-> NoFile]]
  /\ verdicts = [d \in Days |-> {}]
  /\ catalog = {}
  /\ norm = Down
=============================================================================

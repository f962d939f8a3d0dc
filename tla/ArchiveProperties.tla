-------------------------- MODULE ArchiveProperties --------------------------
(***************************************************************************)
(* What must hold of archives and canonical klines (KlineNormalization).   *)
(***************************************************************************)
EXTENDS KlineNormalization

Contents == Versions \cup {NoFile, Damaged}
TaskStates ==
  {"idle", "waiting", "local", "stale", "mark", "reopen", "promote", "sums", "fetch", "check",
   "save", "extract", "validate", "failing"} \cup Finished
NormStates ==
  {"down", "next", "open", "extract", "read", "register", "verify", "reopen", "write", "save",
   "raw", "failing"}
FileStatus == DataFileStatus \cup {"none"}

(* Every variable has its type. *)
TypeOK ==
  /\ remote \in [Days -> Versions]
  /\ replacements \in 0..MaxReplacements
  /\ rawStatus \in [Days -> FileStatus]
  /\ rawSum \in [Days -> Versions \cup {NoFile}]
  /\ zip \in [Days -> Contents]
  /\ sums \in [Days -> Versions \cup {NoFile}]
  /\ csv \in [Days -> Contents \ Unusable]
  /\ part \in [Days -> [of : Versions \cup {NoFile, Mixed}, full : BOOLEAN]]
  /\ command \in {"down", "created", "running"}
  /\ job \in {"none", "PENDING", "RUNNING", "COMPLETED", "FAILED"}
  /\ task \in [Days -> [pc : TaskStates, rec : FileStatus,
                        exp : Versions \cup {NoFile}, attempt : 0..MaxAttempts]]
  /\ faults \in 0..MaxFaults
  /\ bronzeStatus \in [Days -> FileStatus]
  /\ bronzeName \in [Days -> Versions \cup {NoFile}]
  /\ bronzeSum \in [Days -> Versions \cup {NoFile}]
  /\ bronze \in [Days -> [Versions -> Contents \ Unusable]]
  /\ verdicts \in [Days -> SUBSET BOOLEAN]
  /\ catalog \in SUBSET Days
  /\ norm.pc \in NormStates /\ norm.left \in SUBSET Days /\ norm.held \in Contents

(* docs/operations.md: "Checksum/ZIP/schema divergente: arquivo nunca      *)
(* chega a VALIDATED".  When a row becomes VALIDATED, the archive, its     *)
(* CHECKSUM file and the extracted CSV are all of the version the row      *)
(* names, whatever the venue, a .part of another version, a restart or a   *)
(* damaged file did before.                                                *)
ValidatedIsVerified ==
  [][\A d \in Days :
       rawStatus'[d] = "VALIDATED" /\ rawStatus[d] # "VALIDATED" =>
         zip'[d] = rawSum'[d] /\ sums'[d] = rawSum'[d] /\ csv'[d] = rawSum'[d]]_vars

(* docs/architecture.md: raw archives are never overwritten.  An archive   *)
(* that a download promoted stays until it is quarantined or damaged, no   *)
(* download replaces it.                                                   *)
RawNotOverwritten ==
  [][\A d \in Days : zip[d] \in Versions => zip'[d] \in {zip[d], NoFile, Damaged}]_vars

(* A job is COMPLETED only if every target is there at that time: a row    *)
(* the normaliser accepts, an archive that its CHECKSUM file matches and   *)
(* a readable CSV.                                                         *)
CompletedIsDelivered ==
  [][job = "RUNNING" /\ job' = "COMPLETED" =>
       \A d \in Days :
         /\ rawStatus[d] \in {"VALIDATED", "NORMALIZED"}
         /\ zip[d] = sums[d] /\ csv[d] \notin {NoFile, Damaged}]_vars

(* docs/architecture.md: the write of canonical files is immutable.  The   *)
(* file of a NORMALIZED row keeps the rows that were hashed, whatever is   *)
(* normalised again from a replaced archive, until the disk damages it.    *)
BronzeIsDurable ==
  \A d \in Days :
    bronzeStatus[d] = "NORMALIZED" => bronze[d][bronzeName[d]] \in {bronzeSum[d], Damaged}

(* The quality gate registers a pass only for a file whose rows are every  *)
(* minute of the day, once and in order, also when the CSV had duplicates  *)
(* or wrong order; and of every set of aligned open times it counts the    *)
(* missing minutes and the holes they form exactly (_gap_metrics).         *)
Minutes == {t \in 0..ExpectedLast : t % Interval = 0}
GapsAreCounted ==
  \A T \in SUBSET Minutes :
    LET holes == {t \in Minutes \ T : t - Interval \in T \/ t = 0} IN
      GapMetrics(T) = [missing |-> Cardinality(Minutes \ T), events |-> Cardinality(holes)]
PassedIsComplete ==
  /\ GapsAreCounted
  /\ \A d \in Days :
       TRUE \in verdicts[d] =>
         LET times == Times(Canonical(Rows[bronzeSum[d]])) IN
           Len(times) = Cardinality(Minutes) /\ ToSet(times) = Minutes

(* Canonical days are served for ever: what DuckDB shows of a day does not *)
(* change when its archive is replaced, normalised again or fails to.      *)
Served == INSTANCE ServedDays
  WITH Usable <- Versions \ Unusable,
       served <- [d \in Days |-> IF bronzeStatus[d] = "NORMALIZED" THEN bronzeSum[d] ELSE NoFile],
       listed <- catalog
ServedForever == Served!Spec

(* docs/operations.md: the same command resumes an interrupted backfill.   *)
(* If the venue keeps a usable archive and no Parquet file is damaged, the *)
(* repeated commands bring the day into the catalogue after any crash,     *)
(* stale .part, damaged archive or failed request.                         *)
Undisturbed ==
  replacements = 0 /\ \A d \in Days : remote[d] \notin Unusable /\ Damaged \notin {bronze[d][v] : v \in Versions}
EventuallyListed == []Undisturbed => <>(catalog = Days)
=============================================================================

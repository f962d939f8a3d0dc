---------------------------- MODULE ArchiveProofs ----------------------------
(***************************************************************************)
(* Proofs about archives and canonical klines, for every number of days,   *)
(* versions, replacements and faults.                                      *)
(***************************************************************************)
EXTENDS ArchiveProperties, FiniteSetTheorems, WellFoundedInduction, TLAPS

USE ArchiveAssumption

-----------------------------------------------------------------------------
(* The inductive invariant: the backfill.                                  *)

TaskRecords ==
  [pc : TaskStates, rec : FileStatus, exp : Versions \cup {NoFile}, attempt : 0..MaxAttempts]

RawTypeInv ==
  /\ remote \in [Days -> Versions]
  /\ replacements \in 0..MaxReplacements
  /\ rawStatus \in [Days -> FileStatus]
  /\ rawSum \in [Days -> Versions \cup {NoFile}]
  /\ zip \in [Days -> Contents]
  /\ sums \in [Days -> Versions \cup {NoFile}]
  /\ csv \in [Days -> Contents \ Unusable]
  /\ part \in [Days -> [of : Versions \cup {NoFile, Mixed}, full : BOOLEAN]]
  /\ command \in {"down", "created", "running"}
  /\ job \in {"none", "PENDING", "RUNNING", "COMPLETED", "FAILED"}
  /\ task \in [Days -> TaskRecords]
  /\ faults \in 0..MaxFaults

(* A task is started by its command and knows what it is to deliver; until *)
(* it has an archive of its own there is none.                             *)
TaskInv(d) ==
  /\ command = "down" => task[d].pc = "idle"
  /\ command # "running" => task[d].pc \in {"idle", "waiting"}
  /\ task[d].pc \in {"fetch", "check", "save", "extract", "validate", "promote"}
       => task[d].exp \in Versions
  /\ task[d].pc \in {"mark", "reopen", "sums", "fetch", "check"} => zip[d] = NoFile
  /\ rawStatus[d] # "COMPACTED"
  /\ rawStatus[d] \in {"VALIDATED", "NORMALIZED"} => rawSum[d] \in Versions

(* Without overlap, a CSV is that of the archive next to it, and what a    *)
(* task has checked stays so until it is done.                             *)
SoloInv(d) ==
  /\ csv[d] \in {NoFile, Damaged} \/ zip[d] \in {csv[d], NoFile, Damaged}
  /\ task[d].pc \in {"mark", "reopen", "sums", "fetch", "check", "save", "extract"}
       => csv[d] = NoFile
  /\ task[d].pc \in {"fetch", "check", "save", "extract", "validate", "promote"}
       => sums[d] = task[d].exp
  /\ task[d].pc \in {"save", "extract", "validate", "promote"} => zip[d] = task[d].exp
  /\ task[d].pc \in {"validate", "promote"} => csv[d] = task[d].exp
  /\ task[d].pc \notin {"idle", "waiting", "failing", "failed"}
       => task[d].rec = rawStatus[d] /\ task[d].rec # "none"
  /\ task[d].pc = "done"
       => /\ rawStatus[d] \in {"VALIDATED", "NORMALIZED"}
          /\ zip[d] = sums[d] /\ csv[d] \notin {NoFile, Damaged}

RawInv ==
  /\ RawTypeInv
  /\ \A d \in Days : TaskInv(d)
  /\ ~Overlap => \A d \in Days : SoloInv(d)

-----------------------------------------------------------------------------
(* Steps of a backfill. *)

LEMMA Distinct ==
  /\ NoFile \notin Versions /\ Damaged \notin Versions /\ Mixed \notin Versions
  /\ NoFile # Damaged /\ NoFile # Mixed /\ Damaged # Mixed
OBVIOUS

(* What transition_data_file accepts. *)
LEMMA Moves ==
  ASSUME NEW from, NEW to, CanTransition(from, to)
  PROVE  /\ from \in DataFileStatus
         /\ to = "NORMALIZED" => from \in {"VALIDATED", "NORMALIZED"}
BY DEF CanTransition, AllowedFileTransitions, DataFileStatus

LEMMA TaskMoves ==
  ASSUME NEW d \in Days, task \in [Days -> TaskRecords]
  PROVE  /\ \A pc \in TaskStates :
              [task EXCEPT ![d].pc = pc] \in [Days -> TaskRecords]
         /\ \A pc \in TaskStates, rec \in FileStatus :
              [task EXCEPT ![d].pc = pc, ![d].rec = rec] \in [Days -> TaskRecords]
         /\ \A pc \in TaskStates, exp \in Versions \cup {NoFile} :
              [task EXCEPT ![d].pc = pc, ![d].exp = exp] \in [Days -> TaskRecords]
         /\ \A pc \in TaskStates, exp \in Versions \cup {NoFile}, attempt \in 0..MaxAttempts :
              [task EXCEPT ![d].pc = pc, ![d].exp = exp, ![d].attempt = attempt] \in [Days -> TaskRecords]
         /\ \A pc \in TaskStates, attempt \in 0..MaxAttempts :
              [task EXCEPT ![d].pc = pc, ![d].attempt = attempt] \in [Days -> TaskRecords]
<1>1. \A r \in TaskRecords : [task EXCEPT ![d] = r] \in [Days -> TaskRecords]
  OBVIOUS
<1>2. ASSUME NEW pc \in TaskStates
     PROVE  [task EXCEPT ![d].pc = pc] \in [Days -> TaskRecords]
  <2>1. [task[d] EXCEPT !.pc = pc] \in TaskRecords
    BY DEF TaskRecords
  <2> QED
    BY <1>1, <2>1
<1>3. ASSUME NEW pc \in TaskStates, NEW rec \in FileStatus
     PROVE  [task EXCEPT ![d].pc = pc, ![d].rec = rec] \in [Days -> TaskRecords]
  <2>1. [task[d] EXCEPT !.pc = pc, !.rec = rec] \in TaskRecords
    BY DEF TaskRecords
  <2> QED
    BY <1>1, <2>1
<1>4. ASSUME NEW pc \in TaskStates, NEW exp \in Versions \cup {NoFile}
     PROVE  [task EXCEPT ![d].pc = pc, ![d].exp = exp] \in [Days -> TaskRecords]
  <2>1. [task[d] EXCEPT !.pc = pc, !.exp = exp] \in TaskRecords
    BY DEF TaskRecords
  <2> QED
    BY <1>1, <2>1
<1>5. ASSUME NEW pc \in TaskStates, NEW exp \in Versions \cup {NoFile}, NEW attempt \in 0..MaxAttempts
     PROVE  [task EXCEPT ![d].pc = pc, ![d].exp = exp, ![d].attempt = attempt] \in [Days -> TaskRecords]
  <2>1. [task[d] EXCEPT !.pc = pc, !.exp = exp, !.attempt = attempt] \in TaskRecords
    BY DEF TaskRecords
  <2> QED
    BY <1>1, <2>1
<1>6. ASSUME NEW pc \in TaskStates, NEW attempt \in 0..MaxAttempts
     PROVE  [task EXCEPT ![d].pc = pc, ![d].attempt = attempt] \in [Days -> TaskRecords]
  <2>1. [task[d] EXCEPT !.pc = pc, !.attempt = attempt] \in TaskRecords
    BY DEF TaskRecords
  <2> QED
    BY <1>1, <2>1
<1> QED
  BY <1>2, <1>3, <1>4, <1>5, <1>6, Zenon

LEMMA Names ==
  /\ {"idle", "waiting", "local", "stale", "mark", "reopen", "promote", "sums", "fetch",
      "check", "save", "extract", "validate", "failing", "done", "failed"} \subseteq TaskStates
  /\ {"none", "DOWNLOADING", "DOWNLOADED", "VALIDATED", "NORMALIZED", "QUARANTINED", "FAILED"}
       \subseteq FileStatus
BY DEF TaskStates, Finished, FileStatus, DataFileStatus

(* A transition either changes row and task as asked or sends the task to  *)
(* its handler.                                                            *)
Effect(d, new, sum, next) ==
  /\ rawStatus' \in [Days -> FileStatus]
  /\ rawSum' \in [Days -> Versions \cup {NoFile}]
  /\ task' \in [Days -> TaskRecords]
  /\ \A e \in Days \ {d} :
       task'[e] = task[e] /\ rawStatus'[e] = rawStatus[e] /\ rawSum'[e] = rawSum[e]
  /\ task'[d].exp = task[d].exp
  /\ \/ /\ CanTransition(rawStatus[d], new)
        /\ rawStatus'[d] = new
        /\ rawSum'[d] = IF sum = NoFile THEN rawSum[d] ELSE sum
        /\ task'[d].pc = next /\ task'[d].rec = new
     \/ /\ rawStatus'[d] = rawStatus[d] /\ rawSum'[d] = rawSum[d]
        /\ task'[d].pc = "failing" /\ task'[d].rec = task[d].rec

LEMMA TransitionEffect ==
  ASSUME RawTypeInv, NEW d \in Days, NEW new \in FileStatus, NEW sum \in Versions \cup {NoFile},
         NEW next \in TaskStates, Transition(d, new, sum, next)
  PROVE  Effect(d, new, sum, next)
<1> USE DEF RawTypeInv, Transition, Effect
<1>1. CASE CanTransition(rawStatus[d], new)
  <2>1. task' = [task EXCEPT ![d].pc = next, ![d].rec = new]
    BY <1>1
  <2>2. task' \in [Days -> TaskRecords]
    BY <2>1, TaskMoves, Zenon
  <2>3. /\ task'[d].pc = next /\ task'[d].rec = new /\ task'[d].exp = task[d].exp
        /\ \A e \in Days \ {d} : task'[e] = task[e]
    BY <2>1 DEF TaskRecords
  <2>4. /\ rawStatus' = [rawStatus EXCEPT ![d] = new]
        /\ rawSum' = [rawSum EXCEPT ![d] = IF sum = NoFile THEN rawSum[d] ELSE sum]
    BY <1>1
  <2>5. /\ rawStatus' \in [Days -> FileStatus] /\ rawStatus'[d] = new
        /\ rawSum' \in [Days -> Versions \cup {NoFile}]
        /\ rawSum'[d] = IF sum = NoFile THEN rawSum[d] ELSE sum
        /\ \A e \in Days \ {d} : rawStatus'[e] = rawStatus[e] /\ rawSum'[e] = rawSum[e]
    BY <2>4
  <2> QED
    BY ONLY <1>1, <2>2, <2>3, <2>5 DEF Effect
<1>2. CASE ~CanTransition(rawStatus[d], new)
  <2>1. task' = [task EXCEPT ![d].pc = "failing"] /\ UNCHANGED <<rawStatus, rawSum>>
    BY <1>2 DEF Goto, rawRow
  <2>2. task' \in [Days -> TaskRecords]
    BY <2>1, TaskMoves, Names, Zenon
  <2>3. /\ task'[d].pc = "failing" /\ task'[d].rec = task[d].rec
        /\ task'[d].exp = task[d].exp
        /\ \A e \in Days \ {d} : task'[e] = task[e]
    BY <2>1 DEF TaskRecords
  <2> QED
    BY <2>1, <2>2, <2>3
<1> QED
  BY <1>1, <1>2

(* The next round of the loop, or the handler. *)
RetryEffect(d) ==
  /\ task' \in [Days -> TaskRecords]
  /\ \A e \in Days \ {d} : task'[e] = task[e]
  /\ task'[d].pc \in {"fetch", "failing"}
  /\ task'[d].rec = task[d].rec /\ task'[d].exp = task[d].exp

LEMMA RetryContinues ==
  ASSUME RawTypeInv, NEW d \in Days, Retry(d)
  PROVE  RetryEffect(d)
<1> DEFINE pc == IF task[d].attempt < MaxAttempts THEN "fetch" ELSE "failing"
           n  == IF task[d].attempt < MaxAttempts THEN task[d].attempt + 1 ELSE task[d].attempt
<1>1. pc \in {"fetch", "failing"} /\ pc \in TaskStates /\ n \in 0..MaxAttempts
  BY Names DEF RawTypeInv, TaskRecords
<1>2. task' = [task EXCEPT ![d] = [task[d] EXCEPT !.pc = pc, !.attempt = n]]
  <2>1. task \in [Days -> TaskRecords]
    BY DEF RawTypeInv
  <2> QED
    BY ONLY <2>1, Retry(d) DEF Retry, TaskRecords
<1> HIDE DEF pc, n
<1>3. [task[d] EXCEPT !.pc = pc, !.attempt = n] \in TaskRecords
  BY <1>1 DEF RawTypeInv, TaskRecords
<1> QED
  BY <1>1, <1>2, <1>3 DEF RawTypeInv, RetryEffect, TaskRecords

LEMMA StartBackfillRaw ==
  ASSUME RawInv, StartBackfill
  PROVE  RawInv'
<1> USE DEF StartBackfill, RawInv, remoteVars, rawRow, rawFiles
<1>1. RawTypeInv'
  <2>1. [Idle EXCEPT !.pc = "waiting"] \in TaskRecords
    BY Names DEF TaskRecords, Idle
  <2> QED
    BY <2>1 DEF RawTypeInv
<1>2. \A d \in Days : TaskInv(d)'
  BY DEF TaskInv, Idle
<1>3. ~Overlap => \A d \in Days : SoloInv(d)'
  BY DEF SoloInv, Idle
<1> QED
  BY <1>1, <1>2, <1>3

LEMMA RunJobRaw ==
  ASSUME RawInv, RunJob
  PROVE  RawInv'
<1> USE DEF RunJob, RawInv, remoteVars, rawRow, rawFiles
<1>1. RawTypeInv'
  BY DEF RawTypeInv
<1>2. \A d \in Days : TaskInv(d)'
  BY DEF TaskInv
<1>3. ~Overlap => \A d \in Days : SoloInv(d)'
  BY DEF SoloInv
<1> QED
  BY <1>1, <1>2, <1>3

LEMMA FinishJobRaw ==
  ASSUME RawInv, FinishJob
  PROVE  RawInv'
<1> USE DEF FinishJob, RawInv, remoteVars, rawRow, rawFiles
<1>1. RawTypeInv'
  BY Names DEF RawTypeInv, TaskRecords, Idle
<1>2. \A d \in Days : TaskInv(d)'
  BY DEF TaskInv, Idle
<1>3. ~Overlap => \A d \in Days : SoloInv(d)'
  BY DEF SoloInv, Idle
<1> QED
  BY <1>1, <1>2, <1>3

LEMMA RegisterRawRaw ==
  ASSUME RawInv, NEW d \in Days, RegisterRaw(d)
  PROVE  RawInv'
<1> USE DEF RegisterRaw, At, RawInv, remoteVars, rawRow, rawFiles
<1>1. RawTypeInv'
  <2>1. rawStatus' \in [Days -> FileStatus] /\ rawStatus'[d] \in FileStatus
    BY Names DEF RawTypeInv
  <2> QED
    BY <2>1, TaskMoves, Names DEF RawTypeInv
<1>2. \A e \in Days : TaskInv(e)'
  BY DEF TaskInv, RawTypeInv
<1>3. ~Overlap => \A e \in Days : SoloInv(e)'
  BY DEF SoloInv, RawTypeInv
<1> QED
  BY <1>1, <1>2, <1>3

LEMMA ValidateLocalRaw ==
  ASSUME RawInv, NEW d \in Days, ValidateLocal(d)
  PROVE  RawInv'
<1> USE DEF ValidateLocal, At, RawInv, remoteVars, rawRow, LocalValid, CanExtract, ExtractInto
<1>1. RawTypeInv'
  BY TaskMoves, Names DEF RawTypeInv, Contents
<1>2. \A e \in Days : TaskInv(e)'
  BY DEF TaskInv, RawTypeInv
<1>3. ~Overlap => \A e \in Days : SoloInv(e)'
  BY DEF SoloInv, RawTypeInv, Contents
<1> QED
  BY <1>1, <1>2, <1>3

LEMMA RejectLocalRaw ==
  ASSUME RawInv, NEW d \in Days, RejectLocal(d)
  PROVE  RawInv'
<1> USE DEF RejectLocal, At, Goto, RawInv, remoteVars, rawRow, rawFiles, LocalFiles
<1>1. RawTypeInv'
  BY TaskMoves, Names DEF RawTypeInv
<1>2. \A e \in Days : TaskInv(e)'
  BY DEF TaskInv, RawTypeInv
<1>3. ~Overlap => \A e \in Days : SoloInv(e)'
  BY DEF SoloInv, RawTypeInv
<1> QED
  BY <1>1, <1>2, <1>3

LEMMA QuarantineFileRaw ==
  ASSUME RawInv, NEW d \in Days, QuarantineFile(d)
  PROVE  RawInv'
<1> USE DEF QuarantineFile, At, Goto, RawInv, remoteVars, rawRow
<1>1. RawTypeInv'
  BY TaskMoves, Names DEF RawTypeInv, Contents
<1>2. \A e \in Days : TaskInv(e)'
  BY DEF TaskInv, RawTypeInv
<1>3. ~Overlap => \A e \in Days : SoloInv(e)'
  BY DEF SoloInv, RawTypeInv
<1> QED
  BY <1>1, <1>2, <1>3

LEMMA MarkQuarantinedRaw ==
  ASSUME RawInv, NEW d \in Days, MarkQuarantined(d)
  PROVE  RawInv'
<1> USE DEF RawInv
<1>1. /\ task[d].pc = "mark" /\ command = "running"
      /\ Transition(d, "QUARANTINED", NoFile, "reopen")
      /\ UNCHANGED <<remote, replacements, zip, sums, csv, part, command, job, faults>>
  BY DEF MarkQuarantined, At, remoteVars, rawFiles
<1>2. Effect(d, "QUARANTINED", NoFile, "reopen")
  <2>1. NoFile \in Versions \cup {NoFile}
    BY DEF RawTypeInv, TaskRecords
  <2> QED
    BY <1>1, <2>1, Names, TransitionEffect
<1>3. RawTypeInv'
  BY <1>1, <1>2 DEF RawTypeInv, Effect
<1>4. \A e \in Days : TaskInv(e)'
  BY <1>1, <1>2 DEF TaskInv, Effect
<1>5. ~Overlap => \A e \in Days : SoloInv(e)'
  BY <1>1, <1>2 DEF SoloInv, Effect
<1> QED
  BY <1>3, <1>4, <1>5

LEMMA ReopenRaw ==
  ASSUME RawInv, NEW d \in Days, Reopen(d)
  PROVE  RawInv'
<1> USE DEF RawInv
<1>1. /\ task[d].pc = "reopen" /\ command = "running"
      /\ Transition(d, "DOWNLOADING", NoFile, "sums")
      /\ UNCHANGED <<remote, replacements, zip, sums, csv, part, command, job, faults>>
  BY DEF Reopen, At, remoteVars, rawFiles
<1>2. Effect(d, "DOWNLOADING", NoFile, "sums")
  <2>1. NoFile \in Versions \cup {NoFile}
    BY DEF RawTypeInv, TaskRecords
  <2> QED
    BY <1>1, <2>1, Names, TransitionEffect
<1>3. RawTypeInv'
  BY <1>1, <1>2 DEF RawTypeInv, Effect
<1>4. \A e \in Days : TaskInv(e)'
  BY <1>1, <1>2 DEF TaskInv, Effect
<1>5. ~Overlap => \A e \in Days : SoloInv(e)'
  BY <1>1, <1>2 DEF SoloInv, Effect
<1> QED
  BY <1>3, <1>4, <1>5

LEMMA PromoteRaw ==
  ASSUME RawInv, NEW d \in Days, Promote(d)
  PROVE  RawInv'
<1> USE DEF RawInv
<1>1. /\ task[d].pc = "promote" /\ command = "running"
      /\ UNCHANGED <<remote, replacements, zip, sums, csv, part, command, job, faults>>
  BY DEF Promote, At, remoteVars, rawFiles
<1>2. task[d].exp \in Versions \cup {NoFile}
  BY DEF RawTypeInv, TaskRecords
<1>3. CASE task[d].rec \in {"FAILED", "QUARANTINED"}
  <2>1. Transition(d, "DOWNLOADING", NoFile, "promote")
    BY <1>3 DEF Promote
  <2>2. Effect(d, "DOWNLOADING", NoFile, "promote")
    BY <1>2, <2>1, Names, TransitionEffect
  <2>3. RawTypeInv'
    BY <1>1, <2>2 DEF RawTypeInv, Effect
  <2>4. \A e \in Days : TaskInv(e)'
    BY <1>1, <2>2 DEF TaskInv, Effect
  <2>5. ~Overlap => \A e \in Days : SoloInv(e)'
    BY <1>1, <2>2 DEF SoloInv, TaskInv, Effect
  <2> QED
    BY <2>3, <2>4, <2>5
<1>4. CASE task[d].rec = "DOWNLOADING"
  <2>1. Transition(d, "DOWNLOADED", task[d].exp, "promote")
    BY <1>4 DEF Promote
  <2>2. Effect(d, "DOWNLOADED", task[d].exp, "promote")
    BY <1>2, <2>1, Names, TransitionEffect
  <2>3. RawTypeInv'
    BY <1>1, <2>2 DEF RawTypeInv, Effect
  <2>4. \A e \in Days : TaskInv(e)'
    BY <1>1, <2>2 DEF TaskInv, Effect
  <2>5. ~Overlap => \A e \in Days : SoloInv(e)'
    BY <1>1, <2>2 DEF SoloInv, TaskInv, Effect
  <2> QED
    BY <2>3, <2>4, <2>5
<1>5. CASE task[d].rec \in {"DOWNLOADED", "VALIDATED"}
  <2>1. Transition(d, "VALIDATED", task[d].exp, "done")
    BY <1>5 DEF Promote
  <2>2. Effect(d, "VALIDATED", task[d].exp, "done")
    BY <1>2, <2>1, Names, TransitionEffect
  <2>3. RawTypeInv'
    BY <1>1, <2>2 DEF RawTypeInv, Effect
  <2>4. \A e \in Days : TaskInv(e)'
    BY <1>1, <2>2 DEF TaskInv, Effect
  <2>5. ~Overlap => \A e \in Days : SoloInv(e)'
    BY <1>1, <2>2 DEF SoloInv, TaskInv, Effect
  <2> QED
    BY <2>3, <2>4, <2>5
<1>6. CASE task[d].rec \notin {"FAILED", "QUARANTINED", "DOWNLOADING", "DOWNLOADED", "VALIDATED"}
  <2>1. task' = [task EXCEPT ![d].pc = "done"] /\ UNCHANGED <<rawStatus, rawSum>>
    BY <1>6 DEF Promote, Goto, rawRow
  <2>2. RawTypeInv'
    BY <1>1, <2>1, TaskMoves, Names DEF RawTypeInv
  <2>3. \A e \in Days : TaskInv(e)'
    BY <1>1, <2>1 DEF TaskInv, RawTypeInv
  <2>4. ~Overlap => \A e \in Days : SoloInv(e)'
    BY <1>1, <1>6, <2>1 DEF SoloInv, TaskInv, RawTypeInv, FileStatus, DataFileStatus
  <2> QED
    BY <2>2, <2>3, <2>4
<1> QED
  BY <1>3, <1>4, <1>5, <1>6

LEMMA FetchChecksumRaw ==
  ASSUME RawInv, NEW d \in Days, FetchChecksum(d)
  PROVE  RawInv'
<1> USE DEF FetchChecksum, At, RawInv, remoteVars, rawRow
<1>1. RawTypeInv'
  <2>1. task[d] \in TaskRecords /\ remote[d] \in Versions /\ 1 \in 0..MaxAttempts
    BY DEF RawTypeInv
  <2>2. [task[d] EXCEPT !.pc = "fetch", !.exp = remote[d], !.attempt = 1] \in TaskRecords
    BY ONLY <2>1, Names DEF TaskRecords
  <2>3. task' = [task EXCEPT ![d] = [task[d] EXCEPT !.pc = "fetch", !.exp = remote[d], !.attempt = 1]]
    BY DEF RawTypeInv, TaskRecords
  <2>4. task' \in [Days -> TaskRecords] /\ sums' \in [Days -> Versions \cup {NoFile}]
    BY <2>2, <2>3 DEF RawTypeInv
  <2> QED
    BY <2>4 DEF RawTypeInv
<1>2. \A e \in Days : TaskInv(e)'
  BY DEF TaskInv, RawTypeInv
<1>3. ~Overlap => \A e \in Days : SoloInv(e)'
  BY DEF SoloInv, RawTypeInv
<1> QED
  BY <1>1, <1>2, <1>3

LEMMA ChecksumUnavailableRaw ==
  ASSUME RawInv, NEW d \in Days, ChecksumUnavailable(d)
  PROVE  RawInv'
<1> USE DEF ChecksumUnavailable, At, RawInv, Goto, remoteVars, rawRow, rawFiles
<1>1. RawTypeInv'
  BY TaskMoves, Names DEF RawTypeInv
<1>2. \A e \in Days : TaskInv(e)'
  BY DEF TaskInv, RawTypeInv
<1>3. ~Overlap => \A e \in Days : SoloInv(e)'
  BY DEF SoloInv, RawTypeInv
<1> QED
  BY <1>1, <1>2, <1>3

LEMMA AdoptPartRaw ==
  ASSUME RawInv, NEW d \in Days, AdoptPart(d)
  PROVE  RawInv'
<1> USE DEF AdoptPart, At, RawInv, Goto, remoteVars, rawRow, PartComplete
<1>1. RawTypeInv'
  BY TaskMoves, Names DEF RawTypeInv, TaskRecords, NoPart, Contents
<1>2. \A e \in Days : TaskInv(e)'
  BY DEF TaskInv, RawTypeInv
<1>3. ~Overlap => \A e \in Days : SoloInv(e)'
  BY DEF SoloInv, RawTypeInv
<1> QED
  BY <1>1, <1>2, <1>3

LEMMA ArchiveRefusedRaw ==
  ASSUME RawInv, NEW d \in Days, ArchiveRefused(d)
  PROVE  RawInv'
<1> USE DEF ArchiveRefused, At, RawInv, Goto, Requesting, remoteVars, rawRow, rawFiles
<1>1. RawTypeInv'
  BY TaskMoves, Names DEF RawTypeInv
<1>2. \A e \in Days : TaskInv(e)'
  BY DEF TaskInv, RawTypeInv
<1>3. ~Overlap => \A e \in Days : SoloInv(e)'
  BY DEF SoloInv, RawTypeInv
<1> QED
  BY <1>1, <1>2, <1>3

LEMMA ArchiveBusyRaw ==
  ASSUME RawInv, NEW d \in Days, ArchiveBusy(d)
  PROVE  RawInv'
<1> USE DEF RawInv
<1>1. /\ task[d].pc = "fetch" /\ ~PartComplete(d) /\ command = "running" /\ Retry(d)
      /\ UNCHANGED <<remote, replacements, rawStatus, rawSum, zip, sums, csv, command, job, faults>>
      /\ part' \in [Days -> [of : Versions \cup {NoFile, Mixed}, full : BOOLEAN]]
  BY DEF ArchiveBusy, Requesting, At, remoteVars, rawRow, rawFiles, RawTypeInv
<1>2. RetryEffect(d)
  BY <1>1, RetryContinues
<1>3. RawTypeInv'
  BY <1>1, <1>2 DEF RawTypeInv, RetryEffect
<1>4. \A e \in Days : TaskInv(e)'
  BY <1>1, <1>2 DEF TaskInv, RetryEffect
<1>5. ~Overlap => \A e \in Days : SoloInv(e)'
  BY <1>1, <1>2 DEF SoloInv, RetryEffect
<1> QED
  BY <1>3, <1>4, <1>5

LEMMA RangeNotSatisfiableRaw ==
  ASSUME RawInv, NEW d \in Days, RangeNotSatisfiable(d)
  PROVE  RawInv'
<1> USE DEF RawInv
<1>1. /\ task[d].pc = "fetch" /\ ~PartComplete(d) /\ command = "running" /\ Retry(d)
      /\ UNCHANGED <<remote, replacements, rawStatus, rawSum, zip, sums, csv, command, job, faults>>
      /\ part' \in [Days -> [of : Versions \cup {NoFile, Mixed}, full : BOOLEAN]]
  BY DEF RangeNotSatisfiable, Requesting, At, remoteVars, rawRow, rawFiles, RawTypeInv, NoPart
<1>2. RetryEffect(d)
  BY <1>1, RetryContinues
<1>3. RawTypeInv'
  BY <1>1, <1>2 DEF RawTypeInv, RetryEffect
<1>4. \A e \in Days : TaskInv(e)'
  BY <1>1, <1>2 DEF TaskInv, RetryEffect
<1>5. ~Overlap => \A e \in Days : SoloInv(e)'
  BY <1>1, <1>2 DEF SoloInv, RetryEffect
<1> QED
  BY <1>3, <1>4, <1>5

LEMMA ReceiveBodyRaw ==
  ASSUME RawInv, NEW d \in Days, NEW resumed \in BOOLEAN, ReceiveBody(d, resumed)
  PROVE  RawInv'
<1> USE DEF ReceiveBody, At, RawInv, Goto, Requesting, Received, remoteVars, rawRow, rawFiles
<1>1. RawTypeInv'
  BY TaskMoves, Names DEF RawTypeInv
<1>2. \A e \in Days : TaskInv(e)'
  BY DEF TaskInv, RawTypeInv
<1>3. ~Overlap => \A e \in Days : SoloInv(e)'
  BY DEF SoloInv, RawTypeInv
<1> QED
  BY <1>1, <1>2, <1>3

LEMMA BodyBreaksRaw ==
  ASSUME RawInv, NEW d \in Days, NEW resumed \in BOOLEAN, BodyBreaks(d, resumed)
  PROVE  RawInv'
<1> USE DEF RawInv
<1>1. /\ task[d].pc = "fetch" /\ ~PartComplete(d) /\ command = "running" /\ Retry(d)
      /\ UNCHANGED <<remote, replacements, rawStatus, rawSum, zip, sums, csv, command, job, faults>>
      /\ part' \in [Days -> [of : Versions \cup {NoFile, Mixed}, full : BOOLEAN]]
  BY DEF BodyBreaks, Requesting, At, remoteVars, rawRow, rawFiles, RawTypeInv, Received
<1>2. RetryEffect(d)
  BY <1>1, RetryContinues
<1>3. RawTypeInv'
  BY <1>1, <1>2 DEF RawTypeInv, RetryEffect
<1>4. \A e \in Days : TaskInv(e)'
  BY <1>1, <1>2 DEF TaskInv, RetryEffect
<1>5. ~Overlap => \A e \in Days : SoloInv(e)'
  BY <1>1, <1>2 DEF SoloInv, RetryEffect
<1> QED
  BY <1>3, <1>4, <1>5

LEMMA CheckPartRaw ==
  ASSUME RawInv, NEW d \in Days, CheckPart(d)
  PROVE  RawInv'
<1> USE DEF RawInv
<1>1. /\ task[d].pc = "check" /\ command = "running"
      /\ UNCHANGED <<remote, replacements, rawStatus, rawSum, sums, csv, command, job, faults>>
      /\ part' \in [Days -> [of : Versions \cup {NoFile, Mixed}, full : BOOLEAN]]
  BY DEF CheckPart, At, remoteVars, rawRow, RawTypeInv, NoPart
<1>2. CASE part[d].of = task[d].exp
  <2>1. zip' = [zip EXCEPT ![d] = task[d].exp] /\ task' = [task EXCEPT ![d].pc = "save"]
    BY <1>2 DEF CheckPart, Goto
  <2>2. task[d].exp \in Contents
    BY DEF RawTypeInv, TaskRecords, Contents
  <2>3. RawTypeInv'
    BY <1>1, <2>1, <2>2, TaskMoves, Names DEF RawTypeInv
  <2>4. \A e \in Days : TaskInv(e)'
    BY <1>1, <2>1 DEF TaskInv, RawTypeInv
  <2>5. ~Overlap => \A e \in Days : SoloInv(e)'
    BY <1>1, <2>1 DEF SoloInv, RawTypeInv
  <2> QED
    BY <2>3, <2>4, <2>5
<1>3. CASE part[d].of # task[d].exp
  <2>1. UNCHANGED zip /\ Retry(d)
    BY <1>3 DEF CheckPart
  <2>2. RetryEffect(d)
    BY <2>1, RetryContinues
  <2>3. RawTypeInv'
    BY <1>1, <2>1, <2>2 DEF RawTypeInv, RetryEffect
  <2>4. \A e \in Days : TaskInv(e)'
    BY <1>1, <2>1, <2>2 DEF TaskInv, RetryEffect
  <2>5. ~Overlap => \A e \in Days : SoloInv(e)'
    BY <1>1, <2>1, <2>2 DEF SoloInv, RetryEffect
  <2> QED
    BY <2>3, <2>4, <2>5
<1> QED
  BY <1>2, <1>3

LEMMA SaveDownloadedRaw ==
  ASSUME RawInv, NEW d \in Days, SaveDownloaded(d)
  PROVE  RawInv'
<1> USE DEF RawInv
<1>1. /\ task[d].pc = "save" /\ command = "running"
      /\ Transition(d, "DOWNLOADED", task[d].exp, "extract")
      /\ UNCHANGED <<remote, replacements, zip, sums, csv, part, command, job, faults>>
  BY DEF SaveDownloaded, At, remoteVars, rawFiles
<1>2. Effect(d, "DOWNLOADED", task[d].exp, "extract")
  <2>1. task[d].exp \in Versions \cup {NoFile}
    BY DEF RawTypeInv, TaskRecords
  <2> QED
    BY <1>1, <2>1, Names, TransitionEffect
<1>3. RawTypeInv'
  BY <1>1, <1>2 DEF RawTypeInv, Effect
<1>4. \A e \in Days : TaskInv(e)'
  BY <1>1, <1>2 DEF TaskInv, Effect
<1>5. ~Overlap => \A e \in Days : SoloInv(e)'
  BY <1>1, <1>2 DEF SoloInv, Effect
<1> QED
  BY <1>3, <1>4, <1>5

LEMMA ExtractRaw ==
  ASSUME RawInv, NEW d \in Days, Extract(d)
  PROVE  RawInv'
<1> USE DEF RawInv
<1>1. /\ task[d].pc = "extract" /\ command = "running"
      /\ UNCHANGED <<remote, replacements, rawStatus, rawSum, zip, sums, part, command, job, faults>>
  BY DEF Extract, At, remoteVars, rawRow
<1>2. CASE CanExtract(d)
  <2>1. csv' = [csv EXCEPT ![d] = IF @ = NoFile THEN zip[d] ELSE @] /\ task' = [task EXCEPT ![d].pc = "validate"]
    BY <1>2 DEF Extract, ExtractInto, Goto
  <2>2. csv[d] = NoFile => zip[d] \in Contents \ Unusable
    BY <1>2 DEF CanExtract, Contents
  <2>3. RawTypeInv'
    BY <1>1, <2>1, <2>2, TaskMoves, Names DEF RawTypeInv
  <2>4. \A e \in Days : TaskInv(e)'
    BY <1>1, <2>1 DEF TaskInv, RawTypeInv
  <2>5. ~Overlap => \A e \in Days : SoloInv(e)'
    BY <1>1, <2>1 DEF SoloInv, RawTypeInv
  <2> QED
    BY <2>3, <2>4, <2>5
<1>3. CASE ~CanExtract(d)
  <2>1. UNCHANGED csv /\ task' = [task EXCEPT ![d].pc = "failing"]
    BY <1>3 DEF Extract, Goto
  <2>3. RawTypeInv'
    BY <1>1, <2>1, TaskMoves, Names DEF RawTypeInv
  <2>4. \A e \in Days : TaskInv(e)'
    BY <1>1, <2>1 DEF TaskInv, RawTypeInv
  <2>5. ~Overlap => \A e \in Days : SoloInv(e)'
    BY <1>1, <2>1 DEF SoloInv, RawTypeInv
  <2> QED
    BY <2>3, <2>4, <2>5
<1> QED
  BY <1>2, <1>3

LEMMA SaveValidatedRaw ==
  ASSUME RawInv, NEW d \in Days, SaveValidated(d)
  PROVE  RawInv'
<1> USE DEF RawInv
<1>1. /\ task[d].pc = "validate" /\ command = "running"
      /\ Transition(d, "VALIDATED", task[d].exp, "done")
      /\ UNCHANGED <<remote, replacements, zip, sums, csv, part, command, job, faults>>
  BY DEF SaveValidated, At, remoteVars, rawFiles
<1>2. Effect(d, "VALIDATED", task[d].exp, "done")
  <2>1. task[d].exp \in Versions \cup {NoFile}
    BY DEF RawTypeInv, TaskRecords
  <2> QED
    BY <1>1, <2>1, Names, TransitionEffect
<1>3. RawTypeInv'
  BY <1>1, <1>2 DEF RawTypeInv, Effect
<1>4. \A e \in Days : TaskInv(e)'
  BY <1>1, <1>2 DEF TaskInv, Effect
<1>5. ~Overlap => \A e \in Days : SoloInv(e)'
  BY <1>1, <1>2 DEF SoloInv, TaskInv, Effect
<1> QED
  BY <1>3, <1>4, <1>5

LEMMA FailRawRaw ==
  ASSUME RawInv, NEW d \in Days, FailRaw(d)
  PROVE  RawInv'
<1> USE DEF FailRaw, At, RawInv, Goto, CanTransition, remoteVars, rawFiles
<1>1. RawTypeInv'
  BY TaskMoves, Names DEF RawTypeInv
<1>2. \A e \in Days : TaskInv(e)'
  BY DEF TaskInv, RawTypeInv
<1>3. ~Overlap => \A e \in Days : SoloInv(e)'
  BY DEF SoloInv, RawTypeInv
<1> QED
  BY <1>1, <1>2, <1>3

LEMMA ReplaceRaw ==
  ASSUME RawInv, NEW d \in Days, NEW v \in Versions, Replace(d, v)
  PROVE  RawInv'
<1> USE DEF Replace, RawInv, rawRow, rawFiles
<1>1. RawTypeInv'
  BY DEF RawTypeInv
<1>2. \A e \in Days : TaskInv(e)'
  BY DEF TaskInv
<1>3. ~Overlap => \A e \in Days : SoloInv(e)'
  BY DEF SoloInv
<1> QED
  BY <1>1, <1>2, <1>3

LEMMA CrashBackfillRaw ==
  ASSUME RawInv, CrashBackfill
  PROVE  RawInv'
<1> USE DEF CrashBackfill, RawInv, remoteVars, rawRow, rawFiles
<1>1. RawTypeInv'
  <2>1. Idle \in TaskRecords
    BY Names DEF TaskRecords, Idle
  <2> QED
    BY <2>1 DEF RawTypeInv
<1>2. \A e \in Days : TaskInv(e)'
  BY DEF TaskInv, Idle
<1>3. ~Overlap => \A e \in Days : SoloInv(e)'
  BY DEF SoloInv, Idle
<1> QED
  BY <1>1, <1>2, <1>3

LEMMA DamageRawRaw ==
  ASSUME RawInv, NEW d \in Days, DamageRaw(d)
  PROVE  RawInv'
<1> USE DEF DamageRaw, RawInv, remoteVars, rawRow
<1>1. RawTypeInv'
  <2>1. Damaged \in Contents \ Unusable
    BY DEF Contents
  <2>2. zip' \in [Days -> Contents] /\ csv' \in [Days -> Contents \ Unusable]
    <3>1. zip \in [Days -> Contents] /\ csv \in [Days -> Contents \ Unusable]
      BY DEF RawTypeInv
    <3>2. /\ zip' = zip \/ zip' = [zip EXCEPT ![d] = Damaged]
          /\ csv' = csv \/ csv' = [csv EXCEPT ![d] = Damaged]
      OBVIOUS
    <3> QED
      BY ONLY <2>1, <3>1, <3>2
  <2>3. faults' \in 0..MaxFaults
    BY DEF RawTypeInv
  <2>4. UNCHANGED <<remote, replacements, rawStatus, rawSum, sums, part, command, job, task>>
    OBVIOUS
  <2> QED
    BY ONLY RawTypeInv, <2>2, <2>3, <2>4 DEF RawTypeInv
<1>2. \A e \in Days : TaskInv(e)'
  BY DEF TaskInv, RawTypeInv
<1>3. ~Overlap => \A e \in Days : SoloInv(e)'
  BY DEF SoloInv, TaskInv, RawTypeInv
<1> QED
  BY <1>1, <1>2, <1>3

-----------------------------------------------------------------------------
(* The inductive invariant: the normalise command and the canonical files. *)

BronzeTypeInv ==
  /\ bronzeStatus \in [Days -> FileStatus \ {"COMPACTED"}]
  /\ bronzeName \in [Days -> Versions \cup {NoFile}]
  /\ bronzeSum \in [Days -> Versions \cup {NoFile}]
  /\ bronze \in [Days -> [Versions -> Contents \ Unusable]]
  /\ verdicts \in [Days -> SUBSET BOOLEAN]
  /\ catalog \in SUBSET Days

(* A row has a path, and a NORMALIZED row the rows that were hashed. *)
BronzeInv(d) ==
  /\ bronzeStatus[d] # "none" => bronzeName[d] \in Versions
  /\ bronzeStatus[d] = "NORMALIZED" =>
       /\ bronzeSum[d] \in Versions \ Unusable
       /\ bronze[d][bronzeName[d]] \in {bronzeSum[d], Damaged}

(* What the process holds in memory at each step. *)
NormInv ==
  /\ norm = [pc |-> norm.pc, day |-> norm.day, left |-> norm.left, raw |-> norm.raw,
             held |-> norm.held, out |-> norm.out]
  /\ norm.pc \in NormStates /\ norm.left \in SUBSET Days /\ norm.held \in Contents
  /\ norm.pc # "down" => \A d \in norm.left : norm.raw[d].sum \in Versions
  /\ norm.pc \notin {"down", "next"} =>
       norm.day \in Days /\ norm.raw[norm.day].sum \in Versions
  /\ norm.pc \in {"extract", "register", "verify", "reopen", "write", "save"} =>
       norm.held \in Versions \ Unusable
  /\ norm.pc \in {"verify", "reopen", "write", "save", "raw", "failing"} =>
       bronzeStatus[norm.day] # "none"
  /\ norm.pc \in {"reopen", "write", "save"} =>
       bronzeName[norm.day] = norm.raw[norm.day].sum
  /\ norm.pc = "reopen" => bronzeStatus[norm.day] \in {"FAILED", "QUARANTINED"}
  /\ norm.pc \in {"write", "save"} =>
       /\ norm.out = bronzeStatus[norm.day]
       /\ norm.out \in {"DOWNLOADING", "DOWNLOADED", "VALIDATED"}
  /\ norm.pc = "save" => bronze[norm.day][bronzeName[norm.day]] = norm.held

(* Without overlap no backfill runs next to it. *)
SoloNormInv ==
  /\ norm.pc # "down" => command = "down"
  /\ norm.pc = "extract" => zip[norm.day] \in {norm.held, Damaged}

FilesInv == BronzeTypeInv /\ (\A d \in Days : BronzeInv(d)) /\ NormInv

ArchiveInv == RawInv /\ FilesInv /\ (~Overlap => SoloNormInv)

LEMMA RawUntouched ==
  ASSUME RawInv, faults' \in 0..MaxFaults,
         UNCHANGED <<remote, replacements, rawStatus, rawSum, zip, sums, csv, part, command, job, task>>
  PROVE  RawInv'
<1>1. RawTypeInv'
  BY DEF RawInv, RawTypeInv
<1>2. \A e \in Days : TaskInv(e)'
  BY DEF RawInv, TaskInv
<1>3. ~Overlap => \A e \in Days : SoloInv(e)'
  BY DEF RawInv, SoloInv
<1> QED
  BY <1>1, <1>2, <1>3 DEF RawInv

LEMMA FilesUntouched ==
  ASSUME FilesInv, UNCHANGED normVars
  PROVE  FilesInv'
BY DEF FilesInv, BronzeTypeInv, BronzeInv, NormInv, normVars, bronzeVars

-----------------------------------------------------------------------------
(* Steps of the normalise command. *)

LEMMA StartNormalizeKeeps ==
  ASSUME ArchiveInv, StartNormalize
  PROVE  ArchiveInv'
<1> USE DEF ArchiveInv, FilesInv, StartNormalize
<1>1. RawInv'
  BY RawUntouched DEF archiveVars, remoteVars, rawRow, rawFiles, RawInv, RawTypeInv
<1>2. BronzeTypeInv'
  BY DEF BronzeTypeInv, NormInv, bronzeVars
<1>3. \A e \in Days : BronzeInv(e)'
  BY DEF BronzeInv, BronzeTypeInv, NormInv, bronzeVars
<1>4. NormInv'
  BY DEF NormInv, NormStates, BronzeInv, BronzeTypeInv, bronzeVars, RawInv, RawTypeInv, TaskInv, Down, Contents
<1>5. ~Overlap => SoloNormInv'
  BY DEF SoloNormInv, NormInv, archiveVars, rawFiles, Down
<1> QED
  BY <1>1, <1>2, <1>3, <1>4, <1>5

LEMMA NextDayKeeps ==
  ASSUME ArchiveInv, NEW d \in Days, NextDay(d)
  PROVE  ArchiveInv'
<1> USE DEF ArchiveInv, FilesInv, NextDay
<1>1. RawInv'
  BY RawUntouched DEF archiveVars, remoteVars, rawRow, rawFiles, RawInv, RawTypeInv
<1>2. BronzeTypeInv'
  BY DEF BronzeTypeInv, NormInv, bronzeVars
<1>3. \A e \in Days : BronzeInv(e)'
  BY DEF BronzeInv, BronzeTypeInv, NormInv, bronzeVars
<1>4. NormInv'
  BY DEF NormInv, NormStates, BronzeInv, BronzeTypeInv, bronzeVars, Contents
<1>5. ~Overlap => SoloNormInv'
  BY DEF SoloNormInv, NormInv, archiveVars, rawFiles
<1> QED
  BY <1>1, <1>2, <1>3, <1>4, <1>5

LEMMA FinishNormalizeKeeps ==
  ASSUME ArchiveInv, FinishNormalize
  PROVE  ArchiveInv'
<1> USE DEF ArchiveInv, FilesInv, FinishNormalize, Down
<1>1. RawInv'
  BY RawUntouched DEF archiveVars, remoteVars, rawRow, rawFiles, RawInv, RawTypeInv
<1>2. BronzeTypeInv'
  BY DEF BronzeTypeInv, NormInv, bronzeVars
<1>3. \A e \in Days : BronzeInv(e)'
  BY DEF BronzeInv, BronzeTypeInv, NormInv, bronzeVars
<1>4. NormInv'
  BY DEF NormInv, NormStates, BronzeInv, BronzeTypeInv, bronzeVars, Contents
<1>5. ~Overlap => SoloNormInv'
  BY DEF SoloNormInv, NormInv, archiveVars, rawFiles
<1> QED
  BY <1>1, <1>2, <1>3, <1>4, <1>5

LEMMA OpenArchiveKeeps ==
  ASSUME ArchiveInv, NEW d \in Days, OpenArchive(d)
  PROVE  ArchiveInv'
<1> USE DEF ArchiveInv, FilesInv, OpenArchive, Normalizing, NormGoto
<1>1. RawInv'
  BY RawUntouched DEF archiveVars, remoteVars, rawRow, rawFiles, RawInv, RawTypeInv
<1>2. BronzeTypeInv'
  BY DEF BronzeTypeInv, NormInv, bronzeVars
<1>3. \A e \in Days : BronzeInv(e)'
  BY DEF BronzeInv, BronzeTypeInv, NormInv, bronzeVars
<1>4. NormInv'
  <2>1. CASE csv[d] # NoFile
    BY <2>1 DEF NormInv, NormStates, BronzeInv, BronzeTypeInv, bronzeVars, Contents
  <2>2. CASE csv[d] = NoFile /\ zip[d] \in Versions \ Unusable
    <3>1. /\ norm' = [pc |-> "extract", day |-> norm.day, left |-> norm.left, raw |-> norm.raw,
                      held |-> zip[d], out |-> norm.out]
          /\ norm.pc = "open"
      BY <2>2 DEF NormInv
    <3> QED
      BY ONLY <2>2, <3>1, NormInv DEF NormInv, NormStates, Contents
  <2>3. CASE csv[d] = NoFile /\ zip[d] \notin Versions \ Unusable
    BY <2>3 DEF NormInv, NormStates, BronzeInv, BronzeTypeInv, bronzeVars, Contents
  <2> QED
    BY <2>1, <2>2, <2>3
<1>5. ~Overlap => SoloNormInv'
  BY DEF SoloNormInv, NormInv, archiveVars, rawFiles
<1> QED
  BY <1>1, <1>2, <1>3, <1>4, <1>5

LEMMA ReadCsvKeeps ==
  ASSUME ArchiveInv, NEW d \in Days, ReadCsv(d)
  PROVE  ArchiveInv'
<1> USE DEF ArchiveInv, FilesInv, ReadCsv, Normalizing, NormGoto
<1>1. RawInv'
  BY RawUntouched DEF archiveVars, remoteVars, rawRow, rawFiles, RawInv, RawTypeInv
<1>2. BronzeTypeInv'
  BY DEF BronzeTypeInv, NormInv, bronzeVars
<1>3. \A e \in Days : BronzeInv(e)'
  BY DEF BronzeInv, BronzeTypeInv, NormInv, bronzeVars
<1>4. NormInv'
  <2>1. CASE csv[d] \in {NoFile, Damaged}
    BY <2>1 DEF NormInv, NormStates, BronzeInv, BronzeTypeInv, bronzeVars, RawInv, RawTypeInv, Contents
  <2>2. CASE csv[d] \notin {NoFile, Damaged}
    <3>1. csv[d] \in Versions \ Unusable
      BY <2>2 DEF RawInv, RawTypeInv, Contents
    <3>2. norm' = [norm EXCEPT !.pc = "register", !.held = csv[d]] /\ norm.pc = "read"
      BY <2>2
    <3>3. norm' = [pc |-> "register", day |-> norm.day, left |-> norm.left, raw |-> norm.raw,
                   held |-> csv[d], out |-> norm.out]
      BY ONLY <3>2, NormInv DEF NormInv
    <3> QED
      BY ONLY <3>1, <3>2, <3>3, NormInv DEF NormInv, NormStates, Contents
  <2> QED
    BY <2>1, <2>2
<1>5. ~Overlap => SoloNormInv'
  BY DEF SoloNormInv, NormInv, archiveVars, rawFiles
<1> QED
  BY <1>1, <1>2, <1>3, <1>4, <1>5

LEMMA RegisterBronzeKeeps ==
  ASSUME ArchiveInv, NEW d \in Days, RegisterBronze(d)
  PROVE  ArchiveInv'
<1> USE DEF ArchiveInv, FilesInv, RegisterBronze, Normalizing, NormGoto, Name, AfterRow
<1>1. RawInv'
  BY RawUntouched DEF archiveVars, remoteVars, rawRow, rawFiles, RawInv, RawTypeInv
<1>2. BronzeTypeInv'
  BY DEF BronzeTypeInv, NormInv, bronzeVars, FileStatus, DataFileStatus
<1>3. \A e \in Days : BronzeInv(e)'
  BY DEF BronzeInv, BronzeTypeInv, NormInv, bronzeVars
<1>4. NormInv'
  <2>1. CASE bronzeStatus[d] = "none"
    BY <2>1 DEF NormInv, NormStates, BronzeInv, BronzeTypeInv, bronzeVars, FileStatus, DataFileStatus
  <2>2. CASE bronzeStatus[d] # "none" /\ bronzeName[d] # Name(d)
    BY <2>2 DEF NormInv, NormStates, BronzeInv, BronzeTypeInv, bronzeVars, FileStatus, DataFileStatus
  <2>3. CASE bronzeStatus[d] # "none" /\ bronzeName[d] = Name(d)
    <3>1. /\ norm' = [pc |-> AfterRow(bronzeStatus[d]), day |-> norm.day, left |-> norm.left,
                      raw |-> norm.raw, held |-> norm.held, out |-> bronzeStatus[d]]
          /\ norm.pc = "register" /\ norm.day = d /\ bronzeName[d] = norm.raw[d].sum
          /\ UNCHANGED <<bronzeStatus, bronzeName, bronze>>
      BY <2>3 DEF NormInv
    <3>2. bronzeStatus[d] \in {"DOWNLOADING", "DOWNLOADED", "VALIDATED", "NORMALIZED",
                               "QUARANTINED", "FAILED"}
      BY <2>3 DEF BronzeTypeInv, FileStatus, DataFileStatus
    <3> QED
      BY ONLY <2>3, <3>1, <3>2, NormInv DEF NormInv, NormStates, AfterRow
  <2> QED
    BY <2>1, <2>2, <2>3
<1>5. ~Overlap => SoloNormInv'
  BY DEF SoloNormInv, NormInv, archiveVars, rawFiles
<1> QED
  BY <1>1, <1>2, <1>3, <1>4, <1>5

LEMMA VerifyBronzeKeeps ==
  ASSUME ArchiveInv, NEW d \in Days, VerifyBronze(d)
  PROVE  ArchiveInv'
<1> USE DEF ArchiveInv, FilesInv, VerifyBronze, Normalizing, NormGoto
<1>1. RawInv'
  BY RawUntouched DEF archiveVars, remoteVars, rawRow, rawFiles, RawInv, RawTypeInv
<1>2. BronzeTypeInv'
  BY DEF BronzeTypeInv, NormInv, bronzeVars
<1>3. \A e \in Days : BronzeInv(e)'
  BY DEF BronzeInv, BronzeTypeInv, NormInv, bronzeVars
<1>4. NormInv'
  BY DEF NormInv, NormStates, BronzeInv, BronzeTypeInv, bronzeVars
<1>5. ~Overlap => SoloNormInv'
  BY DEF SoloNormInv, NormInv, archiveVars, rawFiles
<1> QED
  BY <1>1, <1>2, <1>3, <1>4, <1>5

LEMMA ReopenBronzeKeeps ==
  ASSUME ArchiveInv, NEW d \in Days, ReopenBronze(d)
  PROVE  ArchiveInv'
<1> USE DEF ArchiveInv, FilesInv, ReopenBronze, Normalizing, NormGoto
<1>1. RawInv'
  BY RawUntouched DEF archiveVars, remoteVars, rawRow, rawFiles, RawInv, RawTypeInv
<1>2. BronzeTypeInv'
  BY DEF BronzeTypeInv, NormInv, bronzeVars, FileStatus, DataFileStatus
<1>3. \A e \in Days : BronzeInv(e)'
  BY DEF BronzeInv, BronzeTypeInv, NormInv, bronzeVars
<1>4. NormInv'
  BY DEF NormInv, NormStates, BronzeInv, BronzeTypeInv, bronzeVars
<1>5. ~Overlap => SoloNormInv'
  BY DEF SoloNormInv, NormInv, archiveVars, rawFiles
<1> QED
  BY <1>1, <1>2, <1>3, <1>4, <1>5

LEMMA WriteBronzeKeeps ==
  ASSUME ArchiveInv, NEW d \in Days, WriteBronze(d)
  PROVE  ArchiveInv'
<1> USE DEF ArchiveInv, FilesInv, WriteBronze, Normalizing, NormGoto, Name
<1>1. RawInv'
  BY RawUntouched DEF archiveVars, remoteVars, rawRow, rawFiles, RawInv, RawTypeInv
<1>2. BronzeTypeInv'
  BY DEF BronzeTypeInv, NormInv, bronzeVars, Contents
<1>3. \A e \in Days : BronzeInv(e)'
  BY DEF BronzeInv, BronzeTypeInv, NormInv, bronzeVars
<1>4. NormInv'
  <2>1. CASE bronze'[d][Name(d)] = norm.held
    BY <2>1 DEF NormInv, NormStates, BronzeInv, BronzeTypeInv, bronzeVars, Down, Contents
  <2>2. CASE bronze'[d][Name(d)] # norm.held /\ bronze[d][Name(d)] = Damaged
    BY <2>2 DEF NormInv, NormStates, BronzeInv, BronzeTypeInv, bronzeVars, Down, Contents
  <2>3. CASE bronze'[d][Name(d)] # norm.held /\ bronze[d][Name(d)] # Damaged
    BY <2>3 DEF NormInv, NormStates, BronzeInv, BronzeTypeInv, bronzeVars, Down, Contents
  <2> QED
    BY <2>1, <2>2, <2>3
<1>5. ~Overlap => SoloNormInv'
  BY DEF SoloNormInv, NormInv, archiveVars, rawFiles, Down
<1> QED
  BY <1>1, <1>2, <1>3, <1>4, <1>5

LEMMA SaveBronzeKeeps ==
  ASSUME ArchiveInv, NEW d \in Days, SaveBronze(d)
  PROVE  ArchiveInv'
<1> USE DEF ArchiveInv, FilesInv, SaveBronze, Normalizing, NormGoto, NextStatus
<1>1. RawInv'
  BY RawUntouched DEF archiveVars, remoteVars, rawRow, rawFiles, RawInv, RawTypeInv
<1>2. BronzeTypeInv'
  BY DEF BronzeTypeInv, NormInv, bronzeVars, FileStatus, DataFileStatus
<1>3. \A e \in Days : BronzeInv(e)'
  BY DEF BronzeInv, BronzeTypeInv, NormInv, bronzeVars
<1>4. NormInv'
  <2>1. /\ norm.pc = "save" /\ norm.day = d /\ norm.out = bronzeStatus[d]
        /\ norm.out \in {"DOWNLOADING", "DOWNLOADED", "VALIDATED"}
        /\ bronze[d][bronzeName[d]] = norm.held /\ bronzeName[d] = norm.raw[d].sum
    BY DEF NormInv
  <2> DEFINE next == NextStatus[norm.out]
  <2>2. /\ next \in {"DOWNLOADED", "VALIDATED", "NORMALIZED"}
    BY <2>1 DEF NextStatus
  <2>3. /\ norm' = [pc |-> IF next = "NORMALIZED" THEN "raw" ELSE "save", day |-> norm.day,
                    left |-> norm.left, raw |-> norm.raw, held |-> norm.held, out |-> next]
        /\ bronzeStatus'[d] = next /\ UNCHANGED <<bronzeName, bronze>>
    BY <2>1 DEF NormInv, BronzeTypeInv
  <2> HIDE DEF next
  <2>4. bronze'[d][bronzeName'[d]] = norm.held
    BY <2>1, <2>3
  <2> QED
    BY ONLY <2>1, <2>2, <2>3, <2>4, NormInv DEF NormInv, NormStates
<1>5. ~Overlap => SoloNormInv'
  BY DEF SoloNormInv, NormInv, archiveVars, rawFiles
<1> QED
  BY <1>1, <1>2, <1>3, <1>4, <1>5

LEMMA FailBronzeKeeps ==
  ASSUME ArchiveInv, NEW d \in Days, FailBronze(d)
  PROVE  ArchiveInv'
<1> USE DEF ArchiveInv, FilesInv, FailBronze, Normalizing, NormGoto
<1>1. RawInv'
  BY RawUntouched DEF archiveVars, remoteVars, rawRow, rawFiles, RawInv, RawTypeInv
<1>2. BronzeTypeInv'
  BY DEF BronzeTypeInv, NormInv, bronzeVars, FileStatus, DataFileStatus
<1>3. \A e \in Days : BronzeInv(e)'
  <2>1. \A e \in Days :
          /\ bronzeStatus'[e] = "NORMALIZED" => bronzeStatus[e] = "NORMALIZED"
          /\ bronzeStatus[e] = "none" /\ e # d => bronzeStatus'[e] = "none"
    BY DEF BronzeTypeInv
  <2> QED
    BY <2>1 DEF BronzeInv, BronzeTypeInv, NormInv, bronzeVars
<1>4. NormInv'
  BY DEF NormInv, NormStates, BronzeInv, BronzeTypeInv, bronzeVars
<1>5. ~Overlap => SoloNormInv'
  BY DEF SoloNormInv, NormInv, archiveVars, rawFiles
<1> QED
  BY <1>1, <1>2, <1>3, <1>4, <1>5

LEMMA CrashNormalizeKeeps ==
  ASSUME ArchiveInv, CrashNormalize
  PROVE  ArchiveInv'
<1> USE DEF ArchiveInv, FilesInv, CrashNormalize, Down
<1>1. RawInv'
  BY RawUntouched DEF archiveVars, remoteVars, rawRow, rawFiles, RawInv, RawTypeInv
<1>2. BronzeTypeInv'
  BY DEF BronzeTypeInv, NormInv, bronzeVars
<1>3. \A e \in Days : BronzeInv(e)'
  BY DEF BronzeInv, BronzeTypeInv, NormInv, bronzeVars
<1>4. NormInv'
  BY DEF NormInv, NormStates, BronzeInv, BronzeTypeInv, bronzeVars, Contents
<1>5. ~Overlap => SoloNormInv'
  BY DEF SoloNormInv, NormInv, archiveVars, rawFiles
<1> QED
  BY <1>1, <1>2, <1>3, <1>4, <1>5

LEMMA DamageBronzeKeeps ==
  ASSUME ArchiveInv, NEW d \in Days, NEW v \in Versions, DamageBronze(d, v)
  PROVE  ArchiveInv'
<1> USE DEF ArchiveInv, FilesInv, DamageBronze
<1>1. RawInv'
  BY RawUntouched DEF archiveVars, remoteVars, rawRow, rawFiles, RawInv, RawTypeInv
<1>2. BronzeTypeInv'
  BY DEF BronzeTypeInv, NormInv, bronzeVars, Contents
<1>3. \A e \in Days : BronzeInv(e)'
  BY DEF BronzeInv, BronzeTypeInv, NormInv, bronzeVars
<1>4. NormInv'
  BY DEF NormInv, NormStates, BronzeInv, BronzeTypeInv, bronzeVars
<1>5. ~Overlap => SoloNormInv'
  BY DEF SoloNormInv, NormInv, archiveVars, rawFiles
<1> QED
  BY <1>1, <1>2, <1>3, <1>4, <1>5

LEMMA AuditBronzeKeeps ==
  ASSUME ArchiveInv, NEW d \in Days, AuditBronze(d)
  PROVE  ArchiveInv'
<1> USE DEF ArchiveInv, FilesInv, AuditBronze
<1>1. RawInv'
  BY RawUntouched DEF archiveVars, remoteVars, rawRow, rawFiles, RawInv, RawTypeInv
<1>2. BronzeTypeInv'
  BY DEF BronzeTypeInv, NormInv, bronzeVars
<1>3. \A e \in Days : BronzeInv(e)'
  BY DEF BronzeInv, BronzeTypeInv, NormInv, bronzeVars
<1>4. NormInv'
  BY DEF NormInv, NormStates, BronzeInv, BronzeTypeInv, bronzeVars
<1>5. ~Overlap => SoloNormInv'
  BY DEF SoloNormInv, NormInv, archiveVars, rawFiles
<1> QED
  BY <1>1, <1>2, <1>3, <1>4, <1>5

LEMMA ExtractCsvKeeps ==
  ASSUME ArchiveInv, NEW d \in Days, ExtractCsv(d)
  PROVE  ArchiveInv'
<1> USE DEF ArchiveInv, FilesInv, ExtractCsv, Normalizing, NormGoto
<1>1. RawInv'
  <2>1. csv' = [csv EXCEPT ![d] = norm.held] /\ norm.held \in Versions \ Unusable
    BY DEF NormInv
  <2>2. RawTypeInv'
    BY <2>1 DEF RawInv, RawTypeInv, Contents, remoteVars, rawRow
  <2>3. \A e \in Days : TaskInv(e)'
    BY DEF RawInv, TaskInv, rawRow
  <2>4. ~Overlap => \A e \in Days : SoloInv(e)'
    <3>1. ~Overlap => /\ \A e \in Days : task[e].pc = "idle"
                      /\ zip[d] \in {norm.held, Damaged}
      BY DEF RawInv, TaskInv, SoloNormInv
    <3> QED
      BY <2>1, <3>1 DEF RawInv, RawTypeInv, SoloInv, rawRow
  <2> QED
    BY <2>2, <2>3, <2>4 DEF RawInv
<1>2. BronzeTypeInv'
  BY DEF BronzeTypeInv, bronzeVars
<1>3. \A e \in Days : BronzeInv(e)'
  BY DEF BronzeInv, bronzeVars
<1>4. NormInv'
  BY DEF NormInv, NormStates, bronzeVars
<1>5. ~Overlap => SoloNormInv'
  BY DEF SoloNormInv, NormInv
<1> QED
  BY <1>1, <1>2, <1>3, <1>4, <1>5

LEMMA MarkRawNormalizedKeeps ==
  ASSUME ArchiveInv, NEW d \in Days, MarkRawNormalized(d)
  PROVE  ArchiveInv'
<1> USE DEF ArchiveInv, FilesInv, MarkRawNormalized, Normalizing, NormGoto
<1>1. RawInv'
  <2>1. \/ UNCHANGED rawStatus
        \/ /\ rawStatus' = [rawStatus EXCEPT ![d] = "NORMALIZED"]
           /\ rawStatus[d] \in {"VALIDATED", "NORMALIZED"}
    BY Moves
  <2>2. RawTypeInv'
    <3>1. rawStatus' \in [Days -> FileStatus]
      BY <2>1, Names DEF RawInv, RawTypeInv
    <3> QED
      BY <3>1 DEF RawInv, RawTypeInv, remoteVars, rawFiles
  <2>3. \A e \in Days : TaskInv(e)'
    BY <2>1 DEF RawInv, RawTypeInv, TaskInv, rawFiles
  <2>4. ~Overlap => \A e \in Days : SoloInv(e)'
    <3>1. ~Overlap => \A e \in Days : task[e].pc = "idle"
      BY DEF RawInv, TaskInv, SoloNormInv
    <3> QED
      BY <3>1 DEF RawInv, SoloInv, rawFiles
  <2> QED
    BY <2>2, <2>3, <2>4 DEF RawInv
<1>2. BronzeTypeInv'
  BY DEF BronzeTypeInv, bronzeVars
<1>3. \A e \in Days : BronzeInv(e)'
  BY DEF BronzeInv, bronzeVars
<1>4. NormInv'
  BY DEF NormInv, NormStates, bronzeVars
<1>5. ~Overlap => SoloNormInv'
  BY DEF SoloNormInv, NormInv, rawFiles
<1> QED
  BY <1>1, <1>2, <1>3, <1>4, <1>5

-----------------------------------------------------------------------------
(* The invariant is inductive. *)

(* What a step of the backfill does to the rest: nothing, and if no other  *)
(* command may run next to it, none does.                                  *)
Aside ==
  /\ UNCHANGED normVars
  /\ \/ Overlap
     \/ norm.pc = "down"
     \/ command # "down"
     \/ command' = command /\ \A e \in Days : zip'[e] \in {zip[e], Damaged}

LEMMA BackfillKeeps ==
  ASSUME ArchiveInv, RawInv', Aside
  PROVE  ArchiveInv'
<1>1. FilesInv'
  BY FilesUntouched DEF ArchiveInv, Aside
<1>2. ~Overlap => SoloNormInv'
  BY DEF ArchiveInv, FilesInv, NormInv, SoloNormInv, Aside, normVars
<1> QED
  BY <1>1, <1>2 DEF ArchiveInv

LEMMA LocalAside ==
  ASSUME NEW d \in Days, LocalStep(d) \/ NetworkFails(d) \/ NetworkServes(d)
  PROVE  command = "running" /\ UNCHANGED normVars
BY DEF LocalStep, NetworkFails, NetworkServes, At, Requesting,
   RegisterRaw, ValidateLocal, RejectLocal, QuarantineFile, MarkQuarantined, Reopen, Promote,
   AdoptPart, CheckPart, SaveDownloaded, Extract, SaveValidated, FailRaw,
   ChecksumUnavailable, ArchiveRefused, ArchiveBusy, RangeNotSatisfiable, BodyBreaks,
   FetchChecksum, ReceiveBody

LEMMA LocalKeeps ==
  ASSUME ArchiveInv, NEW d \in Days, LocalStep(d) \/ NetworkFails(d) \/ NetworkServes(d)
  PROVE  ArchiveInv'
<1>1. RawInv'
  BY RegisterRawRaw, ValidateLocalRaw, RejectLocalRaw, QuarantineFileRaw, MarkQuarantinedRaw, ReopenRaw,
     PromoteRaw, AdoptPartRaw, CheckPartRaw, SaveDownloadedRaw, ExtractRaw,
     SaveValidatedRaw, FailRawRaw, ChecksumUnavailableRaw, ArchiveRefusedRaw, ArchiveBusyRaw, RangeNotSatisfiableRaw,
     BodyBreaksRaw, FetchChecksumRaw, ReceiveBodyRaw
     DEF ArchiveInv, LocalStep, NetworkFails, NetworkServes
<1>2. Aside
  BY LocalAside DEF Aside
<1> QED
  BY <1>1, <1>2, BackfillKeeps

LEMMA DayKeeps ==
  ASSUME ArchiveInv, NEW d \in Days, DayStep(d)
  PROVE  ArchiveInv'
BY NextDayKeeps, OpenArchiveKeeps, ExtractCsvKeeps, ReadCsvKeeps, RegisterBronzeKeeps,
   VerifyBronzeKeeps, ReopenBronzeKeeps, WriteBronzeKeeps, SaveBronzeKeeps,
   MarkRawNormalizedKeeps, FailBronzeKeeps DEF DayStep

LEMMA InitArchiveInv ==
  ASSUME Init
  PROVE  ArchiveInv
<1> USE DEF Init
<1>1. RawTypeInv
  <2>1. Idle \in TaskRecords
    BY Names DEF Idle, TaskRecords
  <2> QED
    BY <2>1, Names DEF RawTypeInv, Contents, NoPart
<1>2. \A d \in Days : TaskInv(d) /\ SoloInv(d)
  BY DEF TaskInv, SoloInv, Idle
<1>3. FilesInv
  BY DEF FilesInv, BronzeTypeInv, BronzeInv, NormInv, Down, NormStates, Contents, FileStatus,
         DataFileStatus
<1>4. SoloNormInv
  BY DEF SoloNormInv, Down
<1> QED
  BY <1>1, <1>2, <1>3, <1>4 DEF ArchiveInv, RawInv

LEMMA NextArchiveInv ==
  ASSUME ArchiveInv, [Next]_vars
  PROVE  ArchiveInv'
<1>1. CASE StartBackfill
  <2>1. Aside
    BY <1>1 DEF StartBackfill, Aside
  <2> QED
    BY <1>1, <2>1, StartBackfillRaw, BackfillKeeps DEF ArchiveInv
<1>2. CASE RunJob
  <2>1. Aside
    BY <1>2 DEF RunJob, Aside
  <2> QED
    BY <1>2, <2>1, RunJobRaw, BackfillKeeps DEF ArchiveInv
<1>3. CASE FinishJob
  <2>1. Aside
    BY <1>3 DEF FinishJob, Aside
  <2> QED
    BY <1>3, <2>1, FinishJobRaw, BackfillKeeps DEF ArchiveInv
<1>4. CASE CrashBackfill
  <2>1. Aside
    BY <1>4 DEF CrashBackfill, Aside
  <2> QED
    BY <1>4, <2>1, CrashBackfillRaw, BackfillKeeps DEF ArchiveInv
<1>5. ASSUME NEW d \in Days, LocalStep(d) \/ NetworkFails(d) \/ NetworkServes(d)
      PROVE  ArchiveInv'
  BY <1>5, LocalKeeps
<1>6. ASSUME NEW d \in Days, DamageRaw(d)
      PROVE  ArchiveInv'
  <2>1. Aside
    BY <1>6 DEF DamageRaw, Aside, ArchiveInv, RawInv, RawTypeInv
  <2> QED
    BY <1>6, <2>1, DamageRawRaw, BackfillKeeps DEF ArchiveInv
<1>7. ASSUME NEW d \in Days, NEW v \in Versions, Replace(d, v)
      PROVE  ArchiveInv'
  <2>1. Aside
    BY <1>7 DEF Replace, Aside, rawFiles
  <2> QED
    BY <1>7, <2>1, ReplaceRaw, BackfillKeeps DEF ArchiveInv
<1>8. CASE StartNormalize \/ FinishNormalize \/ CrashNormalize
  BY <1>8, StartNormalizeKeeps, FinishNormalizeKeeps, CrashNormalizeKeeps
<1>9. ASSUME NEW d \in Days, DayStep(d) \/ AuditBronze(d)
      PROVE  ArchiveInv'
  BY <1>9, DayKeeps, AuditBronzeKeeps
<1>10. ASSUME NEW d \in Days, NEW v \in Versions, DamageBronze(d, v)
       PROVE  ArchiveInv'
  BY <1>10, DamageBronzeKeeps
<1>11. CASE UNCHANGED vars
  <2>1. RawInv'
    BY <1>11, RawUntouched DEF vars, archiveVars, remoteVars, rawRow, rawFiles, ArchiveInv,
       RawInv, RawTypeInv
  <2>2. Aside
    BY <1>11 DEF vars, archiveVars, rawFiles, Aside
  <2> QED
    BY <2>1, <2>2, BackfillKeeps
<1> QED
  BY <1>1, <1>2, <1>3, <1>4, <1>5, <1>6, <1>7, <1>8, <1>9, <1>10, <1>11
     DEF Next, BackfillStep, NormalizeStep

(* ArchiveInv holds in every reachable state. *)
THEOREM ArchiveInductive == Spec => []ArchiveInv
<1>1. Init => ArchiveInv
  BY InitArchiveInv
<1>2. ArchiveInv /\ [Next]_vars => ArchiveInv'
  BY NextArchiveInv
<1> QED
  BY <1>1, <1>2, PTL DEF Spec

-----------------------------------------------------------------------------
(* Type correctness, for any number of days, versions and faults. *)
THEOREM ArchiveTyped == Spec => []TypeOK
<1>1. ArchiveInv => TypeOK
  BY DEF ArchiveInv, RawInv, RawTypeInv, TaskRecords, FilesInv, BronzeTypeInv, NormInv, TypeOK
<1> QED
  BY <1>1, ArchiveInductive, PTL

(* The file of a NORMALIZED row has the rows that were hashed or was       *)
(* damaged, for any number of replaced archives and interleaved commands   *)
(* (KlineNormalizer.normalize_one, write_parquet_atomic).                  *)
THEOREM BronzeDurable == Spec => []BronzeIsDurable
<1>1. ArchiveInv => BronzeIsDurable
  BY DEF ArchiveInv, FilesInv, BronzeInv, BronzeIsDurable
<1> QED
  BY <1>1, ArchiveInductive, PTL

-----------------------------------------------------------------------------
(* What a step may do to an archive. *)
Keeps(e) == zip[e] \in Versions => zip'[e] \in {zip[e], NoFile, Damaged}

LEMMA LocalStepKeepsZip ==
  ASSUME RawInv, NEW d \in Days, LocalStep(d) \/ NetworkFails(d) \/ NetworkServes(d)
  PROVE  \A e \in Days : Keeps(e)
<1> USE DEF Keeps
<1>1. CASE QuarantineFile(d)
  BY <1>1 DEF QuarantineFile, RawInv, RawTypeInv
<1>2. CASE AdoptPart(d)
  BY <1>2 DEF AdoptPart, At, RawInv, RawTypeInv, TaskInv
<1>3. CASE CheckPart(d)
  BY <1>3 DEF CheckPart, At, RawInv, RawTypeInv, TaskInv
<1>4. CASE /\ ~QuarantineFile(d) /\ ~AdoptPart(d) /\ ~CheckPart(d)
  <2>1. UNCHANGED zip
    BY <1>4 DEF LocalStep, NetworkFails, NetworkServes, rawFiles,
         RegisterRaw, ValidateLocal, RejectLocal, MarkQuarantined, Reopen, Promote,
         SaveDownloaded, Extract, SaveValidated, FailRaw, ChecksumUnavailable,
         ArchiveRefused, ArchiveBusy, RangeNotSatisfiable, BodyBreaks, FetchChecksum,
         ReceiveBody
  <2> QED
    BY <2>1
<1> QED
  BY <1>1, <1>2, <1>3, <1>4

(* The normalise command and the readers leave archives and jobs alone and *)
(* validate no archive.                                                    *)
LEMMA OthersKeepArchives ==
  ASSUME RawTypeInv, NEW d \in Days,
         \/ StartNormalize \/ FinishNormalize \/ CrashNormalize \/ DayStep(d) \/ AuditBronze(d)
         \/ \E v \in Versions : DamageBronze(d, v)
  PROVE  /\ UNCHANGED <<zip, job>>
         /\ \A e \in Days : rawStatus'[e] \in {rawStatus[e], "NORMALIZED"}
BY DEF RawTypeInv, DayStep, archiveVars, rawFiles, rawRow, StartNormalize, FinishNormalize,
       CrashNormalize, NextDay, OpenArchive, ExtractCsv, ReadCsv, RegisterBronze, VerifyBronze,
       ReopenBronze, WriteBronze, SaveBronze, MarkRawNormalized, FailBronze, AuditBronze,
       DamageBronze

(* An archive that was promoted stays until it is quarantined or damaged,  *)
(* whatever the commands, the venue and the crashes do (_download_archive, *)
(* _quarantine_existing).                                                  *)
THEOREM RawKept == Spec => RawNotOverwritten
<1>1. ASSUME ArchiveInv, [Next]_vars
      PROVE  \A e \in Days : Keeps(e)
  <2>1. CASE StartBackfill \/ RunJob \/ FinishJob \/ CrashBackfill
    BY <2>1 DEF StartBackfill, RunJob, FinishJob, CrashBackfill, rawFiles, Keeps
  <2>2. ASSUME NEW d \in Days, LocalStep(d) \/ NetworkFails(d) \/ NetworkServes(d)
        PROVE  \A e \in Days : Keeps(e)
    BY <1>1, <2>2, LocalStepKeepsZip DEF ArchiveInv
  <2>3. ASSUME NEW d \in Days, DamageRaw(d)
        PROVE  \A e \in Days : Keeps(e)
    BY <1>1, <2>3 DEF DamageRaw, Keeps, ArchiveInv, RawInv, RawTypeInv
  <2>4. ASSUME NEW d \in Days, NEW v \in Versions, Replace(d, v)
        PROVE  \A e \in Days : Keeps(e)
    BY <2>4 DEF Replace, rawFiles, Keeps
  <2>5. CASE StartNormalize \/ FinishNormalize \/ CrashNormalize
    BY <2>5 DEF StartNormalize, FinishNormalize, CrashNormalize, archiveVars, rawFiles, Keeps
  <2>6. ASSUME NEW d \in Days,
               DayStep(d) \/ AuditBronze(d) \/ \E v \in Versions : DamageBronze(d, v)
        PROVE  \A e \in Days : Keeps(e)
    BY <1>1, <2>6, OthersKeepArchives DEF Keeps, ArchiveInv, RawInv
  <2>7. CASE UNCHANGED vars
    BY <2>7 DEF vars, archiveVars, rawFiles, Keeps
  <2> QED
    BY <1>1, <2>1, <2>2, <2>3, <2>4, <2>5, <2>6, <2>7 DEF Next, BackfillStep, NormalizeStep
<1>2. ArchiveInv /\ [Next]_vars
        => [\A d \in Days : zip[d] \in Versions => zip'[d] \in {zip[d], NoFile, Damaged}]_vars
  BY <1>1 DEF Keeps
<1> QED
  BY <1>2, ArchiveInductive, PTL DEF Spec, RawNotOverwritten

-----------------------------------------------------------------------------
(* A row that becomes VALIDATED. *)
Verified(e) ==
  rawStatus'[e] = "VALIDATED" /\ rawStatus[e] # "VALIDATED" =>
    zip'[e] = rawSum'[e] /\ sums'[e] = rawSum'[e] /\ csv'[e] = rawSum'[e]

LEMMA LocalStepVerifies ==
  ASSUME ~Overlap, RawInv, NEW d \in Days, LocalStep(d) \/ NetworkFails(d) \/ NetworkServes(d)
  PROVE  \A e \in Days : Verified(e)
<1> USE DEF RawInv
<1>1. task[d].exp \in Versions \cup {NoFile}
  BY DEF RawTypeInv, TaskRecords
<1>2. CASE MarkQuarantined(d)
  <2>1. Effect(d, "QUARANTINED", NoFile, "reopen")
    BY <1>2, Names, TransitionEffect DEF MarkQuarantined
  <2> QED
    BY <2>1 DEF Effect, Verified
<1>3. CASE Reopen(d)
  <2>1. Effect(d, "DOWNLOADING", NoFile, "sums")
    BY <1>3, Names, TransitionEffect DEF Reopen
  <2> QED
    BY <2>1 DEF Effect, Verified
<1>4. CASE SaveDownloaded(d)
  <2>1. Effect(d, "DOWNLOADED", task[d].exp, "extract")
    BY <1>1, <1>4, Names, TransitionEffect DEF SaveDownloaded
  <2> QED
    BY <2>1 DEF Effect, Verified
<1>5. ASSUME Transition(d, "VALIDATED", task[d].exp, "done"), UNCHANGED rawFiles,
             task[d].pc \in {"promote", "validate"}
      PROVE  \A e \in Days : Verified(e)
  <2>1. Effect(d, "VALIDATED", task[d].exp, "done")
    BY <1>1, <1>5, Names, TransitionEffect
  <2>2. /\ zip[d] = task[d].exp /\ sums[d] = task[d].exp /\ csv[d] = task[d].exp
        /\ task[d].exp \in Versions
    BY <1>5 DEF SoloInv, TaskInv
  <2> QED
    BY <1>5, <2>1, <2>2 DEF Effect, Verified, rawFiles
<1>6. CASE SaveValidated(d)
  BY <1>5, <1>6 DEF SaveValidated, At
<1>7. CASE Promote(d)
  <2>1. CASE Transition(d, "DOWNLOADING", NoFile, "promote")
    <3>1. Effect(d, "DOWNLOADING", NoFile, "promote")
      BY <2>1, Names, TransitionEffect
    <3> QED
      BY <3>1 DEF Effect, Verified
  <2>2. CASE Transition(d, "DOWNLOADED", task[d].exp, "promote")
    <3>1. Effect(d, "DOWNLOADED", task[d].exp, "promote")
      BY <1>1, <2>2, Names, TransitionEffect
    <3> QED
      BY <3>1 DEF Effect, Verified
  <2>3. CASE Transition(d, "VALIDATED", task[d].exp, "done")
    BY <1>5, <1>7, <2>3 DEF Promote, At
  <2>4. CASE UNCHANGED rawRow
    BY <2>4 DEF Verified, rawRow
  <2> QED
    BY <1>7, <2>1, <2>2, <2>3, <2>4 DEF Promote
<1>8. CASE RegisterRaw(d) \/ FailRaw(d)
  BY <1>8 DEF RegisterRaw, FailRaw, RawTypeInv, Verified
<1>9. CASE \/ ValidateLocal(d) \/ RejectLocal(d) \/ QuarantineFile(d) \/ AdoptPart(d) \/ CheckPart(d)
           \/ Extract(d) \/ NetworkFails(d) \/ NetworkServes(d)
  <2>1. UNCHANGED rawStatus
    BY <1>9 DEF NetworkFails, NetworkServes, rawRow, ValidateLocal, RejectLocal, QuarantineFile,
       AdoptPart, CheckPart, Extract, ChecksumUnavailable, ArchiveRefused, ArchiveBusy,
       RangeNotSatisfiable, BodyBreaks, FetchChecksum, ReceiveBody
  <2> QED
    BY <2>1 DEF Verified
<1> QED
  BY <1>2, <1>3, <1>4, <1>6, <1>7, <1>8, <1>9 DEF LocalStep

(* A row becomes VALIDATED only when archive, CHECKSUM file and CSV are of *)
(* the version that it names, as long as nobody normalises during a        *)
(* backfill (_guarded_download, _promote_manifest_to_validated).           *)
THEOREM ValidatedVerified ==
  ASSUME ~Overlap
  PROVE  Spec => ValidatedIsVerified
<1>1. ASSUME ArchiveInv, [Next]_vars
      PROVE  \A e \in Days : Verified(e)
  <2>1. CASE StartBackfill \/ RunJob \/ FinishJob \/ CrashBackfill
    BY <2>1 DEF StartBackfill, RunJob, FinishJob, CrashBackfill, rawRow, Verified
  <2>2. ASSUME NEW d \in Days, LocalStep(d) \/ NetworkFails(d) \/ NetworkServes(d)
        PROVE  \A e \in Days : Verified(e)
    BY <1>1, <2>2, LocalStepVerifies DEF ArchiveInv
  <2>3. ASSUME NEW d \in Days, DamageRaw(d) \/ \E v \in Versions : Replace(d, v)
        PROVE  \A e \in Days : Verified(e)
    BY <2>3 DEF DamageRaw, Replace, rawRow, Verified
  <2>4. CASE StartNormalize \/ FinishNormalize \/ CrashNormalize
    BY <2>4 DEF StartNormalize, FinishNormalize, CrashNormalize, archiveVars, rawRow, Verified
  <2>5. ASSUME NEW d \in Days,
               DayStep(d) \/ AuditBronze(d) \/ \E v \in Versions : DamageBronze(d, v)
        PROVE  \A e \in Days : Verified(e)
    BY <1>1, <2>5, OthersKeepArchives DEF Verified, ArchiveInv, RawInv
  <2>6. CASE UNCHANGED vars
    BY <2>6 DEF vars, archiveVars, rawRow, Verified
  <2> QED
    BY <1>1, <2>1, <2>2, <2>3, <2>4, <2>5, <2>6 DEF Next, BackfillStep, NormalizeStep
<1>2. ArchiveInv /\ [Next]_vars
        => [\A d \in Days :
              rawStatus'[d] = "VALIDATED" /\ rawStatus[d] # "VALIDATED" =>
                zip'[d] = rawSum'[d] /\ sums'[d] = rawSum'[d] /\ csv'[d] = rawSum'[d]]_vars
  BY <1>1 DEF Verified
<1> QED
  BY <1>2, ArchiveInductive, PTL DEF Spec, ValidatedIsVerified

-----------------------------------------------------------------------------
(* A job that ends COMPLETED has delivered every day, under the same       *)
(* assumption (_run_kline_backfill counts the failed targets).             *)
Delivered(d) ==
  /\ rawStatus[d] \in {"VALIDATED", "NORMALIZED"}
  /\ zip[d] = sums[d] /\ csv[d] \notin {NoFile, Damaged}

LEMMA LocalStepKeepsJob ==
  ASSUME NEW d \in Days, LocalStep(d) \/ NetworkFails(d) \/ NetworkServes(d)
  PROVE  UNCHANGED job
BY DEF LocalStep, NetworkFails, NetworkServes,
       RegisterRaw, ValidateLocal, RejectLocal, QuarantineFile, MarkQuarantined, Reopen, Promote,
       AdoptPart, CheckPart, SaveDownloaded, Extract, SaveValidated, FailRaw,
       ChecksumUnavailable, ArchiveRefused, ArchiveBusy, RangeNotSatisfiable, BodyBreaks,
       FetchChecksum, ReceiveBody

THEOREM CompletedDelivered ==
  ASSUME ~Overlap
  PROVE  Spec => CompletedIsDelivered
<1>1. ASSUME ArchiveInv, [Next]_vars, job = "RUNNING", job' = "COMPLETED"
      PROVE  \A d \in Days : Delivered(d)
  <2>1. CASE FinishJob
    <3>1. \A d \in Days : task[d].pc = "done"
      BY <1>1, <2>1 DEF FinishJob, Finished
    <3> QED
      BY <3>1, <1>1 DEF ArchiveInv, RawInv, SoloInv, Delivered
  <2>2. CASE StartBackfill \/ RunJob \/ CrashBackfill
    BY <1>1, <2>2 DEF StartBackfill, RunJob, CrashBackfill
  <2>3. ASSUME NEW d \in Days, LocalStep(d) \/ NetworkFails(d) \/ NetworkServes(d)
        PROVE  FALSE
    BY <1>1, <2>3, LocalStepKeepsJob
  <2>4. ASSUME NEW d \in Days, DamageRaw(d) \/ \E v \in Versions : Replace(d, v)
        PROVE  FALSE
    BY <1>1, <2>4 DEF DamageRaw, Replace
  <2>5. CASE StartNormalize \/ FinishNormalize \/ CrashNormalize
    BY <1>1, <2>5 DEF StartNormalize, FinishNormalize, CrashNormalize, archiveVars
  <2>6. ASSUME NEW d \in Days,
               DayStep(d) \/ AuditBronze(d) \/ \E v \in Versions : DamageBronze(d, v)
        PROVE  FALSE
    BY <1>1, <2>6, OthersKeepArchives DEF ArchiveInv, RawInv
  <2>7. CASE UNCHANGED vars
    BY <1>1, <2>7 DEF vars, archiveVars
  <2> QED
    BY <1>1, <2>1, <2>2, <2>3, <2>4, <2>5, <2>6, <2>7 DEF Next, BackfillStep, NormalizeStep
<1>2. ArchiveInv /\ [Next]_vars
        => [job = "RUNNING" /\ job' = "COMPLETED" =>
              \A d \in Days :
                /\ rawStatus[d] \in {"VALIDATED", "NORMALIZED"}
                /\ zip[d] = sums[d] /\ csv[d] \notin {NoFile, Damaged}]_vars
  BY <1>1 DEF Delivered
<1> QED
  BY <1>2, ArchiveInductive, PTL DEF Spec, CompletedIsDelivered

-----------------------------------------------------------------------------
(* The refinement of ServedDays. *)

ServedOf == [d \in Days |-> IF bronzeStatus[d] = "NORMALIZED" THEN bronzeSum[d] ELSE NoFile]

LEMMA BackfillServes ==
  ASSUME UNCHANGED bronzeVars
  PROVE  UNCHANGED <<ServedOf, catalog>>
BY DEF bronzeVars, ServedOf

(* A save that ends in NORMALIZED serves a day that was not served. *)
LEMMA SaveServes ==
  ASSUME FilesInv, NEW d \in Days, SaveBronze(d)
  PROVE  Served!Serve(d) \/ UNCHANGED <<ServedOf, catalog>>
<1>1. /\ norm.pc = "save" /\ norm.day = d /\ norm.out = bronzeStatus[d]
      /\ norm.out \in {"DOWNLOADING", "DOWNLOADED", "VALIDATED"}
      /\ norm.held \in Versions \ Unusable
  BY DEF SaveBronze, Normalizing, FilesInv, NormInv
<1>2. ServedOf[d] = NoFile
  BY <1>1 DEF ServedOf
<1>3. CASE norm.out = "VALIDATED"
  <2>1. /\ bronzeStatus' = [bronzeStatus EXCEPT ![d] = "NORMALIZED"]
        /\ bronzeSum' = [bronzeSum EXCEPT ![d] = norm.held] /\ UNCHANGED catalog
    BY <1>3 DEF SaveBronze, NextStatus
  <2>2. ServedOf' = [ServedOf EXCEPT ![d] = norm.held]
    BY <2>1 DEF ServedOf, FilesInv, BronzeTypeInv
  <2> QED
    BY <1>1, <1>2, <2>1, <2>2 DEF Served!Serve, ServedOf
<1>4. CASE norm.out # "VALIDATED"
  <2>1. /\ bronzeStatus' = [bronzeStatus EXCEPT ![d] = NextStatus[norm.out]]
        /\ NextStatus[norm.out] # "NORMALIZED"
        /\ bronzeSum' = [bronzeSum EXCEPT ![d] = norm.held] /\ UNCHANGED catalog
    BY <1>1, <1>4 DEF SaveBronze, NextStatus
  <2>2. ServedOf' = ServedOf
    BY <1>1, <2>1 DEF ServedOf, FilesInv, BronzeTypeInv
  <2> QED
    BY <2>1, <2>2
<1> QED
  BY <1>3, <1>4

(* The other steps on a row change none that is NORMALIZED. *)
LEMMA RowKept ==
  ASSUME FilesInv, NEW d \in Days, RegisterBronze(d) \/ ReopenBronze(d) \/ FailBronze(d)
  PROVE  UNCHANGED <<ServedOf, catalog>>
<1>1. /\ \A e \in Days : bronzeStatus'[e] = "NORMALIZED" <=> bronzeStatus[e] = "NORMALIZED"
      /\ UNCHANGED <<bronzeSum, catalog>>
  <2>1. CASE RegisterBronze(d)
    BY <2>1 DEF RegisterBronze, FilesInv, BronzeTypeInv
  <2>2. CASE ReopenBronze(d)
    BY <2>2 DEF ReopenBronze, Normalizing, FilesInv, BronzeTypeInv, NormInv
  <2>3. CASE FailBronze(d)
    BY <2>3 DEF FailBronze, FilesInv, BronzeTypeInv
  <2> QED
    BY <2>1, <2>2, <2>3
<1> QED
  BY <1>1 DEF ServedOf

LEMMA FinishLists ==
  ASSUME FilesInv, FinishNormalize
  PROVE  Served!List \/ UNCHANGED <<ServedOf, catalog>>
<1>1. UNCHANGED ServedOf
  BY DEF FinishNormalize, ServedOf
<1>2. {d \in Days : ServedOf[d] # NoFile} = {d \in Days : bronzeStatus[d] = "NORMALIZED"}
  BY DEF ServedOf, FilesInv, BronzeInv
<1> QED
  BY <1>1, <1>2 DEF FinishNormalize, Served!List, ServedOf

(* Every step of the historical plane is one of ServedDays, or none. *)
LEMMA StepServes ==
  ASSUME ArchiveInv, [Next]_vars
  PROVE  [Served!Next]_<<ServedOf, catalog>>
<1> USE DEF ArchiveInv
<1>1. CASE StartBackfill \/ RunJob \/ FinishJob \/ CrashBackfill
  BY <1>1, BackfillServes DEF StartBackfill, RunJob, FinishJob, CrashBackfill, normVars
<1>2. ASSUME NEW d \in Days, LocalStep(d) \/ NetworkFails(d) \/ NetworkServes(d)
      PROVE  [Served!Next]_<<ServedOf, catalog>>
  BY <1>2, LocalAside, BackfillServes DEF normVars
<1>3. ASSUME NEW d \in Days, DamageRaw(d) \/ \E v \in Versions : Replace(d, v)
      PROVE  [Served!Next]_<<ServedOf, catalog>>
  BY <1>3, BackfillServes DEF DamageRaw, Replace, normVars
<1>4. CASE StartNormalize \/ CrashNormalize
  BY <1>4, BackfillServes DEF StartNormalize, CrashNormalize
<1>5. CASE FinishNormalize
  BY <1>5, FinishLists DEF Served!Next
<1>6. ASSUME NEW d \in Days, SaveBronze(d)
      PROVE  [Served!Next]_<<ServedOf, catalog>>
  BY <1>6, SaveServes DEF Served!Next
<1>7. ASSUME NEW d \in Days, RegisterBronze(d) \/ ReopenBronze(d) \/ FailBronze(d)
      PROVE  [Served!Next]_<<ServedOf, catalog>>
  BY <1>7, RowKept
<1>8. ASSUME NEW d \in Days,
             \/ NextDay(d) \/ OpenArchive(d) \/ ExtractCsv(d) \/ ReadCsv(d) \/ VerifyBronze(d)
             \/ MarkRawNormalized(d)
      PROVE  [Served!Next]_<<ServedOf, catalog>>
  BY <1>8, BackfillServes
     DEF NextDay, OpenArchive, ExtractCsv, ReadCsv, VerifyBronze, MarkRawNormalized
<1>9. ASSUME NEW d \in Days,
             WriteBronze(d) \/ AuditBronze(d) \/ \E v \in Versions : DamageBronze(d, v)
      PROVE  [Served!Next]_<<ServedOf, catalog>>
  BY <1>9 DEF WriteBronze, AuditBronze, DamageBronze, ServedOf
<1>10. CASE UNCHANGED vars
  BY <1>10, BackfillServes DEF vars, normVars
<1> QED
  BY <1>1, <1>2, <1>3, <1>4, <1>5, <1>6, <1>7, <1>8, <1>9, <1>10
     DEF Next, BackfillStep, NormalizeStep, DayStep

(* Canonical days are served for ever: the historical plane implements     *)
(* ServedDays, for any number of days, replaced archives and faults.       *)
THEOREM DaysAreServed == Spec => ServedForever
<1>1. Init => Served!Init
  BY DEF Init, Served!Init
<1>2. ArchiveInv /\ [Next]_vars => [Served!Next]_<<ServedOf, catalog>>
  BY StepServes
<1> QED
  BY <1>1, <1>2, ArchiveInductive, PTL DEF Spec, ServedForever, Served!Spec, ServedOf

-----------------------------------------------------------------------------
(* Multiples of the interval. *)

LEMMA Products ==
  ASSUME NEW a \in Int, NEW b \in Int
  PROVE  /\ a * Interval \in Int
         /\ a < b => a * Interval + Interval <= b * Interval
         /\ a * Interval = b * Interval => a = b
         /\ a * Interval < b * Interval => a < b
         /\ (a + 1) * Interval = a * Interval + Interval
         /\ (a - b) * Interval = a * Interval - b * Interval
<1> Interval \in Nat /\ Interval > 0
  BY FrameAssumption
<1>1. ASSUME NEW c \in Int, NEW d \in Int, c < d
      PROVE  c * Interval + Interval <= d * Interval
  <2>1. (d - c - 1) * Interval >= 0
    BY <1>1
  <2>2. (d - c - 1) * Interval = d * Interval - c * Interval - Interval
    BY <1>1
  <2>3. c * Interval \in Int /\ d * Interval \in Int
    BY <1>1
  <2> QED
    BY <2>1, <2>2, <2>3
<1>2. a * Interval \in Int /\ b * Interval \in Int
  OBVIOUS
<1>3. a = b \/ a < b \/ b < a
  OBVIOUS
<1>4. (a + 1) * Interval = a * Interval + Interval /\ (a - b) * Interval = a * Interval - b * Interval
  OBVIOUS
<1> QED
  BY <1>1, <1>2, <1>3, <1>4

LEMMA Quotients ==
  ASSUME NEW a \in Int
  PROVE  (a * Interval) \div Interval = a /\ (a * Interval) % Interval = 0
<1> Interval \in Nat /\ Interval > 0
  BY FrameAssumption
<1> QED
  BY Products

LEMMA MultipleExists ==
  ASSUME NEW t \in Int, t % Interval = 0
  PROVE  \E a \in Int : t = a * Interval
<1> Interval \in Nat /\ Interval > 0
  BY FrameAssumption
<1>1. t = (t \div Interval) * Interval /\ t \div Interval \in Int
  OBVIOUS
<1> QED
  BY <1>1

LEMMA LargestNumber ==
  ASSUME NEW S \in SUBSET Nat, IsFiniteSet(S), S # {}
  PROVE  Max(S) \in S /\ \A y \in S : Max(S) >= y
<1> DEFINE Bad == {U \in SUBSET S : U # {} /\ ~\E x \in U : \A y \in U : x >= y}
<1>1. Bad = {}
  <2> SUFFICES ASSUME Bad # {} PROVE FALSE
    OBVIOUS
  <2>1. Bad \subseteq FiniteSubsetsOf(S)
    BY FS_Subset DEF FiniteSubsetsOf
  <2> HIDE DEF Bad
  <2>2. PICK U \in Bad : \A V \in Bad : ~(<<V, U>> \in StrictSubsetOrdering(S))
    BY <2>1, FS_StrictSubsetOrderingWellFounded, WFMin
  <2>3. U \in SUBSET S /\ U # {} /\ ~\E x \in U : \A y \in U : x >= y
    BY DEF Bad
  <2>4. PICK u \in U : TRUE
    BY <2>3
  <2> DEFINE V == U \ {u}
  <2>5. V \notin Bad
    BY <2>2, <2>3, <2>4 DEF StrictSubsetOrdering
  <2>6. V # {} => \E x \in V : \A y \in V : x >= y
    BY <2>3, <2>5 DEF Bad
  <2>7. CASE V = {}
    BY <2>3, <2>4, <2>7
  <2>8. CASE V # {}
    <3>1. PICK v \in V : \A y \in V : v >= y
      BY <2>6, <2>8
    <3>2. CASE v >= u
      BY <2>3, <3>1, <3>2
    <3>3. CASE ~(v >= u)
      BY <2>3, <2>4, <3>1, <3>3
    <3> QED
      BY <3>2, <3>3
  <2> QED
    BY <2>7, <2>8
<1>2. \E x \in S : \A y \in S : x >= y
  BY <1>1
<1> QED
  BY <1>2 DEF Max

(* Sorted lists a finite set of numbers in increasing order. *)
LEMMA SortedFacts ==
  ASSUME NEW S \in SUBSET Nat, IsFiniteSet(S)
  PROVE  /\ Cardinality(S) \in Nat
         /\ Sorted(S) \in [1..Cardinality(S) -> S]
         /\ \A i, j \in 1..Cardinality(S) : i < j => Sorted(S)[i] < Sorted(S)[j]
         /\ \A t \in S : \E k \in 1..Cardinality(S) : Sorted(S)[k] = t
<1> DEFINE n == Cardinality(S)
           upto(t) == {u \in S : u <= t}
           rank == [t \in S |-> Cardinality(upto(t))]
<1>1. n \in Nat
  BY FS_CardinalityType
<1>2. ASSUME NEW t \in S
      PROVE  /\ IsFiniteSet(upto(t)) /\ rank[t] \in Nat /\ rank[t] <= n
             /\ rank[t] # 0
  <2>1. IsFiniteSet(upto(t)) /\ Cardinality(upto(t)) <= n
    BY FS_Subset
  <2>2. t \in upto(t)
    OBVIOUS
  <2>3. rank[t] = Cardinality(upto(t))
    OBVIOUS
  <2>4. Cardinality(upto(t)) \in Nat /\ Cardinality(upto(t)) # 0
    BY <2>1, <2>2, FS_CardinalityType, FS_EmptySet
  <2> QED
    BY <2>1, <2>3, <2>4
<1>3. ASSUME NEW t \in S, NEW v \in S, t < v PROVE rank[t] < rank[v]
  <2>1. upto(t) \in SUBSET upto(v)
    <3>1. \A u \in S : u <= t => u <= v
      BY <1>3
    <3> QED
      BY <3>1
  <2>2. v \in upto(v) /\ v \notin upto(t)
    BY <1>3
  <2>3. Cardinality(upto(t)) <= Cardinality(upto(v)) /\ Cardinality(upto(t)) # Cardinality(upto(v))
    BY <1>2, <2>1, <2>2, FS_Subset
  <2> HIDE DEF upto
  <2> QED
    BY <1>2, <2>3
<1>4. rank \in [S -> 1..n]
  <2>1. \A t \in S : rank[t] \in 1..n
    BY <1>1, <1>2
  <2> QED
    BY <2>1
<1>5. \A t, v \in S : rank[t] = rank[v] => t = v
  <2> SUFFICES ASSUME NEW t \in S, NEW v \in S, rank[t] = rank[v], t # v PROVE FALSE
    OBVIOUS
  <2>1. t < v \/ v < t
    OBVIOUS
  <2>2. rank[t] \in Nat /\ rank[v] \in Nat
    BY <1>2
  <2> HIDE DEF rank
  <2> QED
    BY <1>3, <2>1, <2>2
<1> HIDE DEF rank
<1>6. \A k \in 1..n : \E t \in S : rank[t] = k
  <2>1. rank \in Injection(S, 1..n)
    BY <1>4, <1>5 DEF Injection, IsInjective
  <2>2. IsFiniteSet(1..n) /\ Cardinality(1..n) = n
    BY <1>1, FS_Interval
  <2>3. rank \in Surjection(S, 1..n)
    BY <2>1, <2>2, FS_Injection
  <2> QED
    BY <2>3 DEF Surjection
<1>7. \A k \in 1..n : Sorted(S)[k] \in S /\ Cardinality({u \in S : u <= Sorted(S)[k]}) = k
  <2>1. \A k \in 1..n : \E t \in S : Cardinality({u \in S : u <= t}) = k
    BY <1>6 DEF rank
  <2> QED
    BY <2>1 DEF Sorted
<1>8. \A k \in 1..n : Sorted(S)[k] \in S /\ rank[Sorted(S)[k]] = k
  BY <1>7 DEF rank
<1>9. \A i, j \in 1..n : i < j => Sorted(S)[i] < Sorted(S)[j]
  <2> SUFFICES ASSUME NEW i \in 1..n, NEW j \in 1..n, i < j, ~(Sorted(S)[i] < Sorted(S)[j])
               PROVE  FALSE
    OBVIOUS
  <2>1. Sorted(S)[i] \in Nat /\ Sorted(S)[j] \in Nat
    BY <1>8
  <2>2. Sorted(S)[j] < Sorted(S)[i] \/ Sorted(S)[i] = Sorted(S)[j]
    BY <2>1
  <2>3. rank[Sorted(S)[i]] = i /\ rank[Sorted(S)[j]] = j
    BY <1>8
  <2>4. Sorted(S)[j] < Sorted(S)[i] => j < i
    BY <1>3, <1>8, <2>3
  <2> QED
    BY <1>1, <2>2, <2>3, <2>4
<1>10. \A t \in S : \E k \in 1..n : Sorted(S)[k] = t
  BY <1>4, <1>5, <1>8
<1>11. Sorted(S) \in [1..n -> S]
  BY <1>7 DEF Sorted
<1> QED
  BY <1>1, <1>9, <1>10, <1>11

-----------------------------------------------------------------------------
(* What is missing before a time, and the holes that start before it.      *)

Lost(V, x) == {t \in Minutes : t < x /\ t \notin V}
Holes(V, x) == {t \in Lost(V, x) : t - Interval \in V \/ t = 0}

LEMMA MinuteFacts ==
  /\ ExpectedLast \in Nat /\ \E e \in Nat : ExpectedLast = e * Interval
  /\ Minutes \in SUBSET Nat /\ IsFiniteSet(Minutes)
  /\ \A t \in Minutes : t <= ExpectedLast /\ \E c \in Nat : t = c * Interval
  /\ \A c \in Int : c * Interval \in 0..ExpectedLast => c * Interval \in Minutes
<1> DEFINE e == DayEnd \div Interval
<1> Interval \in Nat /\ Interval > 0 /\ DayEnd \in Nat
  BY FrameAssumption
<1>1. e \in Nat
  OBVIOUS
<1> HIDE DEF e
<1>2. e * Interval \in Nat
  BY <1>1
<1>3. ExpectedLast \in Nat /\ ExpectedLast = e * Interval
  BY <1>2 DEF ExpectedLast, e
<1>4. Minutes \in SUBSET Nat /\ IsFiniteSet(Minutes)
  <2>1. IsFiniteSet(0..ExpectedLast)
    BY <1>3, FS_Interval
  <2>2. Minutes \in SUBSET (0..ExpectedLast)
    BY DEF Minutes
  <2>3. 0..ExpectedLast \subseteq Nat
    BY <1>3
  <2> QED
    BY <2>1, <2>2, <2>3, FS_Subset
<1>5. ASSUME NEW t \in Minutes PROVE t <= ExpectedLast /\ \E c \in Nat : t = c * Interval
  <2>1. t \in Nat /\ t <= ExpectedLast /\ t % Interval = 0
    BY <1>3 DEF Minutes
  <2>2. PICK c \in Int : t = c * Interval
    BY <2>1, MultipleExists
  <2>3. c < 0 => c * Interval + Interval <= 0
    <3>1. 0 * Interval = 0
      OBVIOUS
    <3> QED
      BY <3>1, Products
  <2>4. c >= 0
    BY <2>1, <2>2, <2>3
  <2> QED
    BY <2>1, <2>2, <2>4
<1>6. \A c \in Int : c * Interval \in 0..ExpectedLast => c * Interval \in Minutes
  BY Quotients DEF Minutes
<1> QED
  BY <1>1, <1>3, <1>4, <1>5, <1>6

LEMMA MinuteSizes ==
  /\ ExpectedLast \in Nat /\ Interval \in Nat /\ Interval > 0
  /\ \A t \in Minutes : t \in Nat /\ 0 <= t /\ t <= ExpectedLast
BY MinuteFacts, FrameAssumption

LEMMA BetweenMultiples ==
  ASSUME NEW a \in Int, NEW b \in Int, a >= -1, a < b, b * Interval <= ExpectedLast + Interval
  PROVE  LET B == {t \in Minutes : a * Interval < t /\ t < b * Interval}
         IN  IsFiniteSet(B) /\ Cardinality(B) = b - a - 1
<1> DEFINE B == {t \in Minutes : a * Interval < t /\ t < b * Interval}
           K == (a + 1)..(b - 1)
           f == [k \in K |-> k * Interval]
<1>1. IsFiniteSet(K) /\ Cardinality(K) = b - a - 1
  <2>1. IsFiniteSet(K) /\ Cardinality(K) = IF a + 1 > b - 1 THEN 0 ELSE (b - 1) - (a + 1) + 1
    <3>1. a + 1 \in Int /\ b - 1 \in Int
      OBVIOUS
    <3> HIDE DEF K
    <3> QED
      BY <3>1, FS_Interval DEF K
  <2> QED
    BY <2>1
<1>2. ASSUME NEW k \in K PROVE f[k] \in B
  <2>1. k \in Int /\ a < k /\ k < b /\ 0 <= k /\ 0 * Interval = 0 /\ Interval \in Nat
    BY FrameAssumption
  <2>2. a * Interval + Interval <= k * Interval /\ k * Interval + Interval <= b * Interval
        /\ k * Interval \in Int /\ a * Interval \in Int /\ b * Interval \in Int
    BY <2>1, Products
  <2>3. 0 <= k * Interval
    <3>1. CASE k = 0
      BY <2>1, <3>1
    <3>2. CASE 0 < k
      <4>1. 0 * Interval + Interval <= k * Interval
        BY <2>1, <3>2, Products
      <4> QED
        BY <2>1, <2>2, <4>1
    <3> QED
      BY <2>1, <3>1, <3>2
  <2>4. k * Interval \in 0..ExpectedLast /\ a * Interval < k * Interval /\ k * Interval < b * Interval
    BY <2>1, <2>2, <2>3, FrameAssumption, MinuteFacts
  <2> QED
    BY <2>1, <2>4, MinuteFacts
<1>3. \A j, k \in K : f[j] = f[k] => j = k
  BY Products
<1>4. ASSUME NEW t \in B PROVE \E k \in K : f[k] = t
  <2>1. PICK c \in Nat : t = c * Interval
    BY MinuteFacts
  <2>2. a < c /\ c < b
    BY <2>1, Products
  <2> QED
    BY <2>1, <2>2
<1> HIDE DEF K, B
<1>5. f \in Bijection(K, B)
  <2>1. f \in [K -> B] /\ DOMAIN f = K
    BY <1>2
  <2> HIDE DEF f
  <2> QED
    BY <1>3, <1>4, <2>1 DEF Bijection, Injection, Surjection, IsInjective
<1>6. IsFiniteSet(B) /\ Cardinality(B) = Cardinality(K)
  BY <1>1, <1>5, FS_Bijection DEF ExistsBijection
<1> QED
  BY <1>1, <1>6 DEF B

(* From the last time of a set to the next: what is lost between them is   *)
(* one hole, if anything is.                                               *)
LEMMA NextTime ==
  ASSUME NEW V \in SUBSET Minutes, NEW a \in Int, NEW b \in Int, a < b,
         b * Interval <= ExpectedLast + Interval,
         \/ a = -1 /\ V = {}
         \/ a * Interval \in V /\ \A t \in V : t <= a * Interval
  PROVE  /\ Cardinality(Lost(V, a * Interval)) \in Nat /\ Cardinality(Holes(V, a * Interval)) \in Nat
         /\ Cardinality(Lost(V, b * Interval)) = Cardinality(Lost(V, a * Interval)) + (b - a - 1)
         /\ Cardinality(Holes(V, b * Interval)) =
              Cardinality(Holes(V, a * Interval)) + (IF b - a > 1 THEN 1 ELSE 0)
<1> DEFINE p == a * Interval
           q == b * Interval
           B == {t \in Minutes : p < t /\ t < q}
           X == IF b - a > 1 THEN {p + Interval} ELSE {}
<1> Interval \in Nat /\ Interval > 0
  BY FrameAssumption
<1>1. p \in Int /\ q \in Int /\ p + Interval <= q /\ p + Interval = (a + 1) * Interval
  BY Products
<1>2. a >= -1
  <2>1. CASE p \in V
    <3>1. p \in Nat
      BY <2>1, MinuteFacts
    <3>2. PICK c \in Nat : p = c * Interval
      BY <2>1, MinuteFacts
    <3> QED
      BY <3>2, Products
  <2> QED
    BY <2>1
<1>3. IsFiniteSet(B) /\ Cardinality(B) = b - a - 1
  BY <1>2, BetweenMultiples
<1>4. p \in V \/ p \notin Minutes
  <2>1. CASE a = -1
    <3>1. p = -Interval
      BY <2>1
    <3> QED
      BY <3>1, MinuteFacts
  <2> QED
    BY <2>1
<1>5. \A t \in V : t <= p
  OBVIOUS
<1>6. Minutes \in SUBSET Nat /\ IsFiniteSet(Minutes)
  BY MinuteFacts
<1>7. Lost(V, p) \in SUBSET Minutes /\ Holes(V, p) \in SUBSET Minutes
  BY DEF Lost, Holes
<1>8. IsFiniteSet(Lost(V, p)) /\ IsFiniteSet(Holes(V, p))
  BY <1>6, <1>7, FS_Subset
<1>9. Lost(V, q) = Lost(V, p) \cup B /\ Lost(V, p) \cap B = {}
  <2> HIDE DEF p, q
  <2>1. ASSUME NEW t \in Minutes PROVE t \in Lost(V, q) <=> t \in Lost(V, p) \/ t \in B
    <3>1. t \in Nat
      BY <1>6
    <3>2. t < p \/ t = p \/ p < t
      BY <1>1, <3>1
    <3>3. t < p => t < q
      BY <1>1, <3>1
    <3>4. p < t => t \notin V
      BY <1>1, <1>5, <3>1
    <3> QED
      BY <1>4, <3>2, <3>3, <3>4 DEF Lost
  <2>2. \A t \in Minutes : ~(t < p /\ p < t)
    BY <1>1, <1>6
  <2> QED
    BY <2>1, <2>2 DEF Lost
<1>10. p + Interval \notin Holes(V, p) /\ IsFiniteSet(X)
       /\ Cardinality(X) = IF b - a > 1 THEN 1 ELSE 0
  <2>1. p + Interval \notin Holes(V, p)
    BY <1>1 DEF Holes, Lost
  <2>2. IsFiniteSet(X) /\ Cardinality(X) = IF b - a > 1 THEN 1 ELSE 0
    BY FS_EmptySet, FS_Singleton
  <2> QED
    BY <2>1, <2>2
<1>11. Holes(V, q) = Holes(V, p) \cup X
  <2>1. ASSUME NEW t \in Holes(V, q) PROVE t \in Holes(V, p) \cup X
    <3>1. t \in Minutes /\ t < q /\ t \notin V /\ (t - Interval \in V \/ t = 0) /\ t \in Nat
      BY <1>6 DEF Holes, Lost
    <3>2. CASE t < p
      BY <3>1, <3>2 DEF Holes, Lost
    <3>3. CASE t = p
      BY <1>4, <3>1, <3>3
    <3>4. CASE p < t
      <4>1. PICK c \in Nat : t = c * Interval
        BY <3>1, MinuteFacts
      <4>2. a < c /\ c < b
        BY <3>1, <3>4, <4>1, Products
      <4>3. c = a + 1
        <5>1. CASE t = 0
          <6>1. 0 * Interval = 0
            OBVIOUS
          <6>2. c = 0
            BY <4>1, <5>1, <6>1, Products
          <6> QED
            BY <1>2, <4>2, <6>2
        <5>2. CASE t - Interval \in V
          <6>1. t - Interval <= p /\ t - Interval = (c - 1) * Interval
            <7>1. (c - 1) * Interval = c * Interval - 1 * Interval
              BY Products
            <7> QED
              BY <1>5, <4>1, <5>2, <7>1
          <6>2. ~(a < c - 1)
            BY <1>1, <6>1, Products
          <6> QED
            BY <4>2, <6>2
        <5> QED
          BY <3>1, <5>1, <5>2
      <4>4. b - a > 1 /\ t = p + Interval
        BY <1>1, <4>1, <4>2, <4>3
      <4> QED
        BY <4>4
    <3> QED
      BY <1>1, <3>1, <3>2, <3>3, <3>4
  <2>2. ASSUME NEW t \in Holes(V, p) PROVE t \in Holes(V, q)
    BY <1>1, <1>6 DEF Holes, Lost
  <2>3. ASSUME b - a > 1 PROVE p + Interval \in Holes(V, q)
    <3>1. a + 1 < b /\ a + 1 \in Int /\ 0 * Interval = 0
      BY <2>3
    <3>2. p + Interval + Interval <= q
      BY <1>1, <3>1, Products
    <3>3. a + 1 = 0 \/ 0 < a + 1
      BY <1>2
    <3>4. 0 < a + 1 => 0 * Interval + Interval <= (a + 1) * Interval
      BY <3>1, Products
    <3>5. a + 1 = 0 => (a + 1) * Interval = 0
      OBVIOUS
    <3>6. p + Interval >= 0
      BY <1>1, <3>1, <3>3, <3>4, <3>5
    <3>7. p + Interval \in 0..ExpectedLast
      BY <1>1, <3>2, <3>6, MinuteFacts
    <3>8. p + Interval \in Minutes
      BY <1>1, <3>1, <3>7, MinuteFacts
    <3>9. p + Interval \notin V /\ p + Interval < q
      BY <1>1, <1>5, <3>2
    <3>10. (p + Interval) - Interval = p
      BY <1>1
    <3>11. p \in V \/ p + Interval = 0
      <4>1. CASE a = -1
        BY <1>1, <3>5, <4>1
      <4> QED
        BY <4>1
    <3> QED
      BY <3>8, <3>9, <3>10, <3>11 DEF Holes, Lost
  <2> QED
    BY <2>1, <2>2, <2>3
<1> HIDE DEF p, q, B, X
<1>12. /\ Cardinality(Lost(V, p)) \in Nat /\ Cardinality(Holes(V, p)) \in Nat
  BY <1>8, FS_CardinalityType
<1>13. Cardinality(Lost(V, q)) = Cardinality(Lost(V, p)) + (b - a - 1)
  <2>1. Cardinality(Lost(V, q)) = Cardinality(Lost(V, p)) + Cardinality(B) - Cardinality({})
    BY <1>3, <1>8, <1>9, FS_Union
  <2> QED
    BY <1>3, <1>12, <2>1, FS_EmptySet
<1>14. Cardinality(Holes(V, q)) = Cardinality(Holes(V, p)) + (IF b - a > 1 THEN 1 ELSE 0)
  <2>1. Holes(V, p) \cap X = {}
    BY <1>10 DEF X
  <2>2. Cardinality(Holes(V, q)) = Cardinality(Holes(V, p)) + Cardinality(X) - Cardinality({})
    BY <1>8, <1>10, <1>11, <2>1, FS_Union
  <2> QED
    BY <1>10, <1>12, <2>2, FS_EmptySet
<1> QED
  BY <1>12, <1>13, <1>14 DEF p, q

-----------------------------------------------------------------------------
(* The loop of _gap_metrics over the sorted times.                         *)

NoGaps == [missing |-> 0, events |-> 0, previous |-> -Interval]

(* The times with the positions I of a sequence, the last of them, and     *)
(* what the loop has counted by then.                                      *)
Placed(seq, I) == {seq[i] : i \in I}
LastPlaced(seq, I) == IF I = {} THEN -Interval ELSE seq[Max(I)]
Counted(seq, I) ==
  [missing  |-> Cardinality(Lost(Placed(seq, I), LastPlaced(seq, I))),
   events   |-> Cardinality(Holes(Placed(seq, I), LastPlaced(seq, I))),
   previous |-> LastPlaced(seq, I)]

Increasing(seq, n) ==
  /\ seq \in [1..n -> Minutes]
  /\ \A i, j \in 1..n : i < j => seq[i] < seq[j]

LEMMA LastFacts ==
  ASSUME NEW n \in Nat, NEW seq, Increasing(seq, n), NEW I \in SUBSET (1..n)
  PROVE  /\ Placed(seq, I) \in SUBSET Minutes
         /\ \E a \in Int : /\ LastPlaced(seq, I) = a * Interval
                           /\ \/ a = -1 /\ Placed(seq, I) = {}
                              \/ a * Interval \in Placed(seq, I) /\ \A t \in Placed(seq, I) : t <= a * Interval
         /\ I # {} => Max(I) \in I /\ \A i \in I : i <= Max(I)
<1>1. Placed(seq, I) \in SUBSET Minutes
  BY DEF Placed, Increasing
<1>2. CASE I = {}
  <2>1. LastPlaced(seq, I) = (-1) * Interval /\ Placed(seq, I) = {}
    BY <1>2, FrameAssumption DEF LastPlaced, Placed
  <2> QED
    BY <1>1, <1>2, <2>1
<1>3. CASE I # {}
  <2>1. I \in SUBSET Nat /\ IsFiniteSet(I)
    <3>1. IsFiniteSet(1..n)
      BY FS_Interval
    <3>2. IsFiniteSet(I)
      BY <3>1, FS_Subset
    <3>3. \A i \in I : i \in Nat
      OBVIOUS
    <3> QED
      BY <3>2, <3>3
  <2>2. Max(I) \in I /\ \A i \in I : Max(I) >= i
    BY <1>3, <2>1, LargestNumber
  <2>3. LastPlaced(seq, I) = seq[Max(I)] /\ seq[Max(I)] \in Placed(seq, I)
    BY <1>3, <2>2 DEF LastPlaced, Placed
  <2>4. ASSUME NEW i \in I PROVE seq[i] <= seq[Max(I)]
    <3> DEFINE m == Max(I)
    <3>1. m \in 1..n /\ i \in 1..n /\ m >= i
      BY <2>2
    <3> HIDE DEF m
    <3>2. i < m \/ i = m
      BY <3>1
    <3>3. seq[i] \in Nat /\ seq[m] \in Nat
      BY <3>1, MinuteSizes DEF Increasing
    <3>4. i < m => seq[i] < seq[m]
      BY <3>1 DEF Increasing
    <3>5. seq[i] <= seq[m]
      BY <3>2, <3>3, <3>4
    <3> QED
      BY <3>5 DEF m
  <2>5. \A t \in Placed(seq, I) : t <= seq[Max(I)]
    BY <2>4 DEF Placed
  <2>6. PICK c \in Nat : seq[Max(I)] = c * Interval
    BY <1>1, <2>3, MinuteFacts
  <2>7. \A i \in I : i <= Max(I)
    BY <2>1, <2>2
  <2> QED
    BY <1>1, <2>2, <2>3, <2>5, <2>6, <2>7
<1> QED
  BY <1>2, <1>3

LEMMA GapStepCounts ==
  ASSUME NEW n \in Nat, NEW seq, Increasing(seq, n), NEW I \in SUBSET (1..n), I # {}
  PROVE  Counted(seq, I) = GapStep(Counted(seq, I \ {Max(I)}), seq[Max(I)])
<1> DEFINE m == Max(I)
           J == I \ {m}
           V == Placed(seq, J)
           W == Placed(seq, I)
<1>1. m \in I /\ \A i \in I : i <= m
  BY LastFacts
<1> HIDE DEF m
<1>2. PICK a \in Int : /\ LastPlaced(seq, J) = a * Interval
                       /\ \/ a = -1 /\ V = {}
                          \/ a * Interval \in V /\ \A t \in V : t <= a * Interval
  BY LastFacts
<1>3. LastPlaced(seq, I) = seq[m] /\ seq[m] \in Minutes
  BY <1>1 DEF LastPlaced, m, Increasing
<1>4. PICK b \in Nat : seq[m] = b * Interval
  BY <1>3, MinuteFacts
<1>5. W = V \cup {seq[m]}
  BY <1>1 DEF Placed
<1>6. \A t \in V : t < seq[m]
  <2>1. ASSUME NEW j \in J PROVE seq[j] < seq[m]
    <3>1. j < m /\ j \in 1..n /\ m \in 1..n
      BY <1>1
    <3> QED
      BY <3>1 DEF Increasing
  <2> QED
    BY <2>1 DEF Placed
<1>7. a < b
  <2>1. CASE a = -1
    BY <2>1
  <2>2. CASE a * Interval \in V
    BY <1>4, <1>6, <2>2, Products
  <2> QED
    BY <1>2, <2>1, <2>2
<1>8. b * Interval <= ExpectedLast + Interval /\ V \in SUBSET Minutes
  BY <1>3, <1>4, LastFacts, MinuteFacts, FrameAssumption
<1> HIDE DEF V, W, J
<1>9. /\ Cardinality(Lost(V, a * Interval)) \in Nat /\ Cardinality(Holes(V, a * Interval)) \in Nat
      /\ Cardinality(Lost(V, b * Interval)) = Cardinality(Lost(V, a * Interval)) + (b - a - 1)
      /\ Cardinality(Holes(V, b * Interval)) =
           Cardinality(Holes(V, a * Interval)) + (IF b - a > 1 THEN 1 ELSE 0)
  <2>1. b \in Int
    OBVIOUS
  <2> QED
    BY ONLY <1>2, <1>7, <1>8, <2>1, NextTime
<1>10. Lost(W, b * Interval) = Lost(V, b * Interval)
  <2>1. \A t \in Minutes : t < b * Interval => t # seq[m]
    BY <1>3, <1>4, MinuteFacts
  <2> QED
    BY <1>5, <2>1 DEF Lost
<1>11. Holes(W, b * Interval) = Holes(V, b * Interval)
  <2>1. \A t \in Lost(W, b * Interval) : t - Interval # seq[m]
    BY <1>3, <1>4, MinuteFacts, FrameAssumption DEF Lost
  <2> QED
    BY <1>5, <1>10, <2>1 DEF Holes
<1> DEFINE C == Counted(seq, J)
           d == seq[m] - C.previous
<1>12. /\ C.missing = Cardinality(Lost(V, a * Interval))
       /\ C.events = Cardinality(Holes(V, a * Interval))
       /\ C.previous = a * Interval
  BY <1>2 DEF Counted, V
<1>13. /\ Counted(seq, I).missing = Cardinality(Lost(V, b * Interval))
       /\ Counted(seq, I).events = Cardinality(Holes(V, b * Interval))
       /\ Counted(seq, I) = [missing |-> Counted(seq, I).missing,
                             events |-> Counted(seq, I).events, previous |-> seq[m]]
  BY <1>3, <1>4, <1>10, <1>11 DEF Counted, W
<1>14. d = (b - a) * Interval /\ (d > Interval <=> b - a > 1) /\ d \div Interval = b - a
  <2> HIDE DEF C
  <2>1. d = (b - a) * Interval /\ b - a \in Int /\ 1 * Interval = Interval
    <3>1. d = b * Interval - a * Interval
      BY ONLY <1>4, <1>12
    <3>2. (b - a) * Interval = b * Interval - a * Interval
      BY ONLY Products, a \in Int, b \in Nat
    <3>3. 1 * Interval = Interval
      BY ONLY FrameAssumption
    <3> QED
      BY ONLY <3>1, <3>2, <3>3, a \in Int, b \in Nat
  <2>2. d \div Interval = b - a
    BY <2>1, Quotients
  <2>3. 1 < b - a => 1 * Interval + Interval <= (b - a) * Interval
    BY <2>1, Products
  <2>4. 1 * Interval < (b - a) * Interval => 1 < b - a
    BY <2>1, Products
  <2> HIDE DEF d
  <2>5. d \in Int
    BY <2>1, Products
  <2> QED
    BY <2>1, <2>2, <2>3, <2>4, <2>5, FrameAssumption
<1>15. GapStep(C, seq[m]) =
         [missing |-> C.missing + (IF b - a > 1 THEN b - a - 1 ELSE 0),
          events |-> C.events + (IF b - a > 1 THEN 1 ELSE 0),
          previous |-> seq[m]]
  BY <1>14 DEF GapStep
<1>16. b - a > 1 \/ b - a = 1
  BY <1>7
<1> HIDE DEF C
<1>17. Counted(seq, I) = GapStep(C, seq[m])
  <2>1. Counted(seq, I).missing = C.missing + (IF b - a > 1 THEN b - a - 1 ELSE 0)
    BY <1>9, <1>12, <1>13, <1>16
  <2>2. Counted(seq, I).events = C.events + (IF b - a > 1 THEN 1 ELSE 0)
    BY <1>9, <1>12, <1>13
  <2> QED
    BY <1>13, <1>15, <2>1, <2>2
<1> QED
  BY <1>17 DEF C, J, m

(* FoldLeft is a recursive function on the positions folded so far.        *)
LEMMA FoldCounts ==
  ASSUME NEW n \in Nat, NEW seq, Increasing(seq, n)
  PROVE  FoldLeft(GapStep, NoGaps, seq) = Counted(seq, 1..n)
<1> DEFINE D == 1..n
           body(g) == [I \in SUBSET D |-> IF I = {} THEN NoGaps
                                          ELSE GapStep(g[I \ {Max(I)}], seq[Max(I)])]
           loop == CHOOSE g : g = body(g)
           count == [I \in SUBSET D |-> Counted(seq, I)]
<1>1. DOMAIN seq = D
  BY DEF Increasing
<1>2. FoldLeft(GapStep, NoGaps, seq) = loop[D]
  BY <1>1 DEF FoldLeft, MapThenFoldSet
<1>3. Counted(seq, {}) = NoGaps
  <2>1. Placed(seq, {}) = {} /\ LastPlaced(seq, {}) = -Interval
    BY DEF Placed, LastPlaced
  <2>2. Lost({}, -Interval) = {}
    BY MinuteSizes DEF Lost
  <2>3. Holes({}, -Interval) = {}
    BY <2>2 DEF Holes
  <2> QED
    BY <2>1, <2>2, <2>3, FS_EmptySet DEF Counted, NoGaps
<1>4. count = body(count)
  <2>1. ASSUME NEW I \in SUBSET D PROVE count[I] = body(count)[I]
    <3>1. CASE I = {}
      BY <1>3, <3>1
    <3>2. CASE I # {}
      <4>1. I \ {Max(I)} \in SUBSET D
        OBVIOUS
      <4>2. count[I \ {Max(I)}] = Counted(seq, I \ {Max(I)}) /\ count[I] = Counted(seq, I)
        BY <4>1
      <4>3. Counted(seq, I) = GapStep(Counted(seq, I \ {Max(I)}), seq[Max(I)])
        BY <3>2, GapStepCounts
      <4> HIDE DEF count
      <4> QED
        BY <3>2, <4>2, <4>3
    <3> QED
      BY <3>1, <3>2
  <2> QED
    BY <2>1
<1>5. loop = body(loop)
  BY <1>4
<1> HIDE DEF loop
<1>6. loop[{}] = NoGaps
  BY <1>5
<1>7. \A I \in SUBSET D : I # {} => loop[I] = GapStep(loop[I \ {Max(I)}], seq[Max(I)])
  BY <1>5
<1> DEFINE Wrong == {I \in SUBSET D : loop[I] # Counted(seq, I)}
<1>8. Wrong = {}
  <2> SUFFICES ASSUME Wrong # {} PROVE FALSE
    OBVIOUS
  <2>1. IsFiniteSet(D)
    BY FS_Interval
  <2>2. Wrong \subseteq FiniteSubsetsOf(D)
    BY <2>1, FS_Subset DEF FiniteSubsetsOf
  <2> HIDE DEF Wrong
  <2>3. PICK I \in Wrong : \A K \in Wrong : ~(<<K, I>> \in StrictSubsetOrdering(D))
    BY <2>2, FS_StrictSubsetOrderingWellFounded, WFMin
  <2>4. I \in SUBSET D /\ loop[I] # Counted(seq, I)
    BY DEF Wrong
  <2>5. I # {}
    BY <1>3, <1>6, <2>4
  <2>6. Max(I) \in I
    BY <2>4, <2>5, LastFacts
  <2>7. I \ {Max(I)} \notin Wrong
    <3>1. <<I \ {Max(I)}, I>> \in StrictSubsetOrdering(D)
      BY ONLY <2>4, <2>6 DEF StrictSubsetOrdering
    <3> QED
      BY <2>3, <3>1
  <2>8. loop[I \ {Max(I)}] = Counted(seq, I \ {Max(I)})
    BY <2>4, <2>7 DEF Wrong
  <2>9. loop[I] = Counted(seq, I)
    <3>1. Counted(seq, I) = GapStep(Counted(seq, I \ {Max(I)}), seq[Max(I)])
      BY <2>4, <2>5, GapStepCounts
    <3>2. loop[I] = GapStep(loop[I \ {Max(I)}], seq[Max(I)])
      BY <1>7, <2>4, <2>5
    <3> QED
      BY <2>8, <3>1, <3>2
  <2> QED
    BY <2>4, <2>9
<1>9. loop[D] = Counted(seq, D)
  BY <1>8
<1> QED
  BY <1>2, <1>9

(* Of any set of minutes of the day, the missing ones and the holes.       *)
LEMMA GapsCounted == GapsAreCounted
<1> SUFFICES ASSUME NEW T \in SUBSET Minutes
             PROVE  GapMetrics(T) =
                      [missing |-> Cardinality(Minutes \ T),
                       events |-> Cardinality({t \in Minutes \ T : t - Interval \in T \/ t = 0})]
  BY DEF GapsAreCounted
<1> DEFINE n == Cardinality(T)
           U == Sorted(T)
           inner == FoldLeft(GapStep, NoGaps, U)
           end == ExpectedLast + Interval
<1>1. T \in SUBSET Nat /\ IsFiniteSet(T)
  BY MinuteFacts, FS_Subset
<1>2. n \in Nat /\ Increasing(U, n) /\ \A t \in T : \E k \in 1..n : U[k] = t
  <2>1. U \in [1..n -> T]
    BY <1>1, SortedFacts
  <2>2. U \in [1..n -> Minutes]
    BY <2>1
  <2> QED
    BY <1>1, <2>2, SortedFacts DEF Increasing
<1>3. {t \in T : 0 <= t /\ t <= ExpectedLast} = T
  BY MinuteSizes
<1>4. Placed(U, 1..n) = T
  <2>1. \A k \in 1..n : U[k] \in T
    BY <1>1, SortedFacts
  <2> QED
    BY <1>2, <2>1 DEF Placed
<1> HIDE DEF n, U
<1>5. inner = Counted(U, 1..n)
  BY <1>2, FoldCounts
<1>6. PICK a \in Int : /\ LastPlaced(U, 1..n) = a * Interval
                       /\ \/ a = -1 /\ T = {}
                          \/ a * Interval \in T /\ \A t \in T : t <= a * Interval
  BY <1>2, <1>4, LastFacts
<1>7. PICK e \in Nat : ExpectedLast = e * Interval
  BY MinuteFacts
<1>8. end = (e + 1) * Interval /\ a < e + 1 /\ e + 1 \in Int /\ end \in Int
  <2>1. end = (e + 1) * Interval /\ end \in Int
    BY <1>7, Products, FrameAssumption, MinuteFacts
  <2>2. CASE a = -1
    BY <2>1, <2>2
  <2>3. CASE a * Interval \in T
    <3>1. a * Interval < end
      BY <2>3, MinuteFacts, FrameAssumption
    <3> QED
      BY <2>1, <3>1, Products
  <2> QED
    BY <1>6, <2>1, <2>2, <2>3
<1>9. /\ Cardinality(Lost(T, a * Interval)) \in Nat /\ Cardinality(Holes(T, a * Interval)) \in Nat
      /\ Cardinality(Lost(T, end)) = Cardinality(Lost(T, a * Interval)) + (e + 1 - a - 1)
      /\ Cardinality(Holes(T, end)) =
           Cardinality(Holes(T, a * Interval)) + (IF e + 1 - a > 1 THEN 1 ELSE 0)
  <2>1. end <= ExpectedLast + Interval
    BY <1>8
  <2> DEFINE z == e + 1
  <2>2. z \in Int /\ a < z /\ end = z * Interval
    BY <1>8
  <2> HIDE DEF end, z
  <2>3. /\ Cardinality(Lost(T, a * Interval)) \in Nat /\ Cardinality(Holes(T, a * Interval)) \in Nat
        /\ Cardinality(Lost(T, z * Interval)) = Cardinality(Lost(T, a * Interval)) + (z - a - 1)
        /\ Cardinality(Holes(T, z * Interval)) =
             Cardinality(Holes(T, a * Interval)) + (IF z - a > 1 THEN 1 ELSE 0)
    BY <1>6, <2>1, <2>2, NextTime
  <2> QED
    BY <2>2, <2>3 DEF z
<1>10. Lost(T, end) = Minutes \ T
  <2>1. \A t \in Minutes : t < end
    BY MinuteSizes
  <2> HIDE DEF end
  <2> QED
    BY <2>1 DEF Lost
<1>11. Holes(T, end) = {t \in Minutes \ T : t - Interval \in T \/ t = 0}
  BY <1>10 DEF Holes
<1>12. /\ inner.missing = Cardinality(Lost(T, a * Interval))
       /\ inner.events = Cardinality(Holes(T, a * Interval))
       /\ inner.previous = a * Interval
  BY <1>4, <1>5, <1>6 DEF Counted
<1> DEFINE tail == ExpectedLast - inner.previous
<1>13. GapMetrics(T) = [missing |-> inner.missing + (IF tail >= Interval THEN tail \div Interval ELSE 0),
                        events |-> inner.events + (IF tail >= Interval THEN 1 ELSE 0)]
  BY <1>3 DEF GapMetrics, NoGaps, U
<1> HIDE DEF inner
<1>14. tail = (e - a) * Interval /\ tail \div Interval = e - a /\ (tail >= Interval <=> e - a >= 1)
       /\ e - a >= 0
  <2>1. tail = (e - a) * Interval /\ e - a \in Int /\ 0 * Interval = 0 /\ Interval \in Nat /\ Interval > 0
    BY <1>7, <1>12, Products, FrameAssumption
  <2>2. tail \div Interval = e - a
    BY <2>1, Quotients
  <2>3. e - a >= 0
    BY <1>8
  <2>4. 0 < e - a => 0 * Interval + Interval <= (e - a) * Interval
    BY <2>1, Products
  <2>5. e - a = 0 => tail = 0
    BY <2>1
  <2> HIDE DEF tail
  <2>6. tail \in Int
    BY <2>1, Products
  <2> QED
    BY <2>1, <2>2, <2>3, <2>4, <2>5, <2>6
<1> HIDE DEF tail, end
<1>15. inner.missing + (IF tail >= Interval THEN tail \div Interval ELSE 0) = Cardinality(Minutes \ T)
  <2>1. Cardinality(Minutes \ T) = inner.missing + (e - a)
    <3>1. Cardinality(Minutes \ T) = Cardinality(Lost(T, end))
      BY <1>10
    <3>2. e + 1 - a - 1 = e - a
      OBVIOUS
    <3> QED
      BY <1>9, <1>12, <3>1, <3>2
  <2>2. (IF tail >= Interval THEN tail \div Interval ELSE 0) = e - a
    BY <1>8, <1>14
  <2> QED
    BY <2>1, <2>2
<1>16. inner.events + (IF tail >= Interval THEN 1 ELSE 0) = Cardinality(Holes(T, end))
  <2>1. e + 1 - a > 1 <=> tail >= Interval
    BY <1>8, <1>14
  <2> QED
    BY <1>9, <1>12, <2>1
<1> QED
  BY <1>11, <1>13, <1>15, <1>16
-----------------------------------------------------------------------------
(* A frame that passes. *)

LEMMA PassIsEveryMinute ==
  ASSUME NEW n \in Nat, NEW frame, DOMAIN frame = 1..n, FramePasses(frame),
         Len(frame) = n
  PROVE  Len(Times(frame)) = Cardinality(Minutes) /\ ToSet(Times(frame)) = Minutes
<1> DEFINE T == ToSet(Times(frame))
<1>1. T = {frame[i].t : i \in 1..n}
  BY DEF ToSet, Times
<1>2. \A i \in 1..n : frame[i].t % Interval = 0 /\ frame[i].t \in 0..ExpectedLast
  BY DEF FramePasses
<1>3. T \in SUBSET Minutes
  BY <1>1, <1>2 DEF Minutes
<1>4. Cardinality(T) = n /\ GapMetrics(T).missing = 0
  BY DEF FramePasses
<1> HIDE DEF T
<1>5. GapMetrics(T).missing = Cardinality(Minutes \ T)
  <2> DEFINE holes == {t \in Minutes \ T : t - Interval \in T \/ t = 0}
             gaps == Cardinality(holes)
  <2>1. GapMetrics(T) = [missing |-> Cardinality(Minutes \ T), events |-> gaps]
    BY <1>3, GapsCounted DEF GapsAreCounted
  <2> HIDE DEF gaps
  <2> QED
    BY ONLY <2>1
<1>6. Minutes \ T = {}
  <2>1. IsFiniteSet(Minutes \ T)
    BY MinuteFacts, FS_Subset
  <2> QED
    BY <1>4, <1>5, <2>1, FS_EmptySet
<1>7. T = Minutes
  BY <1>3, <1>6
<1>8. Len(Times(frame)) = n
  <2> DEFINE S == {frame[i].t : i \in 1..n}
  <2>1. Times(frame) \in [1..n -> S]
    BY DEF Times
  <2> HIDE DEF S
  <2> QED
    BY <2>1
<1> QED
  BY <1>4, <1>7, <1>8 DEF T

(* The rows of a CSV make a frame. *)
LEMMA CanonicalIsFrame ==
  ASSUME NEW rows \in Seq([t : Int, ok : BOOLEAN])
  PROVE  \E n \in Nat : DOMAIN Canonical(rows) = 1..n /\ Len(Canonical(rows)) = n
<1> DEFINE T == ToSet(Times(rows))
           n == Cardinality(T)
<1>1. IsFiniteSet(T)
  <2> DEFINE D == 1..Len(rows)
             f == [i \in D |-> rows[i].t]
  <2>1. DOMAIN rows = D /\ IsFiniteSet(D)
    BY FS_Interval
  <2>2. T = {rows[i].t : i \in D}
    BY <2>1 DEF ToSet, Times
  <2>3. f \in Surjection(D, T)
    <3> HIDE DEF D
    <3> QED
      BY <2>2 DEF Surjection
  <2> HIDE DEF f, D, T
  <2> QED
    BY <2>1, <2>3, FS_Surjection
<1>2. n \in Nat
  BY <1>1, FS_CardinalityType
<1> DEFINE frame == Canonical(rows)
           S == {frame[i] : i \in 1..n}
<1>3. DOMAIN Sorted(T) = 1..n
  BY DEF Sorted
<1>4. frame \in [1..n -> S]
  BY <1>3 DEF Canonical
<1> HIDE DEF frame, S, n
<1>5. DOMAIN frame = 1..n /\ Len(frame) = n
  BY <1>2, <1>4
<1> QED
  BY <1>2, <1>5 DEF frame

(* A day that passed is served with rows that pass. *)
PassedInv ==
  \A d \in Days :
    TRUE \in verdicts[d] =>
      /\ bronzeStatus[d] = "NORMALIZED"
      /\ FramePasses(Canonical(Rows[bronzeSum[d]]))

LEMMA Audits ==
  ASSUME [Next]_vars
  PROVE  verdicts' = verdicts \/ \E d \in Days : AuditBronze(d)
<1> USE DEF archiveVars, bronzeVars, normVars
<1>1. CASE StartBackfill \/ RunJob \/ FinishJob \/ CrashBackfill
  BY <1>1 DEF StartBackfill, RunJob, FinishJob, CrashBackfill
<1>2. ASSUME NEW d \in Days, LocalStep(d) \/ NetworkFails(d) \/ NetworkServes(d)
      PROVE  verdicts' = verdicts
  BY <1>2, LocalAside
<1>3. ASSUME NEW d \in Days, DamageRaw(d) \/ \E v \in Versions : Replace(d, v)
      PROVE  verdicts' = verdicts
  BY <1>3 DEF DamageRaw, Replace
<1>4. CASE StartNormalize \/ CrashNormalize \/ FinishNormalize
  BY <1>4 DEF StartNormalize, CrashNormalize, FinishNormalize
<1>5. ASSUME NEW d \in Days,
             RegisterBronze(d) \/ ReopenBronze(d) \/ WriteBronze(d) \/ SaveBronze(d) \/ FailBronze(d)
      PROVE  verdicts' = verdicts
  BY <1>5 DEF RegisterBronze, ReopenBronze, WriteBronze, SaveBronze, FailBronze
<1>6. ASSUME NEW d \in Days,
             \/ NextDay(d) \/ OpenArchive(d) \/ ExtractCsv(d) \/ ReadCsv(d) \/ VerifyBronze(d)
             \/ MarkRawNormalized(d) \/ \E v \in Versions : DamageBronze(d, v)
      PROVE  verdicts' = verdicts
  BY <1>6 DEF NextDay, OpenArchive, ExtractCsv, ReadCsv, VerifyBronze, MarkRawNormalized,
              DamageBronze
<1>7. CASE UNCHANGED vars
  BY <1>7 DEF vars
<1> QED
  BY <1>1, <1>2, <1>3, <1>4, <1>5, <1>6, <1>7 DEF Next, BackfillStep, NormalizeStep, DayStep

(* A pass is recorded once, for rows that stay those of the day. *)
LEMMA PassedStays ==
  ASSUME ArchiveInv, PassedInv, [Next]_vars
  PROVE  PassedInv'
<1>1. verdicts \in [Days -> SUBSET BOOLEAN]
  BY DEF ArchiveInv, FilesInv, BronzeTypeInv
<1>2. \A d \in Days : bronzeStatus[d] = "NORMALIZED" => bronzeSum[d] # NoFile
  BY DEF ArchiveInv, FilesInv, BronzeInv
<1>3. ASSUME NEW d \in Days, bronzeStatus[d] = "NORMALIZED"
      PROVE  bronzeStatus'[d] = "NORMALIZED" /\ bronzeSum'[d] = bronzeSum[d]
  <2>1. ServedOf[d] = bronzeSum[d] /\ ServedOf[d] # NoFile
    BY <1>2, <1>3 DEF ServedOf
  <2>2. ServedOf'[d] = ServedOf[d]
    BY <2>1, StepServes DEF Served!Next, Served!Serve, Served!List, ServedOf
  <2> QED
    BY <2>1, <2>2 DEF ServedOf
<1>4. CASE verdicts' = verdicts
  BY <1>3, <1>4 DEF PassedInv
<1>5. ASSUME NEW d \in Days, AuditBronze(d) PROVE PassedInv'
  <2>1. /\ bronzeStatus[d] = "NORMALIZED"
        /\ UNCHANGED <<bronzeStatus, bronzeSum>>
        /\ \E passed \in BOOLEAN :
             /\ passed => FramePasses(Canonical(Rows[bronzeSum[d]]))
             /\ verdicts' = [verdicts EXCEPT ![d] = @ \cup {passed}]
    BY <1>5 DEF AuditBronze
  <2>2. PICK passed \in BOOLEAN :
          /\ passed => FramePasses(Canonical(Rows[bronzeSum[d]]))
          /\ verdicts' = [verdicts EXCEPT ![d] = @ \cup {passed}]
    BY <2>1
  <2> SUFFICES ASSUME NEW c \in Days, TRUE \in verdicts'[c]
               PROVE  /\ bronzeStatus'[c] = "NORMALIZED"
                      /\ FramePasses(Canonical(Rows[bronzeSum'[c]]))
    BY DEF PassedInv
  <2>3. verdicts'[c] = IF c = d THEN verdicts[c] \cup {passed} ELSE verdicts[c]
    BY <1>1, <2>2
  <2>4. CASE TRUE \in verdicts[c]
    BY <2>1, <2>4 DEF PassedInv
  <2>5. CASE TRUE \notin verdicts[c]
    <3>1. c = d /\ passed
      BY <2>3, <2>5
    <3> QED
      BY <2>1, <2>2, <3>1
  <2> QED
    BY <2>4, <2>5
<1> QED
  BY <1>4, <1>5, Audits

(* The quality gate registers a pass only for rows that are every minute   *)
(* of the day, once and in order, and counts missing minutes and holes     *)
(* exactly, for every interval, length of a day and content of an archive. *)
THEOREM PassesAreComplete == Spec => []PassedIsComplete
<1>1. Init => PassedInv
  BY DEF Init, PassedInv
<1>2. ArchiveInv /\ PassedInv /\ [Next]_vars => PassedInv'
  BY PassedStays
<1>3. ArchiveInv /\ PassedInv => PassedIsComplete
  <2> SUFFICES ASSUME ArchiveInv, PassedInv, NEW d \in Days, TRUE \in verdicts[d]
               PROVE  LET times == Times(Canonical(Rows[bronzeSum[d]])) IN
                        Len(times) = Cardinality(Minutes) /\ ToSet(times) = Minutes
    BY GapsCounted DEF PassedIsComplete
  <2>1. bronzeStatus[d] = "NORMALIZED" /\ FramePasses(Canonical(Rows[bronzeSum[d]]))
    BY DEF PassedInv
  <2>2. bronzeSum[d] \in Versions \ Unusable
    BY <2>1 DEF ArchiveInv, FilesInv, BronzeTypeInv, BronzeInv
  <2>3. Rows[bronzeSum[d]] \in Seq([t : Int, ok : BOOLEAN])
    BY <2>2, RowsAssumption
  <2> QED
    BY <2>1, <2>3, CanonicalIsFrame, PassIsEveryMinute
<1> QED
  BY <1>1, <1>2, <1>3, ArchiveInductive, PTL DEF Spec
=============================================================================

---------------------------- MODULE BackupCopies ----------------------------
(***************************************************************************)
(* Scheduled backups of one policy and their copies in a bucket.           *)
(*                                                                         *)
(* Three parties share files under <daemonStateDir>/backup and never talk  *)
(* to each other: the one-shot runner of a systemd timer (dump, prune,     *)
(* queue a copy, spool a result: runner.ts), the copier of the daemon      *)
(* (copier.ts, s3/upload.ts, s3/prune.ts) and the two reporters            *)
(* (copy-reporter.ts, result-reporter.ts), which send what is spooled and  *)
(* delete it when the control plane answers.  managed.backup's delete      *)
(* removes a backup and its copy next to them.                             *)
(*                                                                         *)
(* A step is the code between two awaits that another party can come in    *)
(* between.  Backups are numbered in the order in which their runs start,  *)
(* which is the order of their modification and queueing times.            *)
(***************************************************************************)
EXTENDS Naturals, Sequences, FiniteSets, FiniteSetsExt

CONSTANTS
  MaxRuns,        \* runs of the timer
  Settled,        \* runs that were copied and reported before
  Parts,          \* parts of a backup that is larger than one part
  Keep,           \* retentionKeep, of the directory and of the bucket
  MAX_ATTEMPTS,   \* tries of a copy
  NON_RETRYABLE_ATTEMPTS, \* tries of a copy the storage refuses
  UploadsDir,     \* may copies/uploads be there? (no code makes it)
  DeletesOverlap, \* may a backup be deleted while it is being copied?
  Deletable,      \* the backups that a delete command may name
  MaxDeletes,     \* delete commands
  MaxMishaps,     \* kills, lost sockets and failures, all together
  MaxWire         \* frames under way

Backup == 1..MaxRuns
UploadId == 1..(MAX_ATTEMPTS + MaxMishaps)

ASSUME BoundsAreNatural ==
  /\ {MaxRuns, Keep, MaxDeletes, MaxMishaps, MaxWire} \subseteq Nat
  /\ Parts \in Nat \ {0} /\ Keep > 0 /\ Settled \in 0..MaxRuns
  /\ MAX_ATTEMPTS \in Nat /\ NON_RETRYABLE_ATTEMPTS \in 1..MAX_ATTEMPTS
  /\ UploadsDir \in BOOLEAN /\ DeletesOverlap \in BOOLEAN
  /\ Deletable \subseteq Backup

VARIABLES
  run,      \* the runner process
  runs,     \* runs started so far
  file,     \* backups whose artifact is on this host
  job,      \* copies/queue: a copy that waits
  progress, \* copies/uploads: the multipart progress
  report,   \* copies/reports: how a copy ended
  result,   \* results: how a run ended
  copier,   \* the copier's tick
  session,  \* "off", "on", or "known" once the attach frame came
  up, down, \* frames on the socket, in order
  bucket,   \* the stored copies
  older,    \* of two stored copies: the first was last modified before the second
  open,     \* multipart uploads the storage keeps
  panel,    \* what the control plane recorded
  deleting, \* the backup a delete is at work on, 0 for none
  left,     \* deletes and mishaps that may still come
  past      \* history: what was queued, finished, deleted, pruned, leaked

disk == <<file, job, progress, report, result>>
wire == <<session, up, down>>
storage == <<bucket, older, open>>
vars == <<run, runs, disk, copier, wire, storage, panel, deleting, left, past>>

(***************************************************************************)
(* The records.                                                            *)
(***************************************************************************)
NoJob == [attempts |-> 0, due |-> FALSE, queued |-> FALSE, large |-> FALSE]
NoProgress == [id |-> 0, parts |-> 0]
NoReport == [state |-> "none", pruned |-> {}]
NoResult == [status |-> "none", pruned |-> {}]
RunnerOff == [pc |-> "off", b |-> 0, excess |-> {}, pruned |-> {},
              status |-> "none"]
CopierOff == [pc |-> "off", b |-> 0, todo |-> {}, id |-> 0, parts |-> 0,
              excess |-> {}, verdict |-> NoReport]

Init ==
  /\ run = RunnerOff /\ runs = Settled
  /\ file = 1..Settled
  /\ job = [b \in Backup |-> NoJob]
  /\ progress = [b \in Backup |-> NoProgress]
  /\ report = [b \in Backup |-> NoReport]
  /\ result = [b \in Backup |-> NoResult]
  /\ copier = CopierOff
  /\ session = "off" /\ up = <<>> /\ down = <<>>
  /\ bucket = 1..Settled
  /\ older = {p \in (1..Settled) \X (1..Settled) : p[1] < p[2]}
  /\ open = [b \in Backup |-> {}]
  /\ panel =
       [copy |-> [b \in Backup |-> IF b <= Settled THEN "copied" ELSE "none"],
        run |-> [b \in Backup |-> IF b <= Settled THEN "succeeded" ELSE "none"],
        pruned |-> {}]
  /\ deleting = 0
  /\ left = [deletes |-> MaxDeletes, mishaps |-> MaxMishaps]
  /\ past = [queued |-> {}, finished |-> {}, deleted |-> {}, pruned |-> {},
             untold |-> {}, dropped |-> {}, leaked |-> {}]

\* One of the bounded events.
Spend(what) == left[what] > 0 /\ left' = [left EXCEPT ![what] = @ - 1]

(***************************************************************************)
(* The runner: runScheduledBackup in a process of its own.                 *)
(***************************************************************************)
\* pruneBackupArtifacts keeps the newest Keep files and the one just written.
Excess(kept, b) ==
  {x \in kept \ {b} : Cardinality({y \in kept : y > x}) >= Keep}

\* The timer fires.  The dump is renamed into place, or the run fails (busy
\* engine, no space, dump error) and has only a result to write.
RunStarts ==
  /\ run.pc = "off" /\ runs < MaxRuns
  /\ runs' = runs + 1
  /\ \/ /\ file' = file \cup {runs'}
        /\ run' = [RunnerOff EXCEPT !.pc = "prune", !.b = runs',
                     !.excess = Excess(file', runs'), !.status = "succeeded"]
     \/ /\ run' = [RunnerOff EXCEPT !.pc = "result", !.b = runs',
                     !.status = "failed"]
        /\ UNCHANGED file
  /\ UNCHANGED <<job, progress, report, result, copier, wire, storage, panel,
                 deleting, left, past>>

\* One artifact beyond the retention is unlinked, newest first; one that is
\* gone already is not reported as pruned.  An unlink that fails is thrown to
\* runPolicy: the run has failed, queues no copy and tells of no file, not
\* even of those it removed.
RunPrunes ==
  /\ run.pc = "prune" /\ run.excess # {}
  /\ LET x == Max(run.excess)
         mine == {x} \cap file
     IN \/ /\ run' = [run EXCEPT !.excess = @ \ {x}, !.pruned = @ \cup mine]
           /\ file' = file \ {x}
           /\ past' = [past EXCEPT !.pruned = @ \cup mine]
           /\ UNCHANGED left
        \/ /\ mine # {} /\ Spend("mishaps")
           /\ run' = [run EXCEPT !.pc = "result", !.excess = {}, !.pruned = {},
                         !.status = "failed"]
           /\ past' = [past EXCEPT !.untold = @ \cup run.pruned]
           /\ UNCHANGED file
  /\ UNCHANGED <<runs, job, progress, report, result, copier, wire, storage,
                 panel, deleting>>

\* enqueueCopyJob: the backup id is new, so there is no job to keep.  A queue
\* that cannot be written is logged and the run goes on.
RunQueues ==
  /\ run.pc = "prune" /\ run.excess = {}
  /\ run' = [run EXCEPT !.pc = "result"]
  /\ \/ /\ \E large \in BOOLEAN :
             job' = [job EXCEPT ![run.b] = [attempts |-> 0, due |-> TRUE,
                                            queued |-> TRUE, large |-> large]]
        /\ past' = [past EXCEPT !.queued = @ \cup {run.b}]
        /\ UNCHANGED left
     \/ Spend("mishaps") /\ UNCHANGED <<job, past>>
  /\ UNCHANGED <<runs, file, progress, report, result, copier, wire, storage,
                 panel, deleting>>

SpooledResult == [status |-> run.status, pruned |-> run.pruned]

\* writeBackupRunResult, and the process ends.
RunSpools ==
  /\ run.pc = "result"
  /\ result' = [result EXCEPT ![run.b] = SpooledResult]
  /\ run' = RunnerOff
  /\ past' = [past EXCEPT !.finished = @ \cup {run.b}]
  /\ UNCHANGED <<runs, file, job, progress, report, copier, wire, storage,
                 panel, deleting, left>>

\* The runner is killed (unit timeout, reboot): no result is ever written.
RunKilled ==
  /\ run.pc # "off" /\ Spend("mishaps")
  /\ run' = RunnerOff
  /\ past' = [past EXCEPT !.untold = @ \cup run.pruned]
  /\ UNCHANGED <<runs, disk, copier, wire, storage, panel, deleting>>

(***************************************************************************)
(* The copier.  One tick at a time; it lists the jobs that are due and     *)
(* works them oldest first, also after its socket closed.                  *)
(***************************************************************************)
Working(b, todo) ==
  [CopierOff EXCEPT !.pc = "open", !.b = b, !.todo = todo \ {b}]

\* The next job of the tick, or the end of it.
NextJob == IF copier.todo = {} THEN CopierOff
           ELSE Working(Min(copier.todo), copier.todo)

\* The timer of an attached session.
CopierTicks ==
  /\ copier.pc = "off" /\ session # "off"
  /\ LET due == {b \in Backup : job[b].queued /\ job[b].due}
     IN due # {} /\ copier' = Working(Min(due), due)
  /\ UNCHANGED <<run, runs, disk, wire, storage, panel, deleting, left, past>>

\* nextAttemptAt passes.
RetryDue(b) ==
  /\ job[b].queued /\ ~job[b].due
  /\ job' = [job EXCEPT ![b].due = TRUE]
  /\ UNCHANGED <<run, runs, file, progress, report, result, copier, wire,
                 storage, panel, deleting, left, past>>

\* Mutant: one try too many.
GivesUpLate(attempts, retryable) ==
  \/ attempts > MAX_ATTEMPTS
  \/ ~retryable /\ attempts >= NON_RETRYABLE_ATTEMPTS

GivesUp(attempts, retryable) ==
  \/ attempts >= MAX_ATTEMPTS
  \/ ~retryable /\ attempts >= NON_RETRYABLE_ATTEMPTS

\* Mutant: the try is not counted.
ForgetsTries(retryable) ==
  /\ job' = [job EXCEPT ![copier.b].due = FALSE]
  /\ copier' = NextJob

\* #failed: count the try and put it off, or give the copy up.
Failed(retryable) ==
  LET b == copier.b
      attempts == job[b].attempts + 1
  IN IF GivesUp(attempts, retryable)
     THEN /\ copier' = [copier EXCEPT !.pc = "abandon",
                          !.verdict = [state |-> "failed", pruned |-> {}]]
          /\ UNCHANGED job
     ELSE /\ job' = [job EXCEPT ![b].attempts = attempts, ![b].due = FALSE]
          /\ copier' = NextJob

\* The storage does not do what it is asked, or its answer is lost.
StorageFails == \E retryable \in BOOLEAN : Failed(retryable)

\* The secret is opened and the file is there: the copy starts.  A file that
\* is gone ends the job at once.
CopierOpens ==
  /\ copier.pc = "open"
  /\ copier' = IF copier.b \in file
               THEN [copier EXCEPT !.pc =
                       IF job[copier.b].large THEN "resume" ELSE "put"]
               ELSE [copier EXCEPT !.pc = "abandon",
                       !.verdict.state = "failed"]
  /\ UNCHANGED <<run, runs, disk, wire, storage, panel, deleting, left, past>>

\* The control plane does not open the key: not a try (NoDecrypt).
CopierWaits ==
  /\ copier.pc = "open"
  /\ job' = [job EXCEPT ![copier.b].due = FALSE]
  /\ copier' = NextJob
  /\ UNCHANGED <<run, runs, file, progress, report, result, wire, storage,
                 panel, deleting, left, past>>

\* The envelope is not one this host can open, or the endpoint is refused.
CopierRefused ==
  /\ copier.pc = "open" /\ Failed(FALSE)
  /\ UNCHANGED <<run, runs, file, progress, report, result, wire, storage,
                 panel, deleting, left, past>>

\* An object written again is the newest one.
Store(b) ==
  /\ bucket' = bucket \cup {b}
  /\ older' = {p \in older : b \notin {p[1], p[2]}} \cup ((bucket \ {b}) \X {b})
Remove(b) ==
  /\ bucket' = bucket \ {b}
  /\ older' = {p \in older : b \notin {p[1], p[2]}}

\* putObject of a small file.  The storage may fail before or after it stored
\* the object, or answer without having stored it.
CopierPuts ==
  /\ copier.pc = "put"
  /\ \/ /\ Store(copier.b)
        /\ copier' = [copier EXCEPT !.pc = "head"]
        /\ UNCHANGED <<job, left>>
     \/ /\ Spend("mishaps")
        /\ copier' = [copier EXCEPT !.pc = "head"]
        /\ UNCHANGED <<job, bucket, older>>
     \/ /\ Store(copier.b) \/ UNCHANGED <<bucket, older>>
        /\ StorageFails /\ UNCHANGED left
  /\ UNCHANGED <<run, runs, file, progress, report, result, wire, open, panel,
                 deleting, past>>

\* The storage names a new upload: the least name that is not in use.
FreshIds(b) ==
  LET free == UploadId \ (open[b] \cup {progress[b].id})
  IN {i \in free : \A j \in free : i <= j}

\* resumableState: go on with the upload on disk, or create one.  The storage
\* may create it and the answer be lost: nobody here knows its name.
CopierResumes ==
  /\ copier.pc = "resume"
  /\ LET b == copier.b
         old == progress[b]
     IN \/ /\ old # NoProgress
           /\ copier' = [copier EXCEPT !.pc = "part", !.id = old.id,
                           !.parts = old.parts]
           /\ UNCHANGED <<job, open, past>>
        \/ /\ old = NoProgress
           /\ \E new \in FreshIds(b) :
                /\ open' = [open EXCEPT ![b] = @ \cup {new}]
                /\ copier' = [copier EXCEPT !.pc = "note", !.id = new]
           /\ UNCHANGED <<job, past>>
        \/ /\ old = NoProgress /\ Failed(TRUE)
           /\ \E new \in FreshIds(b) :
                /\ open' = [open EXCEPT ![b] = @ \cup {new}]
                /\ past' = [past EXCEPT !.leaked = @ \cup {<<b, new>>}]
        \/ old = NoProgress /\ StorageFails /\ UNCHANGED <<open, past>>
  /\ UNCHANGED <<run, runs, file, progress, report, result, wire, bucket, older,
                 panel, deleting, left>>

\* writeState of a new upload.  It may throw, which counts as a try that may
\* be repeated, and always does without its directory, which it does not make.
CopierNotes ==
  /\ copier.pc = "note"
  /\ \/ /\ UploadsDir
        /\ progress' = [progress EXCEPT ![copier.b] =
                          [id |-> copier.id, parts |-> 0]]
        /\ copier' = [copier EXCEPT !.pc = "part"]
        /\ UNCHANGED job
     \/ Failed(TRUE) /\ UNCHANGED progress
  /\ UNCHANGED <<run, runs, file, report, result, wire, storage, panel,
                 deleting, left, past>>

\* The storage forgot the upload: the progress is removed and the try is one
\* that will not fix itself.
NoSuchUpload ==
  /\ progress' = [progress EXCEPT ![copier.b] = NoProgress]
  /\ Failed(FALSE)

\* One more part and its note on disk; either may fail.
CopierSendsPart ==
  /\ copier.pc = "part" /\ copier.parts < Parts
  /\ LET b == copier.b
     IN \/ /\ copier.id \in open[b]
           /\ copier' = [copier EXCEPT !.parts = @ + 1]
           /\ progress' = [progress EXCEPT ![b].parts = copier.parts + 1]
           /\ UNCHANGED job
        \/ copier.id \in open[b] /\ StorageFails /\ UNCHANGED progress
        \/ copier.id \notin open[b] /\ NoSuchUpload
  /\ UNCHANGED <<run, runs, file, report, result, wire, storage, panel,
                 deleting, left, past>>

\* completeMultipartUpload.  Its answer may be lost after it took effect; a
\* retry of the request is then told NoSuchUpload, or is lost as well.
CopierCompletes ==
  /\ copier.pc = "part" /\ copier.parts = Parts
  /\ LET b == copier.b
         known == copier.id \in open[b]
         completed == /\ Store(b)
                      /\ open' = [open EXCEPT ![b] = @ \ {copier.id}]
     IN \/ /\ known /\ completed
           /\ copier' = [copier EXCEPT !.pc = "drop"]
           /\ UNCHANGED <<job, progress>>
        \/ known /\ completed /\ NoSuchUpload
        \/ known /\ completed /\ Failed(TRUE) /\ UNCHANGED progress
        \/ known /\ StorageFails /\ UNCHANGED <<storage, progress>>
        \/ ~known /\ NoSuchUpload /\ UNCHANGED storage
  /\ UNCHANGED <<run, runs, file, report, result, wire, panel, deleting, left,
                 past>>

\* The progress file is removed once the object is there.
CopierDropsProgress ==
  /\ copier.pc = "drop"
  /\ progress' = [progress EXCEPT ![copier.b] = NoProgress]
  /\ copier' = [copier EXCEPT !.pc = "head"]
  /\ UNCHANGED <<run, runs, file, job, report, result, wire, storage, panel,
                 deleting, left, past>>

\* The objects beyond the newest Keep, the one just copied counting as newest.
BucketExcess(b) ==
  {x \in bucket \ {b} :
     Cardinality({y \in bucket \ {b} : <<x, y>> \in older}) >= Keep - 1}

\* Mutant: the answer of the upload is taken for the object.
TrustsAnswer ==
  /\ copier.pc = "head"
  /\ \E excess \in {{}, BucketExcess(copier.b)} :
       copier' = [copier EXCEPT !.pc = "prune", !.excess = excess,
                    !.verdict.state = "copied"]
  /\ UNCHANGED <<run, runs, disk, wire, storage, panel, deleting, left, past>>

\* The size check on the stored object, and the listing retention starts from
\* (a listing that fails is logged: nothing is pruned).
CopierChecksSize ==
  /\ copier.pc = "head"
  /\ \/ /\ copier.b \in bucket
        /\ \E excess \in {{}, BucketExcess(copier.b)} :
             copier' = [copier EXCEPT !.pc = "prune", !.excess = excess,
                          !.verdict.state = "copied"]
        /\ UNCHANGED job
     \/ copier.b \notin bucket /\ Failed(TRUE)
     \/ StorageFails
  /\ UNCHANGED <<run, runs, file, progress, report, result, wire, storage,
                 panel, deleting, left, past>>

\* Retention in the bucket, one object after the other, newest first.  When a
\* deletion fails, the ones made so far are not reported either.
CopierPrunes ==
  /\ copier.pc = "prune"
  /\ \/ /\ copier.excess # {}
        /\ \E x \in copier.excess :
             /\ \A y \in copier.excess : <<x, y>> \notin older
             /\ Remove(x)
             /\ copier' = [copier EXCEPT !.excess = @ \ {x},
                             !.verdict.pruned = @ \cup {x}]
             /\ past' = [past EXCEPT !.dropped = @ \cup {x}]
     \/ /\ copier.excess # {}
        /\ copier' = [copier EXCEPT !.pc = "report", !.verdict.pruned = {}]
        /\ UNCHANGED <<bucket, older, past>>
     \/ /\ copier.excess = {}
        /\ copier' = [copier EXCEPT !.pc = "report"]
        /\ UNCHANGED <<bucket, older, past>>
  /\ UNCHANGED <<run, runs, disk, wire, open, panel, deleting, left>>

\* #abandon before a failed copy is reported: abort the upload and forget it.
\* Without the key nothing happens; an abort that fails is not tried again.
CopierAbandons ==
  /\ copier.pc = "abandon"
  /\ LET b == copier.b
         known == {progress[b].id} \cap open[b]
     IN \/ /\ open' = [open EXCEPT ![b] = @ \ known]
           /\ progress' = [progress EXCEPT ![b] = NoProgress]
           /\ UNCHANGED past
        \/ /\ progress' = [progress EXCEPT ![b] = NoProgress]
           /\ past' = [past EXCEPT !.leaked = @ \cup {<<b, i>> : i \in known}]
           /\ UNCHANGED open
        \/ UNCHANGED <<open, progress, past>>
  /\ copier' = [copier EXCEPT !.pc = "report"]
  /\ UNCHANGED <<run, runs, file, job, report, result, wire, bucket, older,
                 panel, deleting, left>>

\* Mutant: the job goes before its report is written.
RemovesFirst ==
  /\ copier.pc = "report"
  /\ job' = [job EXCEPT ![copier.b] = NoJob]
  /\ copier' = [copier EXCEPT !.pc = "remove"]
  /\ UNCHANGED <<run, runs, file, progress, report, result, wire, storage,
                 panel, deleting, left, past>>

\* #finish: the report first.  When it cannot be written, a copy that was made
\* and a file that was gone are tries that failed; a copy that was given up
\* stays queued as it is, and the error ends the tick.
CopierReports ==
  /\ copier.pc = "report"
  /\ \/ /\ report' = [report EXCEPT ![copier.b] = copier.verdict]
        /\ copier' = [copier EXCEPT !.pc = "remove"]
        /\ UNCHANGED <<job, left>>
     \/ /\ copier.verdict.state = "copied" \/ copier.b \notin file
        /\ Spend("mishaps") /\ Failed(TRUE)
        /\ UNCHANGED report
     \/ /\ copier.verdict.state = "failed" /\ Spend("mishaps")
        /\ copier' = CopierOff
        /\ UNCHANGED <<job, report>>
  /\ UNCHANGED <<run, runs, file, progress, result, wire, storage, panel,
                 deleting, past>>

\* then the job.
CopierRemovesJob ==
  /\ copier.pc = "remove"
  /\ job' = [job EXCEPT ![copier.b] = NoJob]
  /\ copier' = NextJob
  /\ UNCHANGED <<run, runs, file, progress, report, result, wire, storage,
                 panel, deleting, left, past>>

CopierStep ==
  \/ CopierPuts \/ CopierResumes
  \/ CopierNotes \/ CopierSendsPart \/ CopierCompletes \/ CopierDropsProgress
  \/ CopierChecksSize \/ CopierPrunes \/ CopierAbandons \/ CopierReports
  \/ CopierRemovesJob

(***************************************************************************)
(* managed.backup with action "delete": the artifact, then its copy.       *)
(***************************************************************************)
\* Mutant: only the copy is removed.
DeleteKeepsFile(b) ==
  /\ deleting = 0 /\ session # "off" /\ panel.run[b] = "succeeded"
  /\ b \in Deletable /\ Spend("deletes")
  /\ DeletesOverlap \/ copier.b # b
  /\ deleting' = b
  /\ UNCHANGED <<run, runs, disk, copier, wire, storage, panel, past>>

DeleteStarts(b) ==
  /\ deleting = 0 /\ session # "off" /\ panel.run[b] = "succeeded"
  /\ b \in Deletable /\ Spend("deletes")
  /\ DeletesOverlap \/ copier.b # b
  /\ deleting' = b
  /\ file' = file \ {b}
  /\ UNCHANGED <<run, runs, job, progress, report, result, copier, wire,
                 storage, panel, past>>

\* A copy that cannot be removed is logged.
DeleteEnds ==
  /\ deleting # 0
  /\ \/ /\ Remove(deleting)
        /\ past' = [past EXCEPT !.deleted = @ \cup {deleting}]
     \/ UNCHANGED <<bucket, older, past>>
  /\ deleting' = 0
  /\ UNCHANGED <<run, runs, disk, copier, wire, open, panel, left>>

(***************************************************************************)
(* The reporters, the socket and the control plane.                        *)
(***************************************************************************)
\* A tick sends every report; the wire is bounded by MaxWire.
Sends(kind, b, body) ==
  /\ Len(up) + Len(down) < MaxWire
  /\ up' = Append(up, [kind |-> kind, b |-> b, body |-> body])
  /\ UNCHANGED <<run, runs, disk, copier, session, down, storage, panel,
                 deleting, left, past>>

\* BackupCopyReporter's tick: nothing to a peer that may not know the frame.
SendCopyReport(b) ==
  session = "known" /\ report[b] # NoReport /\ Sends("copy", b, report[b])

\* Mutant: the result is deleted once it is sent.
DeletesOnSend(b) ==
  /\ session # "off" /\ result[b] # NoResult
  /\ Len(up) + Len(down) < MaxWire
  /\ up' = Append(up, [kind |-> "run", b |-> b, body |-> result[b]])
  /\ result' = [result EXCEPT ![b] = NoResult]
  /\ UNCHANGED <<run, runs, file, job, progress, report, copier, session, down,
                 storage, panel, deleting, left, past>>

\* BackupResultReporter's tick.
SendRunReport(b) ==
  session # "off" /\ result[b] # NoResult /\ Sends("run", b, result[b])

\* The control plane records a frame and answers with its id.
PanelRecords ==
  /\ up # <<>>
  /\ LET f == Head(up)
     IN /\ panel' = IF f.kind = "copy"
                    THEN [panel EXCEPT !.copy[f.b] = f.body.state]
                    ELSE [panel EXCEPT !.run[f.b] = f.body.status,
                                       !.pruned = @ \cup f.body.pruned]
        /\ down' = Append(down, [kind |-> f.kind, b |-> f.b])
  /\ up' = Tail(up)
  /\ UNCHANGED <<run, runs, disk, copier, session, storage, deleting, left,
                 past>>

\* handleResult: the file of that name goes, whatever is in it by now.
AnswerArrives ==
  /\ down # <<>>
  /\ LET f == Head(down)
     IN IF f.kind = "copy"
        THEN report' = [report EXCEPT ![f.b] = NoReport] /\ UNCHANGED result
        ELSE result' = [result EXCEPT ![f.b] = NoResult] /\ UNCHANGED report
  /\ down' = Tail(down)
  /\ UNCHANGED <<run, runs, file, job, progress, copier, session, up, storage,
                 panel, deleting, left, past>>

SessionStarts ==
  /\ session = "off" /\ session' = "on"
  /\ UNCHANGED <<run, runs, disk, copier, up, down, storage, panel, deleting,
                 left, past>>

FeaturesKnown ==
  /\ session = "on" /\ session' = "known"
  /\ UNCHANGED <<run, runs, disk, copier, up, down, storage, panel, deleting,
                 left, past>>

Disconnected == session' = "off" /\ up' = <<>> /\ down' = <<>>

\* The frames on the way are lost; the copier's tick goes on.
SessionEnds ==
  /\ session # "off" /\ Spend("mishaps")
  /\ Disconnected
  /\ UNCHANGED <<run, runs, disk, copier, storage, panel, deleting, past>>

\* The daemon dies: the tick and a delete end where they are.
Crash ==
  /\ Spend("mishaps")
  /\ Disconnected
  /\ copier' = CopierOff /\ deleting' = 0
  /\ past' = [past EXCEPT !.leaked = @ \cup
                IF copier.pc = "note" THEN {<<copier.b, copier.id>>} ELSE {}]
  /\ UNCHANGED <<run, runs, disk, storage, panel>>

\* A host with nothing left to do.
Idle ==
  /\ runs = MaxRuns /\ run.pc = "off" /\ copier.pc = "off" /\ deleting = 0
  /\ session = "known" /\ up = <<>> /\ down = <<>>
  /\ \A b \in Backup : /\ job[b] = NoJob
                       /\ report[b] = NoReport /\ result[b] = NoResult
  /\ UNCHANGED vars

Next ==
  \/ RunStarts \/ RunPrunes \/ RunQueues \/ RunSpools \/ RunKilled
  \/ CopierTicks \/ CopierOpens \/ CopierWaits
  \/ CopierRefused \/ CopierPuts \/ CopierResumes
  \/ CopierNotes \/ CopierSendsPart \/ CopierCompletes \/ CopierDropsProgress
  \/ CopierChecksSize \/ CopierPrunes \/ CopierAbandons \/ CopierReports
  \/ CopierRemovesJob
  \/ \E b \in Backup : \/ RetryDue(b) \/ DeleteStarts(b)
                        \/ SendCopyReport(b) \/ SendRunReport(b)
  \/ DeleteEnds \/ PanelRecords \/ AnswerArrives
  \/ SessionStarts \/ FeaturesKnown \/ SessionEnds \/ Crash
  \/ Idle

Spec == Init /\ [][Next]_vars

(***************************************************************************)
(* The daemon reconnects, timers fire, requests end (each has a timeout)   *)
(* and a socket that stays up carries its frames.  The control plane opens *)
(* the key in the end when it is asked again and again.  The settled       *)
(* backups have nothing to send.                                           *)
(***************************************************************************)
Fairness ==
  /\ WF_vars(CopierTicks) /\ WF_vars(CopierStep) /\ SF_vars(CopierOpens)
  /\ \A b \in (Settled + 1)..MaxRuns : /\ WF_vars(RetryDue(b))
                                      /\ SF_vars(SendCopyReport(b))
                                      /\ SF_vars(SendRunReport(b))
  /\ WF_vars(PanelRecords) /\ WF_vars(AnswerArrives)
  /\ WF_vars(SessionStarts) /\ WF_vars(FeaturesKnown)

FairSpec == Spec /\ Fairness

(***************************************************************************)
(* Properties.                                                             *)
(***************************************************************************)
Report == [state : {"none", "copied", "failed"}, pruned : SUBSET Backup]
Result == [status : {"none", "succeeded", "failed"}, pruned : SUBSET Backup]

\* What the files, the processes and the wire can hold: in particular no try
\* beyond the last one is ever recorded (MAX_ATTEMPTS).
TypeOK ==
  /\ run \in [pc : {"off", "prune", "result"}, b : 0..MaxRuns,
              excess : SUBSET Backup, pruned : SUBSET Backup,
              status : {"none", "succeeded", "failed"}]
  /\ runs \in 0..MaxRuns /\ deleting \in 0..MaxRuns
  /\ file \subseteq Backup
  /\ job \in [Backup -> [attempts : 0..(MAX_ATTEMPTS - 1), due : BOOLEAN,
                        queued : BOOLEAN, large : BOOLEAN]]
  /\ progress \in [Backup -> [id : {0} \cup UploadId, parts : 0..Parts]]
  /\ report \in [Backup -> Report] /\ result \in [Backup -> Result]
  /\ copier \in [pc : {"off", "open", "put", "resume", "note", "part", "drop",
                       "head", "prune", "abandon", "report", "remove"},
                 b : 0..MaxRuns, todo : SUBSET Backup,
                 id : {0} \cup UploadId, parts : 0..Parts,
                 excess : SUBSET Backup, verdict : Report]
  /\ session \in {"off", "on", "known"}
  /\ up \in Seq([kind : {"copy"}, b : Backup, body : Report]
                 \cup [kind : {"run"}, b : Backup, body : Result])
  /\ down \in Seq([kind : {"copy", "run"}, b : Backup])
  /\ Len(up) + Len(down) <= MaxWire
  /\ bucket \subseteq Backup /\ older \subseteq bucket \X bucket
  /\ open \in [Backup -> SUBSET UploadId]
  /\ panel \in [copy : [Backup -> {"none", "copied", "failed"}],
                run : [Backup -> {"none", "succeeded", "failed"}],
                pruned : SUBSET Backup]
  /\ left \in [deletes : 0..MaxDeletes, mishaps : 0..MaxMishaps]
  /\ past \in [queued : SUBSET Backup, finished : SUBSET Backup,
               deleted : SUBSET Backup, pruned : SUBSET Backup,
               untold : SUBSET Backup, dropped : SUBSET Backup,
               leaked : SUBSET (Backup \X UploadId)]

\* A copy that is reported or recorded as copied was stored in the bucket and
\* has left it since only by retention or by a delete (the size check of
\* uploadBackupFile stands between a lying or failing storage and #finish).
CopiedIsStored ==
  \A b \in Backup :
    "copied" \in {report[b].state, panel.copy[b]} =>
      b \in bucket \cup past.dropped \cup past.deleted

\* Nothing is forgotten between the processes: a queued copy has its job, its
\* report or the control plane's record; a run that wrote its result has it
\* on disk or recorded; and what retention removed from this host is told,
\* unless the run that removed it was killed or failed at a later unlink
\* (#finish, handleResult, runPolicy).
ReportsKept ==
  /\ \A b \in past.queued : job[b].queued \/ report[b] # NoReport
                              \/ panel.copy[b] # "none"
  /\ \A b \in past.finished : result[b] # NoResult \/ panel.run[b] # "none"
  /\ past.pruned \subseteq
       panel.pruned \cup past.untold \cup run.pruned
         \cup UNION {result[b].pruned : b \in Backup}

\* A bucket that retention has pruned still holds Keep copies, however the
\* uploads failed, were repeated or came out of order (pruneBucketFolder).
BucketKeeps ==
  past.dropped # {} /\ past.deleted = {} => Cardinality(bucket) >= Keep

\* A deleted backup whose copy was removed stays out of the bucket although
\* its copy job is still queued and will be tried (handleManagedBackup).
NoCopyOfDeleted == past.deleted \cap bucket = {}

\* Every multipart upload the storage keeps is one the host has noted, so
\* that a later try goes on with it or ends it, except when the daemon died
\* between the two or the answer to the creation or the abort was lost
\* (resumableState, abandonUpload).
ProgressKept ==
  \A b \in Backup : \A i \in open[b] :
    \/ progress[b].id = i
    \/ copier.pc = "note" /\ copier.b = b /\ copier.id = i
    \/ <<b, i>> \in past.leaked

(***************************************************************************)
(* The spools of results and copies implement OutcomeDelivery, the promise *)
(* the command outbox keeps for commands: what a run owes the control      *)
(* plane is its result and the end of its copy.                            *)
(***************************************************************************)
Item == {"run", "copy"} \X ((Settled + 1)..MaxRuns)

\* On disk: a result, a copy that is queued, or the report of how one ended.
OnBooks(c) == IF c[1] = "run" THEN result[c[2]] # NoResult
              ELSE job[c[2]].queued \/ report[c[2]] # NoReport
Recorded(c) == IF c[1] = "run" THEN panel.run[c[2]] # "none"
               ELSE panel.copy[c[2]] # "none"
Owed == {c \in Item : OnBooks(c)}
Answered == {c \in Item : Recorded(c)}

Spools == INSTANCE OutcomeDelivery WITH
  Cmd <- Item, owed <- Owed, answered <- Answered, abandoned <- {}

\* Nothing leaves the spools before the control plane has it on record, and
\* only what was put there is recorded, over kills, crashes, failing writes
\* and lost frames (BackupCopyReporter, BackupResultReporter, #finish).
SpoolsDeliver == Spools!DeliverySpec

\* The control plane catches up again and again with what this host did: it
\* has recorded every queued copy and every finished run, whatever failed on
\* the way (BackupCopier, BackupCopyReporter, BackupResultReporter).
EverythingReported ==
  []<>(/\ \A b \in past.queued : panel.copy[b] # "none"
       /\ \A b \in past.finished : panel.run[b] # "none")
=============================================================================

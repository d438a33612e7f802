------------------------- MODULE BackupCopiesProofs -------------------------
(***************************************************************************)
(* Proofs about BackupCopies for every number of runs, parts, tries,       *)
(* deletes and mishaps: its types, that nothing is forgotten between the   *)
(* processes, that a copy reported as copied was stored, that retention    *)
(* keeps Keep copies, that a deleted copy stays deleted, and that the      *)
(* spools implement OutcomeDelivery.                                       *)
(***************************************************************************)
EXTENDS BackupCopies, FiniteSetTheorems, WellFoundedInduction, TLAPS

(***************************************************************************)
(* Numbers and least elements.                                             *)
(***************************************************************************)
LEMMA Bounds ==
  /\ MaxRuns \in Nat /\ Keep \in Nat /\ Keep > 0 /\ MaxDeletes \in Nat /\ MaxMishaps \in Nat
  /\ MaxWire \in Nat /\ Parts \in Nat /\ Parts > 0 /\ Settled \in 0..MaxRuns
  /\ MAX_ATTEMPTS \in Nat /\ MAX_ATTEMPTS > 0 /\ UploadsDir \in BOOLEAN /\ DeletesOverlap \in BOOLEAN
BY BoundsAreNatural

\* Every non-empty set of numbers has a least one.
LEMMA LeastExists ==
  ASSUME NEW T, T \subseteq Nat, T # {}
  PROVE  \E x \in T : \A y \in T : x =< y
<1>. DEFINE less == {ss \in Nat \X Nat : ss[1] < ss[2]}
<1>1. IsWellFoundedOn(less, Nat)
  BY NatLessThanWellFounded, Zenon DEF OpToRel
<1>. HIDE DEF less
<1>2. PICK x \in T : \A y \in T : ~ (<<y, x>> \in less)
  BY <1>1, WFMin
<1>3. ASSUME NEW y \in T PROVE x =< y
  <2>1. ~ (<<y, x>> \in less)
    BY <1>2
  <2>2. ~ (y < x)
    BY <2>1 DEF less
  <2>. QED
    BY <2>2
<1>. QED
  BY <1>3
\* The least element of a set is in it.
LEMMA MinIn ==
  ASSUME NEW T, T \subseteq Nat, T # {}
  PROVE  Min(T) \in T
BY LeastExists DEF Min

\* The greatest element of a set of backups is in it.
LEMMA MaxIn ==
  ASSUME NEW T, T \subseteq Backup, T # {}
  PROVE  Max(T) \in T
<1>. DEFINE D == {MaxRuns - x : x \in T}
<1>0. \A x \in T : x \in Nat /\ MaxRuns - x \in Nat
  BY Bounds DEF Backup
<1>1. D \subseteq Nat /\ D # {}
  BY <1>0
<1>2. PICK d \in D : \A e \in D : d =< e
  BY <1>1, LeastExists
<1>3. PICK x \in T : d = MaxRuns - x
  OBVIOUS
<1>4. \A y \in T : x >= y
  BY <1>0, <1>2, <1>3, Bounds
<1>. QED
  BY <1>4 DEF Max

(***************************************************************************)
(* Type correctness.  A process that works is at a backup; a job has not   *)
(* had its last try yet.                                                   *)
(***************************************************************************)
RunType == [pc : {"off", "prune", "result"}, b : 0..MaxRuns, excess : SUBSET Backup,
            pruned : SUBSET Backup, status : {"none", "succeeded", "failed"}]
JobType == [attempts : 0..(MAX_ATTEMPTS - 1), due : BOOLEAN, queued : BOOLEAN, large : BOOLEAN]
ProgressType == [id : {0} \cup UploadId, parts : 0..Parts]
Pc == {"off", "open", "put", "resume", "note", "part", "drop", "head", "prune", "abandon",
       "report", "remove"}
CopierType == [pc : Pc, b : 0..MaxRuns, todo : SUBSET Backup, id : {0} \cup UploadId,
               parts : 0..Parts, excess : SUBSET Backup, verdict : Report]
CopyFrame == [kind : {"copy"}, b : Backup, body : Report]
RunFrame == [kind : {"run"}, b : Backup, body : Result]
Answer == [kind : {"copy", "run"}, b : Backup]
PanelType == [copy : [Backup -> {"none", "copied", "failed"}],
              run : [Backup -> {"none", "succeeded", "failed"}], pruned : SUBSET Backup]
LeftType == [deletes : 0..MaxDeletes, mishaps : 0..MaxMishaps]
PastType == [queued : SUBSET Backup, finished : SUBSET Backup, deleted : SUBSET Backup,
             pruned : SUBSET Backup, untold : SUBSET Backup, dropped : SUBSET Backup,
             leaked : SUBSET (Backup \X UploadId)]

\* Where the two processes are.
RunnerAt == /\ run.pc # "off" => run.b = runs /\ run.b \in Backup
            /\ run.status = "none" <=> run.pc = "off"
            /\ run.pruned # {} => run.pc # "off"
CopierAt == /\ copier.pc # "off" => copier.b \in Backup
            /\ copier.pc \in {"prune", "abandon", "report"} => copier.verdict.state # "none"
            /\ copier.pc = "note" => copier.id \in UploadId
TypeInv == TypeOK /\ RunnerAt /\ CopierAt

\* TypeOK in the parts that an action disturbs.
RunOK == run \in RunType /\ runs \in 0..MaxRuns /\ RunnerAt
FileOK == file \subseteq Backup
JobOK == job \in [Backup -> JobType]
ProgressOK == progress \in [Backup -> ProgressType]
ReportOK == report \in [Backup -> Report]
ResultOK == result \in [Backup -> Result]
CopierOK == copier \in CopierType /\ CopierAt
WireOK == /\ session \in {"off", "on", "known"} /\ up \in Seq(CopyFrame \cup RunFrame)
          /\ down \in Seq(Answer) /\ Len(up) + Len(down) <= MaxWire
BucketOK == bucket \subseteq Backup /\ older \subseteq bucket \X bucket
OpenOK == open \in [Backup -> SUBSET UploadId]
PanelOK == panel \in PanelType
DeletingOK == deleting \in 0..MaxRuns
LeftOK == left \in LeftType
PastOK == past \in PastType
\* The type invariant is its parts.
LEMMA TypeParts ==
  /\ TypeInv <=> /\ RunOK /\ FileOK /\ JobOK /\ ProgressOK /\ ReportOK /\ ResultOK /\ CopierOK
                 /\ WireOK /\ BucketOK /\ OpenOK /\ PanelOK /\ DeletingOK /\ LeftOK /\ PastOK
  /\ TypeInv' <=> /\ RunOK' /\ FileOK' /\ JobOK' /\ ProgressOK' /\ ReportOK' /\ ResultOK' /\ CopierOK'
                  /\ WireOK' /\ BucketOK' /\ OpenOK' /\ PanelOK' /\ DeletingOK' /\ LeftOK' /\ PastOK'
BY Zenon DEF TypeInv, TypeOK, RunOK, FileOK, JobOK, ProgressOK, ReportOK, ResultOK, CopierOK, WireOK,
       BucketOK, OpenOK, PanelOK, DeletingOK, LeftOK, PastOK, RunType, JobType, ProgressType,
       CopierType, Pc, CopyFrame, RunFrame, Answer, PanelType, LeftType, PastType

\* What an action leaves alone keeps its types.
LEMMA Unchanged ==
  /\ RunOK /\ UNCHANGED <<run, runs>> => RunOK'
  /\ FileOK /\ UNCHANGED file => FileOK'
  /\ JobOK /\ UNCHANGED job => JobOK'
  /\ ProgressOK /\ UNCHANGED progress => ProgressOK'
  /\ ReportOK /\ UNCHANGED report => ReportOK'
  /\ ResultOK /\ UNCHANGED result => ResultOK'
  /\ CopierOK /\ UNCHANGED copier => CopierOK'
  /\ WireOK /\ UNCHANGED wire => WireOK'
  /\ BucketOK /\ UNCHANGED <<bucket, older>> => BucketOK'
  /\ OpenOK /\ UNCHANGED open => OpenOK'
  /\ PanelOK /\ UNCHANGED panel => PanelOK'
  /\ DeletingOK /\ UNCHANGED deleting => DeletingOK'
  /\ LeftOK /\ UNCHANGED left => LeftOK'
  /\ PastOK /\ UNCHANGED past => PastOK'
<1>1. /\ RunOK /\ UNCHANGED <<run, runs>> => RunOK'
      /\ CopierOK /\ UNCHANGED copier => CopierOK'
      /\ ProgressOK /\ UNCHANGED progress => ProgressOK'
  BY DEF RunOK, RunnerAt, CopierOK, CopierAt, ProgressOK
<1>2. /\ WireOK /\ UNCHANGED wire => WireOK'
      /\ BucketOK /\ UNCHANGED <<bucket, older>> => BucketOK'
  BY DEF WireOK, BucketOK, wire
<1>3. /\ FileOK /\ UNCHANGED file => FileOK'
      /\ JobOK /\ UNCHANGED job => JobOK'
      /\ ReportOK /\ UNCHANGED report => ReportOK'
      /\ ResultOK /\ UNCHANGED result => ResultOK'
      /\ OpenOK /\ UNCHANGED open => OpenOK'
      /\ PanelOK /\ UNCHANGED panel => PanelOK'
      /\ DeletingOK /\ UNCHANGED deleting => DeletingOK'
      /\ LeftOK /\ UNCHANGED left => LeftOK'
      /\ PastOK /\ UNCHANGED past => PastOK'
  BY DEF FileOK, JobOK, ReportOK, ResultOK, OpenOK, PanelOK, DeletingOK, LeftOK, PastOK
<1>. QED
  BY <1>1, <1>2, <1>3

\* The empty records.
LEMMA EmptyTypes ==
  /\ NoJob \in JobType /\ ~NoJob.queued
  /\ NoProgress \in ProgressType /\ NoProgress.id = 0
  /\ NoReport \in Report /\ NoReport.state = "none"
  /\ NoResult \in Result /\ NoResult.status = "none" /\ NoResult.pruned = {}
  /\ RunnerOff \in RunType /\ RunnerOff.pc = "off" /\ RunnerOff.status = "none" /\ RunnerOff.pruned = {}
  /\ CopierOff \in CopierType /\ CopierOff.pc = "off" /\ CopierOff.verdict.state = "none"
<1>1. NoJob \in JobType /\ ~NoJob.queued
  BY Bounds DEF NoJob, JobType
<1>2. NoProgress \in ProgressType /\ NoProgress.id = 0
  BY Bounds DEF NoProgress, ProgressType
<1>3. NoReport \in Report /\ NoReport.state = "none"
  BY DEF NoReport, Report
<1>4. NoResult \in Result /\ NoResult.status = "none" /\ NoResult.pruned = {}
  BY DEF NoResult, Result
<1>5. RunnerOff \in RunType /\ RunnerOff.pc = "off" /\ RunnerOff.status = "none" /\ RunnerOff.pruned = {}
  BY Bounds DEF RunnerOff, RunType
<1>6. CopierOff \in CopierType /\ CopierOff.pc = "off" /\ CopierOff.verdict.state = "none"
  BY <1>3, Bounds DEF CopierOff, CopierType, Pc
<1>. QED
  BY <1>1, <1>2, <1>3, <1>4, <1>5, <1>6

\* A bounded event.
LEMMA SpendType ==
  ASSUME LeftOK, NEW what \in {"deletes", "mishaps"}, Spend(what)
  PROVE  LeftOK'
<1>1. CASE what = "deletes"
  BY <1>1, Bounds DEF LeftOK, LeftType, Spend
<1>2. CASE what = "mishaps"
  BY <1>2, Bounds DEF LeftOK, LeftType, Spend
<1>. QED
  BY <1>1, <1>2

\* A storage that stores or removes an object.
LEMMA StoreType ==
  ASSUME BucketOK, NEW b \in Backup, Store(b) \/ Remove(b)
  PROVE  BucketOK'
<1>1. bucket' \subseteq Backup
  BY DEF BucketOK, Store, Remove
<1>2. older' \subseteq bucket' \X bucket'
  <2>1. CASE Remove(b)
    BY <2>1 DEF BucketOK, Remove
  <2>2. CASE Store(b)
    BY <2>2 DEF BucketOK, Store
  <2>. QED
    BY <2>1, <2>2
<1>. QED
  BY <1>1, <1>2 DEF BucketOK

\* The copier's next job, and the moves within a job.
LEMMA JobMove ==
  ASSUME NEW k \in CopierType, NEW n \in 0..MaxRuns, NEW t \in SUBSET Backup
  PROVE  [k EXCEPT !.pc = "open", !.b = n, !.todo = t] \in CopierType
BY DEF CopierType, Pc
\* The copier at the start of a job.
LEMMA WorkingType ==
  ASSUME NEW b \in Backup, NEW todo \in SUBSET Backup
  PROVE  /\ Working(b, todo) \in CopierType /\ Working(b, todo).pc = "open"
         /\ Working(b, todo).b = b /\ Working(b, todo).verdict.state = "none"
<1>1. b \in 0..MaxRuns /\ todo \ {b} \in SUBSET Backup
  BY Bounds DEF Backup
<1>2. Working(b, todo) \in CopierType
  BY <1>1, EmptyTypes, JobMove DEF Working
<1>. QED
  BY <1>2, EmptyTypes DEF Working, CopierOff
\* The copier at its next job, or done.
LEMMA NextJobType ==
  ASSUME CopierOK
  PROVE  /\ NextJob \in CopierType /\ NextJob.pc \in {"off", "open"}
         /\ NextJob.pc = "open" => NextJob.b \in Backup
         /\ NextJob.verdict.state = "none"
<1>1. copier.todo \subseteq Backup /\ copier.todo \subseteq Nat
  BY Bounds DEF CopierOK, CopierType, Backup
<1>2. CASE copier.todo = {}
  BY <1>2, EmptyTypes DEF NextJob
<1>3. CASE copier.todo # {}
  <2>1. Min(copier.todo) \in Backup
    BY <1>1, <1>3, MinIn
  <2>. QED
    BY <1>1, <1>3, <2>1, WorkingType DEF NextJob
<1>. QED
  BY <1>2, <1>3
\* The copier's step to pc, which may set the upload, the excess or the verdict.
LEMMA VerdictType ==
  ASSUME NEW r \in Report, NEW s \in {"none", "copied", "failed"}, NEW x \in SUBSET Backup
  PROVE  /\ [r EXCEPT !.state = s] \in Report /\ [r EXCEPT !.pruned = x] \in Report
BY DEF Report
\* The copier moves on.
LEMMA MovePc ==
  ASSUME NEW k \in CopierType, NEW p \in Pc
  PROVE  [k EXCEPT !.pc = p] \in CopierType
BY DEF CopierType
\* The copier moves on with a new upload.
LEMMA MoveId ==
  ASSUME NEW k \in CopierType, NEW p \in Pc, NEW i \in {0} \cup UploadId
  PROVE  [k EXCEPT !.pc = p, !.id = i] \in CopierType
BY DEF CopierType
\* The copier takes up an upload that is on disk.
LEMMA MoveUpload ==
  ASSUME NEW k \in CopierType, NEW p \in Pc, NEW i \in {0} \cup UploadId, NEW n \in 0..Parts
  PROVE  [k EXCEPT !.pc = p, !.id = i, !.parts = n] \in CopierType
BY DEF CopierType
\* The copier has sent a part.
LEMMA MoveParts ==
  ASSUME NEW k \in CopierType, NEW n \in 0..Parts
  PROVE  [k EXCEPT !.parts = n] \in CopierType
BY DEF CopierType
\* The copier has a verdict.
LEMMA MoveVerdict ==
  ASSUME NEW k \in CopierType, NEW p \in Pc, NEW v \in Report
  PROVE  [k EXCEPT !.pc = p, !.verdict = v] \in CopierType
BY DEF CopierType
\* Retention removed an object.
LEMMA MoveExcess ==
  ASSUME NEW k \in CopierType, NEW e \in SUBSET Backup, NEW v \in Report
  PROVE  [k EXCEPT !.excess = e, !.verdict = v] \in CopierType
BY DEF CopierType
\* The copier has listed the bucket.
LEMMA MoveListed ==
  ASSUME NEW k \in CopierType, NEW p \in Pc, NEW e \in SUBSET Backup, NEW v \in Report
  PROVE  [k EXCEPT !.pc = p, !.excess = e, !.verdict = v] \in CopierType
BY DEF CopierType

\* A failed try is counted, or the copy is given up.
LEMMA FailedType ==
  ASSUME TypeInv, copier.pc # "off", NEW r \in BOOLEAN, Failed(r)
  PROVE  JobOK' /\ CopierOK'
<1>. USE TypeParts
<1>. DEFINE b == copier.b
            attempts == job[b].attempts + 1
<1>0. b \in Backup /\ copier \in CopierType /\ job \in [Backup -> JobType]
  BY DEF CopierOK, CopierAt, JobOK
<1>1. CASE GivesUp(attempts, r)
  <2>1. copier' = [copier EXCEPT !.pc = "abandon", !.verdict = [state |-> "failed", pruned |-> {}]]
        /\ UNCHANGED job
    BY <1>1 DEF Failed
  <2>2. [state |-> "failed", pruned |-> {}] \in Report
    BY DEF Report
  <2>3. copier' \in CopierType
    BY <1>0, <2>1, <2>2, MoveVerdict DEF Pc
  <2>4. copier'.pc = "abandon" /\ copier'.b = b /\ copier'.verdict.state = "failed"
    BY <1>0, <2>1 DEF CopierType, Report
  <2>. QED
    BY <1>0, <2>1, <2>3, <2>4, Unchanged DEF CopierOK, CopierAt
<1>2. CASE ~GivesUp(attempts, r)
  <2>1. job' = [job EXCEPT ![b].attempts = attempts, ![b].due = FALSE] /\ copier' = NextJob
    BY <1>2 DEF Failed
  <2>2. attempts \in 0..(MAX_ATTEMPTS - 1)
    BY <1>0, <1>2, Bounds DEF GivesUp, JobType
  <2>3. JobOK'
    BY <1>0, <2>1, <2>2 DEF JobOK, JobType
  <2>4. CopierOK'
    BY <2>1, NextJobType DEF CopierOK, CopierAt
  <2>. QED
    BY <2>3, <2>4
<1>. QED
  BY <1>1, <1>2

\* The runner's records.
LEMMA RunMove ==
  ASSUME NEW k \in RunType, NEW n \in 0..MaxRuns, NEW e \in SUBSET Backup
  PROVE  /\ [k EXCEPT !.pc = "prune", !.b = n, !.excess = e, !.status = "succeeded"] \in RunType
         /\ [k EXCEPT !.pc = "result", !.b = n, !.status = "failed"] \in RunType
BY DEF RunType
\* The runner.
LEMMA TypeRunStarts ==
  ASSUME TypeInv, RunStarts
  PROVE  TypeInv'
<1>. USE TypeParts
<1>. DEFINE n == runs + 1
<1>a. runs' = n /\ n \in Backup /\ n \in 0..MaxRuns
  BY Bounds DEF RunStarts, RunOK, Backup
<1>1. RunOK'
  <2>1. CASE run' = [RunnerOff EXCEPT !.pc = "result", !.b = runs', !.status = "failed"]
    <3>1. run' \in RunType
      BY <1>a, <2>1, EmptyTypes, RunMove
    <3>2. run'.pc = "result" /\ run'.b = n /\ run'.status = "failed"
      BY <1>a, <2>1 DEF RunnerOff
    <3>. QED
      BY <1>a, <3>1, <3>2 DEF RunOK, RunnerAt
  <2>2. CASE /\ file' = file \cup {runs'}
             /\ run' = [RunnerOff EXCEPT !.pc = "prune", !.b = runs', !.excess = Excess(file', runs'),
                                         !.status = "succeeded"]
    <3>1. Excess(file', runs') \in SUBSET Backup
      BY <1>a, <2>2 DEF Excess, FileOK
    <3>2. run' \in RunType
      BY <1>a, <2>2, <3>1, EmptyTypes, RunMove
    <3>3. run'.pc = "prune" /\ run'.b = n /\ run'.status = "succeeded"
      BY <1>a, <2>2 DEF RunnerOff
    <3>. QED
      BY <1>a, <3>2, <3>3 DEF RunOK, RunnerAt
  <2>. QED
    BY <2>1, <2>2 DEF RunStarts
<1>2. FileOK'
  BY <1>a DEF RunStarts, FileOK
<1>3. /\ JobOK' /\ ProgressOK' /\ ReportOK' /\ ResultOK' /\ CopierOK' /\ WireOK'
      /\ BucketOK' /\ OpenOK' /\ PanelOK' /\ DeletingOK' /\ LeftOK' /\ PastOK'
  BY Unchanged DEF RunStarts, storage
<1>. QED
  BY <1>1, <1>2, <1>3
\* What retention on this host does: it removes a file, or fails at one.
LEMMA RunPruneSteps ==
  ASSUME TypeInv, RunPrunes
  PROVE  \E x \in Backup :
           \/ /\ run' = [run EXCEPT !.excess = @ \ {x}, !.pruned = run.pruned \cup ({x} \cap file)]
              /\ file' = file \ {x} /\ UNCHANGED left
              /\ past' = [past EXCEPT !.pruned = @ \cup ({x} \cap file)]
           \/ /\ run' = [run EXCEPT !.pc = "result", !.excess = {}, !.pruned = {}, !.status = "failed"]
              /\ past' = [past EXCEPT !.untold = @ \cup run.pruned]
              /\ Spend("mishaps") /\ UNCHANGED file
<1>. DEFINE x == Max(run.excess)
<1>1. x \in Backup
  BY TypeParts, MaxIn DEF RunPrunes, RunOK, RunType
<1>. QED
  BY <1>1 DEF RunPrunes
\* RunPrunes keeps the types.
LEMMA TypeRunPrunes ==
  ASSUME TypeInv, RunPrunes
  PROVE  TypeInv'
<1>. USE TypeParts
<1>a. run \in RunType /\ run.pc = "prune" /\ past \in PastType
  BY DEF RunPrunes, RunOK, PastOK
<1>1. /\ JobOK' /\ ProgressOK' /\ ReportOK' /\ ResultOK' /\ CopierOK'
      /\ WireOK' /\ BucketOK' /\ OpenOK' /\ PanelOK' /\ DeletingOK'
  BY Unchanged DEF RunPrunes, storage
<1>b. UNCHANGED runs
  BY DEF RunPrunes
<1>c. PICK x \in Backup :
        \/ /\ run' = [run EXCEPT !.excess = @ \ {x}, !.pruned = run.pruned \cup ({x} \cap file)]
           /\ file' = file \ {x} /\ UNCHANGED left
           /\ past' = [past EXCEPT !.pruned = @ \cup ({x} \cap file)]
        \/ /\ run' = [run EXCEPT !.pc = "result", !.excess = {}, !.pruned = {}, !.status = "failed"]
           /\ past' = [past EXCEPT !.untold = @ \cup run.pruned]
           /\ Spend("mishaps") /\ UNCHANGED file
  BY RunPruneSteps
<1>2. CASE /\ run' = [run EXCEPT !.excess = @ \ {x}, !.pruned = run.pruned \cup ({x} \cap file)]
           /\ file' = file \ {x} /\ UNCHANGED left
           /\ past' = [past EXCEPT !.pruned = @ \cup ({x} \cap file)]
  <2>1. run' \in RunType
    BY <1>a, <1>2 DEF RunType
  <2>2. run'.pc = run.pc /\ run'.b = run.b /\ run'.status = run.status
    BY <1>a, <1>2 DEF RunType
  <2>3. RunOK'
    BY <1>a, <1>b, <2>1, <2>2 DEF RunOK, RunnerAt
  <2>4. FileOK' /\ PastOK' /\ LeftOK'
    BY <1>a, <1>2 DEF FileOK, PastOK, PastType, LeftOK
  <2>. QED
    BY <1>1, <2>3, <2>4
<1>3. CASE /\ run' = [run EXCEPT !.pc = "result", !.excess = {}, !.pruned = {}, !.status = "failed"]
           /\ past' = [past EXCEPT !.untold = @ \cup run.pruned]
           /\ Spend("mishaps") /\ UNCHANGED file
  <2>1. run' \in RunType
    BY <1>a, <1>3 DEF RunType
  <2>2. run'.pc = "result" /\ run'.b = run.b /\ run'.status = "failed" /\ run'.pruned = {}
    BY <1>a, <1>3 DEF RunType
  <2>3. RunOK'
    BY <1>a, <1>b, <2>1, <2>2 DEF RunOK, RunnerAt
  <2>4. FileOK' /\ LeftOK'
    BY <1>3, SpendType, Unchanged
  <2>5. PastOK'
    BY <1>a, <1>3 DEF PastOK, PastType, RunType
  <2>. QED
    BY <1>1, <2>3, <2>4, <2>5
<1>. QED
  BY <1>c, <1>2, <1>3
\* RunQueues keeps the types.
LEMMA TypeRunQueues ==
  ASSUME TypeInv, RunQueues
  PROVE  TypeInv'
<1>. USE TypeParts
<1>a. run.b \in Backup
  BY DEF RunQueues, RunOK, RunnerAt
<1>1. RunOK'
  BY DEF RunQueues, RunOK, RunnerAt, RunType
<1>2. JobOK'
  <2>1. CASE UNCHANGED job
    BY <2>1 DEF JobOK
  <2>2. ASSUME NEW large \in BOOLEAN,
               job' = [job EXCEPT ![run.b] = [attempts |-> 0, due |-> TRUE, queued |-> TRUE, large |-> large]]
        PROVE  JobOK'
    <3>1. [attempts |-> 0, due |-> TRUE, queued |-> TRUE, large |-> large] \in JobType
      BY Bounds DEF JobType
    <3>. QED
      BY <1>a, <2>2, <3>1 DEF JobOK
  <2>. QED
    BY <2>1, <2>2 DEF RunQueues
<1>3. LeftOK'
  BY SpendType DEF RunQueues, LeftOK
<1>4. PastOK'
  BY <1>a DEF RunQueues, PastOK, PastType
<1>5. /\ FileOK' /\ ProgressOK' /\ ReportOK' /\ ResultOK' /\ CopierOK'
      /\ WireOK' /\ BucketOK' /\ OpenOK' /\ PanelOK' /\ DeletingOK'
  BY Unchanged DEF RunQueues, storage
<1>. QED
  BY <1>1, <1>2, <1>3, <1>4, <1>5
\* RunSpools keeps the types.
LEMMA TypeRunSpools ==
  ASSUME TypeInv, RunSpools
  PROVE  TypeInv'
<1>. USE TypeParts
<1>a. run.b \in Backup /\ run \in RunType
  BY DEF RunSpools, RunOK, RunnerAt
<1>1. RunOK'
  BY EmptyTypes DEF RunSpools, RunOK, RunnerAt
<1>2. ResultOK'
  <2>1. SpooledResult \in Result
    BY <1>a DEF SpooledResult, Result, RunType
  <2>. QED
    BY <2>1 DEF RunSpools, ResultOK
<1>3. PastOK'
  BY <1>a DEF RunSpools, PastOK, PastType
<1>4. /\ FileOK' /\ JobOK' /\ ProgressOK' /\ ReportOK' /\ CopierOK'
      /\ WireOK' /\ BucketOK' /\ OpenOK' /\ PanelOK' /\ DeletingOK' /\ LeftOK'
  BY Unchanged DEF RunSpools, storage
<1>. QED
  BY <1>1, <1>2, <1>3, <1>4
\* RunKilled keeps the types.
LEMMA TypeRunKilled ==
  ASSUME TypeInv, RunKilled
  PROVE  TypeInv'
<1>. USE TypeParts
<1>1. RunOK'
  BY EmptyTypes DEF RunKilled, RunOK, RunnerAt
<1>2. LeftOK'
  BY SpendType DEF RunKilled
<1>3. PastOK'
  BY DEF RunKilled, RunOK, RunType, PastOK, PastType
<1>4. /\ FileOK' /\ JobOK' /\ ProgressOK' /\ ReportOK' /\ ResultOK'
      /\ CopierOK' /\ WireOK' /\ BucketOK' /\ OpenOK' /\ PanelOK' /\ DeletingOK'
  BY Unchanged DEF RunKilled, disk, storage
<1>. QED
  BY <1>1, <1>2, <1>3, <1>4
\* The copier.
LEMMA TypeCopierTicks ==
  ASSUME TypeInv, CopierTicks
  PROVE  TypeInv'
<1>. USE TypeParts
<1>1. CopierOK'
  <2>. DEFINE due == {b \in Backup : job[b].queued /\ job[b].due}
  <2>1. due \subseteq Backup /\ due \subseteq Nat
    BY Bounds DEF Backup
  <2>2. due # {} /\ copier' = Working(Min(due), due)
    BY DEF CopierTicks
  <2>. HIDE DEF due
  <2>3. Min(due) \in Backup
    BY <2>1, <2>2, MinIn
  <2>. QED
    BY <2>1, <2>2, <2>3, WorkingType, ZenonT(60) DEF CopierOK, CopierAt
<1>2. /\ RunOK' /\ FileOK' /\ JobOK' /\ ProgressOK' /\ ReportOK' /\ ResultOK'
      /\ WireOK' /\ BucketOK' /\ OpenOK' /\ PanelOK' /\ DeletingOK' /\ LeftOK' /\ PastOK'
  BY Unchanged DEF CopierTicks, disk, storage
<1>. QED
  BY <1>1, <1>2
\* RetryDue keeps the types.
LEMMA TypeRetryDue ==
  ASSUME TypeInv, NEW b \in Backup, RetryDue(b)
  PROVE  TypeInv'
<1>. USE TypeParts
<1>1. JobOK'
  BY DEF RetryDue, JobOK, JobType
<1>2. /\ RunOK' /\ FileOK' /\ ProgressOK' /\ ReportOK' /\ ResultOK' /\ CopierOK'
      /\ WireOK' /\ BucketOK' /\ OpenOK' /\ PanelOK' /\ DeletingOK' /\ LeftOK' /\ PastOK'
  BY Unchanged DEF RetryDue, storage
<1>. QED
  BY <1>1, <1>2
\* CopierOpens keeps the types.
LEMMA TypeCopierOpens ==
  ASSUME TypeInv, CopierOpens
  PROVE  TypeInv'
<1>. USE TypeParts
<1>1. CopierOK'
  <2>1. copier \in CopierType /\ copier.b \in Backup
    BY DEF CopierOpens, CopierOK, CopierAt
  <2>2. CASE copier.b \notin file
    <3>1. copier' = [copier EXCEPT !.pc = "abandon", !.verdict = [copier.verdict EXCEPT !.state = "failed"]]
      BY <2>2 DEF CopierOpens
    <3>2. [copier.verdict EXCEPT !.state = "failed"] \in Report
      BY <2>1, VerdictType DEF CopierType
    <3>3. copier' \in CopierType
      BY <2>1, <3>1, <3>2, MoveVerdict DEF Pc
    <3>4. copier'.pc = "abandon" /\ copier'.b = copier.b /\ copier'.verdict.state = "failed"
      BY <2>1, <3>1 DEF CopierType, Report
    <3>. QED
      BY <2>1, <3>3, <3>4 DEF CopierOK, CopierAt
  <2>3. CASE copier.b \in file
    <3>1. PICK q \in {"resume", "put"} : copier' = [copier EXCEPT !.pc = q]
      BY <2>3 DEF CopierOpens
    <3>2. copier' \in CopierType
      BY <2>1, <3>1, MovePc DEF Pc
    <3>. QED
      BY <2>1, <3>1, <3>2 DEF CopierOK, CopierAt, CopierType
  <2>. QED
    BY <2>2, <2>3
<1>2. /\ RunOK' /\ FileOK' /\ JobOK' /\ ProgressOK' /\ ReportOK' /\ ResultOK'
      /\ WireOK' /\ BucketOK' /\ OpenOK' /\ PanelOK' /\ DeletingOK' /\ LeftOK' /\ PastOK'
  BY Unchanged DEF CopierOpens, disk, storage
<1>. QED
  BY <1>1, <1>2
\* CopierWaits keeps the types.
LEMMA TypeCopierWaits ==
  ASSUME TypeInv, CopierWaits
  PROVE  TypeInv'
<1>. USE TypeParts
<1>1. JobOK'
  BY DEF CopierWaits, JobOK, JobType
<1>2. CopierOK'
  BY NextJobType DEF CopierWaits, CopierOK, CopierAt
<1>3. /\ RunOK' /\ FileOK' /\ ProgressOK' /\ ReportOK' /\ ResultOK' /\ WireOK'
      /\ BucketOK' /\ OpenOK' /\ PanelOK' /\ DeletingOK' /\ LeftOK' /\ PastOK'
  BY Unchanged DEF CopierWaits, storage
<1>. QED
  BY <1>1, <1>2, <1>3
\* CopierRefused keeps the types.
LEMMA TypeCopierRefused ==
  ASSUME TypeInv, CopierRefused
  PROVE  TypeInv'
<1>. USE TypeParts
<1>1. JobOK'
  BY FailedType DEF CopierRefused
<1>2. CopierOK'
  BY FailedType DEF CopierRefused
<1>3. /\ RunOK' /\ FileOK' /\ ProgressOK' /\ ReportOK' /\ ResultOK' /\ WireOK'
      /\ BucketOK' /\ OpenOK' /\ PanelOK' /\ DeletingOK' /\ LeftOK' /\ PastOK'
  BY Unchanged DEF CopierRefused, storage
<1>. QED
  BY <1>1, <1>2, <1>3
\* The copier goes on within its job.
LEMMA GoesOn ==
  ASSUME CopierOK, copier.pc # "off", NEW q \in Pc \ {"note", "prune", "abandon", "report"},
         copier' = [copier EXCEPT !.pc = q]
  PROVE  CopierOK' /\ copier'.b = copier.b /\ copier'.pc = q /\ copier'.id = copier.id
         /\ copier'.verdict = copier.verdict
<1>1. copier \in CopierType /\ copier.b \in Backup
  BY DEF CopierOK, CopierAt
<1>2. copier' \in CopierType
  BY <1>1, MovePc
<1>. QED
  BY <1>1, <1>2 DEF CopierOK, CopierAt, CopierType
\* A failure of the storage.
LEMMA StorageFailsType ==
  ASSUME TypeInv, copier.pc # "off", StorageFails
  PROVE  JobOK' /\ CopierOK'
BY FailedType DEF StorageFails
\* CopierPuts keeps the types.
LEMMA TypeCopierPuts ==
  ASSUME TypeInv, CopierPuts
  PROVE  TypeInv'
<1>. USE TypeParts
<1>a. copier.b \in Backup /\ copier.pc # "off"
  BY DEF CopierPuts, CopierOK, CopierAt
<1>b. \/ copier' = [copier EXCEPT !.pc = "head"] /\ UNCHANGED job
      \/ StorageFails
  BY DEF CopierPuts
<1>1. JobOK'
  BY <1>a, <1>b, StorageFailsType, Unchanged
<1>2. CopierOK'
  BY <1>a, <1>b, StorageFailsType, GoesOn DEF Pc
<1>3. BucketOK'
  <2>1. Store(copier.b) \/ UNCHANGED <<bucket, older>>
    BY DEF CopierPuts
  <2>. QED
    BY <1>a, <2>1, StoreType, Unchanged
<1>4. LeftOK'
  BY SpendType, Unchanged DEF CopierPuts
<1>5. /\ RunOK' /\ FileOK' /\ ProgressOK' /\ ReportOK' /\ ResultOK'
      /\ WireOK' /\ OpenOK' /\ PanelOK' /\ DeletingOK' /\ PastOK'
  BY Unchanged DEF CopierPuts, storage
<1>. QED
  BY <1>1, <1>2, <1>3, <1>4, <1>5
\* CopierResumes keeps the types.
LEMMA TypeCopierResumes ==
  ASSUME TypeInv, CopierResumes
  PROVE  TypeInv'
<1>. USE TypeParts
<1>. DEFINE b == copier.b
<1>a. copier.b \in Backup /\ copier.pc # "off" /\ copier \in CopierType
      /\ progress[b] \in ProgressType
  BY DEF CopierResumes, CopierOK, CopierAt, ProgressOK
<1>b. \/ /\ copier' = [copier EXCEPT !.pc = "part", !.id = progress[b].id, !.parts = progress[b].parts]
         /\ UNCHANGED <<job, open, past>>
      \/ \E new \in UploadId : /\ open' = [open EXCEPT ![b] = @ \cup {new}]
                               /\ copier' = [copier EXCEPT !.pc = "note", !.id = new]
                               /\ UNCHANGED <<job, past>>
      \/ \E new \in UploadId : /\ open' = [open EXCEPT ![b] = @ \cup {new}]
                               /\ past' = [past EXCEPT !.leaked = @ \cup {<<b, new>>}]
                               /\ Failed(TRUE)
      \/ StorageFails /\ UNCHANGED <<open, past>>
  BY DEF CopierResumes, FreshIds
<1>1. JobOK'
  BY <1>a, <1>b, StorageFailsType, FailedType, Unchanged
<1>2. CopierOK'
  <2>1. CASE copier' = [copier EXCEPT !.pc = "part", !.id = progress[b].id, !.parts = progress[b].parts]
    <3>1. copier' \in CopierType
      <4>1. progress[b].id \in {0} \cup UploadId /\ progress[b].parts \in 0..Parts /\ "part" \in Pc
        BY <1>a DEF ProgressType, Pc
      <4>. QED
        BY <1>a, <2>1, <4>1, MoveUpload
    <3>. QED
      BY <1>a, <2>1, <3>1 DEF CopierOK, CopierAt, CopierType
  <2>2. ASSUME NEW new \in UploadId, copier' = [copier EXCEPT !.pc = "note", !.id = new]
        PROVE  CopierOK'
    <3>1. copier' \in CopierType
      <4>1. new \in {0} \cup UploadId /\ "note" \in Pc
        BY DEF Pc
      <4>. QED
        BY <1>a, <2>2, <4>1, MoveId
    <3>. QED
      BY <1>a, <2>2, <3>1 DEF CopierOK, CopierAt, CopierType
  <2>. QED
    BY <1>a, <1>b, <2>1, <2>2, StorageFailsType, FailedType
<1>3. OpenOK'
  <2>1. ASSUME NEW new \in UploadId, open' = [open EXCEPT ![b] = @ \cup {new}]
        PROVE  OpenOK'
    BY <1>a, <2>1 DEF OpenOK
  <2>. QED
    BY <1>b, <2>1, Unchanged DEF StorageFails
<1>4. PastOK'
  <2>1. ASSUME NEW new \in UploadId, past' = [past EXCEPT !.leaked = @ \cup {<<b, new>>}]
        PROVE  PastOK'
    BY <1>a, <2>1 DEF PastOK, PastType
  <2>. QED
    BY <1>b, <2>1, Unchanged
<1>5. /\ RunOK' /\ FileOK' /\ ProgressOK' /\ ReportOK' /\ ResultOK'
      /\ WireOK' /\ BucketOK' /\ PanelOK' /\ DeletingOK' /\ LeftOK'
  BY Unchanged DEF CopierResumes, storage
<1>. QED
  BY <1>1, <1>2, <1>3, <1>4, <1>5
\* CopierNotes keeps the types.
LEMMA TypeCopierNotes ==
  ASSUME TypeInv, CopierNotes
  PROVE  TypeInv'
<1>. USE TypeParts
<1>a. copier.b \in Backup /\ copier.pc # "off" /\ copier.id \in {0} \cup UploadId
  BY DEF CopierNotes, CopierOK, CopierAt, CopierType
<1>b. \/ /\ progress' = [progress EXCEPT ![copier.b] = [id |-> copier.id, parts |-> 0]]
         /\ copier' = [copier EXCEPT !.pc = "part"] /\ UNCHANGED job
      \/ Failed(TRUE) /\ UNCHANGED progress
  BY DEF CopierNotes
<1>1. JobOK'
  BY <1>a, <1>b, FailedType, Unchanged
<1>2. ProgressOK'
  <2>1. [id |-> copier.id, parts |-> 0] \in ProgressType
    BY <1>a, Bounds DEF ProgressType
  <2>. QED
    BY <1>a, <1>b, <2>1 DEF ProgressOK
<1>3. CopierOK'
  BY <1>a, <1>b, FailedType, GoesOn DEF Pc
<1>4. /\ RunOK' /\ FileOK' /\ ReportOK' /\ ResultOK' /\ WireOK'
      /\ BucketOK' /\ OpenOK' /\ PanelOK' /\ DeletingOK' /\ LeftOK' /\ PastOK'
  BY Unchanged DEF CopierNotes, storage
<1>. QED
  BY <1>1, <1>2, <1>3, <1>4
\* The progress is removed and the try counts.
LEMMA NoSuchUploadType ==
  ASSUME TypeInv, copier.pc # "off", NoSuchUpload
  PROVE  JobOK' /\ CopierOK' /\ ProgressOK'
<1>1. JobOK' /\ CopierOK'
  BY FailedType DEF NoSuchUpload
<1>2. ProgressOK'
  BY TypeParts, EmptyTypes DEF NoSuchUpload, ProgressOK
<1>. QED
  BY <1>1, <1>2
\* CopierSendsPart keeps the types.
LEMMA TypeCopierSendsPart ==
  ASSUME TypeInv, CopierSendsPart
  PROVE  TypeInv'
<1>. USE TypeParts
<1>a. copier.b \in Backup /\ copier.pc = "part" /\ copier \in CopierType
      /\ copier.parts + 1 \in 0..Parts
  BY Bounds DEF CopierSendsPart, CopierOK, CopierAt, CopierType
<1>b. \/ /\ copier' = [copier EXCEPT !.parts = copier.parts + 1]
         /\ progress' = [progress EXCEPT ![copier.b].parts = copier.parts + 1] /\ UNCHANGED job
      \/ StorageFails /\ UNCHANGED progress
      \/ NoSuchUpload
  BY DEF CopierSendsPart
<1>1. JobOK'
  BY <1>a, <1>b, StorageFailsType, NoSuchUploadType, Unchanged
<1>2. ProgressOK'
  BY <1>a, <1>b, NoSuchUploadType DEF ProgressOK, ProgressType
<1>3. CopierOK'
  <2>1. CASE copier' = [copier EXCEPT !.parts = copier.parts + 1]
    <3>1. copier' \in CopierType
      BY <1>a, <2>1, MoveParts
    <3>. QED
      BY <1>a, <2>1, <3>1 DEF CopierOK, CopierAt, CopierType
  <2>. QED
    BY <1>a, <1>b, <2>1, StorageFailsType, NoSuchUploadType
<1>4. /\ RunOK' /\ FileOK' /\ ReportOK' /\ ResultOK' /\ WireOK'
      /\ BucketOK' /\ OpenOK' /\ PanelOK' /\ DeletingOK' /\ LeftOK' /\ PastOK'
  BY Unchanged DEF CopierSendsPart, storage
<1>. QED
  BY <1>1, <1>2, <1>3, <1>4
\* CopierCompletes keeps the types.
LEMMA TypeCopierCompletes ==
  ASSUME TypeInv, CopierCompletes
  PROVE  TypeInv'
<1>. USE TypeParts
<1>a. copier.b \in Backup /\ copier.pc = "part"
  BY DEF CopierCompletes, CopierOK, CopierAt
<1>b. \/ copier' = [copier EXCEPT !.pc = "drop"] /\ UNCHANGED <<job, progress>>
      \/ StorageFails /\ UNCHANGED progress
      \/ NoSuchUpload
  BY DEF CopierCompletes, StorageFails
<1>c. (Store(copier.b) \/ UNCHANGED <<bucket, older>>)
      /\ (open' = [open EXCEPT ![copier.b] = @ \ {copier.id}] \/ UNCHANGED open)
  BY DEF CopierCompletes, storage
<1>1. JobOK'
  BY <1>a, <1>b, StorageFailsType, NoSuchUploadType, Unchanged
<1>2. ProgressOK'
  BY <1>a, <1>b, NoSuchUploadType, Unchanged
<1>3. CopierOK'
  BY <1>a, <1>b, StorageFailsType, NoSuchUploadType, GoesOn DEF Pc
<1>4. BucketOK'
  BY <1>a, <1>c, StoreType, Unchanged
<1>5. OpenOK'
  BY <1>c DEF OpenOK
<1>6. /\ RunOK' /\ FileOK' /\ ReportOK' /\ ResultOK'
      /\ WireOK' /\ PanelOK' /\ DeletingOK' /\ LeftOK' /\ PastOK'
  BY Unchanged DEF CopierCompletes, storage
<1>. QED
  BY <1>1, <1>2, <1>3, <1>4, <1>5, <1>6
\* CopierDropsProgress keeps the types.
LEMMA TypeCopierDropsProgress ==
  ASSUME TypeInv, CopierDropsProgress
  PROVE  TypeInv'
<1>. USE TypeParts
<1>1. ProgressOK'
  BY EmptyTypes DEF CopierDropsProgress, ProgressOK
<1>2. CopierOK'
  BY GoesOn DEF CopierDropsProgress, Pc
<1>3. /\ RunOK' /\ FileOK' /\ JobOK' /\ ReportOK' /\ ResultOK' /\ WireOK'
      /\ BucketOK' /\ OpenOK' /\ PanelOK' /\ DeletingOK' /\ LeftOK' /\ PastOK'
  BY Unchanged DEF CopierDropsProgress, storage
<1>. QED
  BY <1>1, <1>2, <1>3
\* CopierChecksSize keeps the types.
LEMMA TypeCopierChecksSize ==
  ASSUME TypeInv, CopierChecksSize
  PROVE  TypeInv'
<1>. USE TypeParts
<1>a. copier.b \in Backup /\ copier.pc = "head" /\ copier \in CopierType
  BY DEF CopierChecksSize, CopierOK, CopierAt
<1>b. \/ /\ \E e \in {{}, BucketExcess(copier.b)} :
              copier' = [copier EXCEPT !.pc = "prune", !.excess = e,
                                       !.verdict = [copier.verdict EXCEPT !.state = "copied"]]
         /\ UNCHANGED job
      \/ StorageFails
  BY DEF CopierChecksSize, StorageFails
<1>1. JobOK'
  BY <1>a, <1>b, StorageFailsType, Unchanged
<1>2. CopierOK'
  <2>1. ASSUME NEW e \in {{}, BucketExcess(copier.b)},
               copier' = [copier EXCEPT !.pc = "prune", !.excess = e,
                                        !.verdict = [copier.verdict EXCEPT !.state = "copied"]]
        PROVE  CopierOK'
    <3>1. e \in SUBSET Backup
      BY DEF BucketExcess, BucketOK
    <3>2. [copier.verdict EXCEPT !.state = "copied"] \in Report
      BY <1>a, VerdictType DEF CopierType
    <3>3. copier' \in CopierType
      BY <1>a, <2>1, <3>1, <3>2, MoveListed DEF Pc
    <3>4. copier'.pc = "prune" /\ copier'.b = copier.b /\ copier'.verdict.state = "copied"
      BY <1>a, <2>1 DEF CopierType, Report
    <3>. QED
      BY <1>a, <3>3, <3>4 DEF CopierOK, CopierAt
  <2>. QED
    BY <1>a, <1>b, <2>1, StorageFailsType
<1>3. /\ RunOK' /\ FileOK' /\ ProgressOK' /\ ReportOK' /\ ResultOK' /\ WireOK'
      /\ BucketOK' /\ OpenOK' /\ PanelOK' /\ DeletingOK' /\ LeftOK' /\ PastOK'
  BY Unchanged DEF CopierChecksSize, storage
<1>. QED
  BY <1>1, <1>2, <1>3

\* Retention removes an object, fails, or is done.
LEMMA PruneSteps ==
  ASSUME CopierPrunes
  PROVE  \/ \E x \in copier.excess :
              /\ Remove(x) /\ \A y \in copier.excess : <<x, y>> \notin older
              /\ copier' = [copier EXCEPT !.excess = copier.excess \ {x},
                     !.verdict = [copier.verdict EXCEPT !.pruned = copier.verdict.pruned \cup {x}]]
              /\ past' = [past EXCEPT !.dropped = @ \cup {x}]
         \/ /\ \/ copier' = [copier EXCEPT !.pc = "report",
                               !.verdict = [copier.verdict EXCEPT !.pruned = {}]]
               \/ copier' = [copier EXCEPT !.pc = "report"]
            /\ UNCHANGED <<bucket, older, past>>
BY ZenonT(60) DEF CopierPrunes

\* CopierPrunes keeps the types.
LEMMA TypeCopierPrunes ==
  ASSUME TypeInv, CopierPrunes
  PROVE  TypeInv'
<1>. USE TypeParts
<1>a. /\ copier.b \in Backup /\ copier.pc = "prune" /\ copier \in CopierType
      /\ copier.verdict.state # "none" /\ copier.excess \subseteq Backup
  BY DEF CopierPrunes, CopierOK, CopierAt, CopierType
<1>b. \/ \E x \in copier.excess :
           /\ Remove(x)
           /\ copier' = [copier EXCEPT !.excess = copier.excess \ {x},
                   !.verdict = [copier.verdict EXCEPT !.pruned = copier.verdict.pruned \cup {x}]]
           /\ past' = [past EXCEPT !.dropped = @ \cup {x}]
      \/ /\ \/ copier' = [copier EXCEPT !.pc = "report",
                              !.verdict = [copier.verdict EXCEPT !.pruned = {}]]
            \/ copier' = [copier EXCEPT !.pc = "report"]
         /\ UNCHANGED <<bucket, older, past>>
  BY PruneSteps
<1>1. CopierOK'
  <2>1. ASSUME NEW x \in copier.excess,
               copier' = [copier EXCEPT !.excess = copier.excess \ {x},
                 !.verdict = [copier.verdict EXCEPT !.pruned = copier.verdict.pruned \cup {x}]]
        PROVE  CopierOK'
    <3>1. [copier.verdict EXCEPT !.pruned = copier.verdict.pruned \cup {x}] \in Report
      BY <1>a DEF CopierType, Report
    <3>2. copier' \in CopierType
      <4>1. copier.excess \ {x} \in SUBSET Backup
        BY <1>a
      <4>. QED
        BY <1>a, <2>1, <3>1, <4>1, MoveExcess
    <3>3. copier'.pc = "prune" /\ copier'.b = copier.b /\ copier'.verdict.state = copier.verdict.state
      BY <1>a, <2>1 DEF CopierType, Report
    <3>. QED
      BY <1>a, <3>2, <3>3 DEF CopierOK, CopierAt
  <2>2. CASE copier' = [copier EXCEPT !.pc = "report", !.verdict = [copier.verdict EXCEPT !.pruned = {}]]
    <3>1. [copier.verdict EXCEPT !.pruned = {}] \in Report
      BY <1>a DEF CopierType, Report
    <3>2. copier' \in CopierType
      BY <1>a, <2>2, <3>1, MoveVerdict DEF Pc
    <3>3. copier'.pc = "report" /\ copier'.b = copier.b /\ copier'.verdict.state = copier.verdict.state
      BY <1>a, <2>2 DEF CopierType, Report
    <3>. QED
      BY <1>a, <3>2, <3>3 DEF CopierOK, CopierAt
  <2>3. CASE copier' = [copier EXCEPT !.pc = "report"]
    <3>1. copier' \in CopierType
      BY <1>a, <2>3, MovePc DEF Pc
    <3>. QED
      BY <1>a, <2>3, <3>1 DEF CopierOK, CopierAt, CopierType
  <2>. QED
    BY <1>b, <2>1, <2>2, <2>3
<1>2. BucketOK'
  BY <1>a, <1>b, StoreType, Unchanged
<1>3. PastOK'
  <2>1. ASSUME NEW x \in Backup, past' = [past EXCEPT !.dropped = @ \cup {x}]
        PROVE  PastOK'
    BY <2>1 DEF PastOK, PastType
  <2>. QED
    BY <1>a, <1>b, <2>1, Unchanged
<1>4. /\ RunOK' /\ FileOK' /\ JobOK' /\ ProgressOK' /\ ReportOK'
      /\ ResultOK' /\ WireOK' /\ OpenOK' /\ PanelOK' /\ DeletingOK' /\ LeftOK'
  BY Unchanged DEF CopierPrunes, disk, storage
<1>. QED
  BY <1>1, <1>2, <1>3, <1>4
\* CopierAbandons keeps the types.
LEMMA TypeCopierAbandons ==
  ASSUME TypeInv, CopierAbandons
  PROVE  TypeInv'
<1>. USE TypeParts
<1>a. /\ copier.b \in Backup /\ copier.pc = "abandon" /\ copier \in CopierType
      /\ copier.verdict.state # "none"
  BY DEF CopierAbandons, CopierOK, CopierAt
<1>1. ProgressOK'
  BY EmptyTypes DEF CopierAbandons, ProgressOK
<1>2. CopierOK'
  <2>1. copier' \in CopierType
    BY <1>a, MovePc DEF CopierAbandons, Pc
  <2>. QED
    BY <1>a, <2>1 DEF CopierAbandons, CopierOK, CopierAt, CopierType
<1>3. OpenOK'
  BY DEF CopierAbandons, OpenOK
<1>4. PastOK'
  BY <1>a DEF CopierAbandons, OpenOK, PastOK, PastType
<1>5. /\ RunOK' /\ FileOK' /\ JobOK' /\ ReportOK' /\ ResultOK'
      /\ WireOK' /\ BucketOK' /\ PanelOK' /\ DeletingOK' /\ LeftOK'
  BY Unchanged DEF CopierAbandons, storage
<1>. QED
  BY <1>1, <1>2, <1>3, <1>4, <1>5
\* The report is written, or it is not.
Reported == /\ report' = [report EXCEPT ![copier.b] = copier.verdict]
            /\ copier' = [copier EXCEPT !.pc = "remove"]
            /\ UNCHANGED job
Unreported == UNCHANGED report /\ (Failed(TRUE) \/ (copier' = CopierOff /\ UNCHANGED job))
\* A report that cannot be written is a failed try or the end of the tick.
LEMMA ReportSteps ==
  ASSUME TypeInv, CopierReports
  PROVE  /\ copier.pc = "report" /\ copier.b \in Backup /\ copier \in CopierType
         /\ copier.verdict.state # "none"
         /\ Reported \/ Unreported
<1>1. copier.pc = "report" /\ copier.b \in Backup /\ copier \in CopierType /\ copier.verdict.state # "none"
  BY TypeParts DEF CopierReports, CopierOK, CopierAt
<1>. QED
  BY <1>1 DEF CopierReports, Reported, Unreported
\* CopierReports keeps the types.
LEMMA TypeCopierReports ==
  ASSUME TypeInv, CopierReports
  PROVE  TypeInv'
<1>. USE TypeParts
<1>0. /\ copier.pc # "off" /\ copier.b \in Backup /\ copier \in CopierType
      /\ Reported \/ Unreported
  BY ReportSteps
<1>1. ReportOK'
  BY <1>0 DEF Reported, Unreported, ReportOK, CopierType
<1>2. CopierOK' /\ JobOK'
  <2>1. CASE Reported
    BY <1>0, <2>1, GoesOn, Unchanged DEF Reported, Pc
  <2>2. CASE Failed(TRUE)
    BY <1>0, <2>2, FailedType
  <2>3. CASE copier' = CopierOff /\ UNCHANGED job
    BY <2>3, EmptyTypes, Unchanged DEF CopierOK, CopierAt
  <2>. QED
    BY <1>0, <2>1, <2>2, <2>3 DEF Unreported
<1>3. LeftOK'
  BY SpendType, Unchanged DEF CopierReports
<1>4. /\ RunOK' /\ FileOK' /\ ProgressOK' /\ ResultOK' /\ WireOK'
      /\ BucketOK' /\ OpenOK' /\ PanelOK' /\ DeletingOK' /\ PastOK'
  BY Unchanged DEF CopierReports, storage
<1>. QED
  BY <1>1, <1>2, <1>3, <1>4
\* CopierRemovesJob keeps the types.
LEMMA TypeCopierRemovesJob ==
  ASSUME TypeInv, CopierRemovesJob
  PROVE  TypeInv'
<1>. USE TypeParts
<1>1. JobOK'
  BY EmptyTypes DEF CopierRemovesJob, JobOK
<1>2. CopierOK'
  BY NextJobType DEF CopierRemovesJob, CopierOK, CopierAt
<1>3. /\ RunOK' /\ FileOK' /\ ProgressOK' /\ ReportOK' /\ ResultOK' /\ WireOK'
      /\ BucketOK' /\ OpenOK' /\ PanelOK' /\ DeletingOK' /\ LeftOK' /\ PastOK'
  BY Unchanged DEF CopierRemovesJob, storage
<1>. QED
  BY <1>1, <1>2, <1>3
\* Deletes, the reporters, the socket and the control plane.
LEMMA TypeDelete ==
  ASSUME TypeInv, (\E b \in Backup : DeleteStarts(b)) \/ DeleteEnds
  PROVE  TypeInv'
<1>. USE TypeParts
<1>1. FileOK'
  BY Unchanged DEF DeleteStarts, DeleteEnds, disk, FileOK
<1>2. BucketOK'
  <2>1. CASE DeleteEnds
    <3>1. deleting \in Backup
      BY <2>1, Bounds DEF DeleteEnds, DeletingOK, Backup
    <3>. QED
      BY <2>1, <3>1, StoreType, Unchanged DEF DeleteEnds
  <2>. QED
    BY <2>1, Unchanged DEF DeleteStarts, storage
<1>3. DeletingOK'
  BY Bounds DEF DeleteStarts, DeleteEnds, DeletingOK, Backup
<1>4. LeftOK'
  BY SpendType, Unchanged DEF DeleteStarts, DeleteEnds
<1>5. PastOK'
  <2>1. CASE DeleteEnds
    <3>1. deleting \in Backup
      BY <2>1, Bounds DEF DeleteEnds, DeletingOK, Backup
    <3>. QED
      BY <2>1, <3>1 DEF DeleteEnds, PastOK, PastType
  <2>. QED
    BY <2>1, Unchanged DEF DeleteStarts
<1>6. /\ RunOK' /\ JobOK' /\ ProgressOK' /\ ReportOK'
      /\ ResultOK' /\ CopierOK' /\ WireOK' /\ OpenOK' /\ PanelOK'
  BY Unchanged DEF DeleteStarts, DeleteEnds, disk, storage
<1>. QED
  BY <1>1, <1>2, <1>3, <1>4, <1>5, <1>6
\* Sends keeps the types.
LEMMA TypeSends ==
  ASSUME TypeInv, NEW b \in Backup, SendCopyReport(b) \/ SendRunReport(b)
  PROVE  TypeInv'
<1>. USE TypeParts
<1>1. WireOK'
  <2>1. PICK f \in CopyFrame \cup RunFrame : up' = Append(up, f)
    <3>1. CASE SendCopyReport(b)
      <4>1. [kind |-> "copy", b |-> b, body |-> report[b]] \in CopyFrame
        BY DEF CopyFrame, ReportOK
      <4>. QED
        BY <3>1, <4>1 DEF SendCopyReport, Sends
    <3>2. CASE SendRunReport(b)
      <4>1. [kind |-> "run", b |-> b, body |-> result[b]] \in RunFrame
        BY DEF RunFrame, ResultOK
      <4>. QED
        BY <3>2, <4>1 DEF SendRunReport, Sends
    <3>. QED
      BY <3>1, <3>2
  <2>2. Len(up) + Len(down) < MaxWire /\ UNCHANGED <<session, down>>
    BY DEF SendCopyReport, SendRunReport, Sends
  <2>. HIDE DEF CopyFrame, RunFrame
  <2>3. up' \in Seq(CopyFrame \cup RunFrame) /\ Len(up') = Len(up) + 1
    BY <2>1 DEF WireOK
  <2>. QED
    BY <2>2, <2>3, Bounds DEF WireOK
<1>2. /\ RunOK' /\ FileOK' /\ JobOK' /\ ProgressOK' /\ ReportOK' /\ ResultOK'
      /\ CopierOK' /\ BucketOK' /\ OpenOK' /\ PanelOK' /\ DeletingOK' /\ LeftOK' /\ PastOK'
  BY Unchanged DEF SendCopyReport, SendRunReport, Sends, disk, storage
<1>. QED
  BY <1>1, <1>2
\* PanelRecords keeps the types.
LEMMA TypePanelRecords ==
  ASSUME TypeInv, PanelRecords
  PROVE  TypeInv'
<1>. USE TypeParts
<1>a. Head(up) \in CopyFrame \cup RunFrame /\ up # <<>> /\ up \in Seq(CopyFrame \cup RunFrame)
  BY DEF PanelRecords, WireOK
<1>b. Head(up).b \in Backup /\ Head(up).kind \in {"copy", "run"}
      /\ (Head(up).kind = "copy" => Head(up).body \in Report)
      /\ (Head(up).kind # "copy" => Head(up).body \in Result)
  BY <1>a DEF CopyFrame, RunFrame
<1>1. WireOK'
  <2>1. [kind |-> Head(up).kind, b |-> Head(up).b] \in Answer
    BY <1>b DEF Answer
  <2>2. down' = Append(down, [kind |-> Head(up).kind, b |-> Head(up).b]) /\ up' = Tail(up) /\ UNCHANGED session
    BY DEF PanelRecords
  <2>3. down' \in Seq(Answer) /\ Len(down') = Len(down) + 1
    BY <2>1, <2>2 DEF WireOK
  <2>4. up' \in Seq(CopyFrame \cup RunFrame) /\ Len(up') = Len(up) - 1
    BY <1>a, <2>2
  <2>5. Len(up) \in Nat /\ Len(down) \in Nat
    BY DEF WireOK
  <2>. QED
    BY <2>2, <2>3, <2>4, <2>5, Bounds DEF WireOK
<1>2. PanelOK'
  <2>1. CASE Head(up).kind = "copy"
    BY <1>b, <2>1 DEF PanelRecords, PanelOK, PanelType, Report
  <2>2. CASE Head(up).kind # "copy"
    <3>1. panel' = [panel EXCEPT !.run[Head(up).b] = Head(up).body.status,
                                 !.pruned = @ \cup Head(up).body.pruned]
      BY <2>2 DEF PanelRecords
    <3>2. Head(up).body.status \in {"none", "succeeded", "failed"} /\ Head(up).body.pruned \subseteq Backup
      BY <1>b, <2>2 DEF Result
    <3>. QED
      BY <1>b, <3>1, <3>2 DEF PanelOK, PanelType
  <2>. QED
    BY <2>1, <2>2
<1>3. /\ RunOK' /\ FileOK' /\ JobOK' /\ ProgressOK' /\ ReportOK' /\ ResultOK'
      /\ CopierOK' /\ BucketOK' /\ OpenOK' /\ DeletingOK' /\ LeftOK' /\ PastOK'
  BY Unchanged DEF PanelRecords, disk, storage
<1>. QED
  BY <1>1, <1>2, <1>3
\* AnswerArrives keeps the types.
LEMMA TypeAnswerArrives ==
  ASSUME TypeInv, AnswerArrives
  PROVE  TypeInv'
<1>. USE TypeParts
<1>1. ReportOK'
  BY EmptyTypes DEF AnswerArrives, ReportOK
<1>2. ResultOK'
  BY EmptyTypes DEF AnswerArrives, ResultOK
<1>3. WireOK'
  <2>1. down' = Tail(down) /\ down # <<>> /\ UNCHANGED <<session, up>>
    BY DEF AnswerArrives
  <2>2. down' \in Seq(Answer) /\ Len(down') = Len(down) - 1
    BY <2>1 DEF WireOK
  <2>3. Len(up) \in Nat /\ Len(down) \in Nat
    BY DEF WireOK
  <2>. QED
    BY <2>1, <2>2, <2>3, Bounds DEF WireOK
<1>4. /\ RunOK' /\ FileOK' /\ JobOK' /\ ProgressOK' /\ CopierOK'
      /\ BucketOK' /\ OpenOK' /\ PanelOK' /\ DeletingOK' /\ LeftOK' /\ PastOK'
  BY Unchanged DEF AnswerArrives, storage
<1>. QED
  BY <1>1, <1>2, <1>3, <1>4
\* Session keeps the types.
LEMMA TypeSession ==
  ASSUME TypeInv, SessionStarts \/ FeaturesKnown \/ SessionEnds
  PROVE  TypeInv'
<1>. USE TypeParts
<1>1. WireOK'
  <2>1. CASE SessionEnds
    BY <2>1, Bounds DEF SessionEnds, Disconnected, WireOK
  <2>2. CASE SessionStarts
    BY <2>2 DEF SessionStarts, WireOK
  <2>3. CASE FeaturesKnown
    BY <2>3 DEF FeaturesKnown, WireOK
  <2>. QED
    BY <2>1, <2>2, <2>3
<1>2. LeftOK'
  BY SpendType, Unchanged DEF SessionStarts, FeaturesKnown, SessionEnds
<1>3. /\ RunOK' /\ FileOK' /\ JobOK' /\ ProgressOK' /\ ReportOK' /\ ResultOK'
      /\ CopierOK' /\ BucketOK' /\ OpenOK' /\ PanelOK' /\ DeletingOK' /\ PastOK'
  BY Unchanged DEF SessionStarts, FeaturesKnown, SessionEnds, disk, storage
<1>. QED
  BY <1>1, <1>2, <1>3
\* Crash keeps the types.
LEMMA TypeCrash ==
  ASSUME TypeInv, Crash
  PROVE  TypeInv'
<1>. USE TypeParts
<1>1. CopierOK'
  BY EmptyTypes DEF Crash, CopierOK, CopierAt
<1>2. WireOK'
  BY Bounds DEF Crash, Disconnected, WireOK
<1>3. DeletingOK'
  BY Bounds DEF Crash, DeletingOK
<1>4. LeftOK'
  BY SpendType DEF Crash
<1>5. PastOK'
  <2>1. copier.pc = "note" => <<copier.b, copier.id>> \in Backup \X UploadId
    BY DEF CopierOK, CopierAt
  <2>. QED
    BY <2>1 DEF Crash, PastOK, PastType
<1>6. /\ RunOK' /\ FileOK' /\ JobOK' /\ ProgressOK'
      /\ ReportOK' /\ ResultOK' /\ BucketOK' /\ OpenOK' /\ PanelOK'
  BY Unchanged DEF Crash, disk, storage
<1>. QED
  BY <1>1, <1>2, <1>3, <1>4, <1>5, <1>6

\* No step breaks the types.
LEMMA TypeStep == TypeInv /\ [Next]_vars => TypeInv'
<1>. SUFFICES ASSUME TypeInv, [Next]_vars PROVE TypeInv'
  OBVIOUS
<1>1. CASE UNCHANGED vars
  BY <1>1, TypeParts, Unchanged DEF vars, disk, storage
<1>. QED
  BY <1>1, TypeRunStarts, TypeRunPrunes, TypeRunQueues, TypeRunSpools, TypeRunKilled,
     TypeCopierTicks, TypeRetryDue, TypeCopierOpens, TypeCopierWaits, TypeCopierRefused,
     TypeCopierPuts, TypeCopierResumes, TypeCopierNotes, TypeCopierSendsPart, TypeCopierCompletes,
     TypeCopierDropsProgress, TypeCopierChecksSize, TypeCopierPrunes, TypeCopierAbandons,
     TypeCopierReports, TypeCopierRemovesJob, TypeDelete, TypeSends, TypePanelRecords,
     TypeAnswerArrives, TypeSession, TypeCrash DEF Next, Idle

\* The initial states satisfy it.
LEMMA TypeInit == Init => TypeInv
<1>. SUFFICES ASSUME Init PROVE TypeInv
  OBVIOUS
<1>. USE TypeParts, Bounds
<1>1. RunOK /\ CopierOK
  BY EmptyTypes DEF Init, RunOK, RunnerAt, CopierOK, CopierAt
<1>2. JobOK /\ ProgressOK /\ ReportOK /\ ResultOK /\ OpenOK
  BY EmptyTypes DEF Init, JobOK, ProgressOK, ReportOK, ResultOK, OpenOK
<1>3. FileOK /\ BucketOK /\ DeletingOK
  BY DEF Init, FileOK, BucketOK, DeletingOK, Backup
<1>4. WireOK
  BY DEF Init, WireOK
<1>5. PanelOK /\ LeftOK /\ PastOK
  BY DEF Init, PanelOK, PanelType, LeftOK, LeftType, PastOK, PastType
<1>. QED
  BY <1>1, <1>2, <1>3, <1>4, <1>5

\* The types of BackupCopies hold in every reachable state, for every number of
\* runs, parts, tries and mishaps; in particular no try beyond the last one is
\* ever recorded.
THEOREM TypeCorrect == Spec => []TypeOK
<1>1. TypeInv => TypeOK
  BY DEF TypeInv
<1>. QED
  BY <1>1, TypeInit, TypeStep, PTL DEF Spec

(***************************************************************************)
(* Who writes what, and how the copier moves.                              *)
(***************************************************************************)
Step == [Next]_vars

\* Every variable has few writers.
LEMMA Writers ==
  ASSUME Step
  PROVE  /\ UNCHANGED run \/ RunStarts \/ RunPrunes \/ RunQueues \/ RunSpools \/ RunKilled
         /\ UNCHANGED runs \/ RunStarts
         /\ UNCHANGED file \/ RunStarts \/ RunPrunes \/ \E b \in Backup : DeleteStarts(b)
         /\ \/ UNCHANGED progress \/ CopierNotes \/ CopierSendsPart \/ CopierCompletes
            \/ CopierDropsProgress \/ CopierAbandons
         /\ UNCHANGED report \/ CopierReports \/ AnswerArrives
         /\ UNCHANGED result \/ RunSpools \/ AnswerArrives
         /\ \/ UNCHANGED up \/ SessionEnds \/ Crash \/ PanelRecords
            \/ \E b \in Backup : SendCopyReport(b) \/ SendRunReport(b)
         /\ UNCHANGED down \/ SessionEnds \/ Crash \/ PanelRecords \/ AnswerArrives
         /\ UNCHANGED <<bucket, older>> \/ CopierPuts \/ CopierCompletes \/ CopierPrunes \/ DeleteEnds
         /\ UNCHANGED open \/ CopierResumes \/ CopierCompletes \/ CopierAbandons
         /\ UNCHANGED panel \/ PanelRecords
         /\ UNCHANGED deleting \/ DeleteEnds \/ Crash \/ \E b \in Backup : DeleteStarts(b)
         /\ \/ UNCHANGED past \/ RunPrunes \/ RunQueues \/ RunSpools \/ RunKilled
            \/ CopierResumes \/ CopierPrunes \/ CopierAbandons \/ DeleteEnds \/ Crash
<1>. USE DEF Step, Next, vars, disk, wire, storage, Idle
<1>1. /\ UNCHANGED run \/ RunStarts \/ RunPrunes \/ RunQueues \/ RunSpools \/ RunKilled
      /\ UNCHANGED runs \/ RunStarts
  BY DEF CopierTicks, RetryDue, CopierOpens, CopierWaits, CopierRefused, CopierPuts, CopierResumes,
         CopierNotes, CopierSendsPart, CopierCompletes, CopierDropsProgress, CopierChecksSize,
         CopierPrunes, CopierAbandons, CopierReports, CopierRemovesJob, DeleteStarts, DeleteEnds,
         SendCopyReport, SendRunReport, Sends, PanelRecords, AnswerArrives, SessionStarts,
         FeaturesKnown, SessionEnds, Crash, RunPrunes, RunQueues, RunSpools, RunKilled
<1>2. /\ UNCHANGED file \/ RunStarts \/ RunPrunes \/ \E b \in Backup : DeleteStarts(b)
      /\ \/ UNCHANGED progress \/ CopierNotes \/ CopierSendsPart \/ CopierCompletes
         \/ CopierDropsProgress \/ CopierAbandons
  BY DEF CopierTicks, RetryDue, CopierOpens, CopierWaits, CopierRefused, CopierPuts, CopierResumes,
         CopierNotes, CopierSendsPart, CopierCompletes, CopierDropsProgress, CopierChecksSize,
         CopierPrunes, CopierAbandons, CopierReports, CopierRemovesJob, DeleteStarts, DeleteEnds,
         SendCopyReport, SendRunReport, Sends, PanelRecords, AnswerArrives, SessionStarts,
         FeaturesKnown, SessionEnds, Crash, RunStarts, RunPrunes, RunQueues, RunSpools, RunKilled
<1>3. /\ UNCHANGED report \/ CopierReports \/ AnswerArrives
      /\ UNCHANGED result \/ RunSpools \/ AnswerArrives
  BY DEF CopierTicks, RetryDue, CopierOpens, CopierWaits, CopierRefused, CopierPuts, CopierResumes,
         CopierNotes, CopierSendsPart, CopierCompletes, CopierDropsProgress, CopierChecksSize,
         CopierPrunes, CopierAbandons, CopierReports, CopierRemovesJob, DeleteStarts, DeleteEnds,
         SendCopyReport, SendRunReport, Sends, PanelRecords, SessionStarts,
         FeaturesKnown, SessionEnds, Crash, RunStarts, RunPrunes, RunQueues, RunSpools, RunKilled
<1>4. /\ \/ UNCHANGED up \/ SessionEnds \/ Crash \/ PanelRecords
         \/ \E b \in Backup : SendCopyReport(b) \/ SendRunReport(b)
      /\ UNCHANGED down \/ SessionEnds \/ Crash \/ PanelRecords \/ AnswerArrives
      /\ UNCHANGED panel \/ PanelRecords
  BY DEF CopierTicks, RetryDue, CopierOpens, CopierWaits, CopierRefused, CopierPuts, CopierResumes,
         CopierNotes, CopierSendsPart, CopierCompletes, CopierDropsProgress, CopierChecksSize,
         CopierPrunes, CopierAbandons, CopierReports, CopierRemovesJob, DeleteStarts, DeleteEnds,
         SendCopyReport, SendRunReport, Sends, AnswerArrives, SessionStarts,
         FeaturesKnown, SessionEnds, Crash, RunStarts, RunPrunes, RunQueues, RunSpools, RunKilled
<1>5. /\ UNCHANGED <<bucket, older>> \/ CopierPuts \/ CopierCompletes \/ CopierPrunes \/ DeleteEnds
      /\ UNCHANGED open \/ CopierResumes \/ CopierCompletes \/ CopierAbandons
  BY DEF CopierTicks, RetryDue, CopierOpens, CopierWaits, CopierRefused, CopierPuts, CopierResumes,
         CopierNotes, CopierSendsPart, CopierDropsProgress, CopierChecksSize,
         CopierPrunes, CopierAbandons, CopierReports, CopierRemovesJob, DeleteStarts, DeleteEnds,
         SendCopyReport, SendRunReport, Sends, PanelRecords, AnswerArrives, SessionStarts,
         FeaturesKnown, SessionEnds, Crash, RunStarts, RunPrunes, RunQueues, RunSpools, RunKilled
<1>6. /\ UNCHANGED deleting \/ DeleteEnds \/ Crash \/ \E b \in Backup : DeleteStarts(b)
      /\ \/ UNCHANGED past \/ RunPrunes \/ RunQueues \/ RunSpools \/ RunKilled
         \/ CopierResumes \/ CopierPrunes \/ CopierAbandons \/ DeleteEnds \/ Crash
  BY DEF CopierTicks, RetryDue, CopierOpens, CopierWaits, CopierRefused, CopierPuts, CopierResumes,
         CopierNotes, CopierSendsPart, CopierCompletes, CopierDropsProgress, CopierChecksSize,
         CopierPrunes, CopierAbandons, CopierReports, CopierRemovesJob, DeleteStarts,
         SendCopyReport, SendRunReport, Sends, PanelRecords, AnswerArrives, SessionStarts,
         FeaturesKnown, SessionEnds, RunStarts, RunPrunes, RunQueues, RunSpools, RunKilled
<1>. QED
  BY <1>1, <1>2, <1>3, <1>4, <1>5, <1>6

\* A failed try ends the job for this tick or gives the copy up; every job stays queued.
LEMMA FailedMoves ==
  ASSUME TypeInv, copier.pc # "off", NEW r \in BOOLEAN, Failed(r)
  PROVE  /\ \A b \in Backup : job'[b].queued = job[b].queued
         /\ \/ copier'.pc \in {"off", "open"} /\ copier'.verdict.state = "none"
            \/ /\ copier'.pc = "abandon" /\ copier'.b = copier.b
               /\ copier'.verdict.state = "failed"
<1>. USE TypeParts
<1>0. copier.b \in Backup /\ copier \in CopierType /\ job \in [Backup -> JobType]
  BY DEF CopierOK, CopierAt, JobOK
<1>1. CASE GivesUp(job[copier.b].attempts + 1, r)
  <2>1. /\ copier' = [copier EXCEPT !.pc = "abandon",
                                    !.verdict = [state |-> "failed", pruned |-> {}]]
        /\ UNCHANGED job
    BY <1>1 DEF Failed
  <2>. QED
    BY <1>0, <2>1 DEF CopierType
<1>2. CASE ~GivesUp(job[copier.b].attempts + 1, r)
  <2>1. /\ job' = [job EXCEPT ![copier.b].attempts = job[copier.b].attempts + 1, ![copier.b].due = FALSE]
        /\ copier' = NextJob
    BY <1>2 DEF Failed
  <2>2. \A b \in Backup : job'[b].queued = job[b].queued
    BY <1>0, <2>1 DEF JobType
  <2>. QED
    BY <2>1, <2>2, NextJobType
<1>. QED
  BY <1>1, <1>2

\* A frame that leaves the head of the wire leaves the others in order.
LEMMA TailOf ==
  ASSUME NEW S, NEW q \in Seq(S), q # <<>>
  PROVE  /\ Head(q) = q[1] /\ 1 \in 1..Len(q)
         /\ Len(Tail(q)) = Len(q) - 1
         /\ \A i \in 1..Len(Tail(q)) : Tail(q)[i] = q[i + 1] /\ i + 1 \in 1..Len(q)
OBVIOUS
\* What is appended comes last.
LEMMA LastOf ==
  ASSUME NEW S, NEW q \in Seq(S), NEW e \in S, NEW i \in 1..Len(Append(q, e))
  PROVE  (i \in 1..Len(q) /\ Append(q, e)[i] = q[i]) \/ Append(q, e)[i] = e
OBVIOUS

\* Where a frame on the way up comes from.
LEMMA UpFrom ==
  ASSUME TypeInv, Step, NEW i \in 1..Len(up')
  PROVE  \/ \E j \in 1..Len(up) : up'[i] = up[j]
         \/ \E b \in Backup : /\ SendCopyReport(b) /\ report[b] # NoReport
                              /\ up'[i] = [kind |-> "copy", b |-> b, body |-> report[b]]
         \/ \E b \in Backup : /\ SendRunReport(b) /\ result[b] # NoResult
                              /\ up'[i] = [kind |-> "run", b |-> b, body |-> result[b]]
<1>. USE TypeParts
<1>0. /\ up \in Seq(CopyFrame \cup RunFrame)
      /\ report \in [Backup -> Report] /\ result \in [Backup -> Result]
  BY DEF WireOK, ReportOK, ResultOK
<1>1. CASE UNCHANGED up
  BY <1>1
<1>2. CASE PanelRecords
  <2>1. up # <<>> /\ up' = Tail(up)
    BY <1>2 DEF PanelRecords
  <2>2. up'[i] = up[i + 1] /\ i + 1 \in 1..Len(up)
    BY <1>0, <2>1, TailOf
  <2>. QED
    BY <2>2
<1>3. CASE SessionEnds \/ Crash
  BY <1>3 DEF SessionEnds, Crash, Disconnected
<1>4. ASSUME NEW b \in Backup, SendCopyReport(b)
      PROVE  \/ \E j \in 1..Len(up) : up'[i] = up[j]
             \/ up'[i] = [kind |-> "copy", b |-> b, body |-> report[b]] /\ report[b] # NoReport
  <2>1. [kind |-> "copy", b |-> b, body |-> report[b]] \in CopyFrame \cup RunFrame
    BY <1>0 DEF CopyFrame
  <2>2. up' = Append(up, [kind |-> "copy", b |-> b, body |-> report[b]]) /\ report[b] # NoReport
    BY <1>4 DEF SendCopyReport, Sends
  <2>. QED
    BY <1>0, <2>1, <2>2, LastOf
<1>5. ASSUME NEW b \in Backup, SendRunReport(b)
      PROVE  \/ \E j \in 1..Len(up) : up'[i] = up[j]
             \/ up'[i] = [kind |-> "run", b |-> b, body |-> result[b]] /\ result[b] # NoResult
  <2>1. [kind |-> "run", b |-> b, body |-> result[b]] \in CopyFrame \cup RunFrame
    BY <1>0 DEF RunFrame
  <2>2. up' = Append(up, [kind |-> "run", b |-> b, body |-> result[b]]) /\ result[b] # NoResult
    BY <1>5 DEF SendRunReport, Sends
  <2>. QED
    BY <1>0, <2>1, <2>2, LastOf
<1>. QED
  BY <1>1, <1>2, <1>3, <1>4, <1>5, Writers

\* Where an answer comes from.
LEMMA DownFrom ==
  ASSUME TypeInv, Step, NEW i \in 1..Len(down')
  PROVE  \/ \E j \in 1..Len(down) : down'[i] = down[j]
         \/ PanelRecords /\ down'[i] = [kind |-> Head(up).kind, b |-> Head(up).b]
<1>. USE TypeParts
<1>0. down \in Seq(Answer) /\ up \in Seq(CopyFrame \cup RunFrame)
  BY DEF WireOK
<1>1. CASE UNCHANGED down
  BY <1>1
<1>2. CASE PanelRecords
  <2>1. Head(up) \in CopyFrame \cup RunFrame
    BY <1>0, <1>2 DEF PanelRecords
  <2>2. [kind |-> Head(up).kind, b |-> Head(up).b] \in Answer
    BY <2>1 DEF CopyFrame, RunFrame, Answer
  <2>3. down' = Append(down, [kind |-> Head(up).kind, b |-> Head(up).b])
    BY <1>2 DEF PanelRecords
  <2>. QED
    BY <1>0, <1>2, <2>2, <2>3, LastOf
<1>3. CASE SessionEnds \/ Crash
  BY <1>3 DEF SessionEnds, Crash, Disconnected
<1>4. CASE AnswerArrives
  <2>1. down # <<>> /\ down' = Tail(down)
    BY <1>4 DEF AnswerArrives
  <2>2. down'[i] = down[i + 1] /\ i + 1 \in 1..Len(down)
    BY <1>0, <2>1, TailOf
  <2>. QED
    BY <2>2
<1>. QED
  BY <1>1, <1>2, <1>3, <1>4, Writers

\* The frame the control plane records, and the answer that arrives.
LEMMA RecordedFrame ==
  ASSUME TypeInv, PanelRecords
  PROVE  /\ Head(up) = up[1] /\ 1 \in 1..Len(up) /\ Head(up).b \in Backup
         /\ Head(up).kind = "copy" =>
              /\ panel'.copy = [panel.copy EXCEPT ![Head(up).b] = Head(up).body.state]
              /\ panel'.run = panel.run /\ panel'.pruned = panel.pruned
         /\ Head(up).kind # "copy" =>
              /\ panel'.run = [panel.run EXCEPT ![Head(up).b] = Head(up).body.status]
              /\ panel'.copy = panel.copy /\ panel'.pruned = panel.pruned \cup Head(up).body.pruned
              /\ Head(up).kind = "run"
<1>. USE TypeParts
<1>0. up \in Seq(CopyFrame \cup RunFrame) /\ panel \in PanelType /\ up # <<>>
  BY DEF WireOK, PanelOK, PanelRecords
<1>1. Head(up) = up[1] /\ 1 \in 1..Len(up) /\ Head(up) \in CopyFrame \cup RunFrame
  BY <1>0, TailOf
<1>2. Head(up).b \in Backup /\ Head(up).kind \in {"copy", "run"}
  BY <1>1 DEF CopyFrame, RunFrame
<1>3. CASE Head(up).kind = "copy"
  BY <1>0, <1>1, <1>2, <1>3 DEF PanelRecords, PanelType
<1>4. CASE Head(up).kind # "copy"
  BY <1>0, <1>1, <1>2, <1>4 DEF PanelRecords, PanelType
<1>. QED
  BY <1>1, <1>2, <1>3, <1>4
\* The answer that arrives, and the file it removes.
LEMMA ArrivedAnswer ==
  ASSUME TypeInv, AnswerArrives
  PROVE  /\ Head(down) = down[1] /\ 1 \in 1..Len(down) /\ Head(down).b \in Backup
         /\ Head(down).kind = "copy" =>
              report' = [report EXCEPT ![Head(down).b] = NoReport] /\ UNCHANGED result
         /\ Head(down).kind # "copy" =>
              /\ result' = [result EXCEPT ![Head(down).b] = NoResult] /\ UNCHANGED report
              /\ Head(down).kind = "run"
<1>. USE TypeParts
<1>0. down \in Seq(Answer) /\ down # <<>>
  BY DEF WireOK, AnswerArrives
<1>1. Head(down) = down[1] /\ 1 \in 1..Len(down) /\ Head(down) \in Answer
  BY <1>0, TailOf
<1>. QED
  BY <1>1 DEF AnswerArrives, Answer

\* How the copier goes on within a job.
GoesOnTo ==
  \/ copier.pc = "open" /\ copier'.pc \in {"put", "resume"} /\ copier.b \in file /\ UNCHANGED file
  \/ copier.pc \in {"put", "drop"} /\ copier'.pc = "head"
  \/ copier.pc = "resume" /\ copier'.pc \in {"note", "part"}
  \/ copier.pc = "note" /\ copier'.pc = "part"
  \/ copier.pc = "part" /\ copier'.pc \in {"part", "drop"}
  \/ copier.pc = "prune" /\ copier'.pc \in {"prune", "report"}
  \/ copier.pc = "abandon" /\ copier'.pc = "report"
  \/ CopierReports /\ copier.pc = "report" /\ copier'.pc = "remove"

\* The copier stays, leaves its job, gives the copy up, goes on, or finds the object.
Stays == copier' = copier
Leaves == copier'.pc \in {"off", "open"} /\ copier'.verdict.state = "none"
Abandons == /\ copier.pc # "off" /\ copier'.pc = "abandon" /\ copier'.b = copier.b
            /\ copier'.verdict.state = "failed"
Continues == /\ GoesOnTo /\ copier'.b = copier.b
             /\ copier'.verdict.state = copier.verdict.state
Finds == /\ copier.pc = "head" /\ copier'.pc = "prune" /\ copier'.b = copier.b
         /\ copier'.verdict.state = "copied" /\ copier.b \in bucket /\ UNCHANGED <<bucket, past>>
CopierMove == Stays \/ Leaves \/ Abandons \/ Continues \/ Finds

\* A failure of the storage.
LEMMA StorageFailsMoves ==
  ASSUME TypeInv, copier.pc # "off",
         StorageFails \/ Failed(TRUE) \/ Failed(FALSE) \/ NoSuchUpload
  PROVE  /\ \A b \in Backup : job'[b].queued = job[b].queued
         /\ Leaves \/ Abandons
<1>1. PICK r \in BOOLEAN : Failed(r)
  BY DEF StorageFails, NoSuchUpload
<1>. QED
  BY <1>1, FailedMoves DEF Leaves, Abandons

\* The copier's own steps are moves.
LEMMA CopierMovesOwn ==
  ASSUME TypeInv,
         \/ CopierOpens \/ CopierRefused \/ CopierPuts \/ CopierResumes
         \/ CopierNotes \/ CopierSendsPart \/ CopierCompletes \/ CopierDropsProgress
         \/ CopierChecksSize \/ CopierPrunes \/ CopierAbandons \/ CopierReports
  PROVE  CopierMove
<1>. USE TypeParts DEF CopierMove
<1>0. copier \in CopierType /\ copier.verdict \in Report
  BY DEF CopierOK, CopierType
<1>1. CASE CopierOpens
  <2>1. CASE copier.b \in file
    <3>1. PICK q \in {"put", "resume"} : copier' = [copier EXCEPT !.pc = q]
      BY <1>1, <2>1 DEF CopierOpens
    <3>2. copier'.pc \in {"put", "resume"} /\ copier'.b = copier.b /\ copier'.verdict = copier.verdict
      BY <1>0, <3>1 DEF CopierType
    <3>. QED
      BY <1>1, <2>1, <3>2 DEF CopierOpens, Continues, GoesOnTo, disk
  <2>2. CASE copier.b \notin file
    <3>1. copier' = [copier EXCEPT !.pc = "abandon", !.verdict = [copier.verdict EXCEPT !.state = "failed"]]
      BY <1>1, <2>2 DEF CopierOpens
    <3>2. copier'.pc = "abandon" /\ copier'.b = copier.b /\ copier'.verdict.state = "failed"
      BY <1>0, <3>1 DEF CopierType, Report
    <3>. QED
      BY <1>1, <3>2 DEF CopierOpens, Abandons
  <2>. QED
    BY <2>1, <2>2
<1>2. CASE CopierRefused
  BY <1>2, StorageFailsMoves DEF CopierRefused
<1>3. CASE CopierPuts
  BY <1>0, <1>3, StorageFailsMoves DEF CopierPuts, Continues, GoesOnTo, CopierType
<1>4. CASE CopierResumes
  BY <1>0, <1>4, StorageFailsMoves DEF CopierResumes, Continues, GoesOnTo, CopierType
<1>5. CASE CopierNotes
  BY <1>0, <1>5, StorageFailsMoves DEF CopierNotes, Continues, GoesOnTo, CopierType
<1>6. CASE CopierSendsPart
  BY <1>0, <1>6, StorageFailsMoves DEF CopierSendsPart, Continues, GoesOnTo, CopierType
<1>7. CASE CopierCompletes
  BY <1>0, <1>7, StorageFailsMoves DEF CopierCompletes, Continues, GoesOnTo, CopierType
<1>8. CASE CopierDropsProgress
  BY <1>0, <1>8 DEF CopierDropsProgress, Continues, GoesOnTo, CopierType
<1>9. CASE CopierChecksSize
  <2>1. \/ /\ \E e \in {{}, BucketExcess(copier.b)} :
                copier' = [copier EXCEPT !.pc = "prune", !.excess = e,
                             !.verdict = [copier.verdict EXCEPT !.state = "copied"]]
           /\ copier.b \in bucket
        \/ StorageFails \/ Failed(TRUE)
    BY <1>9 DEF CopierChecksSize
  <2>2. ASSUME NEW e, copier.b \in bucket,
               copier' = [copier EXCEPT !.pc = "prune", !.excess = e,
                            !.verdict = [copier.verdict EXCEPT !.state = "copied"]]
        PROVE  Finds
    <3>1. copier'.pc = "prune" /\ copier'.b = copier.b /\ copier'.verdict.state = "copied"
      BY <1>0, <2>2 DEF CopierType, Report
    <3>. QED
      BY <1>9, <2>2, <3>1 DEF CopierChecksSize, Finds, storage
  <2>. QED
    BY <1>9, <2>1, <2>2, StorageFailsMoves DEF CopierChecksSize
<1>10. CASE CopierPrunes
  <2>. DEFINE Kept == /\ copier'.pc \in {"prune", "report"} /\ copier'.b = copier.b
                      /\ copier'.verdict.state = copier.verdict.state
  <2>0. copier.pc = "prune"
    BY <1>10 DEF CopierPrunes
  <2>1. ASSUME NEW x \in copier.excess,
               copier' = [copier EXCEPT !.excess = copier.excess \ {x},
                 !.verdict = [copier.verdict EXCEPT !.pruned = copier.verdict.pruned \cup {x}]]
        PROVE  Kept
    BY <1>0, <2>0, <2>1 DEF CopierType, Report
  <2>2. ASSUME copier' = [copier EXCEPT !.pc = "report", !.verdict = [copier.verdict EXCEPT !.pruned = {}]]
        PROVE  Kept
    BY <1>0, <2>2 DEF CopierType, Report
  <2>3. ASSUME copier' = [copier EXCEPT !.pc = "report"]
        PROVE  Kept
    BY <1>0, <2>3 DEF CopierType
  <2>4. Kept
    <3>. HIDE DEF Kept
    <3>. QED
      BY <1>10, <2>1, <2>2, <2>3, PruneSteps
  <2>. QED
    BY <2>0, <2>4 DEF Continues, GoesOnTo
<1>11. CASE CopierAbandons
  BY <1>0, <1>11 DEF CopierAbandons, Continues, GoesOnTo, CopierType
<1>12. CASE CopierReports
  <2>1. CASE Reported
    BY <1>0, <1>12, <2>1, ReportSteps DEF Reported, Continues, GoesOnTo, CopierType
  <2>2. CASE Unreported
    BY <1>12, <2>2, ReportSteps, StorageFailsMoves, EmptyTypes DEF Unreported, Leaves
  <2>. QED
    BY <1>12, <2>1, <2>2, ReportSteps
<1>. QED
  BY <1>1, <1>2, <1>3, <1>4, <1>5, <1>6, <1>7, <1>8, <1>9, <1>10, <1>11, <1>12

\* The copier's moves, whoever steps.
LEMMA CopierMoves ==
  ASSUME TypeInv, Step
  PROVE  CopierMove
<1>. USE TypeParts
<1>1. CASE CopierTicks \/ CopierWaits \/ CopierRemovesJob \/ Crash
  <2>1. CASE CopierTicks
    <3>. DEFINE due == {b \in Backup : job[b].queued /\ job[b].due}
    <3>1. due \subseteq Backup /\ due \subseteq Nat /\ due # {} /\ copier' = Working(Min(due), due)
      BY <2>1, Bounds DEF CopierTicks, Backup
    <3>. HIDE DEF due
    <3>2. Min(due) \in Backup
      BY <3>1, MinIn
    <3>. QED
      BY <3>1, <3>2, WorkingType, ZenonT(60) DEF CopierMove, Leaves
  <2>2. CASE CopierWaits \/ CopierRemovesJob
    BY <2>2, NextJobType DEF CopierWaits, CopierRemovesJob, CopierMove, Leaves
  <2>3. CASE Crash
    BY <2>3, EmptyTypes DEF Crash, CopierMove, Leaves
  <2>. QED
    BY <1>1, <2>1, <2>2, <2>3
<1>2. CASE \/ CopierOpens \/ CopierRefused \/ CopierPuts \/ CopierResumes
           \/ CopierNotes \/ CopierSendsPart \/ CopierCompletes \/ CopierDropsProgress
           \/ CopierChecksSize \/ CopierPrunes \/ CopierAbandons \/ CopierReports
  BY <1>2, CopierMovesOwn
<1>3. CASE ~ (CopierTicks \/ CopierWaits \/ CopierRemovesJob \/ Crash)
           /\ ~ (\/ CopierOpens \/ CopierRefused \/ CopierPuts \/ CopierResumes
                 \/ CopierNotes \/ CopierSendsPart \/ CopierCompletes \/ CopierDropsProgress
                 \/ CopierChecksSize \/ CopierPrunes \/ CopierAbandons \/ CopierReports)
  <2>1. UNCHANGED copier
    BY <1>3 DEF Step, Next, vars, Idle, RunStarts, RunPrunes, RunQueues, RunSpools, RunKilled,
                RetryDue, DeleteStarts, DeleteEnds, SendCopyReport, SendRunReport, Sends,
                PanelRecords, AnswerArrives, SessionStarts, FeaturesKnown, SessionEnds
  <2>. QED
    BY <2>1 DEF CopierMove, Stays
<1>. QED
  BY <1>1, <1>2, <1>3

(***************************************************************************)
(* What is reported as copied was stored.                                  *)
(***************************************************************************)
WasStored(b) == b \in bucket \cup past.dropped \cup past.deleted
ReportsStored == \A b \in Backup : report[b].state = "copied" => WasStored(b)
PanelStored == \A b \in Backup : panel.copy[b] = "copied" => WasStored(b)
FramesStored ==
  \A i \in 1..Len(up) : up[i].kind = "copy" /\ up[i].body.state = "copied" => WasStored(up[i].b)
VerdictStored == copier.verdict.state = "copied" => WasStored(copier.b)
\* A report, a record, a frame or a verdict "copied" is about a stored object.
StoredInv == ReportsStored /\ PanelStored /\ FramesStored /\ VerdictStored

\* What was stored stays so: it leaves the bucket by retention or by a delete.
LEMMA StoredGrows ==
  ASSUME TypeInv, Step, NEW b, WasStored(b)
  PROVE  WasStored(b)'
<1>. USE TypeParts
<1>0. past \in PastType
  BY DEF PastOK
<1>1. CASE CopierPrunes
  <2>1. CASE UNCHANGED <<bucket, past>>
    BY <2>1 DEF WasStored
  <2>2. ASSUME NEW x, Remove(x), past' = [past EXCEPT !.dropped = @ \cup {x}]
        PROVE  WasStored(b)'
    BY <1>0, <2>2 DEF Remove, PastType, WasStored
  <2>. QED
    BY <1>1, <2>1, <2>2, PruneSteps
<1>2. CASE DeleteEnds
  BY <1>0, <1>2 DEF DeleteEnds, Remove, PastType, WasStored
<1>3. CASE ~CopierPrunes /\ ~DeleteEnds
  <2>1. past'.dropped = past.dropped /\ past'.deleted = past.deleted
    BY <1>0, <1>3, Writers DEF RunPrunes, RunQueues, RunSpools, RunKilled, CopierResumes,
                               CopierAbandons, Crash, PastType
  <2>2. bucket \subseteq bucket'
    BY <1>3, Writers DEF CopierPuts, CopierCompletes, Store, storage
  <2>. QED
    BY <2>1, <2>2 DEF WasStored
<1>. QED
  BY <1>1, <1>2, <1>3

\* No step breaks StoredInv.
LEMMA StoredStep ==
  ASSUME TypeInv, TypeInv', Step, StoredInv
  PROVE  StoredInv'
<1>. USE TypeParts
<1>0. report \in [Backup -> Report] /\ panel \in PanelType /\ up \in Seq(CopyFrame \cup RunFrame)
      /\ down \in Seq(Answer)
  BY DEF ReportOK, PanelOK, WireOK
<1>1. ReportsStored'
  <2>. SUFFICES ASSUME NEW b \in Backup, report'[b].state = "copied" PROVE WasStored(b)'
    BY DEF ReportsStored
  <2>1. CASE CopierReports /\ b = copier.b
    BY <1>0, <2>1, ReportSteps, StoredGrows
       DEF Reported, Unreported, StoredInv, VerdictStored, ReportsStored
  <2>2. CASE ~(CopierReports /\ b = copier.b)
    <3>1. report'[b] \in {report[b], NoReport}
      <4>1. CASE CopierReports
        BY <1>0, <2>2, <4>1 DEF CopierReports
      <4>2. CASE AnswerArrives
        BY <1>0, <4>2 DEF AnswerArrives
      <4>. QED
        BY <4>1, <4>2, Writers
    <3>2. report[b].state = "copied"
      BY <3>1, EmptyTypes
    <3>. QED
      BY <3>2, StoredGrows DEF StoredInv, ReportsStored
  <2>. QED
    BY <2>1, <2>2
<1>2. PanelStored'
  <2>. SUFFICES ASSUME NEW b \in Backup, panel'.copy[b] = "copied" PROVE WasStored(b)'
    BY DEF PanelStored
  <2>1. CASE panel.copy[b] = "copied"
    BY <2>1, StoredGrows DEF StoredInv, PanelStored
  <2>2. CASE panel.copy[b] # "copied"
    <3>1. PanelRecords
      BY <2>2, Writers
    <3>2. Head(up) = up[1] /\ 1 \in 1..Len(up)
      BY <3>1, RecordedFrame
    <3>3. Head(up).kind = "copy" /\ Head(up).b = b /\ Head(up).body.state = "copied"
      BY <1>0, <2>2, <3>1, RecordedFrame DEF PanelType
    <3>4. WasStored(b)
      BY <3>2, <3>3 DEF StoredInv, FramesStored
    <3>. QED
      BY <3>4, StoredGrows
  <2>. QED
    BY <2>1, <2>2
<1>3. FramesStored'
  <2>. SUFFICES ASSUME NEW i \in 1..Len(up'), NEW c, up'[i].b = c, up'[i].kind = "copy",
                       up'[i].body.state = "copied"
                PROVE  WasStored(c)'
    BY DEF FramesStored, WasStored
  <2>1. CASE \E j \in 1..Len(up) : up'[i] = up[j]
    BY <2>1, StoredGrows DEF StoredInv, FramesStored
  <2>2. CASE ~ \E j \in 1..Len(up) : up'[i] = up[j]
    <3>1. PICK b \in Backup : \/ up'[i] = [kind |-> "copy", b |-> b, body |-> report[b]]
                              \/ up'[i] = [kind |-> "run", b |-> b, body |-> result[b]]
      BY <2>2, UpFrom
    <3>2. WasStored(b) /\ b = c
      BY <3>1 DEF StoredInv, ReportsStored
    <3>. QED
      BY <3>2, StoredGrows
  <2>. QED
    BY <2>1, <2>2
<1>4. VerdictStored'
  <2>. SUFFICES ASSUME NEW c, copier'.b = c, copier'.verdict.state = "copied" PROVE WasStored(c)'
    BY DEF VerdictStored, WasStored
  <2>1. CopierMove
    BY CopierMoves
  <2>2. CASE Finds
    BY <2>2 DEF Finds, WasStored
  <2>3. CASE ~Finds
    <3>1. c = copier.b /\ copier.verdict.state = "copied"
      BY <2>1, <2>3 DEF CopierMove, Stays, Leaves, Abandons, Continues
    <3>. QED
      BY <3>1, StoredGrows DEF StoredInv, VerdictStored
  <2>. QED
    BY <2>2, <2>3
<1>. QED
  BY <1>1, <1>2, <1>3, <1>4 DEF StoredInv

\* The initial states satisfy it.
LEMMA StoredInit == Init => StoredInv
<1>. SUFFICES ASSUME Init PROVE StoredInv
  OBVIOUS
<1>1. ReportsStored /\ VerdictStored /\ FramesStored
  BY EmptyTypes DEF Init, ReportsStored, VerdictStored, FramesStored
<1>2. PanelStored
  BY Bounds DEF Init, PanelStored, WasStored, Backup
<1>. QED
  BY <1>1, <1>2 DEF StoredInv

\* A copy that is reported or recorded as copied was stored in the bucket and left
\* it only by retention or by a delete, whatever the storage answered, however the
\* frames were lost and wherever the daemon died (uploadBackupFile's size check,
\* #finish, BackupCopyReporter).
THEOREM CopiedWasStored == Spec => []CopiedIsStored
<1>1. TypeInv /\ StoredInv => CopiedIsStored
  BY DEF StoredInv, ReportsStored, PanelStored, WasStored, CopiedIsStored
<1>2. TypeInv /\ StoredInv /\ [Next]_vars => (TypeInv /\ StoredInv)'
  BY TypeStep, StoredStep DEF Step
<1>3. Init => TypeInv /\ StoredInv
  BY TypeInit, StoredInit
<1>. QED
  BY <1>1, <1>2, <1>3, PTL DEF Spec

(***************************************************************************)
(* What a run leaves, in the order of the runs.                            *)
(***************************************************************************)
\* The runs that wrote a result are earlier ones; the running one has not.
FinishedRuns == past.finished \subseteq 1..runs /\ (run.pc # "off" => runs \notin past.finished)
\* A result, its frames, answers and records are of finished runs.
ResultsOfRuns == \A b \in Backup : result[b] # NoResult => b \in past.finished /\ result[b].status # "none"
FramesOfRuns ==
  /\ \A i \in 1..Len(up) : up[i].kind = "run" => up[i].b \in past.finished /\ up[i].body.status # "none"
  /\ \A i \in 1..Len(down) : down[i].kind = "run" => down[i].b \in past.finished
RecordsOfRuns == \A b \in Backup : panel.run[b] # "none" => b <= runs
RunsInv == FinishedRuns /\ ResultsOfRuns /\ FramesOfRuns /\ RecordsOfRuns

\* History only grows.
LEMMA PastGrows ==
  ASSUME TypeInv, Step
  PROVE  /\ past.finished \subseteq past'.finished /\ past.queued \subseteq past'.queued
         /\ past.pruned \subseteq past'.pruned /\ past.untold \subseteq past'.untold
         /\ runs <= runs'
<1>. USE TypeParts
<1>0. past \in PastType /\ runs \in Nat
  BY Bounds DEF PastOK, RunOK
<1>1. runs <= runs'
  BY <1>0, Writers DEF RunStarts
<1>2. CASE UNCHANGED past
  BY <1>1, <1>2
<1>3. CASE RunPrunes \/ RunQueues \/ RunSpools \/ RunKilled
  BY <1>0, <1>1, <1>3 DEF RunPrunes, RunQueues, RunSpools, RunKilled, PastType
<1>4. CASE CopierResumes \/ CopierPrunes \/ CopierAbandons \/ DeleteEnds \/ Crash
  BY <1>0, <1>1, <1>4 DEF CopierResumes, CopierPrunes, CopierAbandons, DeleteEnds, Crash, PastType
<1>. QED
  BY <1>2, <1>3, <1>4, Writers

\* Only the end of a run writes a result, and only its own.
LEMMA ResultFrom ==
  ASSUME TypeInv, Step, NEW b \in Backup
  PROVE  \/ result'[b] = result[b] \/ result'[b] = NoResult
         \/ RunSpools /\ b = run.b /\ b = runs /\ result'[b] = SpooledResult
<1>. USE TypeParts
<1>0. result \in [Backup -> Result] /\ (run.pc # "off" => run.b = runs /\ run.b \in Backup)
  BY DEF ResultOK, RunOK, RunnerAt
<1>1. CASE RunSpools
  BY <1>0, <1>1 DEF RunSpools
<1>2. CASE AnswerArrives
  BY <1>0, <1>2, ArrivedAnswer
<1>. QED
  BY <1>1, <1>2, Writers

\* No step breaks RunsInv.
LEMMA RunsStep ==
  ASSUME TypeInv, TypeInv', Step, RunsInv
  PROVE  RunsInv'
<1>. USE TypeParts
<1>0. /\ run \in RunType /\ runs \in 0..MaxRuns /\ runs' \in 0..MaxRuns /\ past \in PastType
      /\ past' \in PastType /\ panel \in PanelType
      /\ (run.pc # "off" => run.b = runs /\ run.b \in Backup /\ run.status # "none")
  BY DEF RunOK, RunnerAt, PastOK, PanelOK
<1>1. FinishedRuns'
  <2>1. CASE RunStarts
    <3>1. runs' = runs + 1 /\ past'.finished = past.finished
      BY <2>1 DEF RunStarts
    <3>. QED
      BY <1>0, <3>1 DEF RunsInv, FinishedRuns
  <2>2. CASE RunSpools
    <3>1. past'.finished = past.finished \cup {runs} /\ runs' = runs /\ runs \in Backup
      BY <1>0, <2>2 DEF RunSpools, PastType
    <3>2. run'.pc = "off"
      BY <2>2, EmptyTypes DEF RunSpools
    <3>. QED
      BY <1>0, <3>1, <3>2, Bounds DEF RunsInv, FinishedRuns, Backup
  <2>3. CASE ~RunStarts /\ ~RunSpools
    <3>1. runs' = runs
      BY <2>3, Writers
    <3>2. past'.finished = past.finished
      <4>1. CASE RunPrunes \/ RunQueues \/ RunKilled
        BY <1>0, <4>1 DEF RunPrunes, RunQueues, RunKilled, PastType
      <4>2. CASE CopierResumes \/ CopierPrunes \/ CopierAbandons \/ DeleteEnds \/ Crash
        BY <1>0, <4>2 DEF CopierResumes, CopierPrunes, CopierAbandons, DeleteEnds, Crash, PastType
      <4>. QED
        BY <2>3, <4>1, <4>2, Writers
    <3>3. run'.pc # "off" => run.pc # "off"
      BY <2>3, Writers, EmptyTypes DEF RunPrunes, RunQueues, RunKilled
    <3>. QED
      BY <3>1, <3>2, <3>3 DEF RunsInv, FinishedRuns
  <2>. QED
    BY <2>1, <2>2, <2>3
<1>2. ResultsOfRuns'
  <2>. SUFFICES ASSUME NEW b \in Backup, result'[b] # NoResult
                PROVE  b \in past'.finished /\ result'[b].status # "none"
    BY DEF ResultsOfRuns
  <2>1. CASE RunSpools /\ b = run.b /\ result'[b] = SpooledResult
    BY <1>0, <2>1 DEF RunSpools, SpooledResult, PastType
  <2>. QED
    BY <2>1, ResultFrom, PastGrows DEF RunsInv, ResultsOfRuns
<1>3. FramesOfRuns'
  <2>1. ASSUME NEW i \in 1..Len(up'), up'[i].kind = "run"
        PROVE  up'[i].b \in past'.finished /\ up'[i].body.status # "none"
    <3>1. CASE \E j \in 1..Len(up) : up'[i] = up[j]
      BY <2>1, <3>1, PastGrows DEF RunsInv, FramesOfRuns
    <3>2. CASE ~ \E j \in 1..Len(up) : up'[i] = up[j]
      <4>0. PICK b \in Backup : \/ up'[i] = [kind |-> "copy", b |-> b, body |-> report[b]]
                                \/ /\ up'[i] = [kind |-> "run", b |-> b, body |-> result[b]]
                                   /\ result[b] # NoResult
        BY <3>2, UpFrom
      <4>1. up'[i] = [kind |-> "run", b |-> b, body |-> result[b]] /\ result[b] # NoResult
        BY <2>1, <4>0
      <4>. QED
        BY <4>1, PastGrows DEF RunsInv, ResultsOfRuns
    <3>. QED
      BY <3>1, <3>2
  <2>2. ASSUME NEW i \in 1..Len(down'), down'[i].kind = "run"
        PROVE  down'[i].b \in past'.finished
    <3>1. CASE \E j \in 1..Len(down) : down'[i] = down[j]
      BY <2>2, <3>1, PastGrows DEF RunsInv, FramesOfRuns
    <3>2. CASE ~ \E j \in 1..Len(down) : down'[i] = down[j]
      <4>1. PanelRecords /\ down'[i] = [kind |-> Head(up).kind, b |-> Head(up).b]
        BY <3>2, DownFrom
      <4>2. Head(up) = up[1] /\ 1 \in 1..Len(up) /\ up[1].kind = "run" /\ down'[i].b = up[1].b
        BY <2>2, <4>1, RecordedFrame
      <4>. QED
        BY <4>2, PastGrows DEF RunsInv, FramesOfRuns
    <3>. QED
      BY <3>1, <3>2
  <2>. QED
    BY <2>1, <2>2 DEF FramesOfRuns
<1>4. RecordsOfRuns'
  <2>. SUFFICES ASSUME NEW b \in Backup, panel'.run[b] # "none" PROVE b <= runs'
    BY DEF RecordsOfRuns
  <2>1. CASE panel.run[b] # "none"
    BY <1>0, <2>1, PastGrows, Bounds DEF RunsInv, RecordsOfRuns, Backup
  <2>2. CASE panel.run[b] = "none"
    <3>1. PanelRecords
      BY <2>2, Writers
    <3>2. Head(up) = up[1] /\ 1 \in 1..Len(up) /\ Head(up).kind = "run" /\ Head(up).b = b
      BY <1>0, <2>2, <3>1, RecordedFrame DEF PanelType
    <3>3. b \in 1..runs
      BY <3>2 DEF RunsInv, FramesOfRuns, FinishedRuns
    <3>. QED
      BY <1>0, <3>3, PastGrows
  <2>. QED
    BY <2>1, <2>2
<1>. QED
  BY <1>1, <1>2, <1>3, <1>4 DEF RunsInv

\* The initial states satisfy it.
LEMMA RunsInit == Init => RunsInv
<1>. SUFFICES ASSUME Init PROVE RunsInv
  OBVIOUS
<1>1. FinishedRuns /\ ResultsOfRuns /\ FramesOfRuns
  BY EmptyTypes DEF Init, FinishedRuns, ResultsOfRuns, FramesOfRuns
<1>2. RecordsOfRuns
  BY Bounds DEF Init, RecordsOfRuns, Backup
<1>. QED
  BY <1>1, <1>2 DEF RunsInv

(***************************************************************************)
(* Nothing is forgotten between the processes.                             *)
(***************************************************************************)
\* A copy's report, frame and record say how it ended.
ReportsSay == \A b \in Backup : report[b] # NoReport => report[b].state # "none"
FramesSay ==
  /\ \A i \in 1..Len(up) : up[i].kind = "copy" => up[i].body.state # "none"
  /\ \A i \in 1..Len(down) : down[i].kind = "copy" => panel.copy[down[i].b] # "none"
\* The report of a copy comes before the end of its job.
ReportedFirst ==
  copier.pc = "remove" => report[copier.b] # NoReport \/ panel.copy[copier.b] # "none"
\* A copy is on the books of this host or on record.
Held(b) == job[b].queued \/ report[b] # NoReport \/ panel.copy[b] # "none"
QueuedKept == \A b \in past.queued : Held(b)
CopyKept == ReportsSay /\ FramesSay /\ ReportedFirst /\ QueuedKept

\* A recorded copy stays recorded.
LEMMA CopyRecorded ==
  ASSUME TypeInv, FramesSay, Step, NEW b \in Backup, panel.copy[b] # "none"
  PROVE  panel'.copy[b] # "none"
<1>. USE TypeParts
<1>0. panel \in PanelType
  BY DEF PanelOK
<1>1. CASE UNCHANGED panel
  BY <1>1
<1>2. CASE PanelRecords
  BY <1>0, <1>2, RecordedFrame DEF PanelType, FramesSay
<1>. QED
  BY <1>1, <1>2, Writers

\* A report goes only when its answer came.
LEMMA ReportFrom ==
  ASSUME TypeInv, FramesSay, Step, NEW b \in Backup
  PROVE  \/ report'[b] = report[b]
         \/ report'[b] = NoReport /\ panel.copy[b] # "none"
         \/ CopierReports /\ b = copier.b /\ report'[b] = copier.verdict /\ report'[b].state # "none"
<1>. USE TypeParts
<1>0. report \in [Backup -> Report]
  BY DEF ReportOK
<1>1. CASE CopierReports
  BY <1>0, <1>1 DEF CopierReports, CopierOK, CopierAt
<1>2. CASE AnswerArrives
  BY <1>0, <1>2, ArrivedAnswer DEF FramesSay
<1>. QED
  BY <1>1, <1>2, Writers

\* A job comes only from its run and goes only at the end of #finish.
LEMMA JobFrom ==
  ASSUME TypeInv, Step, NEW b \in Backup
  PROVE  \/ job'[b].queued = job[b].queued
         \/ RunQueues /\ b = run.b /\ job'[b].queued
         \/ CopierRemovesJob /\ b = copier.b /\ ~job'[b].queued
<1>. USE TypeParts
<1>0. job \in [Backup -> JobType] /\ (copier.pc # "off" => copier.b \in Backup)
  BY DEF JobOK, CopierOK, CopierAt
<1>1. CASE RunQueues
  <2>1. CASE UNCHANGED job
    BY <2>1
  <2>2. ASSUME NEW large \in BOOLEAN,
               job' = [job EXCEPT ![run.b] = [attempts |-> 0, due |-> TRUE, queued |-> TRUE, large |-> large]]
        PROVE  job'[b].queued = job[b].queued \/ (b = run.b /\ job'[b].queued)
    BY <1>0, <2>2
  <2>. QED
    BY <1>1, <2>1, <2>2 DEF RunQueues
<1>2. ASSUME NEW c \in Backup, RetryDue(c) PROVE job'[b].queued = job[b].queued
  BY <1>0, <1>2 DEF RetryDue, JobType
<1>3. CASE CopierWaits
  BY <1>0, <1>3 DEF CopierWaits, JobType
<1>4. CASE CopierRemovesJob
  BY <1>0, <1>4 DEF CopierRemovesJob, NoJob
<1>5. CASE \/ CopierRefused \/ CopierPuts \/ CopierResumes \/ CopierNotes \/ CopierSendsPart
           \/ CopierCompletes \/ CopierChecksSize \/ CopierReports
  <2>1. copier.pc # "off"
    BY <1>5 DEF CopierRefused, CopierPuts, CopierResumes, CopierNotes, CopierSendsPart,
                CopierCompletes, CopierChecksSize, CopierReports
  <2>2. UNCHANGED job \/ StorageFails \/ Failed(TRUE) \/ Failed(FALSE) \/ NoSuchUpload
    BY <1>5 DEF CopierRefused, CopierPuts, CopierResumes, CopierNotes, CopierSendsPart,
                CopierCompletes, CopierChecksSize, CopierReports
  <2>. QED
    BY <2>1, <2>2, StorageFailsMoves
<1>6. CASE UNCHANGED job
  BY <1>6
<1>7. \/ UNCHANGED job \/ RunQueues \/ CopierWaits \/ CopierRemovesJob
      \/ CopierRefused \/ CopierPuts \/ CopierResumes \/ CopierNotes \/ CopierSendsPart
      \/ CopierCompletes \/ CopierChecksSize \/ CopierReports \/ \E c \in Backup : RetryDue(c)
  BY DEF Step, Next, vars, disk, Idle, RunStarts, RunPrunes, RunSpools, RunKilled, CopierTicks,
         CopierOpens, CopierDropsProgress, CopierPrunes, CopierAbandons,
         DeleteStarts, DeleteEnds, SendCopyReport, SendRunReport, Sends, PanelRecords,
         AnswerArrives, SessionStarts, FeaturesKnown, SessionEnds, Crash
<1>. QED
  BY <1>1, <1>2, <1>3, <1>4, <1>5, <1>6, <1>7

\* A copy on the books, as a job or as a report, stays there until it is recorded.
LEMMA HeldStays ==
  ASSUME TypeInv, FramesSay, ReportedFirst, Step, NEW b \in Backup, Held(b)
  PROVE  Held(b)'
<1>1. CASE panel.copy[b] # "none"
  BY <1>1, CopyRecorded DEF Held
<1>2. CASE report[b] # NoReport
  BY <1>2, ReportFrom, CopyRecorded, EmptyTypes DEF Held
<1>3. CASE job[b].queued /\ report[b] = NoReport /\ panel.copy[b] = "none"
  <2>1. ~(CopierRemovesJob /\ b = copier.b)
    BY <1>3 DEF CopierRemovesJob, ReportedFirst
  <2>. QED
    BY <1>3, <2>1, JobFrom DEF Held
<1>. QED
  BY <1>1, <1>2, <1>3 DEF Held

\* No step loses a queued copy.
LEMMA CopyKeptStep ==
  ASSUME TypeInv, TypeInv', Step, CopyKept
  PROVE  CopyKept'
<1>. USE TypeParts
<1>0. /\ report \in [Backup -> Report] /\ (copier.pc # "off" => copier.b \in Backup)
      /\ (copier'.pc # "off" => copier'.b \in Backup) /\ panel \in PanelType
      /\ past \in PastType /\ up \in Seq(CopyFrame \cup RunFrame) /\ down \in Seq(Answer)
  BY DEF ReportOK, CopierOK, CopierAt, PanelOK, PastOK, WireOK
<1>1. ReportsSay'
  <2>. SUFFICES ASSUME NEW b \in Backup, report'[b] # NoReport PROVE report'[b].state # "none"
    BY DEF ReportsSay
  <2>. QED
    BY ReportFrom DEF CopyKept, ReportsSay
<1>2. FramesSay'
  <2>1. ASSUME NEW i \in 1..Len(up'), up'[i].kind = "copy" PROVE up'[i].body.state # "none"
    <3>1. CASE \E j \in 1..Len(up) : up'[i] = up[j]
      BY <2>1, <3>1 DEF CopyKept, FramesSay
    <3>2. CASE ~ \E j \in 1..Len(up) : up'[i] = up[j]
      <4>1. PICK b \in Backup : \/ /\ up'[i] = [kind |-> "copy", b |-> b, body |-> report[b]]
                                   /\ report[b] # NoReport
                                \/ up'[i] = [kind |-> "run", b |-> b, body |-> result[b]]
        BY <3>2, UpFrom
      <4>2. up'[i] = [kind |-> "copy", b |-> b, body |-> report[b]] /\ report[b] # NoReport
        BY <2>1, <4>1
      <4>. QED
        BY <4>2 DEF CopyKept, ReportsSay
    <3>. QED
      BY <3>1, <3>2
  <2>2. ASSUME NEW i \in 1..Len(down'), down'[i].kind = "copy"
        PROVE  panel'.copy[down'[i].b] # "none"
    <3>1. CASE \E j \in 1..Len(down) : down'[i] = down[j]
      <4>1. PICK j \in 1..Len(down) : down'[i] = down[j]
        BY <3>1
      <4>2. down[j] \in Answer
        BY <1>0
      <4>3. down[j].b \in Backup /\ panel.copy[down[j].b] # "none"
        BY <2>2, <4>1, <4>2 DEF CopyKept, FramesSay, Answer
      <4>. QED
        BY <4>1, <4>3, CopyRecorded DEF CopyKept
    <3>2. CASE ~ \E j \in 1..Len(down) : down'[i] = down[j]
      <4>1. PanelRecords /\ down'[i] = [kind |-> Head(up).kind, b |-> Head(up).b]
        BY <3>2, DownFrom
      <4>2. /\ Head(up) = up[1] /\ 1 \in 1..Len(up) /\ Head(up).kind = "copy"
            /\ down'[i].b = Head(up).b /\ Head(up).b \in Backup
            /\ panel'.copy = [panel.copy EXCEPT ![Head(up).b] = Head(up).body.state]
        BY <2>2, <4>1, RecordedFrame
      <4>3. Head(up).body.state # "none"
        BY <4>2 DEF CopyKept, FramesSay
      <4>. QED
        BY <1>0, <4>2, <4>3 DEF PanelType
    <3>. QED
      BY <3>1, <3>2
  <2>. QED
    BY <2>1, <2>2 DEF FramesSay
<1>3. ReportedFirst'
  <2>. SUFFICES ASSUME copier'.pc = "remove", NEW b \in Backup, copier'.b = b
                PROVE  report'[b] # NoReport \/ panel'.copy[b] # "none"
    BY <1>0 DEF ReportedFirst
  <2>1. CASE CopierReports
    <3>1. Reported
      BY <2>1, ReportSteps, StorageFailsMoves, EmptyTypes DEF Unreported, Leaves, Abandons
    <3>2. copier'.b = copier.b
      BY <2>1, <3>1, ReportSteps DEF Reported, CopierType
    <3>. QED
      BY <1>0, <2>1, <3>1, <3>2, ReportSteps, EmptyTypes DEF Reported
  <2>2. CASE ~CopierReports
    <3>1. copier' = copier
      BY <2>2, CopierMoves DEF CopierMove, Stays, Leaves, Abandons, Continues, Finds, GoesOnTo
    <3>2. report[b] # NoReport \/ panel.copy[b] # "none"
      BY <3>1 DEF CopyKept, ReportedFirst
    <3>. QED
      BY <2>2, <3>2, ReportFrom, CopyRecorded DEF CopyKept
  <2>. QED
    BY <2>1, <2>2
<1>4. QueuedKept'
  <2>. SUFFICES ASSUME NEW b \in past'.queued
                PROVE  Held(b)'
    BY DEF QueuedKept
  <2>1. CASE b \in past.queued
    <3>0. b \in Backup
      BY <1>0, <2>1 DEF PastType
    <3>. QED
      BY <2>1, <3>0, HeldStays DEF CopyKept, QueuedKept, Held
  <2>2. CASE b \notin past.queued
    <3>1. RunQueues
      <4>1. CASE RunPrunes \/ RunSpools \/ RunKilled
        BY <1>0, <2>2, <4>1 DEF RunPrunes, RunSpools, RunKilled, PastType
      <4>2. CASE CopierResumes \/ CopierPrunes \/ CopierAbandons \/ DeleteEnds \/ Crash
        BY <1>0, <2>2, <4>2 DEF CopierResumes, CopierPrunes, CopierAbandons, DeleteEnds, Crash, PastType
      <4>. QED
        BY <2>2, <4>1, <4>2, Writers
    <3>2. PICK large \in BOOLEAN :
            job' = [job EXCEPT ![run.b] = [attempts |-> 0, due |-> TRUE, queued |-> TRUE, large |-> large]]
      BY <2>2, <3>1 DEF RunQueues
    <3>3. b = run.b /\ run.b \in Backup
      BY <1>0, <2>2, <3>1 DEF RunQueues, PastType, RunOK, RunnerAt
    <3>. QED
      BY <3>2, <3>3 DEF JobOK, Held
  <2>. QED
    BY <2>1, <2>2
<1>. QED
  BY <1>1, <1>2, <1>3, <1>4 DEF CopyKept

\* The initial states satisfy it.
LEMMA CopyKeptInit == Init => CopyKept
BY EmptyTypes DEF Init, CopyKept, ReportsSay, FramesSay, ReportedFirst, QueuedKept

\* A frame tells at least what the result on disk tells; an answer comes after the record.
FramesTell ==
  /\ \A i \in 1..Len(up) : up[i].kind = "run" => result[up[i].b].pruned \subseteq up[i].body.pruned
  /\ \A i \in 1..Len(down) : down[i].kind = "run" =>
       panel.run[down[i].b] # "none" /\ result[down[i].b].pruned \subseteq panel.pruned
FinishedKept == \A b \in past.finished : result[b] # NoResult \/ panel.run[b] # "none"
\* What retention removed from the host is told, will be, or died with its run.
Told(x) == \/ x \in panel.pruned \cup past.untold \cup run.pruned
           \/ \E b \in Backup : x \in result[b].pruned
PrunedKept == \A x \in past.pruned : Told(x)
RunKept == FramesTell /\ FinishedKept /\ PrunedKept

\* The control plane forgets no run and no pruned backup.
LEMMA RunRecorded ==
  ASSUME TypeInv, RunsInv, Step
  PROVE  /\ panel.pruned \subseteq panel'.pruned
         /\ \A b \in Backup : panel.run[b] # "none" => panel'.run[b] # "none"
<1>. USE TypeParts
<1>0. panel \in PanelType
  BY DEF PanelOK
<1>1. CASE UNCHANGED panel
  BY <1>1
<1>2. CASE PanelRecords
  <2>1. CASE Head(up).kind = "copy"
    BY <1>2, <2>1, RecordedFrame
  <2>2. CASE Head(up).kind # "copy"
    <3>1. /\ Head(up) = up[1] /\ 1 \in 1..Len(up) /\ Head(up).kind = "run"
          /\ panel'.run = [panel.run EXCEPT ![Head(up).b] = Head(up).body.status]
          /\ panel'.pruned = panel.pruned \cup Head(up).body.pruned
      BY <1>2, <2>2, RecordedFrame
    <3>2. Head(up).body.status # "none"
      BY <3>1 DEF RunsInv, FramesOfRuns
    <3>. QED
      BY <1>0, <3>1, <3>2 DEF PanelType
  <2>. QED
    BY <2>1, <2>2
<1>. QED
  BY <1>1, <1>2, Writers

\* The result of a finished run is not written again.
LEMMA FinishedResult ==
  ASSUME TypeInv, RunsInv, Step, NEW b \in Backup, b \in past.finished
  PROVE  /\ result'[b] \in {result[b], NoResult} /\ result'[b].pruned \subseteq result[b].pruned
<1>1. result'[b] \in {result[b], NoResult}
  BY ResultFrom DEF RunsInv, FinishedRuns, RunSpools
<1>. QED
  BY <1>1, EmptyTypes

\* No step loses a result or what retention removed.
LEMMA RunKeptStep ==
  ASSUME TypeInv, TypeInv', Step, RunsInv, RunKept
  PROVE  RunKept'
<1>. USE TypeParts
<1>0. /\ result \in [Backup -> Result] /\ panel \in PanelType /\ past \in PastType /\ run \in RunType
      /\ up \in Seq(CopyFrame \cup RunFrame) /\ down \in Seq(Answer)
      /\ (run.pc # "off" => run.b = runs /\ run.b \in Backup /\ run.status # "none")
      /\ (run.pruned # {} => run.pc # "off")
  BY DEF ResultOK, PanelOK, PastOK, RunOK, RunnerAt, WireOK
<1>1. ASSUME NEW i \in 1..Len(up'), up'[i].kind = "run"
      PROVE  result'[up'[i].b].pruned \subseteq up'[i].body.pruned
  <2>1. CASE \E j \in 1..Len(up) : up'[i] = up[j]
    <3>1. PICK j \in 1..Len(up) : up'[i] = up[j]
      BY <2>1
    <3>2. up[j].b \in past.finished /\ result[up[j].b].pruned \subseteq up[j].body.pruned
      BY <1>1, <3>1 DEF RunsInv, FramesOfRuns, RunKept, FramesTell
    <3>3. up[j].b \in Backup
      BY <1>0, <3>2 DEF PastType
    <3>. QED
      BY <3>1, <3>2, <3>3, FinishedResult
  <2>2. CASE ~ \E j \in 1..Len(up) : up'[i] = up[j]
    <3>1. PICK b \in Backup : \/ up'[i] = [kind |-> "copy", b |-> b, body |-> report[b]]
                              \/ /\ up'[i] = [kind |-> "run", b |-> b, body |-> result[b]]
                                 /\ SendRunReport(b)
      BY <2>2, UpFrom
    <3>2. up'[i] = [kind |-> "run", b |-> b, body |-> result[b]] /\ SendRunReport(b)
      BY <1>1, <3>1
    <3>3. UNCHANGED result
      BY <3>2 DEF SendRunReport, Sends, disk
    <3>. QED
      BY <3>2, <3>3
  <2>. QED
    BY <2>1, <2>2
<1>2. ASSUME NEW i \in 1..Len(down'), down'[i].kind = "run"
      PROVE  panel'.run[down'[i].b] # "none" /\ result'[down'[i].b].pruned \subseteq panel'.pruned
  <2>1. CASE \E j \in 1..Len(down) : down'[i] = down[j]
    <3>1. PICK j \in 1..Len(down) : down'[i] = down[j]
      BY <2>1
    <3>2. /\ down[j].b \in past.finished /\ panel.run[down[j].b] # "none"
          /\ result[down[j].b].pruned \subseteq panel.pruned
      BY <1>2, <3>1 DEF RunsInv, FramesOfRuns, RunKept, FramesTell
    <3>3. down[j].b \in Backup
      BY <1>0, <3>2 DEF PastType
    <3>4. /\ panel'.run[down[j].b] # "none" /\ panel.pruned \subseteq panel'.pruned
          /\ result'[down[j].b].pruned \subseteq result[down[j].b].pruned
      BY <3>2, <3>3, FinishedResult, RunRecorded
    <3>. QED
      BY <3>1, <3>2, <3>4
  <2>2. CASE ~ \E j \in 1..Len(down) : down'[i] = down[j]
    <3>1. PanelRecords /\ down'[i] = [kind |-> Head(up).kind, b |-> Head(up).b]
      BY <2>2, DownFrom
    <3>2. /\ Head(up) = up[1] /\ 1 \in 1..Len(up) /\ Head(up).kind = "run"
          /\ down'[i].b = Head(up).b /\ Head(up).b \in Backup
          /\ panel'.run = [panel.run EXCEPT ![Head(up).b] = Head(up).body.status]
          /\ panel'.pruned = panel.pruned \cup Head(up).body.pruned
      BY <1>2, <3>1, RecordedFrame
    <3>3. /\ Head(up).body.status # "none"
          /\ result[Head(up).b].pruned \subseteq Head(up).body.pruned
      BY <3>2 DEF RunsInv, FramesOfRuns, RunKept, FramesTell
    <3>4. UNCHANGED result
      BY <3>1 DEF PanelRecords, disk
    <3>. QED
      BY <1>0, <3>2, <3>3, <3>4 DEF PanelType
  <2>. QED
    BY <2>1, <2>2
<1>3. FinishedKept'
  <2>. SUFFICES ASSUME NEW b \in past'.finished PROVE result'[b] # NoResult \/ panel'.run[b] # "none"
    BY DEF FinishedKept
  <2>1. CASE RunSpools /\ b = run.b
    BY <1>0, <2>1, EmptyTypes DEF RunSpools, SpooledResult, NoResult
  <2>2. CASE ~(RunSpools /\ b = run.b)
    <3>1. b \in past.finished
      <4>1. CASE RunPrunes \/ RunQueues \/ RunSpools \/ RunKilled
        BY <1>0, <2>2, <4>1 DEF RunPrunes, RunQueues, RunSpools, RunKilled, PastType
      <4>2. CASE CopierResumes \/ CopierPrunes \/ CopierAbandons \/ DeleteEnds \/ Crash
        BY <1>0, <4>2 DEF CopierResumes, CopierPrunes, CopierAbandons, DeleteEnds, Crash, PastType
      <4>. QED
        BY <4>1, <4>2, Writers
    <3>2. b \in Backup
      BY <1>0, <3>1 DEF PastType
    <3>3. CASE panel.run[b] # "none"
      BY <3>2, <3>3, RunRecorded
    <3>4. CASE panel.run[b] = "none"
      <4>1. result[b] # NoResult
        BY <3>1, <3>4 DEF RunKept, FinishedKept
      <4>2. CASE AnswerArrives
        <5>1. CASE Head(down).kind = "copy"
          BY <4>1, <4>2, <5>1, ArrivedAnswer
        <5>2. CASE Head(down).kind # "copy"
          <6>1. Head(down).b # b
            BY <3>4, <4>2, <5>2, ArrivedAnswer DEF RunKept, FramesTell
          <6>. QED
            BY <1>0, <3>2, <4>1, <4>2, <5>2, <6>1, ArrivedAnswer
        <5>. QED
          BY <5>1, <5>2
      <4>3. CASE RunSpools
        BY <1>0, <2>2, <3>2, <4>1, <4>3 DEF RunSpools
      <4>. QED
        BY <4>1, <4>2, <4>3, Writers
    <3>. QED
      BY <3>3, <3>4
  <2>. QED
    BY <2>1, <2>2
<1>4. PrunedKept'
  <2>. SUFFICES ASSUME NEW x \in past'.pruned PROVE Told(x)'
    BY DEF PrunedKept
  <2>1. CASE x \in past.pruned
    <3>1. CASE x \in panel.pruned
      BY <3>1, RunRecorded DEF Told
    <3>2. CASE x \in past.untold
      BY <3>2, PastGrows DEF Told
    <3>3. CASE x \in run.pruned
      <4>1. run.pc # "off" /\ run.b \in Backup
        BY <1>0, <3>3
      <4>2. CASE RunPrunes
        <5>0. PICK y \in Backup :
                \/ run' = [run EXCEPT !.excess = @ \ {y}, !.pruned = run.pruned \cup ({y} \cap file)]
                \/ past' = [past EXCEPT !.untold = @ \cup run.pruned]
          BY <4>2, RunPruneSteps
        <5>1. CASE run' = [run EXCEPT !.excess = @ \ {y}, !.pruned = run.pruned \cup ({y} \cap file)]
          <6>1. x \in run'.pruned
            BY <1>0, <3>3, <5>1 DEF RunType
          <6>. QED
            BY <6>1 DEF Told
        <5>2. CASE past' = [past EXCEPT !.untold = @ \cup run.pruned]
          <6>1. x \in past'.untold
            BY <1>0, <3>3, <5>2 DEF PastType
          <6>. QED
            BY <6>1 DEF Told
        <5>. QED
          BY <5>0, <5>1, <5>2
      <4>3. CASE RunQueues
        <5>1. x \in run'.pruned
          BY <1>0, <3>3, <4>3 DEF RunQueues, RunType
        <5>. QED
          BY <5>1 DEF Told
      <4>4. CASE RunSpools
        <5>1. x \in result'[run.b].pruned
          BY <1>0, <3>3, <4>1, <4>4 DEF RunSpools, SpooledResult
        <5>. QED
          BY <4>1, <5>1 DEF Told
      <4>5. CASE RunKilled
        <5>1. x \in past'.untold
          BY <1>0, <3>3, <4>5 DEF RunKilled, PastType
        <5>. QED
          BY <5>1 DEF Told
      <4>6. CASE UNCHANGED run
        BY <3>3, <4>6 DEF Told
      <4>. QED
        BY <4>1, <4>2, <4>3, <4>4, <4>5, <4>6, Writers DEF RunStarts
    <3>4. ASSUME NEW b \in Backup, x \in result[b].pruned PROVE Told(x)'
      <4>1. result[b] # NoResult /\ b \in past.finished
        BY <3>4, EmptyTypes DEF RunsInv, ResultsOfRuns
      <4>2. CASE result'[b] = result[b]
        BY <3>4, <4>2 DEF Told
      <4>3. CASE result'[b] # result[b]
        <5>1. AnswerArrives
          BY <1>0, <4>1, <4>3, Writers DEF RunSpools, RunsInv, FinishedRuns
        <5>2. Head(down) = down[1] /\ 1 \in 1..Len(down) /\ Head(down).kind = "run" /\ Head(down).b = b
          BY <1>0, <4>3, <5>1, ArrivedAnswer
        <5>3. x \in panel.pruned
          BY <3>4, <5>2 DEF RunKept, FramesTell
        <5>. QED
          BY <5>3, RunRecorded DEF Told
      <4>. QED
        BY <4>2, <4>3
    <3>. QED
      BY <2>1, <3>1, <3>2, <3>3, <3>4 DEF RunKept, PrunedKept, Told
  <2>2. CASE x \notin past.pruned
    <3>1. RunPrunes
      <4>1. CASE RunQueues \/ RunSpools \/ RunKilled
        BY <1>0, <2>2, <4>1 DEF RunQueues, RunSpools, RunKilled, PastType
      <4>2. CASE CopierResumes \/ CopierPrunes \/ CopierAbandons \/ DeleteEnds \/ Crash
        BY <1>0, <2>2, <4>2 DEF CopierResumes, CopierPrunes, CopierAbandons, DeleteEnds, Crash, PastType
      <4>. QED
        BY <2>2, <4>1, <4>2, Writers
    <3>2. PICK y \in Backup :
            \/ /\ run' = [run EXCEPT !.excess = @ \ {y}, !.pruned = run.pruned \cup ({y} \cap file)]
               /\ past' = [past EXCEPT !.pruned = @ \cup ({y} \cap file)]
            \/ past' = [past EXCEPT !.untold = @ \cup run.pruned]
      BY <3>1, RunPruneSteps
    <3>3. past'.pruned # past.pruned
      BY <2>2
    <3>4. run' = [run EXCEPT !.excess = @ \ {y}, !.pruned = run.pruned \cup ({y} \cap file)]
          /\ past' = [past EXCEPT !.pruned = @ \cup ({y} \cap file)]
      BY <1>0, <3>2, <3>3 DEF PastType
    <3>5. x \in run'.pruned
      BY <1>0, <2>2, <3>4 DEF PastType, RunType
    <3>. QED
      BY <3>5 DEF Told
  <2>. QED
    BY <2>1, <2>2
<1>. QED
  BY <1>1, <1>2, <1>3, <1>4 DEF RunKept, FramesTell

\* The initial states satisfy it.
LEMMA RunKeptInit == Init => RunKept
BY EmptyTypes DEF Init, RunKept, FramesTell, FinishedKept, PrunedKept

\* Nothing is forgotten between the runner, the copier, the reporters and the
\* control plane: a queued copy has its job, its report or the record; a finished
\* run its result or the record; and what retention removed from the host is told,
\* unless its run was killed or failed at a later unlink (#finish writes the report
\* before it removes the job, handleResult removes a file only after the answer).
THEOREM NothingForgotten == Spec => []ReportsKept
<1>. DEFINE Inv == TypeInv /\ RunsInv /\ CopyKept /\ RunKept
<1>1. Inv => ReportsKept
  <2>. SUFFICES ASSUME Inv PROVE ReportsKept
    OBVIOUS
  <2>1. past.pruned \subseteq panel.pruned \cup past.untold \cup run.pruned
                                \cup UNION {result[b].pruned : b \in Backup}
    BY DEF RunKept, PrunedKept, Told
  <2>. QED
    BY <2>1 DEF ReportsKept, CopyKept, QueuedKept, Held, RunKept, FinishedKept
<1>2. Inv /\ [Next]_vars => Inv'
  BY TypeStep, RunsStep, CopyKeptStep, RunKeptStep DEF Step
<1>3. Init => Inv
  BY TypeInit, RunsInit, CopyKeptInit, RunKeptInit
<1>. QED
  BY <1>1, <1>2, <1>3, PTL DEF Spec

(***************************************************************************)
(* The spools of results and copies implement OutcomeDelivery.             *)
(***************************************************************************)
\* A frame about a copy is of one that is on the books or on record.
FramesHeld == \A i \in 1..Len(up) : up[i].kind = "copy" => Held(up[i].b)

DeliverInv == TypeInv /\ RunsInv /\ CopyKept /\ RunKept /\ FramesHeld

\* No step breaks FramesHeld.
LEMMA FramesHeldStep ==
  ASSUME TypeInv, FramesSay, ReportedFirst, Step, FramesHeld
  PROVE  FramesHeld'
<1>. USE TypeParts
<1>. SUFFICES ASSUME NEW i \in 1..Len(up'), NEW b, up'[i].kind = "copy", up'[i].b = b
              PROVE  Held(b)'
  BY DEF FramesHeld, Held
<1>1. CASE \E j \in 1..Len(up) : up'[i] = up[j]
  <2>1. PICK j \in 1..Len(up) : up'[i] = up[j]
    BY <1>1
  <2>2. up[j] \in CopyFrame \cup RunFrame
    BY DEF WireOK
  <2>3. b \in Backup
    BY <2>1, <2>2 DEF CopyFrame, RunFrame
  <2>4. Held(b)
    BY <2>1 DEF FramesHeld
  <2>. QED
    BY <2>3, <2>4, HeldStays
<1>2. CASE ~ \E j \in 1..Len(up) : up'[i] = up[j]
  <2>1. PICK x \in Backup : \/ /\ up'[i] = [kind |-> "copy", b |-> x, body |-> report[x]]
                               /\ report[x] # NoReport
                            \/ up'[i] = [kind |-> "run", b |-> x, body |-> result[x]]
    BY <1>2, UpFrom
  <2>2. b = x /\ report[b] # NoReport
    BY <2>1
  <2>. QED
    BY <2>2, HeldStays DEF Held
<1>. QED
  BY <1>1, <1>2

\* The invariant of the refinement holds in every state.
LEMMA DeliverInvStep == DeliverInv /\ [Next]_vars => DeliverInv'
BY TypeStep, RunsStep, CopyKeptStep, RunKeptStep, FramesHeldStep DEF Step, DeliverInv, CopyKept

\* The initial states satisfy it.
LEMMA DeliverInvInit == Init => DeliverInv
<1>1. Init => FramesHeld
  BY DEF Init, FramesHeld
<1>. QED
  BY <1>1, TypeInit, RunsInit, CopyKeptInit, RunKeptInit DEF DeliverInv

\* An item is the result or the copy of one backup.
LEMMA ItemParts ==
  ASSUME NEW c \in Item
  PROVE  c = <<c[1], c[2]>> /\ c[1] \in {"run", "copy"} /\ c[2] \in Backup
<1>1. c[1] \in {"run", "copy"} /\ c[2] \in (Settled + 1)..MaxRuns /\ c = <<c[1], c[2]>>
  BY DEF Item
<1>2. Settled \in Nat /\ MaxRuns \in Nat
  BY Bounds
<1>. QED
  BY <1>1, <1>2 DEF Backup

\* A step that leaves the records alone and changes the books at one item only, which
\* leaves them only when it is on record, is a step of OutcomeDelivery.
LEMMA OneItem ==
  ASSUME NEW d, UNCHANGED panel,
         \A c \in Item \ {d} : OnBooks(c)' = OnBooks(c),
         d \in Item /\ OnBooks(d) /\ ~OnBooks(d)' => Recorded(d)
  PROVE  [Spools!DeliveryNext]_(Spools!delivery)
<1>0. Answered' = Answered
  BY DEF Answered, Recorded
<1>1. CASE Owed' = Owed
  BY <1>0, <1>1 DEF Spools!delivery
<1>2. CASE d \in Item /\ OnBooks(d)'
  <2>1. Owed' = Owed \cup {d}
    BY <1>2 DEF Owed
  <2>2. Spools!Accept(d)
    BY <1>0, <2>1 DEF Spools!Accept
  <2>. QED
    BY <1>2, <2>2 DEF Spools!DeliveryNext
<1>3. CASE d \in Item /\ OnBooks(d) /\ ~OnBooks(d)'
  <2>1. Owed' = Owed \ {d}
    BY <1>3 DEF Owed
  <2>2. d \in Answered
    BY <1>3 DEF Answered
  <2>3. Spools!Forget(d)
    BY <1>0, <2>1, <2>2 DEF Spools!Forget
  <2>. QED
    BY <1>3, <2>3 DEF Spools!DeliveryNext
<1>4. CASE d \notin Item \/ (~OnBooks(d) /\ ~OnBooks(d)')
  <2>1. Owed' = Owed
    BY <1>4 DEF Owed
  <2>. QED
    BY <1>1, <2>1
<1>. QED
  BY <1>2, <1>3, <1>4

\* The control plane records a frame of what is on the books, or again what it has.
LEMMA RecordStep ==
  ASSUME DeliverInv, PanelRecords
  PROVE  [Spools!DeliveryNext]_(Spools!delivery)
<1>. USE TypeParts
<1>. DEFINE f == Head(up)
<1>0. panel \in PanelType /\ past \in PastType
  BY DEF DeliverInv, PanelOK, PastOK
<1>1. f = up[1] /\ 1 \in 1..Len(up) /\ f.b \in Backup /\ f.kind \in {"copy", "run"}
  BY RecordedFrame DEF DeliverInv
<1>. PICK k \in {"copy", "run"}, b \in Backup : f.kind = k /\ f.b = b
  BY <1>1
<1>. DEFINE d == <<k, b>>
<1>2. UNCHANGED <<job, report, result>>
  BY DEF PanelRecords, disk
<1>3. Owed' = Owed
  BY <1>2 DEF Owed, OnBooks
<1>4. \A c \in Item \ {d} : Recorded(c)' = Recorded(c)
  <2>. SUFFICES ASSUME NEW c \in Item, c # d PROVE Recorded(c)' = Recorded(c)
    OBVIOUS
  <2>1. c = <<c[1], c[2]>> /\ c[1] \in {"run", "copy"} /\ c[2] \in Backup
    BY ItemParts
  <2>2. c[1] # k \/ c[2] # b
    BY <2>1
  <2>3. CASE c[1] = "run"
    <3>1. panel'.run[c[2]] = panel.run[c[2]]
      BY <1>0, <1>1, <2>1, <2>2, <2>3, RecordedFrame DEF DeliverInv, PanelType
    <3>. QED
      BY <2>3, <3>1 DEF Recorded
  <2>4. CASE c[1] = "copy"
    <3>1. panel'.copy[c[2]] = panel.copy[c[2]]
      BY <1>0, <1>1, <2>1, <2>2, <2>4, RecordedFrame DEF DeliverInv, PanelType
    <3>. QED
      BY <2>4, <3>1 DEF Recorded
  <2>. QED
    BY <2>1, <2>3, <2>4
<1>5. d[1] = k /\ d[2] = b
  OBVIOUS
<1>6. Recorded(d)'
  <2>1. CASE k = "copy"
    <3>1. f.body.state # "none"
      BY <1>1, <2>1 DEF DeliverInv, CopyKept, FramesSay
    <3>2. panel'.copy[b] # "none"
      BY <1>0, <1>1, <2>1, <3>1, RecordedFrame DEF DeliverInv, PanelType
    <3>. QED
      BY <1>5, <2>1, <3>2 DEF Recorded
  <2>2. CASE k = "run"
    <3>1. f.body.status # "none"
      BY <1>1, <2>2 DEF DeliverInv, RunsInv, FramesOfRuns
    <3>2. panel'.run[b] # "none"
      BY <1>0, <1>1, <2>2, <3>1, RecordedFrame DEF DeliverInv, PanelType
    <3>. QED
      BY <1>5, <2>2, <3>2 DEF Recorded
  <2>. QED
    BY <1>1, <2>1, <2>2
<1>7. OnBooks(d) \/ Recorded(d)
  <2>1. CASE k = "copy"
    BY <1>1, <1>5, <2>1 DEF DeliverInv, FramesHeld, Held, OnBooks, Recorded
  <2>2. CASE k = "run"
    BY <1>1, <1>5, <2>2
    DEF DeliverInv, RunsInv, FramesOfRuns, RunKept, FinishedKept, OnBooks, Recorded
  <2>. QED
    BY <1>1, <2>1, <2>2
<1>8. CASE d \in Item /\ ~Recorded(d)
  <2>1. Answered' = Answered \cup {d} /\ d \in Owed
    BY <1>4, <1>6, <1>7, <1>8 DEF Answered, Owed
  <2>2. Spools!Answer(d)
    BY <1>3, <2>1 DEF Spools!Answer
  <2>. QED
    BY <1>8, <2>2 DEF Spools!DeliveryNext
<1>9. CASE d \notin Item \/ Recorded(d)
  <2>1. Answered' = Answered
    BY <1>4, <1>6, <1>9 DEF Answered
  <2>. QED
    BY <1>3, <2>1 DEF Spools!delivery
<1>. QED
  BY <1>8, <1>9

\* Every step of the runner, the copier, the reporters and the control plane is a
\* step of OutcomeDelivery, or changes neither books nor records.
LEMMA SpoolStep ==
  ASSUME DeliverInv, Step
  PROVE  [Spools!DeliveryNext]_(Spools!delivery)
<1>. USE TypeParts
<1>0. /\ TypeInv /\ FramesSay /\ ReportedFirst
      /\ \A b \in Backup : \/ result'[b] = result[b] \/ result'[b] = NoResult
                           \/ RunSpools /\ b = run.b /\ result'[b] = SpooledResult
      /\ \A b \in Backup : \/ report'[b] = report[b]
                           \/ report'[b] = NoReport /\ panel.copy[b] # "none"
                           \/ CopierReports /\ b = copier.b /\ report'[b].state # "none"
      /\ \A b \in Backup : \/ job'[b].queued = job[b].queued
                           \/ RunQueues /\ b = run.b /\ job'[b].queued
                           \/ CopierRemovesJob /\ b = copier.b /\ ~job'[b].queued
  BY ResultFrom, ReportFrom, JobFrom DEF DeliverInv, CopyKept
<1>1. CASE PanelRecords
  BY <1>1, RecordStep
<1>. SUFFICES ASSUME ~PanelRecords PROVE [Spools!DeliveryNext]_(Spools!delivery)
  BY <1>1
<1>2. UNCHANGED panel
  BY Writers
<1>3. CASE RunSpools
  <2>. PICK x : x = run.b
    OBVIOUS
  <2>. DEFINE d == <<"run", x>>
  <2>1. UNCHANGED <<job, report>> /\ \A b \in Backup \ {x} : result'[b] = result[b]
    BY <1>0, <1>3 DEF RunSpools, ResultOK
  <2>2. result'[x] # NoResult /\ d[1] = "run" /\ d[2] = x
    BY <1>0, <1>3, EmptyTypes DEF RunSpools, SpooledResult, NoResult, ResultOK, RunOK, RunnerAt
  <2>3. \A c \in Item \ {d} : OnBooks(c)' = OnBooks(c)
    BY <2>1, ItemParts DEF OnBooks
  <2>4. OnBooks(d)'
    BY <2>2 DEF OnBooks
  <2>. QED
    BY <1>2, <2>3, <2>4, OneItem
<1>4. CASE RunQueues
  <2>. PICK x : x = run.b
    OBVIOUS
  <2>. DEFINE d == <<"copy", x>>
  <2>1. UNCHANGED <<result, report>> /\ ~CopierRemovesJob
    BY <1>0, <1>4 DEF RunQueues, CopierRemovesJob, RunOK, RunType
  <2>2. d[1] = "copy" /\ d[2] = x
    OBVIOUS
  <2>3. \A c \in Item \ {d} : OnBooks(c)' = OnBooks(c)
    BY <1>0, <2>1, ItemParts DEF OnBooks
  <2>4. OnBooks(d) /\ d \in Item => OnBooks(d)'
    BY <1>0, <2>1, <2>2, ItemParts DEF OnBooks
  <2>. QED
    BY <1>2, <2>3, <2>4, OneItem
<1>5. CASE CopierReports /\ Reported
  <2>. PICK x : x = copier.b
    OBVIOUS
  <2>. DEFINE d == <<"copy", x>>
  <2>1. UNCHANGED <<result, job>> /\ copier.b \in Backup
        /\ report' = [report EXCEPT ![copier.b] = copier.verdict]
    BY <1>0, <1>5, ReportSteps DEF CopierReports, Reported
  <2>2. \A b \in Backup \ {x} : report'[b] = report[b]
    BY <1>0, <2>1 DEF ReportOK
  <2>3. report'[x] # NoReport /\ d[1] = "copy" /\ d[2] = x
    BY <1>0, <1>5, <2>1, EmptyTypes DEF CopierReports, CopierOK, CopierAt, ReportOK, NoReport
  <2>4. \A c \in Item \ {d} : OnBooks(c)' = OnBooks(c)
    BY <2>1, <2>2, ItemParts DEF OnBooks
  <2>5. OnBooks(d)'
    BY <2>3 DEF OnBooks
  <2>. QED
    BY <1>2, <2>4, <2>5, OneItem
<1>6. CASE CopierRemovesJob
  <2>. PICK x : x = copier.b
    OBVIOUS
  <2>. DEFINE d == <<"copy", x>>
  <2>1. UNCHANGED <<result, report>> /\ copier.pc = "remove" /\ ~RunQueues
    BY <1>0, <1>6 DEF RunQueues, CopierRemovesJob, RunOK, RunType
  <2>2. d[1] = "copy" /\ d[2] = x
    OBVIOUS
  <2>3. \A c \in Item \ {d} : OnBooks(c)' = OnBooks(c)
    BY <1>0, <2>1, ItemParts DEF OnBooks
  <2>4. OnBooks(d)' \/ Recorded(d)
    BY <1>0, <2>1, <2>2 DEF ReportedFirst, OnBooks, Recorded
  <2>. QED
    BY <1>2, <2>3, <2>4, OneItem
<1>7. CASE AnswerArrives
  <2>. DEFINE f == Head(down)
  <2>1. PICK k \in {"copy", "run"}, x \in Backup :
          f = down[1] /\ 1 \in 1..Len(down) /\ f.kind = k /\ f.b = x
    BY <1>0, <1>7, ArrivedAnswer
  <2>. DEFINE d == <<k, x>>
  <2>2. UNCHANGED job
    BY <1>7 DEF AnswerArrives
  <2>3. /\ k = "copy" => UNCHANGED result /\ \A b \in Backup \ {x} : report'[b] = report[b]
        /\ k = "run" => UNCHANGED report /\ \A b \in Backup \ {x} : result'[b] = result[b]
    BY <1>0, <1>7, <2>1, ArrivedAnswer DEF ReportOK, ResultOK
  <2>4. \A c \in Item \ {d} : OnBooks(c)' = OnBooks(c)
    BY <2>1, <2>2, <2>3, ItemParts DEF OnBooks
  <2>5. Recorded(d)
    BY <1>0, <2>1 DEF FramesSay, DeliverInv, RunKept, FramesTell, Recorded
  <2>. QED
    BY <1>2, <2>4, <2>5, OneItem
<1>8. CASE ~(RunSpools \/ RunQueues \/ (CopierReports /\ Reported) \/ CopierRemovesJob \/ AnswerArrives)
  <2>1. UNCHANGED <<result, report>> /\ \A b \in Backup : job'[b].queued = job[b].queued
    BY <1>0, <1>8, Writers, ReportSteps DEF Unreported
  <2>2. \A c \in Item : OnBooks(c)' = OnBooks(c)
    BY <2>1, ItemParts DEF OnBooks
  <2>3. Owed' = Owed /\ Answered' = Answered
    BY <1>2, <2>2 DEF Owed, Answered, Recorded
  <2>. QED
    BY <2>3 DEF Spools!delivery
<1>. QED
  BY <1>3, <1>4, <1>5, <1>6, <1>7, <1>8

\* Results and copies are delivered the way commands are: the spools of the runner,
\* the copier and the two reporters implement OutcomeDelivery, with nothing given up,
\* whatever is killed, lost or repeated on the way.
THEOREM ImplementsDelivery == Spec => SpoolsDeliver
<1>1. Init => Spools!DeliveryInit
  <2>. SUFFICES ASSUME Init PROVE Owed = {} /\ Answered = {}
    BY DEF Spools!DeliveryInit
  <2>1. \A c \in Item : ~OnBooks(c)
    BY ItemParts DEF Init, OnBooks, NoJob
  <2>2. \A c \in Item : c[2] \in Backup /\ ~(c[2] <= Settled)
    BY ItemParts, Bounds DEF Item
  <2>3. \A c \in Item : ~Recorded(c)
    BY <2>2 DEF Init, Recorded
  <2>. QED
    BY <2>1, <2>3 DEF Owed, Answered
<1>2. DeliverInv /\ [Next]_vars => [Spools!DeliveryNext]_(Spools!delivery)
  BY SpoolStep DEF Step
<1>. QED
  BY <1>1, <1>2, DeliverInvInit, DeliverInvStep, PTL DEF Spec, SpoolsDeliver, Spools!DeliverySpec

(***************************************************************************)
(* A deleted copy stays deleted.                                           *)
(***************************************************************************)
Copying == copier.pc \in {"put", "resume", "note", "part", "drop", "head", "prune"}
Gone == past.deleted \cup ({deleting} \ {0})
\* A backup that is deleted, or being deleted, has no file, is of an earlier run and is not
\* being copied; a queued job of it will find no file.
FileGone == Gone \cap file = {} /\ \A b \in Gone : b <= runs
NotCopied == Copying => copier.b \notin Gone
GoneInv == FileGone /\ NotCopied /\ NoCopyOfDeleted

\* Only the start of a delete adds to what is gone, and only its end to what was deleted.
LEMMA GoneFrom ==
  ASSUME TypeInv, Step, NEW b
  PROVE  /\ b \in Gone' => b \in Gone \/ (b \in Backup /\ DeleteStarts(b))
         /\ b \in past'.deleted => b \in past.deleted \/ (DeleteEnds /\ Remove(b) /\ b \in Gone)
<1>. USE TypeParts
<1>0. past \in PastType /\ deleting \in 0..MaxRuns
  BY DEF PastOK, DeletingOK
<1>1. CASE DeleteEnds
  BY <1>0, <1>1 DEF DeleteEnds, PastType, Gone
<1>2. CASE ~DeleteEnds
  <2>1. past'.deleted = past.deleted
    <3>1. CASE RunPrunes \/ RunQueues \/ RunSpools \/ RunKilled
      BY <1>0, <3>1 DEF RunPrunes, RunQueues, RunSpools, RunKilled, PastType
    <3>2. CASE CopierResumes \/ CopierPrunes \/ CopierAbandons \/ Crash
      BY <1>0, <3>2 DEF CopierResumes, CopierPrunes, CopierAbandons, Crash, PastType
    <3>. QED
      BY <1>2, <3>1, <3>2, Writers
  <2>2. deleting' \in {0, deleting} \/ \E c \in Backup : DeleteStarts(c) /\ deleting' = c
    BY <1>2, Writers DEF Crash, DeleteStarts
  <2>. QED
    BY <2>1, <2>2 DEF Gone
<1>. QED
  BY <1>1, <1>2

\* Only the copier adds to the bucket, and only the copy it works at.
LEMMA BucketFrom ==
  ASSUME TypeInv, Step, NEW b, b \in bucket'
  PROVE  b \in bucket \/ (b = copier.b /\ Copying)
<1>1. CASE CopierPuts \/ CopierCompletes
  BY <1>1 DEF CopierPuts, CopierCompletes, Store, storage, Copying
<1>2. CASE CopierPrunes \/ DeleteEnds
  BY <1>2 DEF CopierPrunes, DeleteEnds, Remove
<1>. QED
  BY <1>1, <1>2, Writers

\* No step brings a deleted copy back.
LEMMA GoneStep ==
  ASSUME ~DeletesOverlap, TypeInv, TypeInv', RunsInv, Step, GoneInv
  PROVE  GoneInv'
<1>. USE TypeParts
<1>0. past \in PastType /\ panel \in PanelType /\ runs \in Nat /\ file \subseteq Backup /\ Backup \subseteq Nat
  BY Bounds DEF PastOK, PanelOK, RunOK, FileOK, Backup
<1>1. ASSUME NEW b \in Backup, DeleteStarts(b)
      PROVE  /\ b \notin file' /\ b <= runs' /\ copier.b # b /\ UNCHANGED <<copier, bucket>>
             /\ file' \subseteq file
  BY <1>1 DEF DeleteStarts, storage, RunsInv, RecordsOfRuns
<1>2. FileGone'
  <2>. SUFFICES ASSUME NEW b \in Gone' PROVE b \notin file' /\ b <= runs'
    BY DEF FileGone
  <2>1. CASE b \in Gone
    <3>1. b \notin file /\ b <= runs /\ b \in Nat
      BY <1>0, <2>1, Bounds DEF GoneInv, FileGone, Gone, PastType, DeletingOK
    <3>2. b <= runs'
      BY <1>0, <3>1, Writers DEF RunStarts
    <3>3. CASE RunStarts
      BY <1>0, <3>1, <3>2, <3>3 DEF RunStarts
    <3>4. CASE ~RunStarts
      <4>1. file' \subseteq file
        BY <3>4, Writers DEF RunPrunes, DeleteStarts
      <4>. QED
        BY <3>1, <3>2, <4>1
    <3>. QED
      BY <3>3, <3>4
  <2>2. CASE b \notin Gone
    BY <1>1, <2>2, GoneFrom
  <2>. QED
    BY <2>1, <2>2
<1>3. NotCopied'
  <2>. SUFFICES ASSUME Copying', NEW b, b = copier'.b, b \in Gone' PROVE FALSE
    BY DEF NotCopied
  <2>1. CASE b \in Gone
    <3>1. ~Leaves /\ ~Abandons
      BY DEF Copying, Leaves, Abandons
    <3>2. copier.b = b /\ (Copying \/ (copier.pc = "open" /\ copier.b \in file))
      BY <3>1, CopierMoves DEF CopierMove, Stays, Continues, Finds, GoesOnTo, Copying
    <3>. QED
      BY <2>1, <3>2 DEF GoneInv, NotCopied, FileGone
  <2>2. CASE b \notin Gone
    BY <1>1, <2>2, GoneFrom
  <2>. QED
    BY <2>1, <2>2
<1>4. NoCopyOfDeleted'
  <2>. SUFFICES ASSUME NEW b, b \in past'.deleted, b \in bucket' PROVE FALSE
    BY DEF NoCopyOfDeleted
  <2>1. CASE b \in past.deleted
    BY <2>1, BucketFrom DEF GoneInv, NoCopyOfDeleted, NotCopied, Gone
  <2>2. CASE b \notin past.deleted
    BY <2>2, GoneFrom DEF Remove
  <2>. QED
    BY <2>1, <2>2
<1>. QED
  BY <1>2, <1>3, <1>4 DEF GoneInv

\* The initial states satisfy it.
LEMMA GoneInit == Init => GoneInv
BY EmptyTypes DEF Init, GoneInv, FileGone, NotCopied, NoCopyOfDeleted, Gone, Copying

\* When no backup is deleted while it is being copied, a copy that a delete removed
\* stays out of the bucket, although its job may still be queued and is tried again
\* after every failure and crash (handleManagedBackup, copier.ts).
THEOREM DeletedStaysDeleted ==
  ASSUME ~DeletesOverlap
  PROVE  Spec => []NoCopyOfDeleted
<1>. DEFINE Inv == TypeInv /\ RunsInv /\ GoneInv
<1>1. Inv => NoCopyOfDeleted
  BY DEF GoneInv
<1>2. Inv /\ [Next]_vars => Inv'
  BY TypeStep, RunsStep, GoneStep DEF Step
<1>3. Init => Inv
  BY TypeInit, RunsInit, GoneInit
<1>. QED
  BY <1>1, <1>2, <1>3, PTL DEF Spec

(***************************************************************************)
(* Retention keeps Keep copies.                                            *)
(***************************************************************************)
\* The age of the stored copies is a strict order.
Order == /\ \A x \in bucket : <<x, x>> \notin older
         /\ \A x, y, z \in bucket : <<x, y>> \in older /\ <<y, z>> \in older => <<x, z>> \in older
\* What retention has still to remove is stored, and Keep other copies are too.
PruneLeaves ==
  copier.pc = "prune" /\ copier.excess # {} /\ past.deleted = {} =>
    copier.excess \subseteq bucket /\ Cardinality(bucket \ copier.excess) >= Keep
KeepsInv == Order /\ PruneLeaves /\ BucketKeeps

\* A set of backups is finite.
LEMMA BackupFinite ==
  ASSUME NEW S, S \subseteq Backup
  PROVE  IsFiniteSet(S) /\ Cardinality(S) \in Nat
<1>1. 1 \in Int /\ MaxRuns \in Int
  BY Bounds
<1>2. IsFiniteSet(Backup)
  BY <1>1, FS_Interval, Zenon DEF Backup
<1>3. IsFiniteSet(S)
  BY <1>2, FS_Subset
<1>. QED
  BY <1>3, FS_CardinalityType

\* Storing or removing an object keeps the order.
LEMMA OrderKept ==
  ASSUME BucketOK, Order, NEW b \in Backup, Store(b) \/ Remove(b)
  PROVE  Order'
<1>1. CASE Remove(b)
  <2>1. \A x, y : <<x, y>> \in older' => <<x, y>> \in older /\ x # b /\ y # b
    BY <1>1 DEF Remove
  <2>2. \A x, y : <<x, y>> \in older /\ x # b /\ y # b => <<x, y>> \in older'
    BY <1>1 DEF Remove
  <2>3. bucket' = bucket \ {b}
    BY <1>1 DEF Remove
  <2>. QED
    BY <2>1, <2>2, <2>3 DEF Order
<1>2. CASE Store(b)
  <2>1. \A x, y : <<x, y>> \in older' =>
          \/ <<x, y>> \in older /\ x # b /\ y # b
          \/ x \in bucket /\ x # b /\ y = b
    BY <1>2 DEF Store
  <2>2. /\ \A x, y : <<x, y>> \in older /\ x # b /\ y # b => <<x, y>> \in older'
        /\ \A x \in bucket : x # b => <<x, b>> \in older'
    BY <1>2 DEF Store
  <2>3. bucket' = bucket \cup {b} /\ older \subseteq bucket \X bucket
    BY <1>2 DEF Store, BucketOK
  <2>4. \A x \in bucket' : <<x, x>> \notin older'
    <3>. SUFFICES ASSUME NEW x \in bucket', <<x, x>> \in older' PROVE FALSE
      OBVIOUS
    <3>1. <<x, x>> \in older /\ x # b
      BY <2>1
    <3>2. x \in bucket
      BY <2>3, <3>1
    <3>. QED
      BY <3>1, <3>2 DEF Order
  <2>5. ASSUME NEW x \in bucket', NEW y \in bucket', NEW z \in bucket',
               <<x, y>> \in older', <<y, z>> \in older'
        PROVE  <<x, z>> \in older'
    <3>1. <<x, y>> \in older /\ x # b /\ y # b /\ x \in bucket /\ y \in bucket
      BY <2>1, <2>3, <2>5
    <3>2. CASE z = b
      BY <2>2, <3>1, <3>2
    <3>3. CASE z # b
      BY <2>1, <2>2, <2>3, <2>5, <3>1, <3>3 DEF Order
    <3>. QED
      BY <3>2, <3>3
  <2>. QED
    BY <2>4, <2>5 DEF Order
<1>. QED
  BY <1>1, <1>2

\* The listing leaves Keep copies: the newest of the excess has Keep - 1 newer ones, none
\* of them excess, and the copy just made.
LEMMA ExcessLeaves ==
  ASSUME TypeInv, Order, NEW b \in bucket, BucketExcess(b) # {}
  PROVE  Cardinality(bucket \ BucketExcess(b)) >= Keep
<1>. USE TypeParts
<1>. DEFINE newer(x) == {y \in bucket \ {b} : <<x, y>> \in older}
            excess == BucketExcess(b)
            sizes == {Cardinality(newer(x)) : x \in excess}
<1>0. /\ bucket \subseteq Backup /\ older \subseteq bucket \X bucket /\ Keep \in Nat
      /\ \A x : newer(x) \subseteq Backup
      /\ \A x : x \in excess <=> x \in bucket \ {b} /\ Cardinality(newer(x)) >= Keep - 1
  BY Bounds DEF BucketOK, BucketExcess
<1>1. \A x : IsFiniteSet(newer(x)) /\ Cardinality(newer(x)) \in Nat
  BY <1>0, BackupFinite
<1>. HIDE DEF newer, excess
<1>2. sizes \subseteq Nat /\ sizes # {}
  BY <1>1 DEF excess
<1>3. PICK n \in sizes : \A m \in sizes : n =< m
  BY <1>2, LeastExists
<1>4. PICK x \in excess : n = Cardinality(newer(x))
  OBVIOUS
<1>5. ASSUME NEW y \in newer(x) PROVE y \notin excess
  <2>1. y \in bucket \ {b} /\ <<x, y>> \in older /\ x \in bucket
    BY <1>0 DEF newer
  <2>2. newer(y) \subseteq newer(x) /\ y \notin newer(y)
    BY <2>1 DEF newer, Order
  <2>3. newer(y) # newer(x)
    BY <1>5, <2>2
  <2>4. Cardinality(newer(y)) < Cardinality(newer(x))
    BY <1>1, <2>2, <2>3, FS_Subset
  <2>. QED
    BY <1>1, <1>3, <1>4, <2>4
<1>6. newer(x) \cup {b} \subseteq bucket \ excess /\ b \notin newer(x)
  BY <1>0, <1>5 DEF newer
<1>7. Cardinality(newer(x) \cup {b}) = Cardinality(newer(x)) + 1
  BY <1>1, <1>6, FS_AddElement
<1>8. IsFiniteSet(bucket \ excess) /\ Cardinality(bucket \ excess) \in Nat
  BY <1>0, BackupFinite
<1>9. Cardinality(newer(x) \cup {b}) <= Cardinality(bucket \ excess)
  BY <1>6, <1>8, FS_Subset
<1>10. Cardinality(newer(x)) >= Keep - 1
  BY <1>0
<1>. QED
  BY <1>0, <1>1, <1>7, <1>8, <1>9, <1>10 DEF excess

\* No step takes the bucket below Keep.
LEMMA KeepsStep ==
  ASSUME TypeInv, TypeInv', Step, KeepsInv
  PROVE  KeepsInv'
<1>. USE TypeParts
<1>0. /\ past \in PastType /\ bucket \subseteq Backup /\ bucket' \subseteq Backup
      /\ copier \in CopierType /\ (copier.pc # "off" => copier.b \in Backup)
      /\ Keep \in Nat /\ deleting \in 0..MaxRuns
  BY Bounds DEF PastOK, BucketOK, CopierOK, CopierAt, DeletingOK
<1>a. copier.excess \subseteq Backup
  BY <1>0 DEF CopierType
<1>1. CASE CopierPrunes
  <2>1. ASSUME NEW x \in copier.excess, Remove(x),
               copier' = [copier EXCEPT !.excess = copier.excess \ {x},
                      !.verdict = [copier.verdict EXCEPT !.pruned = copier.verdict.pruned \cup {x}]],
               past' = [past EXCEPT !.dropped = @ \cup {x}]
        PROVE  KeepsInv'
    <3>1. Order'
      BY <1>a, <2>1, OrderKept DEF KeepsInv
    <3>2. copier'.excess = copier.excess \ {x} /\ past'.deleted = past.deleted /\ bucket' = bucket \ {x}
      BY <1>0, <2>1 DEF CopierType, PastType, Remove
    <3>3. ASSUME past.deleted = {}
          PROVE  copier.excess \subseteq bucket /\ Cardinality(bucket \ copier.excess) >= Keep
      BY <1>1, <2>1, <3>3 DEF KeepsInv, PruneLeaves, CopierPrunes
    <3>4. ASSUME past.deleted = {} PROVE Cardinality(bucket') >= Keep
      <4>1. bucket \ copier.excess \subseteq bucket' /\ bucket \ copier.excess \subseteq Backup
        BY <1>0, <2>1, <3>2
      <4>2. /\ Cardinality(bucket \ copier.excess) <= Cardinality(bucket')
            /\ Cardinality(bucket') \in Nat /\ Cardinality(bucket \ copier.excess) \in Nat
        BY <1>0, <4>1, BackupFinite, FS_Subset
      <4>. QED
        BY <1>0, <3>3, <3>4, <4>2
    <3>5. bucket' \ copier'.excess = bucket \ copier.excess
      BY <2>1, <3>2
    <3>6. PruneLeaves'
      BY <3>2, <3>3, <3>5 DEF PruneLeaves
    <3>7. BucketKeeps'
      BY <3>2, <3>4 DEF BucketKeeps
    <3>. QED
      BY <3>1, <3>6, <3>7 DEF KeepsInv
  <2>2. CASE /\ \/ copier' = [copier EXCEPT !.pc = "report",
                                !.verdict = [copier.verdict EXCEPT !.pruned = {}]]
                \/ copier' = [copier EXCEPT !.pc = "report"]
             /\ UNCHANGED <<bucket, older, past>>
    <3>1. copier'.pc = "report"
      BY <1>0, <2>2 DEF CopierType
    <3>. QED
      BY <2>2, <3>1 DEF KeepsInv, Order, PruneLeaves, BucketKeeps
  <2>. QED
    BY <1>1, <2>1, <2>2, PruneSteps
<1>2. CASE DeleteEnds
  <2>1. CASE UNCHANGED <<bucket, older, past>>
    BY <1>2, <2>1 DEF DeleteEnds, KeepsInv, Order, PruneLeaves, BucketKeeps
  <2>2. CASE Remove(deleting) /\ past' = [past EXCEPT !.deleted = @ \cup {deleting}]
    <3>1. deleting \in Backup
      BY <1>0, <1>2, Bounds DEF DeleteEnds, Backup
    <3>2. past'.deleted # {}
      BY <1>0, <2>2 DEF PastType
    <3>. QED
      BY <2>2, <3>1, <3>2, OrderKept DEF KeepsInv, PruneLeaves, BucketKeeps
  <2>. QED
    BY <1>2, <2>1, <2>2 DEF DeleteEnds
<1>3. CASE ~CopierPrunes /\ ~DeleteEnds
  <2>1. past'.dropped = past.dropped /\ past'.deleted = past.deleted
    BY <1>0, <1>3, Writers DEF RunPrunes, RunQueues, RunSpools, RunKilled, CopierResumes,
                               CopierAbandons, Crash, PastType
  <2>2. UNCHANGED <<bucket, older>> \/ (Store(copier.b) /\ copier.pc \in {"put", "part"})
    BY <1>3, Writers DEF CopierPuts, CopierCompletes, storage
  <2>3. Order'
    <3>1. CASE UNCHANGED <<bucket, older>>
      BY <3>1 DEF KeepsInv, Order
    <3>2. CASE Store(copier.b) /\ copier.pc \in {"put", "part"}
      BY <1>0, <3>2, OrderKept DEF KeepsInv
    <3>. QED
      BY <2>2, <3>1, <3>2
  <2>4. BucketKeeps'
    <3>1. bucket \subseteq bucket'
      BY <2>2 DEF Store
    <3>2. /\ Cardinality(bucket) <= Cardinality(bucket')
          /\ Cardinality(bucket') \in Nat /\ Cardinality(bucket) \in Nat
      BY <1>0, <3>1, BackupFinite, FS_Subset
    <3>. QED
      BY <1>0, <2>1, <3>2 DEF KeepsInv, BucketKeeps
  <2>5. PruneLeaves'
    <3>1. CASE copier'.pc # "prune" \/ copier'.excess = {}
      BY <3>1 DEF PruneLeaves
    <3>2. CASE copier' = copier /\ copier.pc = "prune"
      BY <2>1, <2>2, <3>2 DEF KeepsInv, PruneLeaves
    <3>3. CASE CopierChecksSize /\ copier'.pc = "prune" /\ copier'.excess # {}
      <4>1. PICK e \in {{}, BucketExcess(copier.b)} :
              /\ copier' = [copier EXCEPT !.pc = "prune", !.excess = e,
                             !.verdict = [copier.verdict EXCEPT !.state = "copied"]]
              /\ copier.b \in bucket
        <5>1. \/ /\ \E e \in {{}, BucketExcess(copier.b)} :
                      copier' = [copier EXCEPT !.pc = "prune", !.excess = e,
                                   !.verdict = [copier.verdict EXCEPT !.state = "copied"]]
                 /\ copier.b \in bucket
              \/ StorageFails \/ Failed(TRUE)
          BY <3>3 DEF CopierChecksSize
        <5>2. ~StorageFails /\ ~Failed(TRUE)
          BY <3>3, StorageFailsMoves DEF CopierChecksSize, Leaves, Abandons
        <5>. QED
          BY <5>1, <5>2
      <4>2. copier'.excess = BucketExcess(copier.b)
        BY <1>0, <3>3, <4>1 DEF CopierType
      <4>3. UNCHANGED bucket
        BY <3>3 DEF CopierChecksSize, storage
      <4>4. BucketExcess(copier.b) \subseteq bucket
        BY DEF BucketExcess
      <4>. QED
        BY <3>3, <4>1, <4>2, <4>3, <4>4, ExcessLeaves DEF PruneLeaves, KeepsInv
    <3>4. CASE ~CopierChecksSize /\ copier'.pc = "prune" /\ copier' # copier
      <4>1. copier.pc \in {"prune", "head"}
        BY <3>4, CopierMoves DEF CopierMove, Stays, Leaves, Abandons, Continues, Finds, GoesOnTo
      <4>2. Crash
        BY <1>3, <3>4, <4>1 DEF Step, Next, vars, Idle, RunStarts, RunPrunes, RunQueues, RunSpools,
             RunKilled, CopierTicks, CopierOpens, CopierWaits, CopierRefused, CopierPuts,
             CopierResumes, CopierNotes, CopierSendsPart, CopierCompletes, CopierDropsProgress,
             CopierAbandons, CopierReports, CopierRemovesJob, RetryDue, DeleteStarts,
             SendCopyReport, SendRunReport, Sends, PanelRecords, AnswerArrives, SessionStarts,
             FeaturesKnown, SessionEnds
      <4>. QED
        BY <3>4, <4>2, EmptyTypes DEF Crash
    <3>. QED
      BY <3>1, <3>2, <3>3, <3>4
  <2>. QED
    BY <2>3, <2>4, <2>5 DEF KeepsInv
<1>. QED
  BY <1>1, <1>2, <1>3

\* The initial states satisfy it.
LEMMA KeepsInit == Init => KeepsInv
<1>. SUFFICES ASSUME Init PROVE KeepsInv
  OBVIOUS
<1>1. \A x, y : <<x, y>> \in older <=> x \in 1..Settled /\ y \in 1..Settled /\ x < y
  BY DEF Init
<1>2. Order
  BY <1>1, Bounds DEF Init, Order
<1>3. PruneLeaves /\ BucketKeeps
  BY EmptyTypes DEF Init, PruneLeaves, BucketKeeps
<1>. QED
  BY <1>2, <1>3 DEF KeepsInv

\* As long as nothing was deleted by hand, a bucket that retention has pruned still
\* holds Keep copies, in whatever order the uploads came and however often they failed
\* or were repeated (pruneBucketFolder).
THEOREM RetentionKeeps == Spec => []BucketKeeps
<1>1. TypeInv /\ KeepsInv => BucketKeeps
  BY DEF KeepsInv
<1>2. TypeInv /\ KeepsInv /\ [Next]_vars => (TypeInv /\ KeepsInv)'
  BY TypeStep, KeepsStep DEF Step
<1>3. Init => TypeInv /\ KeepsInv
  BY TypeInit, KeepsInit
<1>. QED
  BY <1>1, <1>2, <1>3, PTL DEF Spec
=============================================================================

------------------------ MODULE ProviderBatchProofs ------------------------
(***************************************************************************)
(* Proofs about ProviderBatch, for any number of workers, requests,        *)
(* attempts and uploads: its types, that no attempt of a batch is paid for *)
(* twice, that a running job keeps its input, that results are kept and    *)
(* not bought again, and that cleanup leaves no file behind.               *)
(***************************************************************************)
EXTENDS ProviderBatch, SequenceTheorems, TLAPS

----------------------------------------------------------------------------
(* The inductive invariant.                                                *)

\* Positions at which a worker uses the batch row it read.
Reading == HoldsBatch \ {"release", "raise"}

\* A payment in progress: the marker is committed, the outcome is not known.
Paying == {"create", "rejected"}

BatchRefs(b) ==
    /\ b.status = "none" => b = NoBatch
    /\ b.status # "none" => b.input \in DOMAIN uploads
    /\ b.clean \in {NotStarted, NoInput} \cup DOMAIN uploads
    /\ b.clean = NoInput => b.cleaned

WorkerRefs(s) ==
    /\ s.pc \in Reading => s.row.input \in DOMAIN uploads /\ s.row.status # "none"
    /\ s.pc \in {"clean", "checkpoint"} => s.row.clean \in {NotStarted} \cup DOMAIN uploads
    /\ s.pc \in {"reserve", "persist"} => s.ref \in DOMAIN uploads
    /\ s.pc = "checkpoint" => s.ref \in {NoInput} \cup DOMAIN uploads

\* References lead to manifests that exist, and chains of manifests end.
Refs ==
    /\ \A u \in DOMAIN uploads : uploads[u].prev < u
    /\ BatchRefs(batch)
    /\ \A w \in Workers : WorkerRefs(at[w])

\* A payment of attempt a is covered by the row: by its attempt, or by its marker.
Covered(a) == a <= batch.attempt /\ (a = batch.attempt => batch.started)

AllCovered ==
    /\ \A j \in DOMAIN jobs : Covered(jobs[j].attempt)
    /\ \A r \in late : Covered(r.attempt)
    /\ \A w \in Workers : at[w].pc \in Paying => Covered(at[w].row.attempt)

\* A payment is a job, a request in flight or a worker that is paying; no two
\* payments are for the same attempt.
Unique ==
    /\ \A j, k \in DOMAIN jobs : jobs[j].attempt = jobs[k].attempt => j = k
    /\ \A r, s \in late : r.attempt = s.attempt => r = s
    /\ \A v, w \in Workers :
        at[v].pc \in Paying /\ at[w].pc \in Paying
            /\ at[v].row.attempt = at[w].row.attempt => v = w
    /\ \A j \in DOMAIN jobs : \A r \in late : jobs[j].attempt # r.attempt
    /\ \A j \in DOMAIN jobs : \A w \in Workers :
        at[w].pc \in Paying => jobs[j].attempt # at[w].row.attempt
    /\ \A r \in late : \A w \in Workers :
        at[w].pc \in Paying => r.attempt # at[w].row.attempt

Paid == AllCovered /\ Unique

Inv == TypeOK /\ Refs /\ Paid

----------------------------------------------------------------------------
(* Facts about the records.                                                *)

LEMMA IdleType == Idle \in WorkerState /\ NoBatch \in BatchRow
<1>1. NoBatch \in BatchRow
    BY ProviderBoundAssumption DEF NoBatch, BatchRow, NoJob, NoInput, NotStarted
<1> QED
    BY <1>1 DEF Idle, WorkerState, Position

\* Goto changes the position alone.
LEMMA GotoState ==
    ASSUME NEW s \in WorkerState, NEW pc \in Position
    PROVE  /\ [s EXCEPT !.pc = pc] \in WorkerState
           /\ [s EXCEPT !.pc = pc].pc = pc
           /\ [s EXCEPT !.pc = pc].row = s.row
           /\ [s EXCEPT !.pc = pc].ref = s.ref
BY DEF WorkerState

\* Stop leaves nothing of what was read.
LEMMA StopState ==
    ASSUME NEW s \in WorkerState, NEW pc \in Position
    PROVE  LET n == [Idle EXCEPT !.pc = pc, !.prep = s.prep]
           IN  n \in WorkerState /\ n.pc = pc /\ n.row = NoBatch /\ n.ref = 0
BY IdleType DEF WorkerState, Idle

----------------------------------------------------------------------------
(* Steps that leave uploads, jobs, requests in flight, attempt and marker  *)
(* alone preserve the invariant, whatever one worker does otherwise.       *)

LEMMA QuietStep ==
    ASSUME Inv,
           NEW w \in Workers, NEW s \in WorkerState, NEW b \in BatchRow,
           at' = [at EXCEPT ![w] = s],
           batch' = b,
           uploads' = uploads, jobs' = jobs, late' = late,
           current' \in BOOLEAN,
           phase' \in {"pending", "waiting_provider", "complete", "failed", "superseded"},
           work' \in WorkRow,
           BatchRefs(b), b.attempt = batch.attempt, b.started = batch.started,
           WorkerRefs(s),
           s.pc \in Paying => at[w].pc \in Paying /\ s.row.attempt = at[w].row.attempt
    PROVE  Inv'
<1>1. /\ at' \in [Workers -> WorkerState]
      /\ at'[w] = s
      /\ \A x \in Workers : x # w => at'[x] = at[x]
    BY DEF Inv, TypeOK
<1>2. TypeOK'
    BY <1>1 DEF Inv, TypeOK
<1>3. Refs'
    <2>1. \A u \in DOMAIN uploads' : uploads'[u].prev < u
        BY DEF Inv, Refs
    <2>2. BatchRefs(batch)'
        BY DEF BatchRefs
    <2>3. ASSUME NEW x \in Workers PROVE WorkerRefs(at[x])'
        <3>1. WorkerRefs(at'[x])
            BY <1>1 DEF Inv, Refs
        <3> QED
            BY <3>1 DEF WorkerRefs
    <2> QED
        BY <2>1, <2>2, <2>3 DEF Refs
<1>4. \A x \in Workers : at'[x].pc \in Paying
            => at[x].pc \in Paying /\ at'[x].row.attempt = at[x].row.attempt
    BY <1>1
<1>5. \A a : Covered(a) => Covered(a)'
    BY DEF Covered
<1>6. AllCovered'
    BY <1>4, <1>5 DEF Inv, Paid, AllCovered
<1>7. Unique'
    BY <1>4 DEF Inv, Paid, Unique
<1> QED
    BY <1>2, <1>3, <1>6, <1>7 DEF Inv, Paid

\* The same for steps that leave the workers alone.
LEMMA QuietRows ==
    ASSUME Inv, NEW b \in BatchRow,
           at' = at, batch' = b, uploads' = uploads, jobs' = jobs, late' = late,
           current' \in BOOLEAN,
           phase' \in {"pending", "waiting_provider", "complete", "failed", "superseded"},
           work' \in WorkRow,
           BatchRefs(b), b.attempt = batch.attempt, b.started = batch.started
    PROVE  Inv'
<1>1. TypeOK'
    BY DEF Inv, TypeOK
<1>2. Refs'
    BY DEF Inv, Refs, BatchRefs, WorkerRefs
<1>3. Paid'
    BY DEF Inv, Paid, AllCovered, Unique, Covered
<1> QED
    BY <1>1, <1>2, <1>3 DEF Inv

\* What the invariant says of the types.
LEMMA Types ==
    ASSUME Inv
    PROVE  /\ current \in BOOLEAN
           /\ phase \in {"pending", "waiting_provider", "complete", "failed", "superseded"}
           /\ work \in WorkRow /\ batch \in BatchRow
           /\ BatchRefs(batch)
           /\ \A w \in Workers : at[w] \in WorkerState /\ WorkerRefs(at[w])
BY DEF Inv, TypeOK, Refs

\* A turn that ends, with a change of the rows or without.
LEMMA StopStep ==
    ASSUME Inv, NEW w \in Workers,
           NEW pc \in {"idle", "release", "raise", "failing", "seal"},
           Stop(w, pc),
           batch' \in BatchRow, BatchRefs(batch'),
           batch'.attempt = batch.attempt, batch'.started = batch.started,
           uploads' = uploads, jobs' = jobs, late' = late, current' = current,
           phase' \in {"pending", "waiting_provider", "complete", "failed", "superseded"},
           work' \in WorkRow
    PROVE  Inv'
<1> DEFINE s == [Idle EXCEPT !.pc = pc, !.prep = at[w].prep]
<1>1. at' = [at EXCEPT ![w] = s]
    BY DEF Stop
<1>2. pc \in Position /\ at[w] \in WorkerState /\ current' \in BOOLEAN
    BY Types DEF Position
<1>3. s \in WorkerState /\ s.pc = pc
    BY <1>2, StopState
<1> HIDE DEF s
<1>4. WorkerRefs(s) /\ s.pc \notin Paying
    BY <1>3 DEF WorkerRefs, Reading, HoldsBatch, Paying
<1> QED
    BY <1>1, <1>2, <1>3, <1>4, QuietStep

\* A turn that ends without a change of the rows.
LEMMA StopOnly ==
    ASSUME Inv, NEW w \in Workers,
           NEW pc \in {"idle", "release", "raise", "failing", "seal"},
           Stop(w, pc),
           UNCHANGED <<current, phase, work, batch, uploads, jobs, late>>
    PROVE  Inv'
BY Types, StopStep

\* A turn that goes on with what it read.
LEMMA GotoStep ==
    ASSUME Inv, NEW w \in Workers,
           NEW pc \in Position \ {"clean", "checkpoint", "reserve", "persist"},
           Goto(w, pc),
           pc \in Reading => at[w].pc \in Reading,
           pc \in Paying => at[w].pc \in Paying,
           UNCHANGED <<current, phase, work, batch, uploads, jobs, late>>
    PROVE  Inv'
<1> DEFINE s == [at[w] EXCEPT !.pc = pc]
<1>1. at[w] \in WorkerState /\ pc \in Position
    BY Types
<1>2. at' = [at EXCEPT ![w] = s]
    BY DEF Goto
<1>3. s \in WorkerState /\ s.pc = pc /\ s.row = at[w].row
    BY <1>1, GotoState
<1>4. WorkerRefs(s)
    BY <1>3, Types DEF WorkerRefs
<1>5. s.pc \in Paying => at[w].pc \in Paying /\ s.row.attempt = at[w].row.attempt
    BY <1>3
<1> HIDE DEF s
<1> QED
    BY <1>2, <1>3, <1>4, <1>5, Types, QuietStep

\* A turn that goes on with the row it just wrote or claimed.
LEMMA HoldingStep ==
    ASSUME Inv, NEW w \in Workers,
           NEW row \in BatchRow,
           NEW pc \in Position \ {"checkpoint", "reserve", "persist", "create", "rejected"},
           Holding(w, row, pc), batch' = row,
           BatchRefs(row), row.status # "none",
           row.attempt = batch.attempt, row.started = batch.started,
           pc = "clean" => row.clean # NoInput,
           UNCHANGED <<current, phase, work, uploads, jobs, late>>
    PROVE  Inv'
<1> DEFINE s == [at[w] EXCEPT !.pc = pc, !.row = row, !.ref = 0]
<1>1. at[w] \in WorkerState /\ pc \in Position
    BY Types
<1>2. at' = [at EXCEPT ![w] = s]
    BY DEF Holding
<1>3. s \in WorkerState /\ s.pc = pc /\ s.row = row
    BY <1>1 DEF WorkerState
<1>4. WorkerRefs(s) /\ s.pc \notin Paying
    BY <1>3 DEF WorkerRefs, BatchRefs, Paying
<1> HIDE DEF s
<1> QED
    BY <1>2, <1>3, <1>4, Types, QuietStep

----------------------------------------------------------------------------
(* Changes of the batch row.                                               *)

\* The fields that the references and the marker depend on.
SameRefs(b, c) ==
    /\ c.status # "none" /\ b.status # "none"
    /\ c.input = b.input /\ c.clean = b.clean /\ c.cleaned = b.cleaned

Unpaid(b, c) == c.attempt = b.attempt /\ c.started = b.started

LEMMA SameRefsKeep ==
    ASSUME NEW b, NEW c, BatchRefs(b), SameRefs(b, c)
    PROVE  BatchRefs(c)
BY DEF BatchRefs, SameRefs

LEMMA StatusChange ==
    ASSUME NEW b \in BatchRow, b.status # "none",
           NEW st \in {"preparing", "submitted", "retry", "complete", "failed"},
           NEW done \in SUBSET Requests
    PROVE  LET c == [b EXCEPT !.done = done, !.status = st]
               d == [b EXCEPT !.status = st]
           IN  /\ c \in BatchRow /\ SameRefs(b, c) /\ Unpaid(b, c)
               /\ d \in BatchRow /\ SameRefs(b, d) /\ Unpaid(b, d)
<1>1. st \in {"none", "preparing", "submitted", "retry"} \cup Ended /\ st # "none"
    BY DEF Ended
<1> QED
    BY <1>1 DEF BatchRow, SameRefs, Unpaid

LEMMA LeaseChange ==
    ASSUME NEW b \in BatchRow, NEW t \in Workers \cup {NoWorker}, NEW l \in BOOLEAN
    PROVE  LET c == [b EXCEPT !.token = t, !.live = l]
               d == [b EXCEPT !.live = l]
           IN  /\ c \in BatchRow /\ Unpaid(b, c) /\ c.status = b.status
               /\ b.status # "none" => SameRefs(b, c)
               /\ d \in BatchRow /\ Unpaid(b, d) /\ d.status = b.status
               /\ b.status # "none" => SameRefs(b, d)
BY DEF BatchRow, SameRefs, Unpaid

\* record_submission.
LEMMA RecordedRow ==
    ASSUME NEW b \in BatchRow, b.status # "none", NEW j \in Nat
    PROVE  LET c == [b EXCEPT !.job = j, !.status = "submitted"]
           IN  c \in BatchRow /\ SameRefs(b, c) /\ Unpaid(b, c)
BY DEF BatchRow, SameRefs, Unpaid

\* Whoever holds a lease holds it on a row that exists.
LEMMA LeasedExists ==
    ASSUME Inv, NEW w \in Workers, batch.token = w
    PROVE  batch.status # "none"
BY ProviderWorkerAssumption, Types DEF BatchRefs, NoBatch

----------------------------------------------------------------------------
(* The preparer.                                                           *)

LEMMA ClaimWorkInv ==
    ASSUME Inv, NEW w \in Workers, ClaimWork(w)
    PROVE  Inv'
<1> DEFINE s == [Idle EXCEPT !.pc = "prepare", !.prep = TRUE]
<1>1. s \in WorkerState /\ s.pc = "prepare"
    BY IdleType DEF WorkerState, Idle, Position
<1>2. at' = [at EXCEPT ![w] = s] /\ batch' = batch
    BY DEF ClaimWork
<1>3. work' \in WorkRow
    BY Types, ProviderBoundAssumption DEF ClaimWork, WorkRow, WorkDue
<1> HIDE DEF s
<1>4. WorkerRefs(s) /\ s.pc \notin Paying
    BY <1>1 DEF WorkerRefs, Reading, HoldsBatch, Paying
<1>5. UNCHANGED <<current, phase, uploads, jobs, late>>
    BY DEF ClaimWork
<1> QED
    BY <1>1, <1>2, <1>3, <1>4, <1>5, Types, QuietStep

LEMMA IdleStep ==
    ASSUME Inv, NEW w \in Workers, at' = [at EXCEPT ![w] = Idle],
           UNCHANGED <<current, batch, uploads, jobs, late>>,
           phase' \in {"pending", "waiting_provider", "complete", "failed", "superseded"},
           work' \in WorkRow
    PROVE  Inv'
<1>1. WorkerRefs(Idle) /\ Idle.pc \notin Paying
    BY DEF Idle, WorkerRefs, Reading, HoldsBatch, Paying
<1> QED
    BY <1>1, IdleType, Types, QuietStep

LEMMA FailAttemptInv ==
    ASSUME Inv, NEW w \in Workers, FailAttempt(w)
    PROVE  Inv'
<1>1. work' \in WorkRow
    BY Types DEF FailAttempt, WorkRow
<1> QED
    BY <1>1, IdleStep, Types DEF FailAttempt

LEMMA ReadRecordedInv ==
    ASSUME Inv, NEW w \in Workers, ReadRecorded(w)
    PROVE  Inv'
<1>1. PICK pc \in {"upload", "seal", "claim"} : Goto(w, pc)
    BY DEF ReadRecorded
<1>2. /\ pc \in Position \ {"clean", "checkpoint", "reserve", "persist"}
      /\ pc \notin Reading /\ pc \notin Paying
    BY DEF Position, Reading, Paying, HoldsBatch
<1> QED
    BY <1>1, <1>2, GotoStep DEF ReadRecorded

LEMMA ClaimBatchInv ==
    ASSUME Inv, NEW w \in Workers, ClaimBatch(w)
    PROVE  Inv'
<1> DEFINE row == ClaimedBatch(w)
<1>1. CASE BatchFree /\ batch' = row /\ Holding(w, row, "refresh")
    <2>1. row \in BatchRow /\ Unpaid(batch, row) /\ SameRefs(batch, row)
        BY <1>1, Types, LeaseChange DEF ClaimedBatch, BatchFree
    <2>2. BatchRefs(row) /\ row.status # "none"
        BY <2>1, Types, SameRefsKeep DEF SameRefs
    <2> HIDE DEF row
    <2>3. "refresh" \in Position \ {"checkpoint", "reserve", "persist", "create", "rejected"}
        BY DEF Position
    <2> QED
        BY <1>1, <2>1, <2>2, <2>3, HoldingStep DEF Unpaid, ClaimBatch
<1>2. CASE batch' = batch /\ Stop(w, "failing")
    BY <1>2, StopOnly DEF ClaimBatch
<1> QED
    BY <1>1, <1>2 DEF ClaimBatch

LEMMA ReserveBatchInv ==
    ASSUME Inv, NEW w \in Workers, ReserveBatch(w)
    PROVE  Inv'
<1> DEFINE row == NewBatch(at[w].ref, w)
<1>1. CASE batch.status = "none" /\ batch' = row /\ Holding(w, row, "submit")
    <2>1. at[w].ref \in DOMAIN uploads /\ batch = NoBatch
        BY <1>1, Types DEF ReserveBatch, WorkerRefs, BatchRefs
    <2>2. at[w].ref \in 0..MaxUploads
        BY <2>1, ProviderBoundAssumption DEF Inv, TypeOK
    <2>4. row \in BatchRow
        BY <2>2, ProviderBoundAssumption DEF NewBatch, BatchRow, NoJob, NotStarted
    <2>5. /\ row.status # "none" /\ row.input \in DOMAIN uploads
          /\ row.clean = NotStarted /\ row.clean # NoInput
          /\ row.attempt = batch.attempt /\ row.started = batch.started
        BY <2>1 DEF NewBatch, NoBatch, NotStarted, NoInput
    <2> HIDE DEF row
    <2>6. BatchRefs(row)
        BY <2>5 DEF BatchRefs
    <2>7. "submit" \in Position \ {"checkpoint", "reserve", "persist", "create", "rejected"}
        BY DEF Position
    <2> QED
        BY <1>1, <2>4, <2>5, <2>6, <2>7, HoldingStep DEF ReserveBatch
<1>2. CASE batch' = batch /\ Stop(w, "failing")
    BY <1>2, StopOnly DEF ReserveBatch
<1> QED
    BY <1>1, <1>2 DEF ReserveBatch

LEMMA FinishPreparationInv ==
    ASSUME Inv, NEW w \in Workers, FinishPreparation(w)
    PROVE  Inv'
<1>1. CASE /\ phase' = "waiting_provider"
           /\ work' = [work EXCEPT !.status = "waiting_provider", !.live = FALSE]
           /\ at' = [at EXCEPT ![w] = Idle]
    <2>1. work' \in WorkRow
        BY <1>1, Types DEF WorkRow
    <2> QED
        BY <1>1, <2>1, IdleStep DEF FinishPreparation
<1>2. CASE Stop(w, "failing") /\ UNCHANGED <<phase, work>>
    BY <1>2, StopOnly DEF FinishPreparation
<1> QED
    BY <1>1, <1>2 DEF FinishPreparation

----------------------------------------------------------------------------
(* Quiet steps of the submitter.                                           *)

LEMMA SkipRefreshInv ==
    ASSUME Inv, NEW w \in Workers, SkipRefresh(w)
    PROVE  Inv'
<1>1. /\ "submit" \in Position \ {"clean", "checkpoint", "reserve", "persist"}
      /\ "submit" \notin Paying /\ at[w].pc \in Reading
    BY DEF SkipRefresh, Position, Reading, Paying, HoldsBatch
<1> QED
    BY <1>1, GotoStep DEF SkipRefresh

LEMMA SkipSubmissionInv ==
    ASSUME Inv, NEW w \in Workers, SkipSubmission(w)
    PROVE  Inv'
<1>1. PICK pc \in {"release", "collect"} : Goto(w, pc)
    BY DEF SkipSubmission, AfterSubmission
<1>2. /\ pc \in Position \ {"clean", "checkpoint", "reserve", "persist"}
      /\ pc \notin Paying /\ at[w].pc \in Reading
    BY DEF SkipSubmission, Position, Reading, Paying, HoldsBatch
<1> QED
    BY <1>1, <1>2, GotoStep DEF SkipSubmission

LEMMA CreateRejectedInv ==
    ASSUME Inv, NEW w \in Workers, CreateRejected(w)
    PROVE  Inv'
<1>1. /\ "rejected" \in Position \ {"clean", "checkpoint", "reserve", "persist"}
      /\ at[w].pc \in Reading /\ at[w].pc \in Paying
    BY DEF CreateRejected, Position, Reading, Paying, HoldsBatch
<1> QED
    BY <1>1, GotoStep DEF CreateRejected

LEMMA PublishInputsInv ==
    ASSUME Inv, NEW w \in Workers, PublishInputs(w)
    PROVE  Inv'
<1> DEFINE row == [batch EXCEPT !.input = at[w].ref]
<1>1. CASE Leased(w) /\ batch' = row /\ Holding(w, row, "submit")
    <2>1. at[w].ref \in DOMAIN uploads /\ batch.status # "none"
        BY <1>1, Types, LeasedExists DEF PublishInputs, WorkerRefs, Leased
    <2>2. at[w].ref \in 0..MaxUploads
        BY <2>1, ProviderBoundAssumption DEF Inv, TypeOK
    <2>3. row \in BatchRow /\ row.status # "none" /\ Unpaid(batch, row)
        BY <2>1, <2>2, Types DEF BatchRow, Unpaid
    <2>4. row.input = at[w].ref /\ row.clean = batch.clean /\ row.cleaned = batch.cleaned
        BY <2>2, Types DEF BatchRow
    <2> HIDE DEF row
    <2>5. BatchRefs(row)
        BY <2>1, <2>3, <2>4, Types DEF BatchRefs
    <2>6. "submit" \in Position \ {"checkpoint", "reserve", "persist", "create", "rejected"}
        BY DEF Position
    <2> QED
        BY <1>1, <2>3, <2>5, <2>6, HoldingStep DEF Unpaid, PublishInputs
<1>2. CASE batch' = batch /\ Stop(w, "raise")
    BY <1>2, StopOnly DEF PublishInputs
<1> QED
    BY <1>1, <1>2 DEF PublishInputs

\* record_submission, after an answer or after a search for the job.
LEMMA RecordInv ==
    ASSUME Inv, NEW w \in Workers, NEW j \in Nat,
           NEW pc \in {"release", "collect", "source"}, Record(w, j, pc),
           UNCHANGED <<current, phase, work, uploads, jobs, late>>
    PROVE  Inv'
<1> DEFINE row == Recorded(w, j)
<1>1. CASE MayRecord(w) /\ batch' = row /\ Holding(w, row, pc)
    <2>1. batch.status # "none"
        BY <1>1 DEF MayRecord
    <2>2. row \in BatchRow /\ Unpaid(batch, row) /\ SameRefs(batch, row)
        BY <2>1, Types, RecordedRow DEF Recorded
    <2>3. BatchRefs(row) /\ row.status # "none"
        BY <2>2, Types, SameRefsKeep DEF SameRefs
    <2> HIDE DEF row
    <2>4. pc \in Position \ {"checkpoint", "reserve", "persist", "create", "rejected"}
        BY DEF Position
    <2> QED
        BY <1>1, <2>2, <2>3, <2>4, HoldingStep DEF Unpaid
<1>2. CASE batch' = batch /\ Stop(w, "raise")
    BY <1>2, StopOnly
<1> QED
    BY <1>1, <1>2 DEF Record

LEMMA RecordSubmissionInv ==
    ASSUME Inv, NEW w \in Workers, RecordSubmission(w)
    PROVE  Inv'
<1>1. AfterSubmission(w) \in {"release", "collect", "source"}
    BY DEF AfterSubmission
<1>2. at[w].ref \in Nat
    BY Types DEF WorkerState
<1> QED
    BY <1>1, <1>2, RecordInv DEF RecordSubmission

LEMMA JobFoundInv ==
    ASSUME Inv, NEW w \in Workers, NEW j \in DOMAIN jobs, JobFound(w, j)
    PROVE  Inv'
<1>1. j \in Nat
    BY DEF Inv, TypeOK
<1>2. PICK pc \in {"release", "source"} : Record(w, j, pc)
    BY DEF JobFound
<1> QED
    BY <1>1, <1>2, RecordInv DEF JobFound

LEMMA JobNotFoundInv ==
    ASSUME Inv, NEW w \in Workers, JobNotFound(w)
    PROVE  Inv'
<1>1. PICK pc \in {"raise", "release"} : Stop(w, pc)
    BY DEF JobNotFound
<1> QED
    BY <1>1, StopOnly DEF JobNotFound

----------------------------------------------------------------------------
(* Quiet steps of the collector and the cleaner.                           *)

\* The batch is claimed as it stands.
LEMMA ClaimedInv ==
    ASSUME Inv, NEW w \in Workers, NEW pc \in {"advance", "clean"},
           BatchFree, batch' = ClaimedBatch(w), Holding(w, ClaimedBatch(w), pc),
           pc = "clean" => batch.clean # NoInput,
           UNCHANGED <<current, phase, work, uploads, jobs, late>>
    PROVE  Inv'
<1> DEFINE row == ClaimedBatch(w)
<1>1. row \in BatchRow /\ Unpaid(batch, row) /\ SameRefs(batch, row)
    BY Types, LeaseChange DEF ClaimedBatch, BatchFree
<1>2. BatchRefs(row) /\ row.status # "none" /\ row.clean = batch.clean
    BY <1>1, Types, SameRefsKeep DEF SameRefs
<1>3. batch' = row /\ Holding(w, row, pc)
    OBVIOUS
<1> HIDE DEF row
<1>4. pc \in Position \ {"checkpoint", "reserve", "persist", "create", "rejected"}
    BY DEF Position
<1> QED
    BY <1>1, <1>2, <1>3, <1>4, HoldingStep DEF Unpaid

LEMMA ClaimDueBatchInv ==
    ASSUME Inv, NEW w \in Workers, ClaimDueBatch(w)
    PROVE  Inv'
BY ClaimedInv DEF ClaimDueBatch

LEMMA ClaimCleanupInv ==
    ASSUME Inv, NEW w \in Workers, ClaimCleanup(w)
    PROVE  Inv'
<1>1. batch.clean # NoInput
    BY Types DEF ClaimCleanup, CleanupDue, BatchRefs
<1> QED
    BY <1>1, ClaimedInv DEF ClaimCleanup

LEMMA SourceStandsInv ==
    ASSUME Inv, NEW w \in Workers, SourceStands(w)
    PROVE  Inv'
<1>1. PICK pc \in {"retry", "refresh", "collect"} : Goto(w, pc)
    BY DEF SourceStands
<1>2. /\ pc \in Position \ {"clean", "checkpoint", "reserve", "persist"}
      /\ pc \notin Paying /\ at[w].pc \in Reading
    BY DEF SourceStands, Advancing, Position, Reading, Paying, HoldsBatch
<1> QED
    BY <1>1, <1>2, GotoStep DEF SourceStands

\* A turn that ends with a new status, or none.
LEMMA FailedStop ==
    ASSUME Inv, NEW w \in Workers, NEW pc \in {"release", "raise"}, Stop(w, pc),
           NEW done \in SUBSET Requests,
           NEW st \in {"preparing", "submitted", "retry", "complete", "failed"},
           \/ batch' = batch
           \/ /\ Leased(w)
              /\ \/ batch' = [batch EXCEPT !.status = st]
                 \/ batch' = [batch EXCEPT !.done = done, !.status = st],
           UNCHANGED <<current, phase, work, uploads, jobs, late>>
    PROVE  Inv'
<1>1. CASE batch' = batch
    BY <1>1, StopOnly
<1>2. CASE batch' # batch
    <2>1. batch.status # "none"
        BY <1>2, LeasedExists DEF Leased
    <2>2. batch' \in BatchRow /\ SameRefs(batch, batch') /\ Unpaid(batch, batch')
        <3>1. CASE batch' = [batch EXCEPT !.status = st]
            BY <2>1, <3>1, Types, StatusChange
        <3>2. CASE batch' = [batch EXCEPT !.done = done, !.status = st]
            BY <2>1, <3>2, Types, StatusChange
        <3> QED
            BY <1>2, <3>1, <3>2
    <2>3. BatchRefs(batch')
        BY <2>2, Types, SameRefsKeep
    <2> QED
        BY <2>2, <2>3, Types, StopStep DEF Unpaid
<1> QED
    BY <1>1, <1>2

LEMMA AbandonBatchInv ==
    ASSUME Inv, NEW w \in Workers, AbandonBatch(w)
    PROVE  Inv'
<1>1. \/ batch' = batch
      \/ Leased(w) /\ batch' = [batch EXCEPT !.status = "failed"]
    BY DEF AbandonBatch
<1> QED
    BY <1>1, FailedStop DEF AbandonBatch

LEMMA JobRunsInv ==
    ASSUME Inv, NEW w \in Workers, JobRuns(w)
    PROVE  Inv'
BY StopOnly DEF JobRuns

LEMMA ReadOutputInv ==
    ASSUME Inv, NEW w \in Workers, ReadOutput(w)
    PROVE  Inv'
<1>1. ASSUME NEW got \in SUBSET uploads[at[w].row.input].todo,
             at' = [at EXCEPT ![w] = [@ EXCEPT !.pc = "publish", !.got = got]]
      PROVE  Inv'
    <2> DEFINE s == [at[w] EXCEPT !.pc = "publish", !.got = got]
    <2>1. at[w] \in WorkerState /\ at[w].row.input \in DOMAIN uploads
          /\ at[w].row.status # "none"
        BY Types DEF ReadOutput, WorkerRefs, Reading, HoldsBatch
    <2>2. got \in SUBSET Requests
        <3>1. uploads[at[w].row.input] \in Upload
            BY <2>1 DEF Inv, TypeOK
        <3> QED
            BY <3>1 DEF Upload
    <2>3. s \in WorkerState /\ s.pc = "publish" /\ s.row = at[w].row
        BY <2>1, <2>2 DEF WorkerState, Position
    <2>4. at' = [at EXCEPT ![w] = s]
        BY <1>1
    <2> HIDE DEF s
    <2>5. WorkerRefs(s) /\ s.pc \notin Paying
        BY <2>1, <2>3 DEF WorkerRefs, Paying
    <2> QED
        BY <2>3, <2>4, <2>5, Types, QuietStep DEF ReadOutput
<1>2. CASE Stop(w, "raise")
    BY <1>2, StopOnly DEF ReadOutput
<1> QED
    BY <1>1, <1>2 DEF ReadOutput

LEMMA PublishResultInv ==
    ASSUME Inv, NEW w \in Workers, PublishResult(w)
    PROVE  Inv'
<1> DEFINE done == Results(w)
           st == Outcome(Results(w), at[w].row.attempt)
<1>1. done \in SUBSET Requests
    BY Types DEF Results, WorkerState
<1>2. st \in {"preparing", "submitted", "retry", "complete", "failed"}
    BY DEF Outcome
<1>3. CASE Leased(w) /\ batch' = [batch EXCEPT !.done = done, !.status = st] /\ Stop(w, "release")
    <2> HIDE DEF done, st
    <2> QED
        BY <1>1, <1>2, <1>3, FailedStop DEF PublishResult
<1>4. CASE batch' = batch /\ Stop(w, "raise")
    BY <1>4, StopOnly DEF PublishResult
<1> QED
    BY <1>3, <1>4 DEF PublishResult

LEMMA CheckpointCleanupInv ==
    ASSUME Inv, NEW w \in Workers, CheckpointCleanup(w)
    PROVE  Inv'
<1> DEFINE row == [batch EXCEPT !.clean = at[w].ref, !.cleaned = (at[w].ref = NoInput)]
<1>1. CASE Leased(w) /\ batch' = row /\ Stop(w, "release")
    <2>1. at[w].ref \in {NoInput} \cup DOMAIN uploads /\ batch.status # "none"
        BY <1>1, Types, LeasedExists DEF CheckpointCleanup, WorkerRefs, Leased
    <2>2. at[w].ref \in -1..MaxUploads
        BY <2>1, ProviderBoundAssumption DEF Inv, TypeOK, NoInput
    <2>3. /\ row \in BatchRow /\ row.status = batch.status /\ Unpaid(batch, row)
          /\ row.input = batch.input /\ row.clean = at[w].ref
          /\ row.cleaned = (at[w].ref = NoInput)
        BY <2>2, Types DEF BatchRow, Unpaid
    <2> HIDE DEF row
    <2>4. BatchRefs(row)
        BY <2>1, <2>3, Types DEF BatchRefs
    <2> QED
        BY <1>1, <2>3, <2>4, Types, StopStep DEF CheckpointCleanup, Unpaid
<1>2. CASE batch' = batch /\ Stop(w, "raise")
    BY <1>2, StopOnly DEF CheckpointCleanup
<1> QED
    BY <1>1, <1>2 DEF CheckpointCleanup

LEMMA ReleaseInv ==
    ASSUME Inv, NEW w \in Workers, Release(w)
    PROVE  Inv'
<1>1. /\ batch' \in BatchRow /\ BatchRefs(batch') /\ Unpaid(batch, batch')
    <2>1. CASE batch.token = w
        <3>1. batch.status # "none"
            BY <2>1, LeasedExists
        <3>2. batch' = [batch EXCEPT !.token = NoWorker, !.live = FALSE]
            BY <2>1 DEF Release
        <3>3. batch' \in BatchRow /\ Unpaid(batch, batch') /\ SameRefs(batch, batch')
            BY <3>1, <3>2, Types, LeaseChange
        <3> QED
            BY <3>3, Types, SameRefsKeep
    <2>2. CASE batch.token # w
        BY <2>2, Types DEF Release, Unpaid
    <2> QED
        BY <2>1, <2>2
<1>2. CASE at' = [at EXCEPT ![w] = Idle]
    <2>1. WorkerRefs(Idle) /\ Idle.pc \notin Paying
        BY DEF Idle, WorkerRefs, Reading, HoldsBatch, Paying
    <2> QED
        BY <1>1, <1>2, <2>1, IdleType, Types, QuietStep DEF Release, Unpaid
<1>3. ASSUME NEW pc \in {"seal", "failing"}, Stop(w, pc)
      PROVE  Inv'
    BY <1>1, <1>3, Types, StopStep DEF Release, Unpaid
<1> QED
    BY <1>2, <1>3 DEF Release

LEMMA IOFailsInv ==
    ASSUME Inv, NEW w \in Workers, IOFails(w)
    PROVE  Inv'
<1>1. PICK pc \in {"raise", "failing"} : Stop(w, pc)
    BY DEF IOFails
<1> QED
    BY <1>1, StopOnly DEF IOFails

----------------------------------------------------------------------------
(* Payments.                                                               *)

\* submit_batch commits the marker: no payment of this attempt can exist,
\* because a payment of it would be covered by the marker that is not set.
LEMMA StartSubmissionInv ==
    ASSUME Inv, NEW w \in Workers, StartSubmission(w)
    PROVE  Inv'
<1> DEFINE row == [batch EXCEPT !.started = TRUE]
           s == [at[w] EXCEPT !.pc = "create", !.row = row, !.ref = 0]
<1>1. CASE MayStart(w) /\ batch' = row /\ Holding(w, row, "create")
    <2>1. batch.status = "preparing" /\ ~batch.started
        BY <1>1 DEF MayStart
    <2>2. /\ row \in BatchRow /\ row.attempt = batch.attempt /\ row.started
          /\ SameRefs(batch, row)
        BY <2>1, Types DEF BatchRow, SameRefs
    <2>3. BatchRefs(row) /\ row.status # "none" /\ row.input \in DOMAIN uploads
        BY <2>2, Types, SameRefsKeep DEF SameRefs, BatchRefs
    <2> HIDE DEF row
    <2>4. s \in WorkerState /\ s.pc = "create" /\ s.row = row
        BY <2>2, Types DEF WorkerState, Position
    <2>5. at' = [at EXCEPT ![w] = s]
        BY <1>1 DEF Holding
    <2>6. UNCHANGED <<current, phase, work, uploads, jobs, late>>
        BY DEF StartSubmission
    <2> HIDE DEF s
    <2>7. /\ at' \in [Workers -> WorkerState] /\ at'[w] = s
          /\ \A x \in Workers : x # w => at'[x] = at[x]
        BY <2>4, <2>5 DEF Inv, TypeOK
    <2>8. TypeOK'
        BY <1>1, <2>2, <2>6, <2>7 DEF Inv, TypeOK
    <2>9. Refs'
        <3>1. WorkerRefs(s)
            BY <2>3, <2>4 DEF WorkerRefs
        <3>2. \A x \in Workers : WorkerRefs(at'[x])
            BY <2>7, <3>1, Types
        <3> QED
            BY <1>1, <2>3, <2>6, <3>2 DEF Inv, Refs, BatchRefs, WorkerRefs
    <2>10. /\ \A j \in DOMAIN jobs : jobs[j].attempt # batch.attempt
           /\ \A r \in late : r.attempt # batch.attempt
           /\ \A x \in Workers : at[x].pc \in Paying => at[x].row.attempt # batch.attempt
        BY <2>1 DEF Inv, Paid, AllCovered, Covered
    <2>11. /\ at'[w].row.attempt = batch.attempt
           /\ batch'.attempt = batch.attempt /\ batch'.started
        BY <1>1, <2>2, <2>4, <2>7
    <2>12. batch.attempt \in Int
        BY Types, ProviderBoundAssumption DEF BatchRow
    <2>13. AllCovered'
        BY <2>6, <2>7, <2>11, <2>12 DEF Inv, Paid, AllCovered, Covered
    <2>14. Unique'
        BY <2>6, <2>7, <2>10, <2>11 DEF Inv, Paid, Unique
    <2> QED
        BY <2>8, <2>9, <2>13, <2>14 DEF Inv, Paid
<1>2. CASE batch' = batch /\ Stop(w, "raise")
    BY <1>2, StopOnly DEF StartSubmission
<1> QED
    BY <1>1, <1>2 DEF StartSubmission

\* The request of a worker that is paying.
LEMMA RequestType ==
    ASSUME Inv, NEW w \in Workers, at[w].pc = "create"
    PROVE  Request(w) \in Create /\ Request(w).attempt = at[w].row.attempt
<1>1. at[w].row \in BatchRow /\ at[w].row.input \in DOMAIN uploads
    BY Types DEF WorkerState, WorkerRefs, Reading, HoldsBatch
<1>2. at[w].row.attempt \in 1..MaxRequestAttempts
    BY <1>1 DEF BatchRow
<1>3. at[w].row.input \in 1..MaxUploads
    BY <1>1, ProviderBoundAssumption DEF Inv, TypeOK
<1> QED
    BY <1>2, <1>3 DEF Request, Create

\* A job for request r: what an appended sequence holds.
LEMMA NewJobFacts ==
    ASSUME Inv, NEW r \in Create, NewJob(r)
    PROVE  /\ jobs' \in Seq(Job)
           /\ DOMAIN jobs' = DOMAIN jobs \cup {Len(jobs) + 1}
           /\ \A j \in DOMAIN jobs : jobs'[j] = jobs[j] /\ j # Len(jobs) + 1
           /\ jobs'[Len(jobs) + 1].attempt = r.attempt
<1> DEFINE job == [attempt |-> r.attempt, input |-> r.input, ended |-> FALSE]
<1>1. job \in Job /\ job.attempt = r.attempt
    BY DEF Job, Create
<1>2. jobs' = Append(jobs, job) /\ jobs \in Seq(Job)
    BY DEF NewJob, Inv, TypeOK
<1> HIDE DEF job
<1> QED
    BY <1>1, <1>2

\* The provider accepts: the payer's payment becomes the job's.
LEMMA CreateAcceptedInv ==
    ASSUME Inv, NEW w \in Workers, CreateAccepted(w)
    PROVE  Inv'
<1> DEFINE s == [at[w] EXCEPT !.pc = "created", !.ref = Len(jobs) + 1]
           n == Len(jobs) + 1
<1>1. /\ Request(w) \in Create /\ Request(w).attempt = at[w].row.attempt
      /\ NewJob(Request(w)) /\ at[w].pc = "create"
    BY RequestType DEF CreateAccepted
<1>2. /\ jobs' \in Seq(Job)
      /\ DOMAIN jobs' = DOMAIN jobs \cup {n}
      /\ \A j \in DOMAIN jobs : jobs'[j] = jobs[j] /\ j # n
      /\ jobs'[n].attempt = at[w].row.attempt
    BY <1>1, NewJobFacts
<1>3. n \in Nat
    BY DEF Inv, TypeOK
<1>4. s \in WorkerState /\ s.pc = "created" /\ s.row = at[w].row
    BY <1>3, Types DEF WorkerState, Position
<1>5. at' = [at EXCEPT ![w] = s] /\ UNCHANGED <<current, phase, work, batch, uploads, late>>
    BY DEF CreateAccepted
<1> HIDE DEF s, n
<1>6. /\ at' \in [Workers -> WorkerState] /\ at'[w] = s
      /\ \A x \in Workers : x # w => at'[x] = at[x]
    BY <1>4, <1>5 DEF Inv, TypeOK
<1>7. TypeOK'
    BY <1>2, <1>5, <1>6 DEF Inv, TypeOK
<1>8. Refs'
    <2>1. WorkerRefs(s)
        BY <1>1, <1>4, Types DEF WorkerRefs, Reading, HoldsBatch
    <2>2. \A x \in Workers : WorkerRefs(at'[x])
        BY <1>6, <2>1, Types
    <2> QED
        BY <1>5, <2>2 DEF Inv, Refs, BatchRefs, WorkerRefs
<1>9. at[w].pc \in Paying /\ at'[w].pc \notin Paying
    BY <1>1, <1>4, <1>6 DEF Paying
<1>10. AllCovered'
    BY <1>2, <1>5, <1>6, <1>9 DEF Inv, Paid, AllCovered, Covered
<1>11. Unique'
    BY <1>2, <1>5, <1>6, <1>9 DEF Inv, Paid, Unique
<1> QED
    BY <1>7, <1>8, <1>10, <1>11 DEF Inv, Paid

\* A request in flight arrives: its payment becomes the job's.
LEMMA LateCreateInv ==
    ASSUME Inv, NEW r \in late, LateCreate(r)
    PROVE  Inv'
<1> DEFINE n == Len(jobs) + 1
<1>1. r \in Create /\ NewJob(r) /\ late' = late \ {r}
      /\ UNCHANGED <<current, phase, work, batch, uploads, at>>
    BY DEF LateCreate, Inv, TypeOK
<1>2. /\ jobs' \in Seq(Job)
      /\ DOMAIN jobs' = DOMAIN jobs \cup {n}
      /\ \A j \in DOMAIN jobs : jobs'[j] = jobs[j] /\ j # n
      /\ jobs'[n].attempt = r.attempt
    BY <1>1, NewJobFacts
<1> HIDE DEF n
<1>3. TypeOK'
    BY <1>1, <1>2 DEF Inv, TypeOK
<1>4. Refs'
    BY <1>1 DEF Inv, Refs, BatchRefs, WorkerRefs
<1>5. AllCovered'
    BY <1>1, <1>2 DEF Inv, Paid, AllCovered, Covered
<1>6. Unique'
    BY <1>1, <1>2 DEF Inv, Paid, Unique
<1> QED
    BY <1>3, <1>4, <1>5, <1>6 DEF Inv, Paid

\* Nobody waits any longer: the payer's request is lost or stays in flight.
LEMMA PayerLeaves ==
    ASSUME Inv, NEW w \in Workers, NEW s \in WorkerState,
           at' = [at EXCEPT ![w] = s], s.pc \in {"idle", "raise"},
           \/ late' = late
           \/ at[w].pc = "create" /\ late' = late \cup {Request(w)},
           UNCHANGED <<current, phase, work, batch, uploads, jobs>>
    PROVE  Inv'
<1>1. /\ at' \in [Workers -> WorkerState] /\ at'[w] = s
      /\ \A x \in Workers : x # w => at'[x] = at[x]
    BY DEF Inv, TypeOK
<1>2. at'[w].pc \notin Paying /\ WorkerRefs(s)
    BY <1>1 DEF Paying, WorkerRefs, Reading, HoldsBatch
<1>3. at[w].pc = "create" => Request(w) \in Create /\ Request(w).attempt = at[w].row.attempt
    BY RequestType
<1>4. at[w].pc = "create" => at[w].pc \in Paying
    BY DEF Paying
<1>5. late' \subseteq Create
    BY <1>3 DEF Inv, TypeOK
<1>6. TypeOK'
    BY <1>1, <1>5 DEF Inv, TypeOK
<1>7. Refs'
    <2>1. \A x \in Workers : WorkerRefs(at'[x])
        BY <1>1, <1>2, Types
    <2> QED
        BY <2>1 DEF Inv, Refs, BatchRefs, WorkerRefs
<1>8. AllCovered'
    BY <1>1, <1>2, <1>3, <1>4 DEF Inv, Paid, AllCovered, Covered
<1>9. Unique'
    BY <1>1, <1>2, <1>3, <1>4 DEF Inv, Paid, Unique
<1> QED
    BY <1>6, <1>7, <1>8, <1>9 DEF Inv, Paid

LEMMA CreateAmbiguousInv ==
    ASSUME Inv, NEW w \in Workers, CreateAmbiguous(w)
    PROVE  Inv'
<1> DEFINE s == [Idle EXCEPT !.pc = "raise", !.prep = at[w].prep]
<1>1. "raise" \in Position
    BY DEF Position
<1>2. s \in WorkerState /\ s.pc = "raise"
    BY <1>1, Types, StopState
<1>3. at' = [at EXCEPT ![w] = s]
    BY DEF CreateAmbiguous, Stop
<1> HIDE DEF s
<1> QED
    BY <1>2, <1>3, PayerLeaves DEF CreateAmbiguous

LEMMA CrashInv ==
    ASSUME Inv, NEW w \in Workers, Crash(w)
    PROVE  Inv'
<1>1. Idle \in WorkerState /\ Idle.pc = "idle"
    BY IdleType DEF Idle
<1>2. late' = late \/ (at[w].pc = "create" /\ late' = late \cup {Request(w)})
    BY DEF Crash
<1> QED
    BY <1>1, <1>2, PayerLeaves DEF Crash

\* An explicit rejection: the one payment of the attempt is this worker's own,
\* so that the marker may be taken back.
LEMMA ClearMarkerInv ==
    ASSUME Inv, NEW w \in Workers, ClearMarker(w)
    PROVE  Inv'
<1> DEFINE row == [batch EXCEPT !.started = FALSE]
           s == [Idle EXCEPT !.pc = "raise", !.prep = at[w].prep]
<1>1. CASE MayClear(w)
    <2>1. batch.attempt = at[w].row.attempt /\ batch.status # "none" /\ batch' = row
        BY <1>1, LeasedExists DEF MayClear, Leased, ClearMarker
    <2>2. row \in BatchRow /\ row.attempt = batch.attempt /\ SameRefs(batch, row)
        BY <2>1, Types DEF BatchRow, SameRefs
    <2>3. BatchRefs(row)
        BY <2>2, Types, SameRefsKeep
    <2> HIDE DEF row
    <2>4. s \in WorkerState /\ s.pc = "raise"
        <3>1. "raise" \in Position
            BY DEF Position
        <3> QED
            BY <3>1, Types, StopState
    <2>5. at' = [at EXCEPT ![w] = s] /\ UNCHANGED <<current, phase, work, uploads, jobs, late>>
        BY DEF ClearMarker, Stop
    <2> HIDE DEF s
    <2>6. /\ at' \in [Workers -> WorkerState] /\ at'[w] = s
          /\ \A x \in Workers : x # w => at'[x] = at[x]
        BY <2>4, <2>5 DEF Inv, TypeOK
    <2>7. at[w].pc \in Paying /\ at'[w].pc \notin Paying /\ WorkerRefs(s)
        BY <2>4, <2>6 DEF ClearMarker, Paying, WorkerRefs, Reading, HoldsBatch
    <2>8. TypeOK'
        BY <2>1, <2>2, <2>5, <2>6 DEF Inv, TypeOK
    <2>9. Refs'
        <3>1. \A x \in Workers : WorkerRefs(at'[x])
            BY <2>6, <2>7, Types
        <3> QED
            BY <2>1, <2>3, <2>5, <3>1 DEF Inv, Refs, BatchRefs, WorkerRefs
    <2>10. /\ \A j \in DOMAIN jobs : jobs[j].attempt # batch.attempt
           /\ \A r \in late : r.attempt # batch.attempt
           /\ \A x \in Workers : x # w /\ at[x].pc \in Paying
                                 => at[x].row.attempt # batch.attempt
        BY <2>1, <2>7 DEF Inv, Paid, Unique
    <2>11. AllCovered'
        BY <2>1, <2>2, <2>5, <2>6, <2>7, <2>10 DEF Inv, Paid, AllCovered, Covered
    <2>12. Unique'
        BY <2>5, <2>6, <2>7 DEF Inv, Paid, Unique
    <2> QED
        BY <2>8, <2>9, <2>11, <2>12 DEF Inv, Paid
<1>2. CASE ~MayClear(w)
    BY <1>2, StopOnly DEF ClearMarker
<1> QED
    BY <1>1, <1>2

LEMMA JobChange ==
    ASSUME Inv, NEW x \in DOMAIN jobs, NEW job \in Job, jobs' = [jobs EXCEPT ![x] = job]
    PROVE  /\ jobs' \in Seq(Job) /\ Len(jobs') = Len(jobs)
           /\ \A k \in 1..Len(jobs) : jobs'[k] = IF k = x THEN job ELSE jobs[k]
<1>1. jobs \in Seq(Job) /\ DOMAIN jobs = 1..Len(jobs)
    BY DEF Inv, TypeOK
<1> QED
    BY <1>1, ExceptSeq

\* A job that ends or is cancelled stays a job of its attempt.
LEMMA EndedJobFacts ==
    ASSUME Inv, NEW x \in DOMAIN jobs, jobs' = [jobs EXCEPT ![x].ended = TRUE]
    PROVE  /\ jobs' \in Seq(Job) /\ DOMAIN jobs' = DOMAIN jobs
           /\ \A k \in DOMAIN jobs : jobs'[k].attempt = jobs[k].attempt
<1> DEFINE job == [jobs[x] EXCEPT !.ended = TRUE]
<1>1. jobs \in Seq(Job) /\ DOMAIN jobs = 1..Len(jobs)
    BY DEF Inv, TypeOK
<1>2. jobs[x] \in Job
    BY <1>1
<1>3. job \in Job /\ job.attempt = jobs[x].attempt
    BY <1>2 DEF Job
<1>4. jobs' = [jobs EXCEPT ![x] = job]
    OBVIOUS
<1> HIDE DEF job
<1>5. /\ jobs' \in Seq(Job) /\ Len(jobs') = Len(jobs)
      /\ \A k \in 1..Len(jobs) : jobs'[k] = IF k = x THEN job ELSE jobs[k]
    BY <1>3, <1>4, JobChange
<1> QED
    BY <1>1, <1>3, <1>5

\* A job that is not there cannot be ended.
LEMMA NoJobEnds ==
    ASSUME Inv, NEW x, x \notin DOMAIN jobs, jobs' = [jobs EXCEPT ![x].ended = TRUE]
    PROVE  jobs' = jobs
<1>1. jobs = [k \in DOMAIN jobs |-> jobs[k]]
    BY DEF Inv, TypeOK
<1>2. jobs' = [k \in DOMAIN jobs |-> jobs[k]]
    BY <1>1, Zenon
<1> QED
    BY <1>1, <1>2

LEMMA JobsKeepPaid ==
    ASSUME Inv, jobs' \in Seq(Job), DOMAIN jobs' = DOMAIN jobs,
           \A k \in DOMAIN jobs : jobs'[k].attempt = jobs[k].attempt,
           at' \in [Workers -> WorkerState],
           \A x \in Workers : at'[x] = at[x] \/ at'[x].pc = "release",
           UNCHANGED <<current, phase, work, batch, uploads, late>>
    PROVE  Inv'
<1>1. TypeOK'
    BY DEF Inv, TypeOK
<1>2. Refs'
    <2>1. ASSUME NEW x \in Workers PROVE WorkerRefs(at'[x])
        BY Types DEF WorkerRefs, Reading, HoldsBatch
    <2> QED
        BY <2>1 DEF Inv, Refs, BatchRefs, WorkerRefs
<1>3. \A x \in Workers : at'[x].pc \in Paying => at'[x] = at[x]
    BY DEF Paying
<1>4. AllCovered'
    BY <1>3 DEF Inv, Paid, AllCovered, Covered
<1>5. Unique'
    BY <1>3 DEF Inv, Paid, Unique
<1> QED
    BY <1>1, <1>2, <1>4, <1>5 DEF Inv, Paid

LEMMA CancelJobInv ==
    ASSUME Inv, NEW w \in Workers, CancelJob(w)
    PROVE  Inv'
<1>1. CASE jobs' = jobs
    BY <1>1, StopOnly DEF CancelJob
<1>2. CASE jobs' = [jobs EXCEPT ![at[w].row.job].ended = TRUE] /\ at[w].row.job \in DOMAIN jobs
    <2> DEFINE s == [Idle EXCEPT !.pc = "release", !.prep = at[w].prep]
    <2>1. "release" \in Position
        BY DEF Position
    <2>2. s \in WorkerState /\ s.pc = "release"
        BY <2>1, Types, StopState
    <2>3. at' = [at EXCEPT ![w] = s]
        BY DEF CancelJob, Stop
    <2> HIDE DEF s
    <2>4. /\ at' \in [Workers -> WorkerState]
          /\ \A x \in Workers : at'[x] = at[x] \/ at'[x].pc = "release"
        BY <2>2, <2>3 DEF Inv, TypeOK
    <2>5. UNCHANGED <<current, phase, work, batch, uploads, late>>
        BY DEF CancelJob
    <2>6. /\ jobs' \in Seq(Job) /\ DOMAIN jobs' = DOMAIN jobs
          /\ \A k \in DOMAIN jobs : jobs'[k].attempt = jobs[k].attempt
        BY <1>2, EndedJobFacts
    <2> QED
        BY <2>4, <2>5, <2>6, JobsKeepPaid
<1> QED
    BY <1>1, <1>2, NoJobEnds DEF CancelJob

LEMMA JobEndsInv ==
    ASSUME Inv, NEW j \in DOMAIN jobs, JobEnds(j)
    PROVE  Inv'
<1>1. jobs' = [jobs EXCEPT ![j].ended = TRUE]
      /\ UNCHANGED <<current, phase, work, batch, uploads, late, at>>
    BY DEF JobEnds
<1>2. /\ jobs' \in Seq(Job) /\ DOMAIN jobs' = DOMAIN jobs
      /\ \A k \in DOMAIN jobs : jobs'[k].attempt = jobs[k].attempt
    BY <1>1, EndedJobFacts
<1>3. at' \in [Workers -> WorkerState] /\ \A x \in Workers : at'[x] = at[x]
    BY <1>1 DEF Inv, TypeOK
<1> QED
    BY <1>1, <1>2, <1>3, JobsKeepPaid

\* reserve_retry opens an attempt for which nothing can have been paid: all
\* payments are for attempts up to the one that ends.
LEMMA ReserveRetryInv ==
    ASSUME Inv, NEW w \in Workers, ReserveRetry(w)
    PROVE  Inv'
<1> DEFINE mid == [batch EXCEPT !.status = "preparing", !.attempt = @ + 1]
           next == [mid EXCEPT !.job = NoJob, !.started = FALSE]
           s == [at[w] EXCEPT !.pc = "refresh", !.row = next, !.ref = 0]
<1>1. CASE /\ Leased(w) /\ batch.status = "retry" /\ batch.attempt < MaxRequestAttempts
           /\ batch' = next /\ Holding(w, next, "refresh")
    <2>1. batch.attempt \in 1..MaxRequestAttempts /\ batch.attempt + 1 \in 1..MaxRequestAttempts
        BY <1>1, Types, ProviderBoundAssumption DEF BatchRow
    <2>2. mid \in BatchRow /\ mid.attempt = batch.attempt + 1 /\ SameRefs(batch, mid)
        BY <1>1, <2>1, Types DEF BatchRow, SameRefs
    <2>3. batch' = next /\ at' = [at EXCEPT ![w] = s]
        BY <1>1 DEF Holding
    <2> HIDE DEF mid
    <2>4. next \in BatchRow /\ next.attempt = mid.attempt /\ SameRefs(mid, next)
        BY <2>2 DEF BatchRow, NoJob, SameRefs
    <2>5. BatchRefs(next) /\ next.status # "none" /\ next.input \in DOMAIN uploads
        <3>1. BatchRefs(mid)
            BY <2>2, Types, SameRefsKeep
        <3>2. BatchRefs(next)
            BY <2>4, <3>1, SameRefsKeep
        <3> QED
            BY <2>4, <3>2 DEF SameRefs, BatchRefs
    <2> HIDE DEF next
    <2>6. s \in WorkerState /\ s.pc = "refresh" /\ s.row = next
        BY <2>4, Types DEF WorkerState, Position
    <2> HIDE DEF s
    <2>7. UNCHANGED <<current, phase, work, uploads, jobs, late>>
        BY DEF ReserveRetry
    <2>8. /\ at' \in [Workers -> WorkerState] /\ at'[w] = s
          /\ \A x \in Workers : x # w => at'[x] = at[x]
        BY <2>3, <2>6 DEF Inv, TypeOK
    <2>9. at'[w].pc \notin Paying /\ WorkerRefs(s)
        BY <2>5, <2>6, <2>8 DEF Paying, WorkerRefs
    <2>10. TypeOK'
        BY <2>3, <2>4, <2>7, <2>8 DEF Inv, TypeOK
    <2>11. Refs'
        <3>1. \A x \in Workers : WorkerRefs(at'[x])
            BY <2>8, <2>9, Types
        <3> QED
            BY <2>3, <2>5, <2>7, <3>1 DEF Inv, Refs, BatchRefs, WorkerRefs
    <2>12. /\ \A j \in DOMAIN jobs : jobs[j].attempt \in Int
           /\ \A r \in late : r.attempt \in Int
           /\ \A x \in Workers : at[x].row.attempt \in Int
        <3>1. \A j \in DOMAIN jobs : jobs[j] \in Job
            BY DEF Inv, TypeOK
        <3>2. \A r \in late : r \in Create
            BY DEF Inv, TypeOK
        <3>3. \A x \in Workers : at[x].row \in BatchRow
            BY Types DEF WorkerState
        <3> QED
            BY <3>1, <3>2, <3>3, ProviderBoundAssumption DEF Job, Create, BatchRow
    <2>13. batch'.attempt = batch.attempt + 1
        BY <2>2, <2>3, <2>4
    <2>14. ASSUME NEW a \in Int, Covered(a) PROVE Covered(a)'
        BY <2>1, <2>13, <2>14, ProviderBoundAssumption DEF Covered
    <2>15. AllCovered'
        BY <2>7, <2>8, <2>9, <2>12, <2>14 DEF Inv, Paid, AllCovered
    <2>16. Unique'
        BY <2>7, <2>8, <2>9 DEF Inv, Paid, Unique
    <2> QED
        BY <2>10, <2>11, <2>15, <2>16 DEF Inv, Paid
<1>2. CASE /\ Stop(w, "release")
           /\ \/ batch' = batch
              \/ Leased(w) /\ batch' = [batch EXCEPT !.status = "failed"]
    BY <1>2, FailedStop DEF ReserveRetry
<1>3. CASE batch' = batch /\ Stop(w, "raise")
    BY <1>3, StopOnly DEF ReserveRetry
<1> QED
    BY <1>1, <1>2, <1>3 DEF ReserveRetry

----------------------------------------------------------------------------
(* Uploads.                                                                *)

\* More uploads leave every reference good and no payment changed.
LEMMA UploadStep ==
    ASSUME Inv, NEW w \in Workers, NEW s \in WorkerState,
           at' = [at EXCEPT ![w] = s],
           uploads' \in Seq(Upload), Len(uploads') <= MaxUploads,
           DOMAIN uploads \subseteq DOMAIN uploads',
           \A u \in DOMAIN uploads' : uploads'[u].prev < u,
           WorkerRefs(at[w])', s.pc \notin Paying,
           UNCHANGED <<current, phase, work, batch, jobs, late>>
    PROVE  Inv'
<1>1. /\ at' \in [Workers -> WorkerState] /\ at'[w] = s
      /\ \A x \in Workers : x # w => at'[x] = at[x]
    BY DEF Inv, TypeOK
<1>2. TypeOK'
    BY <1>1 DEF Inv, TypeOK
<1>3. Refs'
    <2>1. BatchRefs(batch)'
        BY Types DEF BatchRefs
    <2>2. ASSUME NEW x \in Workers PROVE WorkerRefs(at[x])'
        <3>1. CASE x = w
            BY <3>1
        <3>2. CASE x # w
            BY <1>1, <3>2, Types DEF WorkerRefs
        <3> QED
            BY <3>1, <3>2
    <2> QED
        BY <2>1, <2>2 DEF Refs
<1>4. \A x \in Workers : at'[x].pc \in Paying => at'[x] = at[x]
    BY <1>1
<1>5. AllCovered'
    BY <1>4 DEF Inv, Paid, AllCovered, Covered
<1>6. Unique'
    BY <1>4 DEF Inv, Paid, Unique
<1> QED
    BY <1>2, <1>3, <1>5, <1>6 DEF Inv, Paid

LEMMA NewUploadFacts ==
    ASSUME Inv, NEW a \in 1..MaxRequestAttempts, NEW todo \in SUBSET Requests,
           NEW prev \in {NoInput} \cup DOMAIN uploads, NewUpload(a, todo, prev)
    PROVE  /\ uploads' \in Seq(Upload) /\ Len(uploads') <= MaxUploads
           /\ Len(uploads) + 1 \in DOMAIN uploads' /\ Len(uploads) + 1 \in Nat
           /\ DOMAIN uploads \subseteq DOMAIN uploads'
           /\ \A u \in DOMAIN uploads' : uploads'[u].prev < u
<1> DEFINE up == [attempt |-> a, todo |-> todo, prev |-> prev, state |-> "live"]
<1>1. uploads \in Seq(Upload) /\ Len(uploads) < MaxUploads /\ uploads' = Append(uploads, up)
    BY DEF Inv, TypeOK, NewUpload
<1>2. prev \in 0..MaxUploads /\ prev < Len(uploads) + 1
    BY <1>1, ProviderBoundAssumption DEF NoInput
<1>3. up \in Upload /\ up.prev = prev
    BY <1>2 DEF Upload
<1> HIDE DEF up
<1>4. \A u \in DOMAIN uploads : uploads[u].prev < u
    BY DEF Inv, Refs
<1>5. uploads' \in Seq(Upload) /\ Len(uploads') = Len(uploads) + 1
    BY <1>1, <1>3
<1>6. \A u \in DOMAIN uploads' : u \in DOMAIN uploads \/ u = Len(uploads) + 1
    BY <1>1, <1>5
<1>7. /\ \A u \in DOMAIN uploads : uploads'[u] = uploads[u]
      /\ uploads'[Len(uploads) + 1] = up
    BY <1>1, <1>3
<1>8. \A u \in DOMAIN uploads' : uploads'[u].prev < u
    BY <1>2, <1>3, <1>4, <1>6, <1>7
<1>9. Len(uploads) + 1 <= MaxUploads
    BY <1>1, ProviderBoundAssumption
<1> QED
    BY <1>1, <1>5, <1>8, <1>9

LEMMA PersistNewInv ==
    ASSUME Inv, NEW w \in Workers, PersistNew(w)
    PROVE  Inv'
<1> DEFINE s == [at[w] EXCEPT !.pc = "reserve", !.ref = Len(uploads) + 1]
<1>1. 1 \in 1..MaxRequestAttempts /\ Requests \in SUBSET Requests
    BY ProviderBoundAssumption
<1>2. NewUpload(1, Requests, NoInput) /\ at' = [at EXCEPT ![w] = s]
      /\ UNCHANGED <<current, phase, work, batch, jobs, late>>
    BY DEF PersistNew
<1>3. /\ uploads' \in Seq(Upload) /\ Len(uploads') <= MaxUploads
      /\ Len(uploads) + 1 \in DOMAIN uploads' /\ Len(uploads) + 1 \in Nat
      /\ DOMAIN uploads \subseteq DOMAIN uploads'
      /\ \A u \in DOMAIN uploads' : uploads'[u].prev < u
    BY <1>1, <1>2, NewUploadFacts
<1>4. s \in WorkerState /\ s.pc = "reserve" /\ s.ref = Len(uploads) + 1
    BY <1>3, Types DEF WorkerState, Position
<1> HIDE DEF s
<1>5. at'[w] = s /\ s.pc \notin Paying
    BY <1>2, <1>4 DEF Inv, TypeOK, Paying
<1>6. WorkerRefs(at[w])'
    BY <1>3, <1>4, <1>5 DEF WorkerRefs, Reading, HoldsBatch
<1> QED
    BY <1>2, <1>3, <1>4, <1>5, <1>6, UploadStep

LEMMA RefreshInputsInv ==
    ASSUME Inv, NEW w \in Workers, RefreshInputs(w)
    PROVE  Inv'
<1> DEFINE row == at[w].row
           s == [at[w] EXCEPT !.pc = "persist", !.ref = Len(uploads) + 1]
<1>1. CASE NewUpload(row.attempt, Missing(row), row.input) /\ at' = [at EXCEPT ![w] = s]
    <2>1. row \in BatchRow /\ row.input \in DOMAIN uploads /\ row.status # "none"
        BY Types DEF RefreshInputs, WorkerState, WorkerRefs, Reading, HoldsBatch
    <2>2. row.attempt \in 1..MaxRequestAttempts /\ Missing(row) \in SUBSET Requests
        BY <2>1 DEF BatchRow, Missing
    <2>3. /\ uploads' \in Seq(Upload) /\ Len(uploads') <= MaxUploads
          /\ Len(uploads) + 1 \in DOMAIN uploads' /\ Len(uploads) + 1 \in Nat
          /\ DOMAIN uploads \subseteq DOMAIN uploads'
          /\ \A u \in DOMAIN uploads' : uploads'[u].prev < u
        BY <1>1, <2>1, <2>2, NewUploadFacts
    <2>4. /\ s \in WorkerState /\ s.pc = "persist" /\ s.ref = Len(uploads) + 1
          /\ s.row = row
        BY <2>3, Types DEF WorkerState, Position
    <2>5. UNCHANGED <<current, phase, work, batch, jobs, late>>
        BY DEF RefreshInputs
    <2> HIDE DEF s, row
    <2>6. at'[w] = s /\ s.pc \notin Paying
        BY <1>1, <2>4 DEF Inv, TypeOK, Paying
    <2>7. WorkerRefs(at[w])'
        BY <2>1, <2>3, <2>4, <2>6 DEF WorkerRefs, Reading, HoldsBatch
    <2> QED
        BY <1>1, <2>3, <2>4, <2>5, <2>6, <2>7, UploadStep
<1>2. CASE Stop(w, "raise") /\ UNCHANGED uploads
    BY <1>2, StopOnly DEF RefreshInputs
<1> QED
    BY <1>1, <1>2 DEF RefreshInputs

\* Uploads change their state alone.
LEMMA UploadStateFacts ==
    ASSUME Inv, NEW u \in DOMAIN uploads, NEW state \in {"live", "expired", "deleted"},
           uploads' = [uploads EXCEPT ![u].state = state]
    PROVE  /\ uploads' \in Seq(Upload) /\ Len(uploads') <= MaxUploads
           /\ DOMAIN uploads' = DOMAIN uploads
           /\ \A x \in DOMAIN uploads' : uploads'[x].prev < x
<1> DEFINE up == [uploads[u] EXCEPT !.state = state]
<1>1. /\ uploads \in Seq(Upload) /\ Len(uploads) <= MaxUploads
      /\ DOMAIN uploads = 1..Len(uploads)
      /\ \A x \in DOMAIN uploads : uploads[x].prev < x
    BY DEF Inv, TypeOK, Refs
<1>2. uploads[u] \in Upload
    BY <1>1
<1>3. up \in Upload /\ up.prev = uploads[u].prev
    BY <1>2 DEF Upload
<1>4. uploads' = [uploads EXCEPT ![u] = up]
    OBVIOUS
<1> HIDE DEF up
<1>5. /\ uploads' \in Seq(Upload) /\ Len(uploads') = Len(uploads)
      /\ \A x \in 1..Len(uploads) : uploads'[x] = IF x = u THEN up ELSE uploads[x]
    BY <1>1, <1>3, <1>4, ExceptSeq
<1> QED
    BY <1>1, <1>3, <1>5

LEMMA RemoveUploadInv ==
    ASSUME Inv, NEW w \in Workers, RemoveUpload(w)
    PROVE  Inv'
<1> DEFINE c == CleanupCursor(at[w].row)
<1>1. PICK state \in {uploads[c].state,
                     IF uploads[c].state = "live" THEN "deleted" ELSE uploads[c].state} :
          /\ uploads' = [uploads EXCEPT ![c].state = state]
          /\ at' = [at EXCEPT ![w] =
                      [@ EXCEPT !.pc = "checkpoint",
                                !.ref = IF Settled(state) THEN uploads[c].prev ELSE c]]
    BY DEF RemoveUpload
<1> DEFINE ref == IF Settled(state) THEN uploads[c].prev ELSE c
           s == [at[w] EXCEPT !.pc = "checkpoint", !.ref = ref]
<1>2. c \in DOMAIN uploads
    BY Types DEF RemoveUpload, WorkerRefs, Reading, HoldsBatch, CleanupCursor
<1>3. uploads[c] \in Upload /\ uploads[c].prev < c /\ c \in Nat
    BY <1>2 DEF Inv, TypeOK, Refs
<1>4. uploads[c].prev \in {NoInput} \cup DOMAIN uploads
    BY <1>2, <1>3, ProviderBoundAssumption DEF Upload, NoInput, Inv, TypeOK
<1>5. state \in {"live", "expired", "deleted"}
    BY <1>3 DEF Upload
<1> HIDE DEF c
<1>6. ref \in {NoInput} \cup DOMAIN uploads /\ ref \in Nat
    <2>1. ref \in {NoInput} \cup DOMAIN uploads
        BY <1>2, <1>4
    <2> QED
        BY <2>1 DEF NoInput, Inv, TypeOK
<1>7. at' = [at EXCEPT ![w] = s]
    BY <1>1
<1> HIDE DEF ref
<1>8. s \in WorkerState /\ s.pc = "checkpoint" /\ s.ref = ref /\ s.row = at[w].row
    BY <1>6, Types DEF WorkerState, Position
<1>9. /\ uploads' \in Seq(Upload) /\ Len(uploads') <= MaxUploads
      /\ DOMAIN uploads' = DOMAIN uploads
      /\ \A x \in DOMAIN uploads' : uploads'[x].prev < x
    BY <1>1, <1>2, <1>5, UploadStateFacts
<1> HIDE DEF s
<1>10. at'[w] = s /\ s.pc \notin Paying
    BY <1>7, <1>8 DEF Inv, TypeOK, Paying
<1>11. /\ at[w].row.input \in DOMAIN uploads /\ at[w].row.status # "none"
       /\ at[w].row.clean \in {NotStarted} \cup DOMAIN uploads
    BY Types DEF RemoveUpload, WorkerRefs, Reading, HoldsBatch
<1>12. WorkerRefs(at[w])'
    BY <1>6, <1>8, <1>9, <1>10, <1>11 DEF WorkerRefs
<1>13. UNCHANGED <<current, phase, work, batch, jobs, late>>
    BY DEF RemoveUpload
<1> QED
    BY <1>7, <1>8, <1>9, <1>10, <1>13, <1>12, UploadStep

LEMMA UploadExpiresInv ==
    ASSUME Inv, NEW u \in DOMAIN uploads, UploadExpires(u)
    PROVE  Inv'
<1>1. uploads' = [uploads EXCEPT ![u].state = "expired"]
      /\ UNCHANGED <<current, phase, work, batch, jobs, late, at>>
    BY DEF UploadExpires
<1>2. /\ uploads' \in Seq(Upload) /\ Len(uploads') <= MaxUploads
      /\ DOMAIN uploads' = DOMAIN uploads
      /\ \A x \in DOMAIN uploads' : uploads'[x].prev < x
    BY <1>1, UploadStateFacts
<1>3. TypeOK'
    BY <1>1, <1>2 DEF Inv, TypeOK
<1>4. Refs'
    BY <1>1, <1>2 DEF Inv, Refs, BatchRefs, WorkerRefs
<1>5. Paid'
    BY <1>1 DEF Inv, Paid, AllCovered, Unique, Covered
<1> QED
    BY <1>3, <1>4, <1>5 DEF Inv

----------------------------------------------------------------------------
(* The other steps of the environment.                                     *)

\* Changes of the file's rows.
LEMMA WorkRowsInv ==
    ASSUME Inv, current' \in BOOLEAN,
           phase' \in {"pending", "waiting_provider", "complete", "failed", "superseded"},
           work' \in WorkRow,
           UNCHANGED <<batch, uploads, jobs, late, at>>
    PROVE  Inv'
BY Types, QuietRows

LEMMA WorkEnvironmentInv ==
    ASSUME Inv,
           \/ Supersede \/ ClaimSuperseded \/ WorkLeaseExpires
           \/ RetireExhaustedWork \/ AssembleExtraction
    PROVE  Inv'
<1>1. CASE Supersede
    BY <1>1, Types, WorkRowsInv DEF Supersede
<1>2. CASE ClaimSuperseded
    <2>1. work' \in WorkRow
        <3>1. work.attempts + 1 \in 0..MaxWorkAttempts
            BY <1>2, Types, ProviderBoundAssumption DEF ClaimSuperseded, WorkDue, WorkRow
        <3> QED
            BY <1>2, <3>1, Types DEF ClaimSuperseded, WorkRow
    <2>2. phase' \in {"pending", "waiting_provider", "complete", "failed", "superseded"}
        BY <1>2, Types DEF ClaimSuperseded
    <2> QED
        BY <1>2, <2>1, <2>2, Types, WorkRowsInv DEF ClaimSuperseded
<1>3. CASE WorkLeaseExpires
    <2>1. work' \in WorkRow
        BY <1>3, Types DEF WorkLeaseExpires, WorkRow
    <2> QED
        BY <1>3, <2>1, Types, WorkRowsInv DEF WorkLeaseExpires
<1>4. CASE RetireExhaustedWork
    <2>1. work' \in WorkRow
        BY <1>4, Types DEF RetireExhaustedWork, WorkRow
    <2> QED
        BY <1>4, <2>1, Types, WorkRowsInv DEF RetireExhaustedWork
<1>5. CASE AssembleExtraction
    <2>1. work' \in WorkRow
        <3>1. /\ [work EXCEPT !.status = "superseded"] \in WorkRow
              /\ [work EXCEPT !.status = "failed"] \in WorkRow
            BY Types DEF WorkRow
        <3>2. [work EXCEPT !.status = "index", !.attempts = 0, !.token = NoWorker] \in WorkRow
            <4>1. 0 \in 0..MaxWorkAttempts
                BY ProviderBoundAssumption
            <4> QED
                BY <4>1, Types DEF WorkRow
        <3> QED
            BY <1>5, <3>1, <3>2 DEF AssembleExtraction
    <2>2. phase' \in {"pending", "waiting_provider", "complete", "failed", "superseded"}
        BY <1>5 DEF AssembleExtraction
    <2> QED
        BY <1>5, <2>1, <2>2, Types, WorkRowsInv DEF AssembleExtraction
<1> QED
    BY <1>1, <1>2, <1>3, <1>4, <1>5

LEMMA BatchLeaseExpiresInv ==
    ASSUME Inv, BatchLeaseExpires
    PROVE  Inv'
<1> DEFINE b == [batch EXCEPT !.live = FALSE]
<1>1. batch.live /\ batch' = b /\ UNCHANGED <<current, phase, work, uploads, jobs, late, at>>
    BY DEF BatchLeaseExpires
<1>2. batch.status # "none"
    BY <1>1, Types DEF BatchRefs, NoBatch
<1>3. batch.token \in Workers \cup {NoWorker}
    BY Types DEF BatchRow
<1>4. b \in BatchRow /\ Unpaid(batch, b) /\ SameRefs(batch, b)
    BY <1>2, <1>3, Types, LeaseChange
<1> HIDE DEF b
<1>5. BatchRefs(b)
    BY <1>4, Types, SameRefsKeep
<1> QED
    BY <1>1, <1>4, <1>5, Types, QuietRows DEF Unpaid

----------------------------------------------------------------------------
(* The theorems.                                                           *)

LEMMA InitInv == Init => Inv
<1> SUFFICES ASSUME Init PROVE Inv
    OBVIOUS
<1>1. /\ uploads = <<>> /\ jobs = <<>> /\ late = {} /\ batch = NoBatch
      /\ at = [w \in Workers |-> Idle]
    BY DEF Init
<1>2. \A w \in Workers : at[w] = Idle
    BY <1>1
<1>3. work \in WorkRow
    BY ProviderBoundAssumption DEF Init, WorkRow
<1>4. TypeOK
    BY <1>1, <1>3, IdleType, ProviderBoundAssumption DEF Init, TypeOK
<1>5. Refs
    BY <1>1, <1>2 DEF Refs, BatchRefs, WorkerRefs, NoBatch, Idle, NotStarted, NoInput,
                      Reading, HoldsBatch
<1>6. Idle.pc \notin Paying
    BY DEF Idle, Paying
<1>7. Paid
    BY <1>1, <1>2, <1>6 DEF Paid, AllCovered, Unique
<1> QED
    BY <1>4, <1>5, <1>7 DEF Inv

LEMMA NextInv == Inv /\ [Next]_vars => Inv'
<1> SUFFICES ASSUME Inv, [Next]_vars PROVE Inv'
    OBVIOUS
<1>1. ASSUME NEW w \in Workers, Preparer(w) PROVE Inv'
    BY <1>1, ClaimWorkInv, ReadRecordedInv, ClaimBatchInv, PersistNewInv, ReserveBatchInv,
       FinishPreparationInv, FailAttemptInv DEF Preparer
<1>2. ASSUME NEW w \in Workers, Submitter(w) PROVE Inv'
    BY <1>2, SkipRefreshInv, RefreshInputsInv, PublishInputsInv, SkipSubmissionInv,
       StartSubmissionInv, CreateAcceptedInv, CreateRejectedInv, CreateAmbiguousInv,
       ClearMarkerInv, RecordSubmissionInv, JobFoundInv, JobNotFoundInv DEF Submitter
<1>3. ASSUME NEW w \in Workers, Collector(w) PROVE Inv'
    BY <1>3, ClaimDueBatchInv, SourceStandsInv, CancelJobInv, AbandonBatchInv,
       ReserveRetryInv, JobRunsInv, ReadOutputInv, PublishResultInv DEF Collector
<1>4. ASSUME NEW w \in Workers, Cleaner(w) PROVE Inv'
    BY <1>4, ClaimCleanupInv, RemoveUploadInv, CheckpointCleanupInv DEF Cleaner
<1>5. ASSUME NEW w \in Workers, Release(w) \/ IOFails(w) \/ Crash(w) PROVE Inv'
    BY <1>5, ReleaseInv, IOFailsInv, CrashInv
<1>6. CASE Environment
    BY <1>6, WorkEnvironmentInv, BatchLeaseExpiresInv, JobEndsInv, UploadExpiresInv,
       LateCreateInv DEF Environment
<1>7. CASE UNCHANGED vars
    BY <1>7, Types, WorkRowsInv DEF vars
<1> QED
    BY <1>1, <1>2, <1>3, <1>4, <1>5, <1>6, <1>7 DEF Next

\* The rows of the batch, what its workers hold and what the provider holds
\* keep their types: in particular every reference into the manifests that a
\* worker follows after a pause is good (provider_runtime.py, batch_collector.py).
THEOREM ProviderTypeCorrect == Spec => []TypeOK
<1>1. Inv => TypeOK
    BY DEF Inv
<1> QED
    BY InitInv, NextInv, <1>1, PTL DEF Spec

\* No attempt of a batch is paid for twice, for any number of workers, crashes,
\* lost leases, late requests and retries (submit_batch).
THEOREM PaidOnce == Spec => []OneJobPerAttempt
<1>1. Inv => OneJobPerAttempt
    BY DEF Inv, Paid, Unique, OneJobPerAttempt
<1> QED
    BY InitInv, NextInv, <1>1, PTL DEF Spec

----------------------------------------------------------------------------
(* A running job keeps its input, no result is bought twice and none is    *)
(* lost.  All three rest on what a live lease means: the row its holder    *)
(* read is the row of the database.                                        *)

\* A worker with a live lease uses the row as it is.
Agrees == \A w \in Workers : at[w].pc \in Reading /\ Leased(w) => at[w].row = batch

\* The row b has the job of its attempt, and the input of its attempt asks for
\* what it lacks; up and js are the uploads and the jobs.
RowHolds(b, up, js) ==
    /\ b.job # NoJob => b.started /\ b.job \in DOMAIN js /\ js[b.job].attempt = b.attempt
    /\ b.status \in {"submitted", "retry", "complete"} => b.job # NoJob
    /\ b.status \in {"none", "preparing"} => b.job = NoJob
    /\ b.status \in {"retry", "complete", "failed"} /\ b.job # NoJob => js[b.job].ended
    /\ b.started => up[b.input].attempt = b.attempt
    /\ b.status \in {"preparing", "submitted"} /\ up[b.input].attempt = b.attempt
          => up[b.input].todo = Requests \ b.done

\* Payments are for the open attempt and its input; earlier jobs have ended.
JobHolds(j) == IF jobs[j].attempt = batch.attempt THEN jobs[j].input = batch.input
               ELSE jobs[j].ended
IsOpen(attempt, input) == attempt = batch.attempt /\ input = batch.input
JobsOpen == \A j \in DOMAIN jobs : JobHolds(j)
RequestsOpen == \A r \in late : IsOpen(r.attempt, r.input)
PayersOpen ==
    \A w \in Workers : at[w].pc \in Paying => IsOpen(at[w].row.attempt, at[w].row.input)
PaymentsHold == JobsOpen /\ RequestsOpen /\ PayersOpen

\* What a worker carries besides the row.
WorkerHolds(s, up, js) ==
    /\ s.pc \in Reading /\ s.row.status = "submitted" => s.row.job \in DOMAIN js
    /\ s.pc = "created" => s.ref \in DOMAIN js /\ js[s.ref].attempt = s.row.attempt
    /\ s.pc = "publish" => s.row.status = "submitted" /\ js[s.row.job].ended
    /\ s.pc = "persist" => up[s.ref].attempt = s.row.attempt /\ up[s.ref].todo = Missing(s.row)
    /\ s.pc = "reserve" => up[s.ref].attempt = 1 /\ up[s.ref].todo = Requests

WorkersHold == \A w \in Workers : WorkerHolds(at[w], uploads, jobs)

\* Nothing is paid for any more.
Cleanable(b) == b.status \in Ended /\ (~b.started \/ b.job # NoJob)

CleaningIsDue ==
    (\E u \in DOMAIN uploads : uploads[u].state = "deleted")
        \/ (\E w \in Workers : at[w].pc = "clean")
    => Cleanable(batch)

Extra == Agrees /\ RowHolds(batch, uploads, jobs) /\ PaymentsHold /\ WorkersHold /\ CleaningIsDue

ResultsInv == Inv /\ Extra

----------------------------------------------------------------------------
(* What one turn does to its worker and to the lease.                      *)

Others(w) == \A x \in Workers : x # w => at'[x] = at[x]

LeaseMoves(w) == batch' = batch \/ ~batch'.live \/ batch'.token = w

\* It ends, or nothing of what it read matters.
Ends(w) == at'[w].pc \notin Reading \cup {"reserve"}

\* It goes on with the row it wrote or claimed.
Takes(w) ==
    /\ at'[w].row = batch'
    /\ at'[w].pc \in {"refresh", "submit", "create", "collect", "source", "advance", "clean"}
    /\ at'[w].pc = "create" => StartSubmission(w)
    /\ at'[w].pc = "clean" => ClaimCleanup(w)

\* It goes on with the row it has.
Keeps(w) ==
    /\ batch' = batch
    /\ at[w].pc \in Reading /\ at'[w].row = at[w].row
    /\ at'[w].pc \in Reading \ {"clean", "create"}
    /\ at'[w].pc = "persist" => RefreshInputs(w) /\ at'[w].ref = Len(uploads) + 1
    /\ at'[w].pc = "created" => CreateAccepted(w) /\ at'[w].ref = Len(jobs) + 1
    /\ at'[w].pc = "publish" => ReadOutput(w)
    /\ at'[w].pc = "rejected" => at[w].pc = "create"
    /\ at'[w].pc = "checkpoint" => RemoveUpload(w)

\* A new input file is there.
Persists(w) == PersistNew(w) /\ at'[w].pc = "reserve" /\ at'[w].ref = Len(uploads) + 1

Turned(w) == Others(w) /\ (Ends(w) \/ Takes(w) \/ Keeps(w) \/ Persists(w))

LEMMA OneMoves ==
    ASSUME Inv, NEW w \in Workers, NEW s, at' = [at EXCEPT ![w] = s]
    PROVE  Others(w) /\ at'[w] = s
BY DEF Inv, TypeOK, Others

LEMMA IdleTurned ==
    ASSUME Inv, NEW w \in Workers, at' = [at EXCEPT ![w] = Idle]
    PROVE  Turned(w)
<1>1. Others(w) /\ at'[w] = Idle
    BY OneMoves
<1> QED
    BY <1>1 DEF Turned, Ends, Idle, Reading, HoldsBatch

LEMMA StopTurned ==
    ASSUME Inv, NEW w \in Workers,
           NEW pc \in {"idle", "release", "raise", "failing", "seal"}, Stop(w, pc)
    PROVE  Turned(w)
<1> DEFINE s == [Idle EXCEPT !.pc = pc, !.prep = at[w].prep]
<1>1. at' = [at EXCEPT ![w] = s]
    BY DEF Stop
<1>2. s.pc = pc
    BY DEF Idle
<1> HIDE DEF s
<1>3. Others(w) /\ at'[w] = s
    BY <1>1, OneMoves
<1> QED
    BY <1>2, <1>3 DEF Turned, Ends, Reading, HoldsBatch

LEMMA StopPosition ==
    ASSUME Inv, NEW w \in Workers, NEW pc, Stop(w, pc)
    PROVE  at'[w].pc = pc
<1> DEFINE s == [Idle EXCEPT !.pc = pc, !.prep = at[w].prep]
<1>1. at' = [at EXCEPT ![w] = s]
    BY DEF Stop
<1>2. s.pc = pc
    BY DEF Idle
<1> HIDE DEF s
<1> QED
    BY <1>1, <1>2, OneMoves

LEMMA GotoMoves ==
    ASSUME Inv, NEW w \in Workers, NEW pc \in Position, Goto(w, pc)
    PROVE  Others(w) /\ at'[w].pc = pc /\ at'[w].row = at[w].row
<1> DEFINE s == [at[w] EXCEPT !.pc = pc]
<1>1. at' = [at EXCEPT ![w] = s]
    BY DEF Goto
<1>2. s.pc = pc /\ s.row = at[w].row
    BY Types, GotoState
<1> HIDE DEF s
<1>3. Others(w) /\ at'[w] = s
    BY <1>1, OneMoves
<1> QED
    BY <1>2, <1>3

LEMMA HoldingMoves ==
    ASSUME Inv, NEW w \in Workers, NEW row, NEW pc, Holding(w, row, pc)
    PROVE  Others(w) /\ at'[w].pc = pc /\ at'[w].row = row
<1> DEFINE s == [at[w] EXCEPT !.pc = pc, !.row = row, !.ref = 0]
<1>1. at' = [at EXCEPT ![w] = s]
    BY DEF Holding
<1>2. s.pc = pc /\ s.row = row
    BY Types DEF WorkerState
<1> HIDE DEF s
<1>3. Others(w) /\ at'[w] = s
    BY <1>1, OneMoves
<1> QED
    BY <1>2, <1>3

\* A turn that goes on with what it claimed or wrote.
LEMMA HoldingTurned ==
    ASSUME Inv, NEW w \in Workers,
           NEW pc \in {"refresh", "submit", "collect", "source", "advance", "release"},
           Holding(w, batch', pc)
    PROVE  Turned(w)
<1>1. Others(w) /\ at'[w].pc = pc /\ at'[w].row = batch'
    BY HoldingMoves
<1> QED
    BY <1>1 DEF Turned, Takes, Ends, Reading, HoldsBatch

LEMMA GotoTurned ==
    ASSUME Inv, NEW w \in Workers, Goto(w, "submit") \/ Goto(w, "refresh") \/ Goto(w, "retry")
               \/ Goto(w, "collect") \/ (at[w].pc = "create" /\ Goto(w, "rejected")),
           at[w].pc \in Reading, batch' = batch
    PROVE  Turned(w)
<1>1. PICK pc \in {"submit", "refresh", "retry", "collect", "rejected"} :
        Goto(w, pc) /\ (pc = "rejected" => at[w].pc = "create")
    OBVIOUS
<1>2. pc \in Position
    BY DEF Position
<1>3. Others(w) /\ at'[w].pc = pc /\ at'[w].row = at[w].row
    BY <1>1, <1>2, GotoMoves
<1> QED
    BY <1>1, <1>3 DEF Turned, Keeps, Reading, HoldsBatch

LEMMA PreparerTurned ==
    ASSUME Inv, NEW w \in Workers, Preparer(w)
    PROVE  Turned(w)
<1>1. CASE ClaimWork(w)
  <2> DEFINE s == [Idle EXCEPT !.pc = "prepare", !.prep = TRUE]
  <2>1. at' = [at EXCEPT ![w] = s]
      BY <1>1 DEF ClaimWork
  <2>2. s.pc = "prepare"
      BY DEF Idle
  <2> HIDE DEF s
  <2> QED
      BY <2>1, <2>2, OneMoves DEF Turned, Ends, Reading, HoldsBatch
<1>2. CASE ReadRecorded(w)
  <2>1. PICK pc \in {"upload", "seal", "claim"} : Goto(w, pc)
      BY <1>2 DEF ReadRecorded
  <2>2. pc \in Position
      BY DEF Position
  <2> QED
      BY <2>1, <2>2, GotoMoves DEF Turned, Ends, Reading, HoldsBatch
<1>3. CASE ClaimBatch(w)
    BY <1>3, HoldingTurned, StopTurned DEF ClaimBatch
<1>4. CASE PersistNew(w)
  <2> DEFINE s == [at[w] EXCEPT !.pc = "reserve", !.ref = Len(uploads) + 1]
  <2>1. at' = [at EXCEPT ![w] = s]
      BY <1>4 DEF PersistNew
  <2>2. s.pc = "reserve" /\ s.ref = Len(uploads) + 1
      BY Types DEF WorkerState
  <2> HIDE DEF s
  <2>3. Others(w) /\ at'[w] = s
      BY <2>1, OneMoves
  <2> QED
      BY <1>4, <2>2, <2>3 DEF Turned, Persists
<1>5. CASE ReserveBatch(w)
  <2>1. Holding(w, batch', "submit") \/ Stop(w, "failing")
      BY <1>5 DEF ReserveBatch
  <2> QED
      BY <2>1, HoldingTurned, StopTurned
<1>6. CASE FinishPreparation(w)
    BY <1>6, IdleTurned, StopTurned DEF FinishPreparation
<1>7. CASE FailAttempt(w)
    BY <1>7, IdleTurned DEF FailAttempt
<1> QED
    BY <1>1, <1>2, <1>3, <1>4, <1>5, <1>6, <1>7 DEF Preparer

LEMMA RecordTurned ==
    ASSUME Inv, NEW w \in Workers, NEW j, NEW pc \in {"release", "collect", "source"},
           Record(w, j, pc)
    PROVE  Turned(w)
<1>1. Holding(w, batch', pc) \/ Stop(w, "raise")
    BY DEF Record
<1> QED
    BY <1>1, HoldingTurned, StopTurned

LEMMA SubmitterTurned ==
    ASSUME Inv, NEW w \in Workers, Submitter(w)
    PROVE  Turned(w)
<1>1. CASE SkipRefresh(w)
    BY <1>1, GotoTurned DEF SkipRefresh, Reading, HoldsBatch
<1>2. CASE RefreshInputs(w)
  <2> DEFINE s == [at[w] EXCEPT !.pc = "persist", !.ref = Len(uploads) + 1]
  <2>1. CASE at' = [at EXCEPT ![w] = s]
    <3>1. s.pc = "persist" /\ s.ref = Len(uploads) + 1 /\ s.row = at[w].row
        BY Types DEF WorkerState
    <3>2. at[w].pc = "refresh" /\ batch' = batch
        BY <1>2 DEF RefreshInputs
    <3> HIDE DEF s
    <3>3. Others(w) /\ at'[w] = s
        BY <2>1, OneMoves
    <3> QED
        BY <1>2, <3>1, <3>2, <3>3 DEF Turned, Keeps, Reading, HoldsBatch
  <2>2. CASE Stop(w, "raise")
      BY <2>2, StopTurned
  <2> QED
      BY <1>2, <2>1, <2>2 DEF RefreshInputs
<1>3. CASE PublishInputs(w)
  <2>1. Holding(w, batch', "submit") \/ Stop(w, "raise")
      BY <1>3 DEF PublishInputs
  <2> QED
      BY <2>1, HoldingTurned, StopTurned
<1>4. CASE SkipSubmission(w)
  <2>1. PICK pc \in {"release", "collect"} : Goto(w, pc)
      BY <1>4 DEF SkipSubmission, AfterSubmission
  <2>2. CASE pc = "release"
    <3>1. "release" \in Position
        BY DEF Position
    <3> QED
        BY <2>1, <2>2, <3>1, GotoMoves DEF Turned, Ends, Reading, HoldsBatch
  <2>3. CASE pc = "collect"
      BY <1>4, <2>1, <2>3, GotoTurned DEF SkipSubmission, Reading, HoldsBatch
  <2> QED
      BY <2>2, <2>3
<1>5. CASE StartSubmission(w)
  <2>1. Holding(w, batch', "create") \/ Stop(w, "raise")
      BY <1>5 DEF StartSubmission
  <2>2. CASE Holding(w, batch', "create")
    <3>1. Others(w) /\ at'[w].pc = "create" /\ at'[w].row = batch'
        BY <2>2, HoldingMoves
    <3> QED
        BY <1>5, <3>1 DEF Turned, Takes
  <2> QED
      BY <2>1, <2>2, StopTurned
<1>6. CASE CreateAccepted(w)
  <2> DEFINE s == [at[w] EXCEPT !.pc = "created", !.ref = Len(jobs) + 1]
  <2>1. at' = [at EXCEPT ![w] = s] /\ at[w].pc = "create" /\ batch' = batch
      BY <1>6 DEF CreateAccepted
  <2>2. s.pc = "created" /\ s.ref = Len(jobs) + 1 /\ s.row = at[w].row
      BY Types DEF WorkerState
  <2> HIDE DEF s
  <2>3. Others(w) /\ at'[w] = s
      BY <2>1, OneMoves
  <2> QED
      BY <1>6, <2>1, <2>2, <2>3 DEF Turned, Keeps, Reading, HoldsBatch
<1>7. CASE CreateRejected(w)
    BY <1>7, GotoTurned DEF CreateRejected, Reading, HoldsBatch
<1>8. CASE CreateAmbiguous(w)
    BY <1>8, StopTurned DEF CreateAmbiguous
<1>9. CASE ClearMarker(w)
    BY <1>9, StopTurned DEF ClearMarker
<1>10. CASE RecordSubmission(w)
    BY <1>10, RecordTurned DEF RecordSubmission, AfterSubmission
<1>11. ASSUME NEW j \in DOMAIN jobs, JobFound(w, j) PROVE Turned(w)
    BY <1>11, RecordTurned DEF JobFound
<1>12. CASE JobNotFound(w)
    BY <1>12, StopTurned DEF JobNotFound
<1> QED
    BY <1>1, <1>2, <1>3, <1>4, <1>5, <1>6, <1>7, <1>8, <1>9, <1>10, <1>11, <1>12
    DEF Submitter

LEMMA CollectorTurned ==
    ASSUME Inv, NEW w \in Workers, Collector(w)
    PROVE  Turned(w)
<1>1. CASE ClaimDueBatch(w)
    BY <1>1, HoldingTurned DEF ClaimDueBatch
<1>2. CASE SourceStands(w)
    BY <1>2, GotoTurned DEF SourceStands, Advancing, Reading, HoldsBatch
<1>3. CASE CancelJob(w)
    BY <1>3, StopTurned DEF CancelJob
<1>4. CASE AbandonBatch(w)
    BY <1>4, StopTurned DEF AbandonBatch
<1>5. CASE ReserveRetry(w)
  <2>1. Holding(w, batch', "refresh") \/ Stop(w, "release") \/ Stop(w, "raise")
      BY <1>5 DEF ReserveRetry
  <2> QED
      BY <2>1, HoldingTurned, StopTurned
<1>6. CASE JobRuns(w)
    BY <1>6, StopTurned DEF JobRuns
<1>7. CASE ReadOutput(w)
  <2>1. ASSUME NEW got, at' = [at EXCEPT ![w] = [@ EXCEPT !.pc = "publish", !.got = got]]
        PROVE  Turned(w)
    <3> DEFINE s == [at[w] EXCEPT !.pc = "publish", !.got = got]
    <3>1. at' = [at EXCEPT ![w] = s] /\ at[w].pc = "collect" /\ batch' = batch
        BY <1>7, <2>1 DEF ReadOutput
    <3>2. s.pc = "publish" /\ s.row = at[w].row
        BY Types DEF WorkerState
    <3> HIDE DEF s
    <3>3. Others(w) /\ at'[w] = s
        BY <3>1, OneMoves
    <3> QED
        BY <1>7, <3>1, <3>2, <3>3 DEF Turned, Keeps, Reading, HoldsBatch
  <2> QED
      BY <1>7, <2>1, StopTurned DEF ReadOutput
<1>8. CASE PublishResult(w)
    BY <1>8, StopTurned DEF PublishResult
<1> QED
    BY <1>1, <1>2, <1>3, <1>4, <1>5, <1>6, <1>7, <1>8 DEF Collector

LEMMA CleanerTurned ==
    ASSUME Inv, NEW w \in Workers,
           Cleaner(w) \/ Release(w) \/ IOFails(w) \/ Crash(w)
    PROVE  Turned(w)
<1>1. CASE ClaimCleanup(w)
  <2>1. Others(w) /\ at'[w].pc = "clean" /\ at'[w].row = batch'
      BY <1>1, HoldingMoves DEF ClaimCleanup
  <2> QED
      BY <1>1, <2>1 DEF Turned, Takes
<1>2. CASE RemoveUpload(w)
  <2>1. PICK ref : at' = [at EXCEPT ![w] = [@ EXCEPT !.pc = "checkpoint", !.ref = ref]]
      BY <1>2 DEF RemoveUpload
  <2> DEFINE s == [at[w] EXCEPT !.pc = "checkpoint", !.ref = ref]
  <2>2. at' = [at EXCEPT ![w] = s] /\ at[w].pc = "clean" /\ batch' = batch
      BY <1>2, <2>1 DEF RemoveUpload
  <2>3. s.pc = "checkpoint" /\ s.row = at[w].row
      BY Types DEF WorkerState
  <2> HIDE DEF s
  <2>4. Others(w) /\ at'[w] = s
      BY <2>2, OneMoves
  <2> QED
      BY <1>2, <2>2, <2>3, <2>4 DEF Turned, Keeps, Reading, HoldsBatch
<1>3. CASE CheckpointCleanup(w)
    BY <1>3, StopTurned DEF CheckpointCleanup
<1>4. CASE Release(w)
    BY <1>4, IdleTurned, StopTurned DEF Release
<1>5. CASE IOFails(w)
    BY <1>5, StopTurned DEF IOFails
<1>6. CASE Crash(w)
    BY <1>6, IdleTurned DEF Crash
<1> QED
    BY <1>1, <1>2, <1>3, <1>4, <1>5, <1>6 DEF Cleaner

----------------------------------------------------------------------------
(* What one turn does to the rows, the uploads, the jobs and the requests  *)
(* in flight.                                                              *)

\* All of the row but the lease and the progress of its cleanup.
Core(b) == <<b.status, b.attempt, b.job, b.started, b.input, b.done>>

Rewrites(w) ==
    \/ ReserveBatch(w) \/ PublishInputs(w) \/ StartSubmission(w) \/ ClearMarker(w)
    \/ RecordSubmission(w) \/ (\E j \in DOMAIN jobs : JobFound(w, j))
    \/ AbandonBatch(w) \/ ReserveRetry(w) \/ PublishResult(w)

RowMoves(w) == LeaseMoves(w) /\ (Core(batch') = Core(batch) \/ Rewrites(w))

StoreMoves(w) ==
    /\ uploads' = uploads \/ PersistNew(w) \/ RefreshInputs(w) \/ RemoveUpload(w)
    /\ jobs' = jobs \/ CreateAccepted(w) \/ CancelJob(w)
    /\ late' = late \/ CreateAmbiguous(w) \/ Crash(w)

Moves(w) == RowMoves(w) /\ StoreMoves(w)

LEMMA SameRow ==
    ASSUME NEW w, batch' = batch
    PROVE  RowMoves(w)
BY DEF RowMoves, LeaseMoves

LEMMA SameStores ==
    ASSUME NEW w, UNCHANGED <<uploads, jobs, late>>
    PROVE  StoreMoves(w)
BY DEF StoreMoves

LEMMA ClaimMoves ==
    ASSUME Inv, NEW w \in Workers, batch' = ClaimedBatch(w)
    PROVE  RowMoves(w)
<1>1. batch'.token = w /\ Core(batch') = Core(batch)
    BY Types DEF ClaimedBatch, BatchRow, Core
<1> QED
    BY <1>1 DEF RowMoves, LeaseMoves

\* A change under the lease leaves the lease to its holder.
LEMMA FencedMoves ==
    ASSUME Inv, NEW w \in Workers, Rewrites(w),
           batch' = batch \/ batch'.token = w
    PROVE  RowMoves(w)
BY DEF RowMoves, LeaseMoves

LEMMA PreparerMoves ==
    ASSUME Inv, NEW w \in Workers, Preparer(w)
    PROVE  Moves(w)
<1>1. CASE ClaimWork(w)
    BY <1>1, SameRow, SameStores DEF ClaimWork, Moves
<1>2. CASE ReadRecorded(w)
    BY <1>2, SameRow, SameStores DEF ReadRecorded, Moves
<1>3. CASE ClaimBatch(w)
    BY <1>3, SameRow, SameStores, ClaimMoves DEF ClaimBatch, Moves
<1>4. CASE PersistNew(w)
    BY <1>4, SameRow DEF PersistNew, Moves, StoreMoves
<1>5. CASE ReserveBatch(w)
  <2>1. batch' = batch \/ batch'.token = w
      BY <1>5 DEF ReserveBatch, NewBatch
  <2> QED
      BY <1>5, <2>1, FencedMoves, SameStores DEF Rewrites, Moves, ReserveBatch
<1>6. CASE FinishPreparation(w)
    BY <1>6, SameRow, SameStores DEF FinishPreparation, Moves
<1>7. CASE FailAttempt(w)
    BY <1>7, SameRow, SameStores DEF FailAttempt, Moves
<1> QED
    BY <1>1, <1>2, <1>3, <1>4, <1>5, <1>6, <1>7 DEF Preparer

LEMMA SubmitterMoves ==
    ASSUME Inv, NEW w \in Workers, Submitter(w)
    PROVE  Moves(w)
<1>1. CASE SkipRefresh(w) \/ SkipSubmission(w) \/ CreateRejected(w) \/ JobNotFound(w)
    BY <1>1, SameRow, SameStores
    DEF SkipRefresh, SkipSubmission, CreateRejected, JobNotFound, Moves
<1>2. CASE RefreshInputs(w)
    BY <1>2, SameRow DEF RefreshInputs, Moves, StoreMoves
<1>3. CASE PublishInputs(w)
  <2>1. batch' = batch \/ batch'.token = w
      BY <1>3, Types DEF PublishInputs, Leased, BatchRow
  <2> QED
      BY <1>3, <2>1, FencedMoves, SameStores DEF Rewrites, Moves, PublishInputs
<1>4. CASE StartSubmission(w)
  <2>1. batch' = batch \/ batch'.token = w
      BY <1>4, Types DEF StartSubmission, MayStart, Leased, BatchRow
  <2> QED
      BY <1>4, <2>1, FencedMoves, SameStores DEF Rewrites, Moves, StartSubmission
<1>5. CASE CreateAccepted(w)
    BY <1>5, SameRow DEF CreateAccepted, Moves, StoreMoves
<1>6. CASE CreateAmbiguous(w)
    BY <1>6, SameRow DEF CreateAmbiguous, Moves, StoreMoves
<1>7. CASE ClearMarker(w)
  <2>1. batch' = batch \/ batch'.token = w
      BY <1>7, Types DEF ClearMarker, MayClear, Leased, BatchRow
  <2> QED
      BY <1>7, <2>1, FencedMoves, SameStores DEF Rewrites, Moves, ClearMarker
<1>8. CASE RecordSubmission(w)
  <2>1. batch' = batch \/ batch'.token = w
      BY <1>8, Types DEF RecordSubmission, Record, Recorded, MayRecord, Leased, BatchRow
  <2> QED
      BY <1>8, <2>1, FencedMoves, SameStores DEF Rewrites, Moves, RecordSubmission
<1>9. ASSUME NEW j \in DOMAIN jobs, JobFound(w, j) PROVE Moves(w)
  <2>1. batch' = batch \/ batch'.token = w
      BY <1>9, Types DEF JobFound, Record, Recorded, MayRecord, Leased, BatchRow
  <2>2. UNCHANGED <<uploads, jobs, late>>
      BY <1>9 DEF JobFound
  <2> QED
      BY <1>9, <2>1, <2>2, FencedMoves, SameStores DEF Rewrites, Moves
<1> QED
    BY <1>1, <1>2, <1>3, <1>4, <1>5, <1>6, <1>7, <1>8, <1>9 DEF Submitter

LEMMA CollectorMoves ==
    ASSUME Inv, NEW w \in Workers, Collector(w)
    PROVE  Moves(w)
<1>1. CASE ClaimDueBatch(w)
    BY <1>1, ClaimMoves, SameStores DEF ClaimDueBatch, Moves
<1>2. CASE SourceStands(w) \/ JobRuns(w) \/ ReadOutput(w)
    BY <1>2, SameRow, SameStores DEF SourceStands, JobRuns, ReadOutput, Moves
<1>3. CASE CancelJob(w)
    BY <1>3, SameRow DEF CancelJob, Moves, StoreMoves
<1>4. CASE AbandonBatch(w)
  <2>1. batch' = batch \/ batch'.token = w
      BY <1>4, Types DEF AbandonBatch, Leased, BatchRow
  <2> QED
      BY <1>4, <2>1, FencedMoves, SameStores DEF Rewrites, Moves, AbandonBatch
<1>5. CASE ReserveRetry(w)
  <2>1. batch' = batch \/ batch'.token = w
      BY <1>5, Types DEF ReserveRetry, Leased, BatchRow
  <2> QED
      BY <1>5, <2>1, FencedMoves, SameStores DEF Rewrites, Moves, ReserveRetry
<1>6. CASE PublishResult(w)
  <2>1. batch' = batch \/ batch'.token = w
      BY <1>6, Types DEF PublishResult, Leased, BatchRow
  <2> QED
      BY <1>6, <2>1, FencedMoves, SameStores DEF Rewrites, Moves, PublishResult
<1> QED
    BY <1>1, <1>2, <1>3, <1>4, <1>5, <1>6 DEF Collector

LEMMA CleanerMoves ==
    ASSUME Inv, NEW w \in Workers,
           Cleaner(w) \/ Release(w) \/ IOFails(w) \/ Crash(w)
    PROVE  Moves(w)
<1>1. CASE ClaimCleanup(w)
    BY <1>1, ClaimMoves, SameStores DEF ClaimCleanup, Moves
<1>2. CASE RemoveUpload(w)
    BY <1>2, SameRow DEF RemoveUpload, Moves, StoreMoves
<1>3. CASE CheckpointCleanup(w)
  <2>1. batch' = batch \/ (batch'.token = w /\ Core(batch') = Core(batch))
      BY <1>3, Types DEF CheckpointCleanup, Leased, BatchRow, Core
  <2> QED
      BY <1>3, <2>1, SameStores DEF RowMoves, LeaseMoves, Moves, CheckpointCleanup
<1>4. CASE Release(w)
  <2>1. batch' = batch \/ (~batch'.live /\ Core(batch') = Core(batch))
      BY <1>4, Types DEF Release, BatchRow, Core
  <2> QED
      BY <1>4, <2>1, SameStores DEF RowMoves, LeaseMoves, Moves, Release
<1>5. CASE IOFails(w)
    BY <1>5, SameRow, SameStores DEF IOFails, Moves
<1>6. CASE Crash(w)
    BY <1>6, SameRow DEF Crash, Moves, StoreMoves
<1> QED
    BY <1>1, <1>2, <1>3, <1>4, <1>5, <1>6 DEF Cleaner

----------------------------------------------------------------------------
(* Uploads and jobs grow; what they are for never changes.                 *)

WorkerStep(w) ==
    Preparer(w) \/ Submitter(w) \/ Collector(w) \/ Cleaner(w)
        \/ Release(w) \/ IOFails(w) \/ Crash(w)

LEMMA Steps ==
    ASSUME Inv, NEW w \in Workers, WorkerStep(w)
    PROVE  Turned(w) /\ Moves(w)
BY PreparerTurned, SubmitterTurned, CollectorTurned, CleanerTurned,
   PreparerMoves, SubmitterMoves, CollectorMoves, CleanerMoves DEF WorkerStep

UploadsGrow ==
    /\ DOMAIN uploads \subseteq DOMAIN uploads'
    /\ \A u \in DOMAIN uploads : /\ uploads'[u].attempt = uploads[u].attempt
                                 /\ uploads'[u].todo = uploads[u].todo

JobsGrow ==
    /\ DOMAIN jobs \subseteq DOMAIN jobs'
    /\ \A j \in DOMAIN jobs : /\ jobs'[j].attempt = jobs[j].attempt
                              /\ jobs'[j].input = jobs[j].input
                              /\ jobs[j].ended => jobs'[j].ended

Grow == UploadsGrow /\ JobsGrow

LEMMA NewUploadContent ==
    ASSUME Inv, NEW a, NEW todo, NEW prev, NewUpload(a, todo, prev)
    PROVE  LET n == Len(uploads) + 1
           IN  /\ DOMAIN uploads' = DOMAIN uploads \cup {n}
               /\ \A u \in DOMAIN uploads : uploads'[u] = uploads[u]
               /\ uploads'[n].attempt = a /\ uploads'[n].todo = todo
               /\ uploads'[n].state = "live"
<1> DEFINE up == [attempt |-> a, todo |-> todo, prev |-> prev, state |-> "live"]
<1>1. uploads \in Seq(Upload) /\ uploads' = Append(uploads, up)
    BY DEF Inv, TypeOK, NewUpload
<1>2. up.attempt = a /\ up.todo = todo /\ up.state = "live"
    OBVIOUS
<1> HIDE DEF up
<1> QED
    BY <1>1, <1>2

LEMMA NewUploadGrows ==
    ASSUME Inv, NEW a, NEW todo, NEW prev, NewUpload(a, todo, prev)
    PROVE  UploadsGrow
BY NewUploadContent DEF UploadsGrow

LEMMA UploadChanges ==
    ASSUME Inv, NEW c \in DOMAIN uploads, NEW state, uploads' = [uploads EXCEPT ![c].state = state]
    PROVE  /\ UploadsGrow /\ DOMAIN uploads' = DOMAIN uploads
           /\ uploads'[c].state = state
           /\ \A u \in DOMAIN uploads : u # c => uploads'[u] = uploads[u]
<1> DEFINE up == [uploads[c] EXCEPT !.state = state]
<1>1. uploads[c] \in Upload
    BY DEF Inv, TypeOK
<1>2. up.attempt = uploads[c].attempt /\ up.todo = uploads[c].todo /\ up.state = state
    BY <1>1 DEF Upload
<1>3. uploads' = [uploads EXCEPT ![c] = up]
    OBVIOUS
<1> HIDE DEF up
<1>4. /\ DOMAIN uploads' = DOMAIN uploads /\ uploads'[c] = up
      /\ \A u \in DOMAIN uploads : u # c => uploads'[u] = uploads[u]
    BY <1>3 DEF Inv, TypeOK
<1> QED
    BY <1>2, <1>4 DEF UploadsGrow

\* The next file that cleanup looks at.
LEMMA CleanedUpload ==
    ASSUME Inv, NEW w \in Workers, RemoveUpload(w)
    PROVE  /\ UploadsGrow /\ at[w].pc = "clean"
<1> DEFINE c == CleanupCursor(at[w].row)
<1>1. c \in DOMAIN uploads
    BY Types DEF RemoveUpload, WorkerRefs, Reading, HoldsBatch, CleanupCursor
<1>2. at[w].pc = "clean" /\ \E state : uploads' = [uploads EXCEPT ![c].state = state]
    BY DEF RemoveUpload
<1> HIDE DEF c
<1> QED
    BY <1>1, <1>2, UploadChanges

LEMMA NewJobContent ==
    ASSUME Inv, NEW r, NewJob(r)
    PROVE  LET n == Len(jobs) + 1
           IN  /\ DOMAIN jobs' = DOMAIN jobs \cup {n}
               /\ \A j \in DOMAIN jobs : jobs'[j] = jobs[j]
               /\ jobs'[n].attempt = r.attempt /\ jobs'[n].input = r.input
<1> DEFINE job == [attempt |-> r.attempt, input |-> r.input, ended |-> FALSE]
<1>1. jobs \in Seq(Job) /\ jobs' = Append(jobs, job)
    BY DEF Inv, TypeOK, NewJob
<1>2. job.attempt = r.attempt /\ job.input = r.input
    OBVIOUS
<1> HIDE DEF job
<1> QED
    BY <1>1, <1>2

LEMMA NewJobGrows ==
    ASSUME Inv, NEW r, NewJob(r)
    PROVE  JobsGrow
BY NewJobContent DEF JobsGrow

LEMMA JobChanges ==
    ASSUME Inv, NEW x, jobs' = [jobs EXCEPT ![x].ended = TRUE]
    PROVE  JobsGrow /\ DOMAIN jobs' = DOMAIN jobs
<1>1. CASE x \in DOMAIN jobs
  <2> DEFINE job == [jobs[x] EXCEPT !.ended = TRUE]
  <2>1. jobs[x] \in Job
      BY <1>1 DEF Inv, TypeOK
  <2>2. job.attempt = jobs[x].attempt /\ job.input = jobs[x].input /\ job.ended
      BY <2>1 DEF Job
  <2>3. jobs' = [jobs EXCEPT ![x] = job]
      OBVIOUS
  <2> HIDE DEF job
  <2>4. /\ DOMAIN jobs' = DOMAIN jobs /\ jobs'[x] = job
        /\ \A j \in DOMAIN jobs : j # x => jobs'[j] = jobs[j]
      BY <1>1, <2>3 DEF Inv, TypeOK
  <2> QED
      BY <2>2, <2>4 DEF JobsGrow
<1>2. CASE x \notin DOMAIN jobs
    BY <1>2, NoJobEnds DEF JobsGrow
<1> QED
    BY <1>1, <1>2

LEMMA WorkerGrows ==
    ASSUME Inv, NEW w \in Workers, StoreMoves(w)
    PROVE  Grow
<1>1. UploadsGrow
  <2>1. CASE uploads' = uploads
      BY <2>1 DEF UploadsGrow
  <2>2. CASE PersistNew(w)
      BY <2>2, NewUploadGrows DEF PersistNew
  <2>3. CASE RefreshInputs(w)
    <3>1. uploads' = uploads \/ \E a, todo, prev : NewUpload(a, todo, prev)
        BY <2>3 DEF RefreshInputs
    <3> QED
        BY <2>1, <3>1, NewUploadGrows
  <2>4. CASE RemoveUpload(w)
      BY <2>4, CleanedUpload
  <2> QED
      BY <2>1, <2>2, <2>3, <2>4 DEF StoreMoves
<1>2. JobsGrow
  <2>1. CASE jobs' = jobs
      BY <2>1 DEF JobsGrow
  <2>2. CASE CreateAccepted(w)
      BY <2>2, NewJobGrows DEF CreateAccepted
  <2>3. CASE CancelJob(w)
      BY <2>1, <2>3, JobChanges DEF CancelJob
  <2> QED
      BY <2>1, <2>2, <2>3 DEF StoreMoves
<1> QED
    BY <1>1, <1>2 DEF Grow

----------------------------------------------------------------------------
(* A live lease means the row as it was read.                              *)

LEMMA AgreesTurn ==
    ASSUME Inv, Agrees, NEW w \in Workers, Turned(w), LeaseMoves(w)
    PROVE  Agrees'
<1> SUFFICES ASSUME NEW x \in Workers, at'[x].pc \in Reading, Leased(x)'
             PROVE  at'[x].row = batch'
    BY DEF Agrees
<1>1. batch'.token = x /\ batch'.live
    BY DEF Leased
<1>2. CASE x # w
  <2>1. at'[x] = at[x] /\ batch' = batch
      BY <1>1, <1>2 DEF Turned, Others, LeaseMoves
  <2> QED
      BY <1>1, <2>1 DEF Agrees, Leased
<1>3. CASE x = w
  <2>1. CASE Ends(w)
      BY <1>3, <2>1 DEF Ends
  <2>2. CASE Takes(w)
      BY <1>3, <2>2 DEF Takes
  <2>3. CASE Keeps(w)
      BY <1>1, <1>3, <2>3 DEF Keeps, Agrees, Leased
  <2>4. CASE Persists(w)
      BY <1>3, <2>4 DEF Persists, Reading, HoldsBatch
  <2> QED
      BY <2>1, <2>2, <2>3, <2>4 DEF Turned
<1> QED
    BY <1>2, <1>3

\* The row of a worker with a live lease is the row, field by field.
LEMMA LeasedRow ==
    ASSUME Agrees, NEW w \in Workers, at[w].pc \in Reading, Leased(w)
    PROVE  at[w].row = batch
BY DEF Agrees

----------------------------------------------------------------------------
(* The row has the job of its attempt, and its input asks for what it lacks. *)

RowOK == RowHolds(batch, uploads, jobs)

LEMMA RowKept ==
    ASSUME Inv, RowOK, Grow, Core(batch') = Core(batch)
    PROVE  RowOK'
<1>1. /\ batch'.status = batch.status /\ batch'.attempt = batch.attempt
      /\ batch'.job = batch.job /\ batch'.started = batch.started
      /\ batch'.input = batch.input /\ batch'.done = batch.done
    BY DEF Core
<1>2. CASE batch.status = "none"
  <2>1. batch.job = NoJob /\ ~batch.started
      BY <1>2, Types DEF BatchRefs, NoBatch
  <2> QED
      BY <1>1, <1>2, <2>1 DEF RowOK, RowHolds
<1>3. CASE batch.status # "none"
  <2>1. batch.input \in DOMAIN uploads
      BY <1>3, Types DEF BatchRefs
  <2> QED
      BY <1>1, <2>1 DEF RowOK, RowHolds, Grow, UploadsGrow, JobsGrow
<1> QED
    BY <1>2, <1>3

LEMMA RowStands ==
    ASSUME RowOK, UNCHANGED <<batch, uploads, jobs>>
    PROVE  RowOK'
BY DEF RowOK, RowHolds

\* The fields of a changed row.
LEMMA RowFields ==
    ASSUME Inv
    PROVE  /\ batch.started \in BOOLEAN /\ batch.attempt \in Nat
           /\ batch.done \subseteq Requests
BY Types, ProviderBoundAssumption DEF BatchRow

\* The new row has an input for its first attempt.
LEMMA ReserveBatchRow ==
    ASSUME Inv, RowOK, WorkersHold, NEW w \in Workers, ReserveBatch(w)
    PROVE  RowOK'
<1>1. CASE batch' = NewBatch(at[w].ref, w)
  <2>1. uploads[at[w].ref].attempt = 1 /\ uploads[at[w].ref].todo = Requests
      BY DEF ReserveBatch, WorkersHold, WorkerHolds
  <2>2. /\ batch'.status = "preparing" /\ batch'.attempt = 1 /\ batch'.job = NoJob
        /\ ~batch'.started /\ batch'.input = at[w].ref /\ batch'.done = {}
      BY <1>1 DEF NewBatch
  <2>3. UNCHANGED <<uploads, jobs>>
      BY DEF ReserveBatch
  <2> QED
      BY <2>1, <2>2, <2>3 DEF RowOK, RowHolds
<1>2. CASE batch' = batch
    BY <1>2, RowStands DEF ReserveBatch
<1> QED
    BY <1>1, <1>2 DEF ReserveBatch

\* The renewed input asks for what the row lacks, because the row read is the row.
LEMMA PublishInputsRow ==
    ASSUME Inv, Agrees, RowOK, WorkersHold, NEW w \in Workers, PublishInputs(w)
    PROVE  RowOK'
<1>1. CASE /\ Leased(w) /\ NeedsInput(batch)
           /\ batch' = [batch EXCEPT !.input = at[w].ref]
  <2>1. at[w].pc = "persist" /\ at[w].row = batch
      BY <1>1, LeasedRow DEF PublishInputs, Reading, HoldsBatch
  <2>2. /\ uploads[at[w].ref].attempt = batch.attempt
        /\ uploads[at[w].ref].todo = Requests \ batch.done
      BY <2>1 DEF WorkersHold, WorkerHolds, Missing
  <2>3. /\ batch'.status = "preparing" /\ batch'.attempt = batch.attempt
        /\ batch'.job = batch.job /\ ~batch'.started
        /\ batch'.input = at[w].ref /\ batch'.done = batch.done
      BY <1>1, Types DEF BatchRow, NeedsInput
  <2>4. batch.job = NoJob
      BY <1>1 DEF RowOK, RowHolds, NeedsInput
  <2>5. UNCHANGED <<uploads, jobs>>
      BY DEF PublishInputs
  <2> QED
      BY <2>2, <2>3, <2>4, <2>5 DEF RowOK, RowHolds
<1>2. CASE batch' = batch
    BY <1>2, RowStands DEF PublishInputs
<1> QED
    BY <1>1, <1>2 DEF PublishInputs

LEMMA StartSubmissionRow ==
    ASSUME Inv, RowOK, NEW w \in Workers, StartSubmission(w)
    PROVE  RowOK'
<1>1. CASE /\ uploads[at[w].row.input].attempt = at[w].row.attempt /\ MayStart(w)
           /\ batch' = [batch EXCEPT !.started = TRUE]
  <2>1. /\ batch.status = "preparing"
        /\ batch.attempt = at[w].row.attempt /\ batch.input = at[w].row.input
      BY <1>1 DEF MayStart
  <2>2. uploads[batch.input].attempt = batch.attempt
      BY <1>1, <2>1
  <2>3. /\ batch'.status = "preparing" /\ batch'.attempt = batch.attempt
        /\ batch'.job = batch.job
        /\ batch'.input = batch.input /\ batch'.done = batch.done
      BY <1>1, <2>1, Types DEF BatchRow
  <2>4. batch.job = NoJob
      BY <2>1 DEF RowOK, RowHolds
  <2>5. UNCHANGED <<uploads, jobs>>
      BY DEF StartSubmission
  <2> QED
      BY <2>1, <2>2, <2>3, <2>4, <2>5 DEF RowOK, RowHolds
<1>2. CASE batch' = batch
    BY <1>2, RowStands DEF StartSubmission
<1> QED
    BY <1>1, <1>2 DEF StartSubmission

LEMMA ClearMarkerRow ==
    ASSUME Inv, RowOK, NEW w \in Workers, ClearMarker(w)
    PROVE  RowOK'
<1>1. CASE batch.job = NoJob /\ batch' = [batch EXCEPT !.started = FALSE]
  <2>1. /\ batch'.status = batch.status /\ batch'.attempt = batch.attempt
        /\ batch'.job = NoJob /\ ~batch'.started
        /\ batch'.input = batch.input /\ batch'.done = batch.done
      BY <1>1, Types DEF BatchRow
  <2>2. UNCHANGED <<uploads, jobs>>
      BY DEF ClearMarker
  <2> QED
      BY <1>1, <2>1, <2>2 DEF RowOK, RowHolds
<1>2. CASE batch' = batch
    BY <1>2, RowStands DEF ClearMarker
<1> QED
    BY <1>1, <1>2 DEF ClearMarker, MayClear

\* The recorded job is a job of the attempt.
LEMMA RecordRow ==
    ASSUME Inv, RowOK, NEW w \in Workers, NEW j \in DOMAIN jobs, NEW pc,
           jobs[j].attempt = at[w].row.attempt,
           Record(w, j, pc), UNCHANGED <<uploads, jobs>>
    PROVE  RowOK'
<1>1. CASE MayRecord(w) /\ batch' = Recorded(w, j)
  <2>1. /\ batch.attempt = at[w].row.attempt /\ batch.status = "preparing"
        /\ batch.started
      BY <1>1 DEF MayRecord
  <2>2. /\ batch'.status = "submitted" /\ batch'.attempt = batch.attempt
        /\ batch'.job = j /\ batch'.started
        /\ batch'.input = batch.input /\ batch'.done = batch.done
      BY <1>1, <2>1, Types DEF BatchRow, Recorded
  <2>3. j # NoJob
      BY DEF NoJob, Inv, TypeOK
  <2> QED
      BY <2>1, <2>2, <2>3 DEF RowOK, RowHolds
<1>2. CASE batch' = batch
    BY <1>2, RowStands
<1> QED
    BY <1>1, <1>2 DEF Record

LEMMA RecordSubmissionRow ==
    ASSUME Inv, RowOK, WorkersHold, NEW w \in Workers, RecordSubmission(w)
    PROVE  RowOK'
<1>1. at[w].ref \in DOMAIN jobs /\ jobs[at[w].ref].attempt = at[w].row.attempt
    BY DEF RecordSubmission, WorkersHold, WorkerHolds
<1> QED
    BY <1>1, RecordRow DEF RecordSubmission

LEMMA JobFoundRow ==
    ASSUME Inv, RowOK, NEW w \in Workers, NEW j \in DOMAIN jobs, JobFound(w, j)
    PROVE  RowOK'
<1>1. jobs[j].attempt = at[w].row.attempt
    BY DEF JobFound, NamedLike
<1> QED
    BY <1>1, RecordRow DEF JobFound

\* A batch is given up when its job has ended.
LEMMA FailedRow ==
    ASSUME Inv, RowOK, batch.status # "none",
           batch.status = "submitted" => jobs[batch.job].ended,
           batch' = [batch EXCEPT !.status = "failed"], UNCHANGED <<uploads, jobs>>
    PROVE  RowOK'
<1>1. /\ batch'.status = "failed" /\ batch'.attempt = batch.attempt
      /\ batch'.job = batch.job /\ batch'.started = batch.started
      /\ batch'.input = batch.input /\ batch'.done = batch.done
    BY Types DEF BatchRow
<1>2. batch.job # NoJob => jobs[batch.job].ended
    BY Types DEF RowOK, RowHolds, BatchRow, Ended
<1> QED
    BY <1>1, <1>2 DEF RowOK, RowHolds

LEMMA AbandonBatchRow ==
    ASSUME Inv, Agrees, RowOK, NEW w \in Workers, AbandonBatch(w)
    PROVE  RowOK'
<1>1. CASE Leased(w) /\ batch' = [batch EXCEPT !.status = "failed"]
  <2>1. at[w].row = batch
      BY <1>1, LeasedRow DEF AbandonBatch, Advancing, Reading, HoldsBatch
  <2>2. batch.status = "submitted" => jobs[batch.job].ended
      BY <2>1 DEF AbandonBatch, Cancellable
  <2>3. batch.status # "none"
      BY <1>1, LeasedExists DEF Leased
  <2> QED
      BY <1>1, <2>2, <2>3, FailedRow DEF AbandonBatch
<1>2. CASE batch' = batch
    BY <1>2, RowStands DEF AbandonBatch
<1> QED
    BY <1>1, <1>2 DEF AbandonBatch

\* A retry starts without a job, and the old input is of an earlier attempt.
LEMMA ReserveRetryRow ==
    ASSUME Inv, RowOK, NEW w \in Workers, ReserveRetry(w)
    PROVE  RowOK'
<1> DEFINE mid == [batch EXCEPT !.status = "preparing", !.attempt = @ + 1]
           next == [mid EXCEPT !.job = NoJob, !.started = FALSE]
<1>1. CASE batch.status = "retry" /\ batch' = next
  <2>1. /\ mid.status = "preparing" /\ mid.attempt = batch.attempt + 1
        /\ mid.input = batch.input /\ mid.done = batch.done
      BY Types DEF BatchRow
  <2> DEFINE mid2 == [mid EXCEPT !.job = NoJob]
  <2>2. /\ mid2.status = mid.status /\ mid2.attempt = mid.attempt /\ mid2.job = NoJob
        /\ mid2.input = mid.input /\ mid2.done = mid.done
        /\ next = [mid2 EXCEPT !.started = FALSE]
      BY Types DEF BatchRow
  <2>3. /\ next.status = mid2.status /\ next.attempt = mid2.attempt /\ next.job = mid2.job
        /\ ~next.started /\ next.input = mid2.input /\ next.done = mid2.done
      BY Types DEF BatchRow
  <2> HIDE DEF mid, mid2, next
  <2>4. batch.started /\ uploads[batch.input].attempt = batch.attempt
      BY <1>1 DEF RowOK, RowHolds
  <2>5. uploads[batch.input].attempt # batch.attempt + 1
      BY <2>4, RowFields
  <2>6. UNCHANGED <<uploads, jobs>>
      BY DEF ReserveRetry
  <2> QED
      BY <1>1, <2>1, <2>2, <2>3, <2>5, <2>6 DEF RowOK, RowHolds
<1>2. CASE batch.status = "retry" /\ batch' = [batch EXCEPT !.status = "failed"]
    BY <1>2, FailedRow DEF ReserveRetry
<1>3. CASE batch' = batch
    BY <1>3, RowStands DEF ReserveRetry
<1> QED
    BY <1>1, <1>2, <1>3 DEF ReserveRetry

\* The outcome is for the job that was collected, which has ended.
LEMMA PublishResultRow ==
    ASSUME Inv, Agrees, RowOK, WorkersHold, NEW w \in Workers, PublishResult(w)
    PROVE  RowOK'
<1> DEFINE st == Outcome(Results(w), at[w].row.attempt)
           mid == [batch EXCEPT !.done = Results(w)]
<1>1. CASE /\ Leased(w) /\ batch.status = "submitted"
           /\ batch' = [mid EXCEPT !.status = st]
  <2>1. at[w].row = batch /\ at[w].pc = "publish"
      BY <1>1, LeasedRow DEF PublishResult, Reading, HoldsBatch
  <2>2. jobs[batch.job].ended
      BY <2>1 DEF WorkersHold, WorkerHolds
  <2>3. st \in {"retry", "complete", "failed"}
      BY DEF Outcome
  <2>4. /\ mid.attempt = batch.attempt /\ mid.job = batch.job
        /\ mid.started = batch.started /\ mid.input = batch.input
      BY Types DEF BatchRow
  <2> HIDE DEF st
  <2>5. /\ batch'.status = st /\ batch'.attempt = mid.attempt /\ batch'.job = mid.job
        /\ batch'.started = mid.started /\ batch'.input = mid.input
      BY <1>1, Types DEF BatchRow
  <2>6. UNCHANGED <<uploads, jobs>>
      BY DEF PublishResult
  <2> HIDE DEF mid
  <2> QED
      BY <1>1, <2>2, <2>3, <2>4, <2>5, <2>6 DEF RowOK, RowHolds
<1>2. CASE batch' = batch
    BY <1>2, RowStands DEF PublishResult
<1> QED
    BY <1>1, <1>2 DEF PublishResult

LEMMA RowTurn ==
    ASSUME Inv, Agrees, RowOK, WorkersHold, NEW w \in Workers, Moves(w)
    PROVE  RowOK'
<1>1. Grow
    BY WorkerGrows DEF Moves
<1> QED
    BY <1>1, RowKept, ReserveBatchRow, PublishInputsRow, StartSubmissionRow, ClearMarkerRow,
       RecordSubmissionRow, JobFoundRow, AbandonBatchRow, ReserveRetryRow, PublishResultRow
    DEF Moves, RowMoves, Rewrites

----------------------------------------------------------------------------
(* What a worker carries.                                                  *)

LEMMA WorkerKept ==
    ASSUME Inv, WorkersHold, Grow, NEW x \in Workers, at'[x] = at[x]
    PROVE  WorkerHolds(at'[x], uploads', jobs')
<1>1. WorkerHolds(at[x], uploads, jobs) /\ WorkerRefs(at[x])
    BY Types DEF WorkersHold
<1>2. at[x].pc = "publish" => at[x].row.job \in DOMAIN jobs
    BY <1>1 DEF WorkerHolds, Reading, HoldsBatch
<1> QED
    BY <1>1, <1>2 DEF WorkerHolds, WorkerRefs, Grow, UploadsGrow, JobsGrow

LEMMA KeepsHolds ==
    ASSUME Inv, WorkersHold, NEW w \in Workers, Keeps(w), Grow
    PROVE  WorkerHolds(at'[w], uploads', jobs')
<1>1. at'[w].row = at[w].row /\ at[w].pc \in Reading
    BY DEF Keeps
<1>2. at'[w].row.status = "submitted" => at'[w].row.job \in DOMAIN jobs'
    BY <1>1 DEF WorkersHold, WorkerHolds, Grow, JobsGrow
<1>3. at'[w].pc # "reserve"
    BY DEF Keeps, Reading, HoldsBatch
<1>4. ASSUME at'[w].pc = "created"
      PROVE  at'[w].ref \in DOMAIN jobs' /\ jobs'[at'[w].ref].attempt = at'[w].row.attempt
  <2>1. at'[w].ref = Len(jobs) + 1 /\ NewJob(Request(w))
      BY <1>4 DEF Keeps, CreateAccepted
  <2> QED
      BY <1>1, <2>1, NewJobContent DEF Request
<1>5. ASSUME at'[w].pc = "publish"
      PROVE  at'[w].row.status = "submitted" /\ jobs'[at'[w].row.job].ended
    BY <1>1, <1>5 DEF Keeps, ReadOutput
<1>6. ASSUME at'[w].pc = "persist"
      PROVE  /\ uploads'[at'[w].ref].attempt = at'[w].row.attempt
             /\ uploads'[at'[w].ref].todo = Missing(at'[w].row)
  <2>1. at'[w].ref = Len(uploads) + 1 /\ RefreshInputs(w)
      BY <1>6 DEF Keeps
  <2>2. NewUpload(at[w].row.attempt, Missing(at[w].row), at[w].row.input)
    <3>1. ASSUME Stop(w, "raise") PROVE FALSE
        BY <1>6, <3>1, StopPosition DEF Position
    <3> QED
        BY <2>1, <3>1 DEF RefreshInputs
  <2> QED
      BY <1>1, <2>1, <2>2, NewUploadContent DEF Missing
<1> QED
    BY <1>2, <1>3, <1>4, <1>5, <1>6 DEF WorkerHolds

LEMMA PersistsHolds ==
    ASSUME Inv, NEW w \in Workers, Persists(w)
    PROVE  WorkerHolds(at'[w], uploads', jobs')
<1>1. /\ NewUpload(1, Requests, NoInput)
      /\ at'[w].pc = "reserve" /\ at'[w].ref = Len(uploads) + 1
    BY DEF Persists, PersistNew
<1>2. uploads'[at'[w].ref].attempt = 1 /\ uploads'[at'[w].ref].todo = Requests
    BY <1>1, NewUploadContent
<1> QED
    BY <1>1, <1>2 DEF WorkerHolds, Reading, HoldsBatch

LEMMA WorkersTurn ==
    ASSUME Inv, WorkersHold, NEW w \in Workers, Turned(w), Grow, RowOK'
    PROVE  WorkersHold'
<1> SUFFICES ASSUME NEW x \in Workers PROVE WorkerHolds(at'[x], uploads', jobs')
    BY DEF WorkersHold
<1>1. CASE x # w
    BY <1>1, WorkerKept DEF Turned, Others
<1>2. CASE x = w /\ Ends(w)
    BY <1>2 DEF Ends, WorkerHolds, Reading, HoldsBatch
<1>3. CASE x = w /\ Takes(w)
    BY <1>3 DEF Takes, WorkerHolds, RowOK, RowHolds
<1>4. CASE x = w /\ Keeps(w)
    BY <1>4, KeepsHolds
<1>5. CASE x = w /\ Persists(w)
    BY <1>5, PersistsHolds
<1> QED
    BY <1>1, <1>2, <1>3, <1>4, <1>5 DEF Turned

----------------------------------------------------------------------------
(* Payments are for the open attempt and its input.                        *)

\* No payment is open: what was paid for was answered and has ended.
NothingOpen ==
    /\ \A j \in DOMAIN jobs : jobs[j].ended
    /\ late = {}
    /\ \A w \in Workers : at[w].pc \notin Paying

LEMMA UnmarkedIsUnpaid ==
    ASSUME Inv, PaymentsHold, ~batch.started
    PROVE  NothingOpen /\ \A j \in DOMAIN jobs : jobs[j].attempt # batch.attempt
<1>1. \A j \in DOMAIN jobs : jobs[j].attempt # batch.attempt
    BY DEF Inv, Paid, AllCovered, Covered
<1>2. \A r \in late : r.attempt # batch.attempt
    BY DEF Inv, Paid, AllCovered, Covered
<1>3. \A w \in Workers : at[w].pc \in Paying => at[w].row.attempt # batch.attempt
    BY DEF Inv, Paid, AllCovered, Covered
<1> QED
    BY <1>1, <1>2, <1>3 DEF PaymentsHold, JobsOpen, RequestsOpen, PayersOpen, JobHolds, IsOpen, NothingOpen

\* The job of the attempt is its only payment.
LEMMA EndedIsPaid ==
    ASSUME Inv, PaymentsHold, RowOK, batch.job # NoJob, jobs[batch.job].ended
    PROVE  NothingOpen
<1>1. batch.job \in DOMAIN jobs /\ jobs[batch.job].attempt = batch.attempt
    BY DEF RowOK, RowHolds
<1>2. \A j \in DOMAIN jobs : jobs[j].ended
    BY <1>1 DEF Inv, Paid, Unique, PaymentsHold, JobsOpen, RequestsOpen, PayersOpen, JobHolds
<1>3. late = {}
    BY <1>1 DEF Inv, Paid, Unique, PaymentsHold, RequestsOpen, PayersOpen, IsOpen
<1>4. \A w \in Workers : at[w].pc \notin Paying
    BY <1>1 DEF Inv, Paid, Unique, PaymentsHold, RequestsOpen, PayersOpen, IsOpen
<1> QED
    BY <1>2, <1>3, <1>4 DEF NothingOpen

\* When no payment is open, the next attempt, or a new input, starts from none.
LEMMA NothingCarriesOver ==
    ASSUME NothingOpen, UNCHANGED <<jobs, late>>, NEW w \in Workers, Others(w),
           at'[w].pc \notin Paying,
           \A j \in DOMAIN jobs : jobs[j].attempt # batch'.attempt
    PROVE  PaymentsHold'
BY DEF NothingOpen, PaymentsHold, JobsOpen, RequestsOpen, PayersOpen, JobHolds, IsOpen, Others

\* A worker that takes a row is paying only after it set the marker.
LEMMA PayingTurn ==
    ASSUME Inv, PaymentsHold, NEW w \in Workers, Turned(w),
           batch'.attempt = batch.attempt, batch'.input = batch.input
    PROVE  PayersOpen'
<1> SUFFICES ASSUME NEW x \in Workers, at'[x].pc \in Paying
             PROVE  at'[x].row.attempt = batch'.attempt /\ at'[x].row.input = batch'.input
    BY DEF PayersOpen, IsOpen
<1>1. CASE x # w
    BY <1>1 DEF Turned, Others, PaymentsHold, RequestsOpen, PayersOpen, IsOpen
<1>2. CASE x = w /\ Takes(w)
    BY <1>2 DEF Takes
<1>3. CASE x = w /\ Keeps(w)
    BY <1>3 DEF Keeps, Paying, PaymentsHold, RequestsOpen, PayersOpen, IsOpen
<1>4. CASE x = w /\ (Ends(w) \/ Persists(w))
    BY <1>4 DEF Ends, Persists, Paying, Reading, HoldsBatch
<1> QED
    BY <1>1, <1>2, <1>3, <1>4 DEF Turned

LEMMA JobsTurn ==
    ASSUME Inv, PaymentsHold, NEW w \in Workers, StoreMoves(w),
           batch'.attempt = batch.attempt, batch'.input = batch.input
    PROVE  JobsOpen'
<1>1. CASE jobs' = jobs
    BY <1>1 DEF PaymentsHold, JobsOpen, RequestsOpen, PayersOpen, JobHolds
<1>2. CASE CreateAccepted(w)
  <2>1. IsOpen(Request(w).attempt, Request(w).input)
      BY <1>2 DEF CreateAccepted, Paying, PaymentsHold, RequestsOpen, PayersOpen, IsOpen, Request
  <2>2. NewJob(Request(w))
      BY <1>2 DEF CreateAccepted
  <2> QED
      BY <2>1, <2>2, NewJobContent DEF PaymentsHold, JobsOpen, RequestsOpen, PayersOpen, JobHolds, IsOpen
<1>3. CASE CancelJob(w)
  <2>1. CASE jobs' = [jobs EXCEPT ![at[w].row.job].ended = TRUE]
    <3>1. JobsGrow /\ DOMAIN jobs' = DOMAIN jobs
        BY <2>1, JobChanges
    <3> QED
        BY <3>1 DEF PaymentsHold, JobsOpen, RequestsOpen, PayersOpen, JobHolds, JobsGrow
  <2> QED
      BY <1>1, <1>3, <2>1 DEF CancelJob
<1> QED
    BY <1>1, <1>2, <1>3 DEF StoreMoves

LEMMA LateTurn ==
    ASSUME Inv, PaymentsHold, NEW w \in Workers, StoreMoves(w),
           batch'.attempt = batch.attempt, batch'.input = batch.input
    PROVE  RequestsOpen'
<1>1. CASE late' \subseteq late
    BY <1>1 DEF PaymentsHold, RequestsOpen, PayersOpen, IsOpen
<1>2. CASE at[w].pc = "create" /\ late' = late \cup {Request(w)}
  <2>1. IsOpen(Request(w).attempt, Request(w).input)
      BY <1>2 DEF Paying, PaymentsHold, RequestsOpen, PayersOpen, IsOpen, Request
  <2> QED
      BY <1>2, <2>1 DEF PaymentsHold, RequestsOpen, PayersOpen, IsOpen
<1> QED
    BY <1>1, <1>2 DEF StoreMoves, CreateAmbiguous, Crash

LEMMA OpenTurn ==
    ASSUME Inv, PaymentsHold, NEW w \in Workers, Turned(w), Moves(w),
           batch'.attempt = batch.attempt, batch'.input = batch.input
    PROVE  PaymentsHold'
BY PayingTurn, JobsTurn, LateTurn DEF PaymentsHold, Moves

\* A step that opens another attempt, or gives it another input, finds nothing open.
LEMMA ReopenTurn ==
    ASSUME Inv, RowOK, PaymentsHold, NEW w \in Workers, Turned(w), Rewrites(w),
           batch'.attempt # batch.attempt \/ batch'.input # batch.input
    PROVE  PaymentsHold'
<1>1. CASE ReserveBatch(w)
  <2>1. batch = NoBatch /\ batch' = NewBatch(at[w].ref, w) /\ Holding(w, batch', "submit")
      BY <1>1, Types DEF ReserveBatch, BatchRefs
  <2>2. ~batch.started /\ batch'.attempt = batch.attempt
      BY <2>1 DEF NoBatch, NewBatch
  <2>3. NothingOpen /\ \A j \in DOMAIN jobs : jobs[j].attempt # batch'.attempt
      BY <2>2, UnmarkedIsUnpaid
  <2>4. Others(w) /\ at'[w].pc = "submit"
      BY <2>1, HoldingMoves
  <2> QED
      BY <1>1, <2>3, <2>4, NothingCarriesOver DEF ReserveBatch, Paying
<1>2. CASE PublishInputs(w)
  <2>1. /\ NeedsInput(batch) /\ batch' = [batch EXCEPT !.input = at[w].ref]
        /\ Holding(w, batch', "submit")
      BY <1>2 DEF PublishInputs
  <2>2. ~batch.started /\ batch'.attempt = batch.attempt
      BY <2>1, Types DEF NeedsInput, BatchRow
  <2>3. NothingOpen /\ \A j \in DOMAIN jobs : jobs[j].attempt # batch'.attempt
      BY <2>2, UnmarkedIsUnpaid
  <2>4. Others(w) /\ at'[w].pc = "submit"
      BY <2>1, HoldingMoves
  <2> QED
      BY <1>2, <2>3, <2>4, NothingCarriesOver DEF PublishInputs, Paying
<1>3. CASE ReserveRetry(w)
  <2> DEFINE mid == [batch EXCEPT !.status = "preparing", !.attempt = @ + 1]
             next == [mid EXCEPT !.job = NoJob, !.started = FALSE]
  <2>1. CASE batch.status = "retry" /\ batch' = next /\ Holding(w, batch', "refresh")
    <3>1. batch.job # NoJob /\ jobs[batch.job].ended
        BY <2>1 DEF RowOK, RowHolds
    <3>2. NothingOpen
        BY <3>1, EndedIsPaid
    <3>3. batch'.attempt = batch.attempt + 1
        BY <2>1, Types DEF BatchRow
    <3>4. \A j \in DOMAIN jobs : jobs[j].attempt <= batch.attempt
        BY DEF Inv, Paid, AllCovered, Covered
    <3>5. \A j \in DOMAIN jobs : jobs[j].attempt \in Nat
      <4>1. \A j \in DOMAIN jobs : jobs[j] \in Job
          BY DEF Inv, TypeOK
      <4> QED
          BY <4>1, ProviderBoundAssumption DEF Job
    <3>6. \A j \in DOMAIN jobs : jobs[j].attempt # batch.attempt + 1
        BY <3>4, <3>5, RowFields
    <3>7. Others(w) /\ at'[w].pc = "refresh"
        BY <2>1, HoldingMoves
    <3> QED
        BY <1>3, <3>2, <3>3, <3>6, <3>7, NothingCarriesOver DEF ReserveRetry, Paying
  <2>2. CASE batch' = [batch EXCEPT !.status = "failed"] \/ batch' = batch
      BY <2>2, Types DEF BatchRow
  <2> QED
      BY <1>3, <2>1, <2>2 DEF ReserveRetry
<1>4. ASSUME batch'.attempt = batch.attempt /\ batch'.input = batch.input PROVE FALSE
    BY <1>4
<1>5. CASE StartSubmission(w)
    BY <1>4, <1>5, Types DEF StartSubmission, BatchRow
<1>6. CASE ClearMarker(w)
    BY <1>4, <1>6, Types DEF ClearMarker, BatchRow
<1>7. ASSUME NEW j, NEW pc, Record(w, j, pc) PROVE FALSE
    BY <1>4, <1>7, Types DEF Record, Recorded, BatchRow
<1>8. CASE AbandonBatch(w)
    BY <1>4, <1>8, Types DEF AbandonBatch, BatchRow
<1>9. CASE PublishResult(w)
    BY <1>4, <1>9, Types DEF PublishResult, BatchRow
<1>10. CASE RecordSubmission(w) \/ \E j \in DOMAIN jobs : JobFound(w, j)
    BY <1>7, <1>10 DEF RecordSubmission, JobFound
<1> QED
    BY <1>1, <1>2, <1>3, <1>5, <1>6, <1>8, <1>9, <1>10 DEF Rewrites

LEMMA PaymentsTurn ==
    ASSUME Inv, RowOK, PaymentsHold, NEW w \in Workers, Turned(w), Moves(w)
    PROVE  PaymentsHold'
<1>1. CASE batch'.attempt = batch.attempt /\ batch'.input = batch.input
    BY <1>1, OpenTurn
<1>2. CASE batch'.attempt # batch.attempt \/ batch'.input # batch.input
  <2>1. Rewrites(w)
      BY <1>2 DEF Moves, RowMoves, Core
  <2> QED
      BY <1>2, <2>1, ReopenTurn
<1> QED
    BY <1>1, <1>2

----------------------------------------------------------------------------
(* Files are deleted when nothing is paid for any more.                    *)

LEMMA CleanableKept ==
    ASSUME Inv, RowOK, NEW w \in Workers, RowMoves(w), Cleanable(batch)
    PROVE  Cleanable(batch')
<1>1. CASE Core(batch') = Core(batch)
    BY <1>1 DEF Core, Cleanable
<1>2. batch.status \in {"complete", "failed"}
    BY DEF Cleanable, Ended
<1>3. CASE batch' = batch
    BY <1>3
<1>4. CASE ClearMarker(w)
    BY <1>2, <1>4, Types DEF ClearMarker, Cleanable, BatchRow
<1>5. CASE AbandonBatch(w)
    BY <1>2, <1>5, Types DEF AbandonBatch, Cleanable, Ended, BatchRow
<1>6. CASE ReserveBatch(w) \/ PublishInputs(w) \/ StartSubmission(w) \/ RecordSubmission(w)
           \/ (\E j \in DOMAIN jobs : JobFound(w, j)) \/ ReserveRetry(w) \/ PublishResult(w)
    BY <1>2, <1>3, <1>6
    DEF ReserveBatch, PublishInputs, StartSubmission, RecordSubmission, JobFound, Record,
        ReserveRetry, PublishResult, NeedsInput, MayStart, MayRecord
<1> QED
    BY <1>1, <1>4, <1>5, <1>6 DEF RowMoves, Rewrites

NoDeleted == \A u \in DOMAIN uploads : uploads[u].state # "deleted"

LEMMA DeletionsTurn ==
    ASSUME Inv, CleaningIsDue, NEW w \in Workers, StoreMoves(w), ~NoDeleted'
    PROVE  Cleanable(batch)
<1> SUFFICES ASSUME NoDeleted, \A x \in Workers : at[x].pc # "clean" PROVE FALSE
    BY DEF CleaningIsDue, NoDeleted
<1>1. CASE uploads' = uploads
    BY <1>1 DEF NoDeleted
<1>2. ASSUME NEW a, NEW todo, NEW prev, NewUpload(a, todo, prev) PROVE FALSE
    BY <1>2, NewUploadContent DEF NoDeleted
<1>3. CASE RemoveUpload(w)
    BY <1>3 DEF RemoveUpload
<1> QED
    BY <1>1, <1>2, <1>3 DEF StoreMoves, PersistNew, RefreshInputs

LEMMA CleaningTurn ==
    ASSUME Inv, RowOK, CleaningIsDue, NEW w \in Workers, Turned(w), Moves(w)
    PROVE  CleaningIsDue'
<1>1. CASE Cleanable(batch)
    BY <1>1, CleanableKept DEF Moves, CleaningIsDue
<1>2. CASE ~Cleanable(batch)
  <2>1. NoDeleted'
      BY <1>2, DeletionsTurn DEF Moves
  <2>2. ASSUME NEW x \in Workers, at'[x].pc = "clean" PROVE Cleanable(batch')
    <3>1. at[x].pc # "clean"
        BY <1>2 DEF CleaningIsDue
    <3>2. x = w /\ Takes(w)
        BY <2>2, <3>1 DEF Turned, Others, Ends, Keeps, Persists, Reading, HoldsBatch
    <3>3. ClaimCleanup(w)
        BY <2>2, <3>2 DEF Takes
    <3> QED
        BY <1>2, <3>3 DEF ClaimCleanup, CleanupDue, Cleanable
  <2> QED
      BY <2>1, <2>2 DEF CleaningIsDue, NoDeleted
<1> QED
    BY <1>1, <1>2

----------------------------------------------------------------------------
(* The environment.                                                        *)

\* What the environment does to rows, files and jobs leaves the workers alone.
LEMMA QuietEnvironment ==
    ASSUME Inv, Extra, UNCHANGED <<uploads, jobs, late, at>>,
           batch' = batch \/ batch' = [batch EXCEPT !.live = FALSE]
    PROVE  Extra'
<1>1. batch' = batch \/ (~batch'.live /\ Core(batch') = Core(batch))
    BY Types DEF BatchRow, Core
<1>2. Agrees'
    BY <1>1 DEF Extra, Agrees, Leased
<1>3. Core(batch') = Core(batch)
    BY <1>1
<1>4. RowHolds(batch, uploads, jobs)'
    BY <1>3, RowKept DEF Extra, RowOK, Grow, UploadsGrow, JobsGrow
<1>5. PaymentsHold'
    BY <1>3 DEF Extra, Core, PaymentsHold, JobsOpen, RequestsOpen, PayersOpen, JobHolds, IsOpen
<1>6. WorkersHold'
    BY DEF Extra, WorkersHold
<1>7. CleaningIsDue'
    BY <1>3 DEF Extra, Core, CleaningIsDue, Cleanable
<1> QED
    BY <1>2, <1>4, <1>5, <1>6, <1>7 DEF Extra

\* Steps of the provider: files and jobs grow.
LEMMA StoresEnvironment ==
    ASSUME Inv, Extra, Grow, UNCHANGED <<batch, at>>, JobsOpen', RequestsOpen',
           NoDeleted => NoDeleted'
    PROVE  Extra'
<1>1. Agrees'
    BY DEF Extra, Agrees, Leased
<1>2. RowHolds(batch, uploads, jobs)'
    BY RowKept DEF Extra, RowOK
<1>3. PaymentsHold'
    BY DEF Extra, PaymentsHold, PayersOpen, IsOpen
<1>4. WorkersHold'
    BY WorkerKept DEF Extra, WorkersHold
<1>5. CleaningIsDue'
    BY DEF Extra, CleaningIsDue, NoDeleted
<1> QED
    BY <1>1, <1>2, <1>3, <1>4, <1>5 DEF Extra

LEMMA EnvironmentTurn ==
    ASSUME Inv, Extra, Environment
    PROVE  Extra'
<1>1. CASE Supersede \/ ClaimSuperseded \/ WorkLeaseExpires \/ RetireExhaustedWork
           \/ AssembleExtraction
    BY <1>1, QuietEnvironment
    DEF Supersede, ClaimSuperseded, WorkLeaseExpires, RetireExhaustedWork, AssembleExtraction
<1>2. CASE BatchLeaseExpires
    BY <1>2, QuietEnvironment DEF BatchLeaseExpires
<1>3. ASSUME NEW j \in DOMAIN jobs, JobEnds(j) PROVE Extra'
  <2>1. JobsGrow /\ DOMAIN jobs' = DOMAIN jobs
      BY <1>3, JobChanges DEF JobEnds
  <2>2. UNCHANGED <<batch, uploads, late, at>>
      BY <1>3 DEF JobEnds
  <2>3. JobsOpen' /\ RequestsOpen' /\ (NoDeleted => NoDeleted') /\ UploadsGrow
      BY <2>1, <2>2
      DEF Extra, PaymentsHold, JobsOpen, RequestsOpen, JobHolds, IsOpen, JobsGrow, NoDeleted, UploadsGrow
  <2> QED
      BY <2>1, <2>2, <2>3, StoresEnvironment DEF Grow
<1>4. ASSUME NEW u \in DOMAIN uploads, UploadExpires(u) PROVE Extra'
  <2>1. /\ UploadsGrow /\ DOMAIN uploads' = DOMAIN uploads
        /\ uploads'[u].state = "expired"
        /\ \A x \in DOMAIN uploads : x # u => uploads'[x] = uploads[x]
      BY <1>4, UploadChanges DEF UploadExpires
  <2>2. UNCHANGED <<batch, jobs, late, at>>
      BY <1>4 DEF UploadExpires
  <2>3. JobsOpen' /\ RequestsOpen' /\ (NoDeleted => NoDeleted') /\ JobsGrow
      BY <2>1, <2>2
      DEF Extra, PaymentsHold, JobsOpen, RequestsOpen, JobHolds, IsOpen, JobsGrow, NoDeleted
  <2> QED
      BY <2>1, <2>2, <2>3, StoresEnvironment DEF Grow
<1>5. ASSUME NEW r \in late, LateCreate(r) PROVE Extra'
  <2>1. /\ NewJob(r) /\ late' = late \ {r} /\ UNCHANGED <<batch, uploads, at>>
        /\ IsOpen(r.attempt, r.input)
      BY <1>5 DEF LateCreate, Extra, PaymentsHold, RequestsOpen
  <2>2. JobsOpen'
      BY <2>1, NewJobContent DEF Extra, PaymentsHold, JobsOpen, JobHolds, IsOpen
  <2>3. RequestsOpen' /\ (NoDeleted => NoDeleted') /\ UploadsGrow
      BY <2>1 DEF Extra, PaymentsHold, RequestsOpen, IsOpen, NoDeleted, UploadsGrow
  <2>4. JobsGrow
      BY <2>1, NewJobGrows
  <2> QED
      BY <2>1, <2>2, <2>3, <2>4, StoresEnvironment DEF Grow
<1> QED
    BY <1>1, <1>2, <1>3, <1>4, <1>5 DEF Environment

----------------------------------------------------------------------------
(* The theorems.                                                           *)

LEMMA InitResults == Init => ResultsInv
<1> SUFFICES ASSUME Init PROVE Extra
    BY InitInv DEF ResultsInv
<1>1. /\ uploads = <<>> /\ jobs = <<>> /\ late = {} /\ batch = NoBatch
      /\ at = [w \in Workers |-> Idle]
    BY DEF Init
<1>2. \A w \in Workers : at[w].pc = "idle"
    BY <1>1 DEF Idle
<1>3. Agrees /\ WorkersHold /\ CleaningIsDue
    BY <1>1, <1>2 DEF Agrees, WorkersHold, WorkerHolds, CleaningIsDue, Reading, HoldsBatch
<1>4. RowHolds(batch, uploads, jobs)
    BY <1>1 DEF RowHolds, NoBatch
<1>5. PaymentsHold
    BY <1>1, <1>2 DEF PaymentsHold, JobsOpen, RequestsOpen, PayersOpen, Paying
<1> QED
    BY <1>3, <1>4, <1>5 DEF Extra

LEMMA WorkerTurn ==
    ASSUME Inv, Extra, NEW w \in Workers, WorkerStep(w)
    PROVE  Extra'
<1>1. Turned(w) /\ Moves(w) /\ Grow
    BY Steps, WorkerGrows DEF Moves
<1>2. Agrees'
    BY <1>1, AgreesTurn DEF Extra, Moves, RowMoves
<1>3. RowOK'
    BY <1>1, RowTurn DEF Extra, RowOK
<1>4. PaymentsHold'
    BY <1>1, PaymentsTurn DEF Extra, RowOK
<1>5. WorkersHold'
    BY <1>1, <1>3, WorkersTurn DEF Extra
<1>6. CleaningIsDue'
    BY <1>1, CleaningTurn DEF Extra, RowOK
<1> QED
    BY <1>2, <1>3, <1>4, <1>5, <1>6 DEF Extra, RowOK

LEMMA NextResults == ResultsInv /\ [Next]_vars => ResultsInv'
<1> SUFFICES ASSUME Inv, Extra, [Next]_vars PROVE Extra'
    BY NextInv DEF ResultsInv
<1>1. ASSUME NEW w \in Workers, WorkerStep(w) PROVE Extra'
    BY <1>1, WorkerTurn
<1>2. CASE Environment
    BY <1>2, EnvironmentTurn
<1>3. CASE UNCHANGED vars
    BY <1>3, QuietEnvironment DEF vars
<1> QED
    BY <1>1, <1>2, <1>3 DEF Next, WorkerStep

LEMMA ResultsHold == Spec => []ResultsInv
<1> QED
    BY InitResults, NextResults, PTL DEF Spec

\* The input file of a job that still runs is never deleted: files are deleted
\* only when the batch ended with a job that ended, or was never submitted, and
\* in both cases no other payment exists (claim_cleanup, advance_batch).
THEOREM InputsOutliveJobs == Spec => []RunningJobKeepsInput
<1>1. ASSUME ResultsInv PROVE RunningJobKeepsInput
  <2> SUFFICES ASSUME NEW j \in DOMAIN jobs, ~jobs[j].ended,
                      uploads[jobs[j].input].state = "deleted"
               PROVE  FALSE
      BY DEF RunningJobKeepsInput
  <2>1. Inv /\ PaymentsHold /\ RowOK
      BY <1>1 DEF ResultsInv, Extra, RowOK
  <2>2. ~NothingOpen
      BY DEF NothingOpen
  <2>3. jobs[j].attempt = batch.attempt /\ jobs[j].input = batch.input
      BY <2>1 DEF PaymentsHold, JobsOpen, JobHolds
  <2>4. batch.started
      BY <2>1, <2>2, UnmarkedIsUnpaid
  <2>5. batch.input \in DOMAIN uploads
    <3>1. batch.status # "none"
        BY <2>1, <2>4, Types DEF BatchRefs, NoBatch
    <3> QED
        BY <2>1, <3>1, Types DEF BatchRefs
  <2>6. Cleanable(batch)
      BY <1>1, <2>3, <2>5 DEF ResultsInv, Extra, CleaningIsDue
  <2>7. batch.job # NoJob /\ jobs[batch.job].ended
      BY <2>1, <2>4, <2>6 DEF Cleanable, Ended, RowOK, RowHolds
  <2> QED
      BY <2>1, <2>2, <2>7, EndedIsPaid
<1> QED
    BY <1>1, ResultsHold, PTL

\* A request whose result was accepted is not sent again, for any number of
\* requests, attempts, workers and expired inputs (refresh_batch_inputs).
THEOREM ResultsBoughtOnce == Spec => []NoResultBoughtTwice
<1>1. ASSUME ResultsInv PROVE NoResultBoughtTwice
  <2> SUFFICES ASSUME NEW j \in DOMAIN jobs, batch.status = "submitted", batch.job = j
               PROVE  uploads[jobs[j].input].todo \cap batch.done = {}
      BY DEF NoResultBoughtTwice
  <2>1. Inv /\ PaymentsHold /\ RowOK
      BY <1>1 DEF ResultsInv, Extra, RowOK
  <2>2. jobs[j].attempt = batch.attempt /\ batch.started
      BY <2>1 DEF RowOK, RowHolds
  <2>3. jobs[j].input = batch.input
      BY <2>1, <2>2 DEF PaymentsHold, JobsOpen, JobHolds
  <2>4. uploads[batch.input].todo = Requests \ batch.done
      BY <2>1, <2>2 DEF RowOK, RowHolds
  <2> QED
      BY <2>3, <2>4
<1> QED
    BY <1>1, ResultsHold, PTL

\* Accepted results are never lost: whoever publishes under the lease read the
\* row as it is, and its input manifest lists all that the row had (collect_batch).
LEMMA DoneGrows ==
    ASSUME ResultsInv, [Next]_vars
    PROVE  batch.done \subseteq batch'.done
<1>1. Inv /\ Agrees /\ RowOK
    BY DEF ResultsInv, Extra, RowOK
<1>2. ASSUME NEW w \in Workers, RowMoves(w) PROVE batch.done \subseteq batch'.done
  <2>1. CASE Core(batch') = Core(batch)
      BY <2>1 DEF Core
  <2>2. CASE ReserveBatch(w)
    <3>1. batch' = batch \/ batch = NoBatch
        BY <1>1, <2>2, Types DEF ReserveBatch, BatchRefs
    <3> QED
        BY <3>1 DEF NoBatch
  <2>3. CASE PublishInputs(w) \/ StartSubmission(w) \/ ClearMarker(w) \/ AbandonBatch(w)
      BY <1>1, <2>3, Types
      DEF PublishInputs, StartSubmission, ClearMarker, AbandonBatch, BatchRow
  <2>4. ASSUME NEW j, NEW pc, Record(w, j, pc) PROVE batch.done \subseteq batch'.done
      BY <1>1, <2>4, Types DEF Record, Recorded, BatchRow
  <2>5. CASE ReserveRetry(w)
    <3> DEFINE mid == [batch EXCEPT !.status = "preparing", !.attempt = @ + 1]
               next == [mid EXCEPT !.job = NoJob, !.started = FALSE]
    <3>1. mid.done = batch.done /\ next.done = mid.done
        BY <1>1, Types DEF BatchRow
    <3>2. batch' = next \/ batch' = [batch EXCEPT !.status = "failed"] \/ batch' = batch
        BY <2>5 DEF ReserveRetry
    <3> HIDE DEF mid, next
    <3>3. CASE batch' = next
        BY <3>1, <3>3
    <3>4. CASE batch' # next
        BY <1>1, <3>2, <3>4, Types DEF BatchRow
    <3> QED
        BY <3>3, <3>4
  <2>6. CASE PublishResult(w)
    <3> DEFINE st == Outcome(Results(w), at[w].row.attempt)
    <3>1. CASE Leased(w) /\ batch.status = "submitted"
               /\ batch' = [batch EXCEPT !.done = Results(w), !.status = st]
      <4>1. at[w].row = batch
          BY <1>1, <2>6, <3>1, LeasedRow DEF PublishResult, Reading, HoldsBatch
      <4>2. batch.started
          BY <1>1, <3>1 DEF RowOK, RowHolds
      <4>3. uploads[batch.input].todo = Requests \ batch.done
          BY <1>1, <3>1, <4>2 DEF RowOK, RowHolds
      <4>4. batch.done \subseteq Results(w)
          BY <1>1, <4>1, <4>3, RowFields DEF Results
      <4> HIDE DEF st
      <4>5. batch'.done = Results(w)
          BY <1>1, <3>1, Types DEF BatchRow
      <4> QED
          BY <4>4, <4>5
    <3>2. CASE batch' = batch
        BY <3>2
    <3> QED
        BY <2>6, <3>1, <3>2 DEF PublishResult
  <2>7. CASE RecordSubmission(w) \/ \E j \in DOMAIN jobs : JobFound(w, j)
      BY <2>4, <2>7 DEF RecordSubmission, JobFound
  <2> QED
      BY <1>2, <2>1, <2>2, <2>3, <2>5, <2>6, <2>7 DEF RowMoves, Rewrites
<1>3. ASSUME NEW w \in Workers, WorkerStep(w) PROVE batch.done \subseteq batch'.done
    BY <1>1, <1>2, <1>3, Steps DEF Moves
<1>4. CASE Environment
  <2>1. batch' = batch \/ batch' = [batch EXCEPT !.live = FALSE]
      BY <1>4
      DEF Environment, Supersede, ClaimSuperseded, WorkLeaseExpires, RetireExhaustedWork,
          BatchLeaseExpires, AssembleExtraction, JobEnds, UploadExpires, LateCreate
  <2> QED
      BY <1>1, <2>1, Types DEF BatchRow
<1>5. CASE UNCHANGED vars
    BY <1>5 DEF vars
<1> QED
    BY <1>3, <1>4, <1>5 DEF Next, WorkerStep

\* The result manifest only grows, whoever publishes and however leases move.
THEOREM ResultsAreKept == Spec => ResultsAccumulate
<1>1. ResultsInv /\ [Next]_vars => [batch.done \subseteq batch'.done]_vars
    BY DoneGrows
<1> QED
    BY <1>1, ResultsHold, PTL DEF Spec, ResultsAccumulate

----------------------------------------------------------------------------
(* Cleanup: the walk along the chain of input manifests.                   *)

\* The manifests from the newest one down to the cursor c are settled.
WalkedTo(c) ==
    \E S \in SUBSET DOMAIN uploads :
        /\ \A x \in S : uploads[x].state # "live" /\ uploads[x].prev \in S \cup {c}
        /\ batch.input \in S \cup {c}

RowCleans ==
    /\ batch.clean # NotStarted => batch.status \in Ended /\ WalkedTo(batch.clean)
    /\ batch.cleaned => batch.clean = NoInput

\* The cursor stays where it is, or moves on from a settled file.
CursorMoves(s) ==
    LET c == CleanupCursor(s.row) IN
    s.pc = "checkpoint" =>
        s.ref = c \/ (uploads[c].state # "live" /\ s.ref = uploads[c].prev)

CursorsMove == \A w \in Workers : CursorMoves(at[w])

CleanInv == Inv /\ RowCleans /\ CursorsMove

\* No file comes back, and no manifest changes its predecessor.
UploadsSettle ==
    /\ DOMAIN uploads \subseteq DOMAIN uploads'
    /\ \A u \in DOMAIN uploads : /\ uploads'[u].prev = uploads[u].prev
                                 /\ uploads[u].state # "live" => uploads'[u].state # "live"

\* The row as cleanup sees it: a batch that ended stays so, with its inputs.
RowStays ==
    /\ batch'.clean = batch.clean /\ batch'.cleaned = batch.cleaned
    /\ batch.status \in Ended => batch'.status \in Ended /\ batch'.input = batch.input

LEMMA NewUploadSettles ==
    ASSUME Inv, NEW a, NEW todo, NEW prev, NewUpload(a, todo, prev)
    PROVE  UploadsSettle
BY NewUploadContent DEF UploadsSettle

LEMMA UploadStateSettles ==
    ASSUME Inv, NEW c \in DOMAIN uploads, NEW state,
           uploads' = [uploads EXCEPT ![c].state = state],
           uploads[c].state # "live" => state # "live"
    PROVE  UploadsSettle
<1> DEFINE up == [uploads[c] EXCEPT !.state = state]
<1>1. uploads[c] \in Upload
    BY DEF Inv, TypeOK
<1>2. up.prev = uploads[c].prev /\ up.state = state
    BY <1>1 DEF Upload
<1>3. uploads' = [uploads EXCEPT ![c] = up]
    OBVIOUS
<1> HIDE DEF up
<1>4. /\ DOMAIN uploads' = DOMAIN uploads /\ uploads'[c] = up
      /\ \A u \in DOMAIN uploads : u # c => uploads'[u] = uploads[u]
    BY <1>3 DEF Inv, TypeOK
<1> QED
    BY <1>2, <1>4 DEF UploadsSettle

\* What RemoveUpload leaves behind.
LEMMA RemovalSettles ==
    ASSUME Inv, NEW w \in Workers, RemoveUpload(w)
    PROVE  UploadsSettle /\ CursorMoves(at[w])'
<1> DEFINE c == CleanupCursor(at[w].row)
<1>1. c \in DOMAIN uploads
    BY Types DEF RemoveUpload, WorkerRefs, Reading, HoldsBatch, CleanupCursor
<1>2. PICK state \in {uploads[c].state,
                      IF uploads[c].state = "live" THEN "deleted" ELSE uploads[c].state} :
          /\ uploads' = [uploads EXCEPT ![c].state = state]
          /\ at' = [at EXCEPT ![w] =
                      [@ EXCEPT !.pc = "checkpoint",
                                !.ref = IF Settled(state) THEN uploads[c].prev ELSE c]]
    BY DEF RemoveUpload
<1> DEFINE ref == IF Settled(state) THEN uploads[c].prev ELSE c
           s == [at[w] EXCEPT !.pc = "checkpoint", !.ref = ref]
<1>3. at' = [at EXCEPT ![w] = s]
    BY <1>2
<1>4. at[w] \in WorkerState
    BY Types
<1>5. s.row = at[w].row /\ s.ref = ref
    BY <1>4 DEF WorkerState
<1> HIDE DEF s
<1>6. at'[w] = s
    BY <1>3, OneMoves
<1>7. CleanupCursor(at'[w].row) = c
    BY <1>5, <1>6
<1> HIDE DEF c
<1>8. UploadsSettle /\ uploads'[c].state = state /\ uploads'[c].prev = uploads[c].prev
    BY <1>1, <1>2, UploadStateSettles, UploadChanges DEF UploadsSettle
<1>9. at'[w].ref = c \/ (uploads'[c].state # "live" /\ at'[w].ref = uploads'[c].prev)
    BY <1>5, <1>6, <1>8 DEF Settled
<1> QED
    BY <1>7, <1>8, <1>9 DEF CursorMoves, CleanupCursor

LEMMA WorkerSettles ==
    ASSUME Inv, NEW w \in Workers, StoreMoves(w)
    PROVE  UploadsSettle
<1>1. CASE uploads' = uploads
    BY <1>1 DEF UploadsSettle
<1>2. CASE PersistNew(w)
    BY <1>2, NewUploadSettles DEF PersistNew
<1>3. CASE RefreshInputs(w)
  <2>1. uploads' = uploads \/ \E a, todo, prev : NewUpload(a, todo, prev)
      BY <1>3 DEF RefreshInputs
  <2> QED
      BY <1>1, <2>1, NewUploadSettles
<1>4. CASE RemoveUpload(w)
    BY <1>4, RemovalSettles
<1> QED
    BY <1>1, <1>2, <1>3, <1>4 DEF StoreMoves

\* Only a removal leads to a checkpoint.
LEMMA OnlyRemovals ==
    ASSUME NEW w, Turned(w), at'[w].pc = "checkpoint"
    PROVE  RemoveUpload(w)
BY DEF Turned, Ends, Takes, Keeps, Persists, Reading, HoldsBatch

\* A worker that was not at its checkpoint gets there by a removal.
LEMMA CursorTurn ==
    ASSUME Inv, NEW w \in Workers, WorkerStep(w), CursorsMove
    PROVE  CursorsMove'
<1>1. Turned(w) /\ UploadsSettle
    BY Steps, WorkerSettles DEF Moves
<1>2. ASSUME NEW x \in Workers, x # w PROVE CursorMoves(at[x])'
  <2>1. at'[x] = at[x]
      BY <1>1, <1>2 DEF Turned, Others
  <2>2. at[x].pc = "checkpoint" => CleanupCursor(at[x].row) \in DOMAIN uploads
      BY Types DEF WorkerRefs, Reading, HoldsBatch, CleanupCursor
  <2> QED
      BY <1>1, <2>1, <2>2 DEF CursorsMove, CursorMoves, CleanupCursor, UploadsSettle
<1>3. CursorMoves(at[w])'
  <2>1. CASE RemoveUpload(w)
      BY <2>1, RemovalSettles
  <2>2. CASE at'[w].pc # "checkpoint"
      BY <2>2 DEF CursorMoves
  <2> QED
      BY <1>1, <2>1, <2>2, OnlyRemovals
<1> QED
    BY <1>2, <1>3 DEF CursorsMove

\* How the row of a batch changes: as cleanup allows, by its reservation, or by
\* a checkpoint.
LEMMA RowChanges ==
    ASSUME Inv, NEW w \in Workers, WorkerStep(w)
    PROVE  \/ RowStays
           \/ batch = NoBatch /\ batch' = NewBatch(at[w].ref, w)
           \/ CheckpointCleanup(w)
<1>1. ASSUME batch' = batch PROVE RowStays
    BY <1>1 DEF RowStays
<1>2. CASE ReserveBatch(w)
    BY <1>1, <1>2, Types DEF ReserveBatch, BatchRefs
<1>3. CASE PublishInputs(w)
    BY <1>1, <1>3, Types DEF PublishInputs, NeedsInput, BatchRow, RowStays, Ended
<1>4. CASE StartSubmission(w)
    BY <1>1, <1>4, Types DEF StartSubmission, BatchRow, RowStays
<1>5. CASE ClearMarker(w)
    BY <1>1, <1>5, Types DEF ClearMarker, BatchRow, RowStays
<1>6. ASSUME NEW j, NEW pc, Record(w, j, pc) PROVE RowStays
    BY <1>1, <1>6, Types DEF Record, Recorded, MayRecord, BatchRow, RowStays, Ended
<1>7. CASE RecordSubmission(w) \/ \E j \in DOMAIN jobs : JobFound(w, j)
    BY <1>6, <1>7 DEF RecordSubmission, JobFound
<1>8. CASE AbandonBatch(w)
    BY <1>1, <1>8, Types DEF AbandonBatch, BatchRow, RowStays, Ended
<1>9. CASE ReserveRetry(w)
  <2> DEFINE mid == [batch EXCEPT !.status = "preparing", !.attempt = @ + 1]
             next == [mid EXCEPT !.job = NoJob, !.started = FALSE]
  <2>1. /\ mid.clean = batch.clean /\ next.clean = mid.clean
        /\ mid.cleaned = batch.cleaned /\ next.cleaned = mid.cleaned
      BY Types DEF BatchRow
  <2>2. \/ batch' = next /\ batch.status = "retry"
        \/ batch' = [batch EXCEPT !.status = "failed"]
        \/ batch' = batch
      BY <1>9 DEF ReserveRetry
  <2> HIDE DEF mid, next
  <2>3. CASE batch' = next /\ batch.status = "retry"
      BY <2>1, <2>3 DEF RowStays, Ended
  <2>4. CASE batch' = [batch EXCEPT !.status = "failed"]
      BY <2>4, Types DEF BatchRow, RowStays, Ended
  <2> QED
      BY <1>1, <2>2, <2>3, <2>4
<1>10. CASE PublishResult(w)
  <2> DEFINE st == Outcome(Results(w), at[w].row.attempt)
             done == Results(w)
  <2>1. \/ batch' = [batch EXCEPT !.done = done, !.status = st] /\ batch.status = "submitted"
        \/ batch' = batch
      BY <1>10 DEF PublishResult
  <2> HIDE DEF st, done
  <2> QED
      BY <1>1, <2>1, Types DEF BatchRow, RowStays, Ended
<1>11. CASE ClaimBatch(w) \/ ClaimDueBatch(w) \/ ClaimCleanup(w) \/ Release(w)
    BY <1>1, <1>11, Types
    DEF ClaimBatch, ClaimDueBatch, ClaimCleanup, ClaimedBatch, Release, BatchRow, RowStays
<1>12. CASE \/ ClaimWork(w) \/ ReadRecorded(w) \/ PersistNew(w) \/ FinishPreparation(w)
            \/ FailAttempt(w) \/ SkipRefresh(w) \/ RefreshInputs(w) \/ SkipSubmission(w)
            \/ CreateAccepted(w) \/ CreateRejected(w) \/ CreateAmbiguous(w)
            \/ JobNotFound(w) \/ SourceStands(w) \/ CancelJob(w) \/ JobRuns(w)
            \/ ReadOutput(w) \/ RemoveUpload(w) \/ IOFails(w) \/ Crash(w)
  <2>1. batch' = batch
      BY <1>12
      DEF ClaimWork, ReadRecorded, PersistNew, FinishPreparation, FailAttempt, SkipRefresh,
          RefreshInputs, SkipSubmission, CreateAccepted, CreateRejected, CreateAmbiguous,
          JobNotFound, SourceStands, CancelJob, JobRuns, ReadOutput, RemoveUpload, IOFails, Crash
  <2> QED
      BY <1>1, <2>1
<1> QED
    BY <1>2, <1>3, <1>4, <1>5, <1>7, <1>8, <1>9, <1>10, <1>11, <1>12
    DEF WorkerStep, Preparer, Submitter, Collector, Cleaner

\* The walk stands while the row does and files only get settled.
LEMMA WalkStands ==
    ASSUME UploadsSettle, RowStays, RowCleans
    PROVE  RowCleans'
<1>1. batch'.cleaned => batch'.clean = NoInput
    BY DEF RowStays, RowCleans
<1>2. ASSUME batch'.clean # NotStarted
      PROVE  batch'.status \in Ended /\ WalkedTo(batch.clean)'
  <2>1. batch.clean # NotStarted /\ batch.status \in Ended /\ WalkedTo(batch.clean)
      BY <1>2 DEF RowStays, RowCleans
  <2>2. batch'.status \in Ended /\ batch'.input = batch.input /\ batch'.clean = batch.clean
      BY <2>1 DEF RowStays
  <2>3. PICK S \in SUBSET DOMAIN uploads :
            /\ \A x \in S : uploads[x].state # "live" /\ uploads[x].prev \in S \cup {batch.clean}
            /\ batch.input \in S \cup {batch.clean}
      BY <2>1 DEF WalkedTo
  <2>4. /\ S \in SUBSET DOMAIN uploads'
        /\ \A x \in S : uploads'[x].state # "live" /\ uploads'[x].prev \in S \cup {batch'.clean}
        /\ batch'.input \in S \cup {batch'.clean}
      BY <2>2, <2>3 DEF UploadsSettle
  <2> QED
      BY <2>2, <2>4 DEF WalkedTo
<1> QED
    BY <1>1, <1>2 DEF RowCleans, WalkedTo

\* A checkpoint moves the walk on by the file it settled.
LEMMA CheckpointWalks ==
    ASSUME Inv, RowCleans, CursorsMove, NEW w \in Workers, CheckpointCleanup(w)
    PROVE  RowCleans'
<1> DEFINE ref == at[w].ref
           row == at[w].row
           c == CleanupCursor(row)
<1>1. CASE batch' = batch
    BY <1>1, WalkStands DEF CheckpointCleanup, UploadsSettle, RowStays
<1>2. CASE /\ batch' = [batch EXCEPT !.clean = ref, !.cleaned = (ref = NoInput)]
           /\ batch.clean = row.clean /\ batch.input = row.input /\ batch.status \in Ended
  <2>1. /\ batch'.clean = ref /\ batch'.cleaned = (ref = NoInput)
        /\ batch'.status = batch.status /\ batch'.input = batch.input
      BY <1>2, Types DEF BatchRow
  <2>2. at[w].pc = "checkpoint" /\ uploads' = uploads
      BY DEF CheckpointCleanup
  <2>3. c \in DOMAIN uploads
      BY <2>2, Types DEF WorkerRefs, Reading, HoldsBatch, CleanupCursor
  <2>4. ref = c \/ (uploads[c].state # "live" /\ ref = uploads[c].prev)
      BY <2>2 DEF CursorsMove, CursorMoves
  <2>5. c = IF batch.clean = NotStarted THEN batch.input ELSE batch.clean
      BY <1>2 DEF CleanupCursor
  <2> HIDE DEF c, ref
  <2>6. PICK S \in SUBSET DOMAIN uploads :
            /\ \A x \in S : uploads[x].state # "live" /\ uploads[x].prev \in S \cup {c}
            /\ batch.input \in S \cup {c}
    <3>1. CASE batch.clean = NotStarted
      <4>1. batch.input \in {} \cup {c}
          BY <2>5, <3>1
      <4> QED
          BY <4>1
    <3>2. CASE batch.clean # NotStarted
        BY <2>5, <3>2 DEF RowCleans, WalkedTo
    <3> QED
        BY <3>1, <3>2
  <2>7. WalkedTo(ref)
    <3>1. CASE ref = c
        BY <2>6, <3>1 DEF WalkedTo
    <3>2. CASE uploads[c].state # "live" /\ ref = uploads[c].prev
      <4> DEFINE T == S \cup {c}
      <4>1. T \in SUBSET DOMAIN uploads
          BY <2>3
      <4>2. \A x \in T : uploads[x].state # "live" /\ uploads[x].prev \in T \cup {ref}
          BY <2>6, <3>2
      <4>3. batch.input \in T \cup {ref}
          BY <2>6
      <4> QED
          BY <4>1, <4>2, <4>3 DEF WalkedTo
    <3> QED
        BY <2>4, <3>1, <3>2
  <2>8. WalkedTo(batch.clean)'
      BY <2>1, <2>2, <2>7 DEF WalkedTo
  <2>9. batch'.status \in Ended
      BY <1>2, <2>1
  <2>10. batch'.cleaned => batch'.clean = NoInput
      BY <2>1
  <2> QED
      BY <2>8, <2>9, <2>10 DEF RowCleans
<1> QED
    BY <1>1, <1>2 DEF CheckpointCleanup

LEMMA CleanNext == CleanInv /\ [Next]_vars => CleanInv'
<1> SUFFICES ASSUME Inv, RowCleans, CursorsMove, [Next]_vars PROVE RowCleans' /\ CursorsMove'
    BY NextInv DEF CleanInv
<1>1. ASSUME NEW w \in Workers, WorkerStep(w) PROVE RowCleans' /\ CursorsMove'
  <2>1. UploadsSettle
      BY <1>1, Steps, WorkerSettles DEF Moves
  <2>2. ASSUME RowStays PROVE RowCleans'
      BY <2>1, <2>2, WalkStands
  <2>3. ASSUME batch' = NewBatch(at[w].ref, w) PROVE RowCleans'
      BY <2>3 DEF NewBatch, RowCleans
  <2>4. ASSUME CheckpointCleanup(w) PROVE RowCleans'
      BY <2>4, CheckpointWalks
  <2> QED
      BY <1>1, <2>2, <2>3, <2>4, RowChanges, CursorTurn
<1>2. ASSUME UploadsSettle, RowStays, at' = at PROVE RowCleans' /\ CursorsMove'
  <2>1. ASSUME NEW x \in Workers PROVE CursorMoves(at[x])'
    <3>1. at[x].pc = "checkpoint" => CleanupCursor(at[x].row) \in DOMAIN uploads
        BY Types DEF WorkerRefs, Reading, HoldsBatch, CleanupCursor
    <3> QED
        BY <1>2, <3>1 DEF CursorsMove, CursorMoves, CleanupCursor, UploadsSettle
  <2> QED
      BY <1>2, <2>1, WalkStands DEF CursorsMove
<1>3. ASSUME uploads' = uploads, at' = at, batch' = batch \/ batch' = [batch EXCEPT !.live = FALSE]
      PROVE  RowCleans' /\ CursorsMove'
  <2>1. UploadsSettle /\ RowStays
      BY <1>3, Types DEF UploadsSettle, RowStays, BatchRow
  <2> QED
      BY <1>2, <1>3, <2>1
<1>4. CASE Environment
  <2>1. ASSUME NEW u \in DOMAIN uploads, UploadExpires(u) PROVE RowCleans' /\ CursorsMove'
    <3>1. UploadsSettle
        BY <2>1, UploadStateSettles DEF UploadExpires
    <3>2. RowStays /\ at' = at
        BY <2>1 DEF UploadExpires, RowStays
    <3> QED
        BY <1>2, <3>1, <3>2
  <2>2. CASE \/ Supersede \/ ClaimSuperseded \/ WorkLeaseExpires \/ RetireExhaustedWork
             \/ BatchLeaseExpires \/ AssembleExtraction
             \/ (\E j \in DOMAIN jobs : JobEnds(j)) \/ (\E r \in late : LateCreate(r))
      BY <1>3, <2>2
      DEF Supersede, ClaimSuperseded, WorkLeaseExpires, RetireExhaustedWork,
          BatchLeaseExpires, AssembleExtraction, JobEnds, LateCreate
  <2> QED
      BY <1>4, <2>1, <2>2 DEF Environment
<1>5. CASE UNCHANGED vars
    BY <1>3, <1>5 DEF vars
<1> QED
    BY <1>1, <1>4, <1>5 DEF Next, WorkerStep

\* A batch marked as cleaned left no deletable file of its manifests behind,
\* however often cleaners die between a deletion and its checkpoint: the cursor
\* passes a manifest only when its file is settled, and neither the inputs nor
\* the end of a batch change under it (cleanup_provider_files).
THEOREM CleanupIsComplete == Spec => []CleanedLeavesNothing
<1>1. Init => CleanInv
  <2> SUFFICES ASSUME Init PROVE RowCleans /\ CursorsMove
      BY InitInv DEF CleanInv
  <2>1. batch = NoBatch /\ \A w \in Workers : at[w] = Idle
      BY DEF Init
  <2> QED
      BY <2>1 DEF RowCleans, CursorsMove, CursorMoves, NoBatch, Idle
<1>2. CleanInv => CleanedLeavesNothing
  <2> SUFFICES ASSUME Inv, RowCleans, batch.cleaned, NEW u \in Chain(batch.input)
               PROVE  uploads[u].state # "live"
      BY DEF CleanInv, CleanedLeavesNothing
  <2>1. batch.clean = NoInput /\ WalkedTo(NoInput)
      BY DEF RowCleans, NotStarted, NoInput
  <2>2. PICK S \in SUBSET DOMAIN uploads :
            /\ \A x \in S : uploads[x].state # "live" /\ uploads[x].prev \in S \cup {NoInput}
            /\ batch.input \in S \cup {NoInput}
      BY <2>1 DEF WalkedTo
  <2>3. {batch.input} \cup {uploads[x].prev : x \in S} \subseteq S \cup {NoInput}
      BY <2>2
  <2>4. u \in S
      BY <2>3 DEF Chain
  <2> QED
      BY <2>2, <2>4
<1> QED
    BY <1>1, <1>2, CleanNext, PTL DEF Spec
=============================================================================

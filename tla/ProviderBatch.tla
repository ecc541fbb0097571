--------------------------- MODULE ProviderBatch ---------------------------
(***************************************************************************)
(* One batch of extraction requests sent to the paid batch provider: from  *)
(* the preparation of its input file, through at most MaxRequestAttempts   *)
(* submissions, to the collection of the results and the deletion of the   *)
(* uploaded input files.                                                   *)
(*                                                                         *)
(* The rows of provider_batches, file_work and file_extractions are shared *)
(* state, and every SQL transaction is one action.  The provider is        *)
(* external: creating a job is not idempotent, and a request may take      *)
(* effect after its sender gave up on it.  Manifests in S3 are immutable:  *)
(* an input manifest is the index of its upload, a result manifest the set *)
(* of requests it holds results for.                                       *)
(*                                                                         *)
(* A worker thread is a preparer (a transformation that holds the file's   *)
(* work row), a collector or a cleaner; it keeps the batch row it read.    *)
(***************************************************************************)
EXTENDS Integers, Sequences, FiniteSets

CONSTANTS
    Workers,            \* threads of the ingestion and background roles
    NoWorker,           \* SQL NULL in lease_token and attempt_token
    Requests,           \* the requests of the batch
    MaxRequestAttempts, \* MAX_REQUEST_ATTEMPTS, 3 in production
    MaxWorkAttempts,    \* MAX_WORK_ATTEMPTS, 5 in production
    MaxUploads,         \* bound: input files uploaded for the batch
    MaxExpired          \* bound: input files that come near their expiry

ASSUME ProviderWorkerAssumption == NoWorker \notin Workers
ASSUME ProviderBoundAssumption ==
    /\ MaxRequestAttempts \in Nat \ {0} /\ MaxWorkAttempts \in Nat \ {0}
    /\ MaxUploads \in Nat /\ MaxExpired \in Nat
    /\ IsFiniteSet(Requests) /\ Requests # {}

VARIABLES
    current,  \* the version is the captured head of a live root
    phase,    \* file_extractions.status
    work,     \* the transform row of file_work
    batch,    \* the row of provider_batches
    uploads,  \* provider files, in the order of their uploads
    jobs,     \* provider jobs, in the order of their creation
    late,     \* create requests in flight that nobody waits for
    at        \* each worker's position and what it holds

vars == <<current, phase, work, batch, uploads, jobs, late, at>>

NoJob == 0
NoInput == 0        \* "previous": ""
NotStarted == -1    \* cleanup_ref = ''
Ended == {"complete", "failed"}

WorkRow == [status: {"pending", "running", "waiting_provider", "index",
                     "failed", "superseded"},
            attempts: 0..MaxWorkAttempts,
            token: Workers \cup {NoWorker},
            live: BOOLEAN]              \* lease_until > NOW()
BatchRow == [status: {"none", "preparing", "submitted", "retry"} \cup Ended,
             attempt: 1..MaxRequestAttempts,
             job: Nat,                  \* provider_job_id
             started: BOOLEAN,          \* submission_started_at is set
             input: 0..MaxUploads,      \* input_ref
             done: SUBSET Requests,     \* complete requests of output_ref
             clean: -1..MaxUploads,     \* next_input_ref of cleanup_ref
             cleaned: BOOLEAN,          \* cleanup_complete
             token: Workers \cup {NoWorker},
             live: BOOLEAN]
Upload == [attempt: 1..MaxRequestAttempts, todo: SUBSET Requests,
           prev: 0..MaxUploads, state: {"live", "expired", "deleted"}]
Create == [attempt: 1..MaxRequestAttempts, input: 1..MaxUploads, by: Workers]
Job == [attempt: 1..MaxRequestAttempts, input: 1..MaxUploads, ended: BOOLEAN]
Position == {"idle", "prepare", "claim", "upload", "reserve", "seal", "failing",
             "advance", "source", "retry", "refresh", "persist", "submit",
             "create", "created", "rejected", "collect", "publish",
             "clean", "checkpoint", "release", "raise"}
WorkerState == [pc: Position, prep: BOOLEAN, row: BatchRow,
                ref: Nat,               \* an upload or a job just made
                got: SUBSET Requests]   \* results of the collected job

TypeOK ==
    /\ current \in BOOLEAN
    /\ phase \in {"pending", "waiting_provider", "complete", "failed", "superseded"}
    /\ work \in WorkRow
    /\ batch \in BatchRow
    /\ uploads \in Seq(Upload) /\ Len(uploads) <= MaxUploads
    /\ jobs \in Seq(Job)
    /\ late \in SUBSET Create
    /\ at \in [Workers -> WorkerState]

----------------------------------------------------------------------------

NoBatch == [status |-> "none", attempt |-> 1, job |-> NoJob, started |-> FALSE,
            input |-> NoInput, done |-> {}, clean |-> NotStarted,
            cleaned |-> FALSE, token |-> NoWorker, live |-> FALSE]
Idle == [pc |-> "idle", prep |-> FALSE, row |-> NoBatch, ref |-> 0, got |-> {}]

Init ==
    /\ current = TRUE /\ phase = "pending"
    /\ work = [status |-> "pending", attempts |-> 0, token |-> NoWorker, live |-> FALSE]
    /\ batch = NoBatch
    /\ uploads = <<>> /\ jobs = <<>> /\ late = {}
    /\ at = [w \in Workers |-> Idle]

Goto(w, pc) == at' = [at EXCEPT ![w].pc = pc]
Holding(w, row, pc) ==
    at' = [at EXCEPT ![w] = [@ EXCEPT !.pc = pc, !.row = row, !.ref = 0]]
\* The turn ends: what it read is not used again.
Stop(w, pc) == at' = [at EXCEPT ![w] = [Idle EXCEPT !.pc = pc, !.prep = at[w].prep]]

\* The two fences: lease_token or attempt_token, and lease_until > NOW().
Leased(w) == batch.token = w /\ batch.live
WorkOwned(w) == work.token = w /\ work.status = "running" /\ work.live

\* The query of every step that may cost money.
SourceCurrent == current /\ phase \notin {"failed", "superseded"}

----------------------------------------------------------------------------
(* The source stops being current: a newer version, a deletion of the file *)
(* or of its root.                                                         *)

Supersede ==
    /\ current
    /\ current' = FALSE
    /\ UNCHANGED <<phase, work, batch, uploads, jobs, late, at>>

----------------------------------------------------------------------------
(* The file's transform work.                                              *)

WorkDue ==
    /\ work.attempts < MaxWorkAttempts
    /\ \/ work.status = "pending"
       \/ work.status = "running" /\ ~work.live

ClaimWork(w) ==
    /\ at[w].pc = "idle"
    /\ WorkDue /\ current
    /\ work' = [status |-> "running", attempts |-> work.attempts + 1,
                token |-> w, live |-> TRUE]
    /\ at' = [at EXCEPT ![w] = [Idle EXCEPT !.pc = "prepare", !.prep = TRUE]]
    /\ UNCHANGED <<current, phase, batch, uploads, jobs, late>>

ClaimSuperseded ==
    /\ WorkDue /\ ~current
    /\ work' = [work EXCEPT !.status = "superseded", !.attempts = @ + 1, !.live = FALSE]
    /\ phase' = IF phase \in {"pending", "waiting_provider"} THEN "superseded" ELSE phase
    /\ UNCHANGED <<current, batch, uploads, jobs, late, at>>

WorkLeaseExpires ==
    /\ work.live
    /\ work' = [work EXCEPT !.live = FALSE]
    /\ UNCHANGED <<current, phase, batch, uploads, jobs, late, at>>

RetireExhaustedWork ==
    /\ work.status \in {"pending", "running"}
    /\ work.attempts >= MaxWorkAttempts /\ ~work.live
    /\ work' = [work EXCEPT !.status = "failed", !.token = NoWorker]
    /\ UNCHANGED <<current, phase, batch, uploads, jobs, late, at>>

FailAttempt(w) ==
    /\ at[w].pc = "failing"
    /\ work' = IF work.token = w /\ work.status = "running"
               THEN [work EXCEPT !.token = NoWorker, !.live = FALSE,
                                 !.status = IF work.attempts >= MaxWorkAttempts
                                            THEN "failed" ELSE "pending"]
               ELSE work
    /\ at' = [at EXCEPT ![w] = Idle]
    /\ UNCHANGED <<current, phase, batch, uploads, jobs, late>>

----------------------------------------------------------------------------
(* prepare_provider.                                                       *)

\* The recorded batches are read: this one is new, submitted or unfinished.
ReadRecorded(w) ==
    /\ at[w].pc = "prepare"
    /\ Goto(w, IF batch.status = "none" THEN "upload"
               ELSE IF batch.job # NoJob THEN "seal" ELSE "claim")
    /\ UNCHANGED <<current, phase, work, batch, uploads, jobs, late>>

BatchFree == batch.status # "none" /\ ~batch.live

ClaimedBatch(w) == [batch EXCEPT !.token = w, !.live = TRUE]

\* claim_batch: a batch another worker owns ends the attempt.
ClaimBatch(w) ==
    /\ at[w].pc = "claim"
    /\ \/ /\ BatchFree
          /\ batch' = ClaimedBatch(w)
          /\ Holding(w, ClaimedBatch(w), "refresh")
       \/ /\ ~BatchFree
          /\ batch' = batch
          /\ Stop(w, "failing")
    /\ UNCHANGED <<current, phase, work, uploads, jobs, late>>

NewUpload(attempt, todo, prev) ==
    /\ Len(uploads) < MaxUploads
    /\ uploads' = Append(uploads, [attempt |-> attempt, todo |-> todo,
                                   prev |-> prev, state |-> "live"])

\* persist_inputs for a new batch: nothing refers to the upload yet.
PersistNew(w) ==
    /\ at[w].pc = "upload"
    /\ NewUpload(1, Requests, NoInput)
    /\ at' = [at EXCEPT ![w] = [@ EXCEPT !.pc = "reserve", !.ref = Len(uploads) + 1]]
    /\ UNCHANGED <<current, phase, work, batch, jobs, late>>

NewBatch(input, w) ==
    [status |-> "preparing", attempt |-> 1, job |-> NoJob, started |-> FALSE,
     input |-> input, done |-> {}, clean |-> NotStarted, cleaned |-> FALSE,
     token |-> w, live |-> TRUE]

ReserveBatch(w) ==
    LET new == NewBatch(at[w].ref, w) IN
    /\ at[w].pc = "reserve"
    /\ \/ /\ WorkOwned(w) /\ batch.status = "none"
          /\ batch' = new
          /\ Holding(w, new, "submit")
       \/ /\ ~(WorkOwned(w) /\ batch.status = "none")
          /\ batch' = batch
          /\ Stop(w, "failing")
    /\ UNCHANGED <<current, phase, work, uploads, jobs, late>>

\* finish_preparation: the request range is sealed once every batch has a job.
FinishPreparation(w) ==
    /\ at[w].pc = "seal"
    /\ \/ /\ WorkOwned(w) /\ batch.job # NoJob
          /\ phase' = "waiting_provider"
          /\ work' = [work EXCEPT !.status = "waiting_provider", !.live = FALSE]
          /\ at' = [at EXCEPT ![w] = Idle]
       \/ /\ ~(WorkOwned(w) /\ batch.job # NoJob)
          /\ Stop(w, "failing")
          /\ UNCHANGED <<phase, work>>
    /\ UNCHANGED <<current, batch, uploads, jobs, late>>

----------------------------------------------------------------------------
(* refresh_batch_inputs.                                                   *)

\* Mutant of InputUsable: the attempt of the manifest is not compared.
InputUnexpired(row) == uploads[row.input].state # "expired"

InputUsable(row) ==
    /\ uploads[row.input].attempt = row.attempt
    /\ uploads[row.input].state # "expired"

NeedsInput(row) == row.status = "preparing" /\ ~row.started

SkipRefresh(w) ==
    /\ at[w].pc = "refresh"
    /\ NeedsInput(at[w].row) => InputUsable(at[w].row)
    /\ Goto(w, "submit")
    /\ UNCHANGED <<current, phase, work, batch, uploads, jobs, late>>

\* Mutant of Missing: a retry sends every request again.
AllRequests(row) == Requests

\* The requests without a result in the last result manifest.
Missing(row) == Requests \ row.done

RefreshInputs(w) ==
    LET row == at[w].row IN
    /\ at[w].pc = "refresh"
    /\ NeedsInput(row) /\ ~InputUsable(row)
    /\ \/ /\ current /\ Missing(row) # {}
          /\ NewUpload(row.attempt, Missing(row), row.input)
          /\ at' = [at EXCEPT ![w] = [@ EXCEPT !.pc = "persist", !.ref = Len(uploads) + 1]]
       \/ /\ ~current \/ Missing(row) = {}
          /\ Stop(w, "raise")
          /\ UNCHANGED uploads
    /\ UNCHANGED <<current, phase, work, batch, jobs, late>>

PublishInputs(w) ==
    LET row == at[w].row
        fenced == /\ Leased(w)
                  /\ batch.input = row.input /\ batch.attempt = row.attempt
                  /\ NeedsInput(batch) IN
    /\ at[w].pc = "persist"
    /\ \/ /\ fenced
          /\ batch' = [batch EXCEPT !.input = at[w].ref]
          /\ Holding(w, [batch EXCEPT !.input = at[w].ref], "submit")
       \/ /\ ~fenced
          /\ batch' = batch
          /\ Stop(w, "raise")
    /\ UNCHANGED <<current, phase, work, uploads, jobs, late>>

----------------------------------------------------------------------------
(* submit_batch: the marker is committed before the paid request is sent,  *)
(* and only an explicit rejection takes it back.                           *)

AfterSubmission(w) == IF at[w].prep THEN "release" ELSE "collect"

SkipSubmission(w) ==
    /\ at[w].pc = "submit"
    /\ at[w].row.job # NoJob
    /\ Goto(w, AfterSubmission(w))
    /\ UNCHANGED <<current, phase, work, batch, uploads, jobs, late>>

MayStart(w) ==
    LET row == at[w].row IN
    /\ Leased(w) /\ batch.status = "preparing"
    /\ batch.attempt = row.attempt /\ batch.input = row.input
    /\ ~batch.started

\* A source that is no longer current: the update to 'failed' is rolled back
\* by the exception that follows it.
StartSubmission(w) ==
    LET row == at[w].row
        allowed == /\ uploads[row.input].attempt = row.attempt
                   /\ SourceCurrent /\ MayStart(w) IN
    /\ at[w].pc = "submit"
    /\ row.job = NoJob /\ ~row.started
    /\ \/ /\ allowed
          /\ batch' = [batch EXCEPT !.started = TRUE]
          /\ Holding(w, [batch EXCEPT !.started = TRUE], "create")
       \/ /\ ~allowed
          /\ batch' = batch
          /\ Stop(w, "raise")
    /\ UNCHANGED <<current, phase, work, uploads, jobs, late>>

Request(w) == [attempt |-> at[w].row.attempt, input |-> at[w].row.input, by |-> w]

NewJob(r) == jobs' = Append(jobs, [attempt |-> r.attempt, input |-> r.input, ended |-> FALSE])

CreateAccepted(w) ==
    /\ at[w].pc = "create"
    /\ NewJob(Request(w))
    /\ at' = [at EXCEPT ![w] = [@ EXCEPT !.pc = "created", !.ref = Len(jobs) + 1]]
    /\ UNCHANGED <<current, phase, work, batch, uploads, late>>

CreateRejected(w) ==
    /\ at[w].pc = "create"
    /\ Goto(w, "rejected")
    /\ UNCHANGED <<current, phase, work, batch, uploads, jobs, late>>

\* Mutant of CreateAmbiguous: every error counts as a rejection.
CreateErrorRejects(w) ==
    /\ at[w].pc = "create"
    /\ late' \in {late, late \cup {Request(w)}}
    /\ Goto(w, "rejected")
    /\ UNCHANGED <<current, phase, work, batch, uploads, jobs>>

\* A timeout or a transport error: the request was lost, or is still on its way.
CreateAmbiguous(w) ==
    /\ at[w].pc = "create"
    /\ late' \in {late, late \cup {Request(w)}}
    /\ Stop(w, "raise")
    /\ UNCHANGED <<current, phase, work, batch, uploads, jobs>>

LateCreate(r) ==
    /\ late' = late \ {r}
    /\ NewJob(r)
    /\ UNCHANGED <<current, phase, work, batch, uploads, at>>

MayClear(w) == Leased(w) /\ batch.job = NoJob /\ batch.attempt = at[w].row.attempt

ClearMarker(w) ==
    /\ at[w].pc = "rejected"
    /\ batch' = IF MayClear(w) THEN [batch EXCEPT !.started = FALSE] ELSE batch
    /\ Stop(w, "raise")
    /\ UNCHANGED <<current, phase, work, uploads, jobs, late>>

\* record_submission
Recorded(w, j) == [batch EXCEPT !.job = j, !.status = "submitted"]
MayRecord(w) ==
    /\ Leased(w) /\ batch.attempt = at[w].row.attempt
    /\ batch.status = "preparing" /\ batch.started /\ batch.job = NoJob

Record(w, j, pc) ==
    \/ /\ MayRecord(w)
       /\ batch' = Recorded(w, j)
       /\ Holding(w, Recorded(w, j), pc)
    \/ /\ ~MayRecord(w)
       /\ batch' = batch
       /\ Stop(w, "raise")

RecordSubmission(w) ==
    /\ at[w].pc = "created"
    /\ Record(w, at[w].ref, AfterSubmission(w))
    /\ UNCHANGED <<current, phase, work, uploads, jobs, late>>

\* reconcile_submission: look for the job by the name of its attempt.
Unreconciled(w) ==
    /\ at[w].pc \in {"advance", "submit"}
    /\ at[w].row.started /\ at[w].row.job = NoJob

NamedLike(j, row) == jobs[j].attempt = row.attempt

JobFound(w, j) ==
    /\ Unreconciled(w)
    /\ {k \in DOMAIN jobs : NamedLike(k, at[w].row)} = {j}
    /\ Record(w, j, IF at[w].prep THEN "release" ELSE "source")
    /\ UNCHANGED <<current, phase, work, uploads, jobs, late>>

\* Not on the pages read, or not listed yet: the batch stays as it is, and
\* only the page cursor moves.  A preparer gives up its attempt.
JobNotFound(w) ==
    /\ Unreconciled(w)
    /\ Stop(w, IF at[w].prep THEN "raise" ELSE "release")
    /\ UNCHANGED <<current, phase, work, batch, uploads, jobs, late>>

----------------------------------------------------------------------------
(* advance_batch: one turn of a collector.                                 *)

Transforming == work.status \in {"pending", "running"}

BatchDue ==
    \/ batch.status = "submitted"
    \/ /\ batch.status = "preparing"
       /\ batch.started \/ batch.attempt > 1 \/ ~Transforming
    \/ batch.status = "retry" /\ ~Transforming

ClaimDueBatch(w) ==
    /\ at[w].pc = "idle"
    /\ BatchFree /\ BatchDue
    /\ batch' = ClaimedBatch(w)
    /\ Holding(w, ClaimedBatch(w), "advance")
    /\ UNCHANGED <<current, phase, work, uploads, jobs, late>>

Advancing(w) == at[w].pc = "source" \/ (at[w].pc = "advance" /\ ~Unreconciled(w))

SourceStands(w) ==
    /\ Advancing(w) /\ SourceCurrent
    /\ Goto(w, CASE at[w].row.status = "retry" -> "retry"
                 [] at[w].row.status = "preparing" -> "refresh"
                 [] OTHER -> "collect")
    /\ UNCHANGED <<current, phase, work, batch, uploads, jobs, late>>

\* Mutant of Cancellable: the batch is abandoned without a look at its job.
NeverCancel(row) == FALSE

Cancellable(row) == row.status = "submitted" /\ ~jobs[row.job].ended

\* A running job is asked to stop, and seen again on a later turn.
CancelJob(w) ==
    /\ Advancing(w) /\ ~SourceCurrent
    /\ Cancellable(at[w].row)
    /\ jobs' \in {jobs, [jobs EXCEPT ![at[w].row.job].ended = TRUE]}
    /\ Stop(w, "release")
    /\ UNCHANGED <<current, phase, work, batch, uploads, late>>

AbandonBatch(w) ==
    /\ Advancing(w) /\ ~SourceCurrent
    /\ ~Cancellable(at[w].row)
    /\ batch' = IF Leased(w) THEN [batch EXCEPT !.status = "failed"] ELSE batch
    /\ Stop(w, "release")
    /\ UNCHANGED <<current, phase, work, uploads, jobs, late>>

Unsealed == phase = "pending"

ReserveRetry(w) ==
    LET next == [batch EXCEPT !.status = "preparing", !.attempt = @ + 1,
                              !.job = NoJob, !.started = FALSE] IN
    /\ at[w].pc = "retry"
    /\ \/ /\ Unsealed
          /\ batch' = batch /\ Stop(w, "release")
       \/ /\ ~Unsealed /\ ~(phase = "waiting_provider" /\ current)
          /\ batch' = IF Leased(w) /\ batch.status = "retry"
                      THEN [batch EXCEPT !.status = "failed"] ELSE batch
          /\ Stop(w, "release")
       \/ /\ ~Unsealed /\ phase = "waiting_provider" /\ current
          /\ \/ /\ Leased(w) /\ batch.status = "retry"
                /\ batch.attempt < MaxRequestAttempts
                /\ batch' = next /\ Holding(w, next, "refresh")
             \/ /\ ~(/\ Leased(w) /\ batch.status = "retry"
                     /\ batch.attempt < MaxRequestAttempts)
                /\ batch' = batch /\ Stop(w, "raise")
    /\ UNCHANGED <<current, phase, work, uploads, jobs, late>>

\* collect_batch: the job runs on, or its output is read.  Each request of
\* the job succeeds, or fails and may then succeed with the vision fallback.
JobRuns(w) ==
    /\ at[w].pc = "collect"
    /\ at[w].row.status = "submitted" => ~jobs[at[w].row.job].ended
    /\ Stop(w, "release")
    /\ UNCHANGED <<current, phase, work, batch, uploads, jobs, late>>

ReadOutput(w) ==
    LET row == at[w].row
        input == uploads[row.input] IN
    /\ at[w].pc = "collect"
    /\ row.status = "submitted" /\ jobs[row.job].ended
    /\ \/ /\ input.attempt = row.attempt
          /\ \E got \in SUBSET input.todo :
                at' = [at EXCEPT ![w] = [@ EXCEPT !.pc = "publish", !.got = got]]
       \/ /\ input.attempt # row.attempt
          /\ Stop(w, "raise")
    /\ UNCHANGED <<current, phase, work, batch, uploads, jobs, late>>

\* Mutant of Results: the result manifest holds only this attempt's results.
ResultsOfAttempt(w) == at[w].got

\* The input manifest lists the earlier results as complete.
Results(w) == (Requests \ uploads[at[w].row.input].todo) \cup at[w].got

Outcome(results, attempt) ==
    IF results = Requests THEN "complete"
    ELSE IF attempt < MaxRequestAttempts THEN "retry" ELSE "failed"

PublishResult(w) ==
    LET row == at[w].row
        fenced == /\ Leased(w) /\ batch.status = "submitted"
                  /\ batch.attempt = row.attempt /\ batch.input = row.input IN
    /\ at[w].pc = "publish"
    /\ \/ /\ fenced
          /\ batch' = [batch EXCEPT !.done = Results(w),
                                    !.status = Outcome(Results(w), row.attempt)]
          /\ Stop(w, "release")
       \/ /\ ~fenced
          /\ batch' = batch /\ Stop(w, "raise")
    /\ UNCHANGED <<current, phase, work, uploads, jobs, late>>

----------------------------------------------------------------------------
(* cleanup_provider_files walks the input manifests from the newest back.  *)

\* Mutant of CleanupDue: a batch that was never submitted is passed over.
CleanupSubmitted == batch.status \in Ended /\ ~batch.cleaned /\ batch.job # NoJob

CleanupDue ==
    /\ batch.status \in Ended /\ ~batch.cleaned
    /\ ~batch.started \/ batch.job # NoJob

ClaimCleanup(w) ==
    /\ at[w].pc = "idle"
    /\ BatchFree /\ CleanupDue
    /\ batch' = ClaimedBatch(w)
    /\ Holding(w, ClaimedBatch(w), "clean")
    /\ UNCHANGED <<current, phase, work, uploads, jobs, late>>

CleanupCursor(row) == IF row.clean = NotStarted THEN row.input ELSE row.clean

\* Mutant of Settled: an unanswered deletion counts as a deletion.
SettledAlways(state) == TRUE

Settled(state) == state # "live"

\* The file is deleted, was deleted or expired; or the deletion fails.
RemoveUpload(w) ==
    LET c == CleanupCursor(at[w].row) IN
    /\ at[w].pc = "clean"
    /\ \E state \in {uploads[c].state,
                     IF uploads[c].state = "live" THEN "deleted" ELSE uploads[c].state} :
          /\ uploads' = [uploads EXCEPT ![c].state = state]
          /\ at' = [at EXCEPT ![w] =
                      [@ EXCEPT !.pc = "checkpoint",
                                !.ref = IF Settled(state) THEN uploads[c].prev ELSE c]]
    /\ UNCHANGED <<current, phase, work, batch, jobs, late>>

CheckpointCleanup(w) ==
    LET row == at[w].row
        fenced == /\ Leased(w) /\ batch.clean = row.clean /\ batch.input = row.input
                  /\ batch.status \in Ended IN
    /\ at[w].pc = "checkpoint"
    /\ \/ /\ fenced
          /\ batch' = [batch EXCEPT !.clean = at[w].ref, !.cleaned = (at[w].ref = NoInput)]
          /\ Stop(w, "release")
       \/ /\ ~fenced
          /\ batch' = batch /\ Stop(w, "raise")
    /\ UNCHANGED <<current, phase, work, uploads, jobs, late>>

----------------------------------------------------------------------------
(* Leases.                                                                 *)

HoldsBatch == {"advance", "source", "retry", "refresh", "persist", "submit",
               "create", "created", "rejected", "collect", "publish", "clean",
               "checkpoint", "release", "raise"}

BatchLeaseExpires ==
    /\ batch.live
    /\ batch' = [batch EXCEPT !.live = FALSE]
    /\ UNCHANGED <<current, phase, work, uploads, jobs, late, at>>

\* The end of batch_lease.  A preparer goes on after a submission, unless its
\* renewal thread met an error.
Release(w) ==
    /\ at[w].pc \in {"release", "raise"}
    /\ batch' = IF batch.token = w THEN [batch EXCEPT !.token = NoWorker, !.live = FALSE]
                ELSE batch
    /\ \/ /\ ~at[w].prep
          /\ at' = [at EXCEPT ![w] = Idle]
       \/ /\ at[w].prep /\ at[w].pc = "release"
          /\ Stop(w, "seal")
       \/ /\ at[w].prep /\ (at[w].pc = "raise" \/ ~Leased(w))
          /\ Stop(w, "failing")
    /\ UNCHANGED <<current, phase, work, uploads, jobs, late>>

\* S3, the source, the provider or the database cannot be reached.
IOFails(w) ==
    /\ \/ /\ at[w].pc \in HoldsBatch \ {"create", "release", "raise"}
          /\ Stop(w, "raise")
       \/ /\ at[w].pc \in {"prepare", "claim", "upload", "reserve", "seal"}
          /\ Stop(w, "failing")
    /\ UNCHANGED <<current, phase, work, batch, uploads, jobs, late>>

\* The process dies; a create request it waits for stays in flight.
Crash(w) ==
    /\ at[w].pc # "idle"
    /\ at' = [at EXCEPT ![w] = Idle]
    /\ late' \in {late} \cup (IF at[w].pc = "create" THEN {late \cup {Request(w)}} ELSE {})
    /\ UNCHANGED <<current, phase, work, batch, uploads, jobs>>

----------------------------------------------------------------------------
(* The provider, and the assembly of the extraction.                       *)

JobEnds(j) ==
    /\ ~jobs[j].ended
    /\ jobs' = [jobs EXCEPT ![j].ended = TRUE]
    /\ UNCHANGED <<current, phase, work, batch, uploads, late, at>>

UploadExpires(u) ==
    /\ uploads[u].state = "live"
    /\ Cardinality({x \in DOMAIN uploads : uploads[x].state = "expired"}) < MaxExpired
    /\ uploads' = [uploads EXCEPT ![u].state = "expired"]
    /\ UNCHANGED <<current, phase, work, batch, jobs, late, at>>

\* assemble_extraction: the extraction ends with its source, with a failed
\* batch (this one or another of the file), or with its complete batches.
AssembleExtraction ==
    /\ phase = "waiting_provider" /\ work.status = "waiting_provider"
    /\ \/ ~current /\ phase' = "superseded" /\ work' = [work EXCEPT !.status = "superseded"]
       \/ current /\ phase' = "failed" /\ work' = [work EXCEPT !.status = "failed"]
       \/ /\ current /\ batch.status = "complete"
          /\ phase' = "complete"
          /\ work' = [work EXCEPT !.status = "index", !.attempts = 0, !.token = NoWorker]
    /\ UNCHANGED <<current, batch, uploads, jobs, late, at>>

----------------------------------------------------------------------------

Preparer(w) ==
    \/ ClaimWork(w)
    \/ ReadRecorded(w)
    \/ ClaimBatch(w)
    \/ PersistNew(w)
    \/ ReserveBatch(w)
    \/ FinishPreparation(w)
    \/ FailAttempt(w)

Submitter(w) ==
    \/ SkipRefresh(w)
    \/ RefreshInputs(w)
    \/ PublishInputs(w)
    \/ SkipSubmission(w)
    \/ StartSubmission(w)
    \/ CreateAccepted(w)
    \/ CreateRejected(w)
    \/ CreateAmbiguous(w)
    \/ ClearMarker(w)
    \/ RecordSubmission(w)
    \/ \E j \in DOMAIN jobs : JobFound(w, j)
    \/ JobNotFound(w)

Collector(w) ==
    \/ ClaimDueBatch(w)
    \/ SourceStands(w)
    \/ CancelJob(w)
    \/ AbandonBatch(w)
    \/ ReserveRetry(w)
    \/ JobRuns(w)
    \/ ReadOutput(w)
    \/ PublishResult(w)

Cleaner(w) ==
    \/ ClaimCleanup(w)
    \/ RemoveUpload(w)
    \/ CheckpointCleanup(w)

Environment ==
    \/ Supersede
    \/ ClaimSuperseded
    \/ WorkLeaseExpires
    \/ RetireExhaustedWork
    \/ BatchLeaseExpires
    \/ AssembleExtraction
    \/ \E j \in DOMAIN jobs : JobEnds(j)
    \/ \E u \in DOMAIN uploads : UploadExpires(u)
    \/ \E r \in late : LateCreate(r)

Next ==
    \/ \E w \in Workers :
        Preparer(w) \/ Submitter(w) \/ Collector(w) \/ Cleaner(w)
            \/ Release(w) \/ IOFails(w) \/ Crash(w)
    \/ Environment

Spec == Init /\ [][Next]_vars

----------------------------------------------------------------------------
(* Fairness.  The loops of the worker processes go on, maintenance runs    *)
(* every minute, and a lease nobody renews expires.  A request in flight   *)
(* arrives and a job ends; but a request that was lost stays lost.  The    *)
(* code retries without limit, so what it achieves it achieves once the    *)
(* faults stop for long enough; here they stop for ever.                   *)

Turn(w) ==
    \/ ReadRecorded(w) \/ ClaimBatch(w) \/ PersistNew(w) \/ ReserveBatch(w)
    \/ FinishPreparation(w) \/ FailAttempt(w)
    \/ SkipRefresh(w) \/ RefreshInputs(w) \/ PublishInputs(w)
    \/ SkipSubmission(w) \/ StartSubmission(w) \/ CreateAccepted(w)
    \/ ClearMarker(w) \/ RecordSubmission(w) \/ JobNotFound(w)
    \/ SourceStands(w) \/ CancelJob(w) \/ AbandonBatch(w) \/ ReserveRetry(w)
    \/ JobRuns(w) \/ ReadOutput(w) \/ PublishResult(w)
    \/ RemoveUpload(w) \/ CheckpointCleanup(w) \/ Release(w)

\* The holder of a lease is gone.
BatchAbandoned == \A w \in Workers : batch.token = w => at[w].pc \notin HoldsBatch
WorkAbandoned == \A w \in Workers : work.token = w => ~at[w].prep

\* A step the turn could have taken by itself is no fault.
Fault ==
    \/ \E w \in Workers : \/ /\ ~Turn(w)
                             /\ \/ IOFails(w) \/ Crash(w)
                                \/ CreateRejected(w) \/ CreateAmbiguous(w)
                          \/ JobNotFound(w) /\ \E j \in DOMAIN jobs : NamedLike(j, at[w].row)
                          \/ RemoveUpload(w) /\ at'[w].ref = CleanupCursor(at[w].row)
    \/ BatchLeaseExpires /\ ~BatchAbandoned
    \/ WorkLeaseExpires /\ ~WorkAbandoned

Fairness ==
    /\ SF_vars(\E w \in Workers : ClaimWork(w))
    /\ SF_vars(\E w \in Workers : ClaimDueBatch(w))
    /\ SF_vars(\E w \in Workers : ClaimCleanup(w))
    /\ \A w \in Workers : WF_vars(Turn(w) \/ \E j \in DOMAIN jobs : JobFound(w, j))
    /\ WF_vars(ClaimSuperseded)
    /\ WF_vars(RetireExhaustedWork)
    /\ WF_vars(WorkAbandoned /\ WorkLeaseExpires)
    /\ WF_vars(BatchAbandoned /\ BatchLeaseExpires)
    /\ WF_vars(\E j \in DOMAIN jobs : JobEnds(j))
    /\ WF_vars(\E r \in late : LateCreate(r))
    /\ <>[][~Fault]_vars

FairSpec == Spec /\ Fairness

----------------------------------------------------------------------------
(* Properties.                                                             *)

\* A job is paid for at most once per attempt of the batch, although workers
\* crash between marker, request and record, leases expire while a request is
\* in flight, and lost requests arrive late (submit_batch).
OneJobPerAttempt ==
    \A j, k \in DOMAIN jobs : jobs[j].attempt = jobs[k].attempt => j = k

\* The input file of a job that still runs is never deleted, whatever the
\* batch row says of it (claim_cleanup, advance_batch).
RunningJobKeepsInput ==
    \A j \in DOMAIN jobs : ~jobs[j].ended => uploads[jobs[j].input].state # "deleted"

\* A request whose result was accepted is not sent again: the open attempt
\* asks only for what the result manifest lacks (refresh_batch_inputs).
NoResultBoughtTwice ==
    \A j \in DOMAIN jobs :
        batch.status = "submitted" /\ batch.job = j
            => uploads[jobs[j].input].todo \cap batch.done = {}

\* Accepted results are never lost, not by a retry and not by a collector that
\* publishes after its lease passed to another (collect_batch).
ResultsAccumulate == [][batch.done \subseteq batch'.done]_vars

\* The uploads in the chain of input manifests that starts at u: the least set
\* that holds u and the predecessor of each of its members.
Chain(u) ==
    LET Closed(S) == {u} \cup {uploads[x].prev : x \in S} \subseteq S \cup {NoInput}
    IN  {x \in DOMAIN uploads : \A S \in SUBSET DOMAIN uploads : Closed(S) => x \in S}

\* A batch marked as cleaned left no deletable file of its manifests behind.
CleanedLeavesNothing ==
    batch.cleaned => \A u \in Chain(batch.input) : uploads[u].state # "live"

\* A create request was lost: marked as started, with no job to be found.
\* The code leaves such a batch to an operator rather than pay twice.
Ambiguous ==
    /\ batch.started /\ batch.job = NoJob
    /\ \A j \in DOMAIN jobs : jobs[j].attempt # batch.attempt
    /\ late = {}
    /\ \A w \in Workers : at[w].pc \notin {"create", "rejected"}

\* The preparation failed for good before it sealed the request range.
NeverSealed == batch.status = "retry" /\ phase = "pending" /\ work.status = "failed"

\* Every reserved batch is completed or failed in the end, unless its paid
\* request was lost or its preparation failed; the last disjunct is the bound
\* of the instance (claim_due_batch, advance_batch).
BatchSettles ==
    []<>(\/ batch.status \in {"none"} \cup Ended
         \/ Ambiguous \/ NeverSealed
         \/ Len(uploads) = MaxUploads)

\* The input files of a batch that ended are removed in the end (claim_cleanup):
\* no ended batch is left in a state that cleanup skips.
EndedIsCleaned == batch.status \in Ended ~> batch.cleaned
=============================================================================

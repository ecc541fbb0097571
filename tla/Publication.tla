---------------------------- MODULE Publication ----------------------------
(***************************************************************************)
(* The life of one cataloged file, from the registration of its versions   *)
(* to the publication of one of them and the removal of what it leaves in  *)
(* the search index.                                                       *)
(*                                                                         *)
(* Postgres rows (file_catalog, file_work, file_extractions, file_segments *)
(* and extraction_segments) are shared state; each SQL transaction is one  *)
(* action.  Worker threads keep a snapshot of the job they claimed and do  *)
(* their external IO between transactions.  The search index is external:  *)
(* a request takes effect at some moment after it is sent, possibly after  *)
(* its sender gave up on it.                                               *)
(*                                                                         *)
(* Versions are numbered by their sequence in the file, so the predecessor *)
(* of v is v-1, and every version has one extraction and one work row.     *)
(* A segment is the pair <<owner version, ordinal>>, and holds one chunk.  *)
(***************************************************************************)
EXTENDS Integers, FiniteSets

CONSTANTS
    Workers,       \* worker threads of the ingestion and background roles
    NoWorker,      \* SQL NULL in attempt_token
    MaxVersions,   \* bound: captures of the file
    MaxChunks,     \* bound: chunks of one extraction
    MaxAttempts,   \* MAX_WORK_ATTEMPTS, 5 in production
    MaxTurns,      \* bound: transformation turns over one source
    MaxLate,       \* bound: index requests in flight without a waiting sender
    RootDeletable, \* FALSE: runs in which nobody deletes the root
    Native         \* TRUE: text family (streamed, can append); FALSE: decoders

ASSUME WorkerAssumption == NoWorker \notin Workers
ASSUME BoundAssumption ==
    /\ MaxVersions \in Nat /\ MaxChunks \in Nat /\ MaxLate \in Nat
    /\ MaxAttempts \in Nat \ {0} /\ MaxTurns \in Nat \ {0}
    /\ Native \in BOOLEAN /\ RootDeletable \in BOOLEAN

VARIABLES
    captured,   \* sequence of file_catalog.captured_version_id, 0 for NULL
    tomb,       \* file_versions.deleted
    indexed,    \* sequence of file_catalog.indexed_version_id, 0 for NULL
    deleting,   \* roots.deleting_at is set
    work,       \* file_work
    ext,        \* file_extractions
    segs,       \* extraction_segments: the segments each extraction is made of
    stamped,    \* segments with file_segments.indexed_at
    retired,    \* segments with file_segments.retired_at
    rows,       \* segments whose row is in the search index
    late,       \* index requests in flight that nobody waits for
    at          \* each worker's position and job snapshot

catalog == <<captured, tomb, indexed, deleting>>
vars == <<captured, tomb, indexed, deleting, work, ext, segs, stamped, retired,
          rows, late, at>>

Versions == 1..MaxVersions
Ordinals == 0..(MaxChunks - 1)
Segments == Versions \X Ordinals
Owner(s) == s[1]
Ordinal(s) == s[2]

NoAppend == -1      \* append_checkpoint_ref = ''
Terminal == {"complete", "failed", "superseded"}

WorkRow == [stage: {"transform", "index"},
            status: {"none", "pending", "running"} \cup Terminal,
            attempts: 0..MaxAttempts,
            token: Workers \cup {NoWorker},
            live: BOOLEAN,              \* lease_until > NOW()
            cursor: 0..MaxChunks,       \* index_cursor
            turns: 0..MaxTurns]         \* transform_cursor, in turns
ExtractionRow == [status: {"pending", "complete", "superseded"},
                  count: 0..MaxChunks,                  \* chunk_count
                  append: 0..MaxChunks \cup {NoAppend}] \* append_chunk_count
Request == [kind: {"put", "del"}, segs: SUBSET Segments]
Position == {"idle", "transform", "index", "sent", "acked", "wrote",
             "erase", "erasing", "publish", "done"}
WorkerState == [pc: Position, v: 0..MaxVersions, cur: 0..MaxChunks,
                hi: 0..MaxChunks, cnt: 0..MaxChunks]

TypeOK ==
    /\ captured \in 0..MaxVersions
    /\ tomb \in [Versions -> BOOLEAN]
    /\ indexed \in 0..MaxVersions
    /\ deleting \in BOOLEAN
    /\ work \in [Versions -> WorkRow]
    /\ ext \in [Versions -> ExtractionRow]
    /\ segs \in [Versions -> SUBSET Segments]
    /\ stamped \in SUBSET Segments
    /\ retired \in SUBSET Segments
    /\ rows \in SUBSET Segments
    /\ late \in SUBSET Request
    /\ at \in [Workers -> WorkerState]

----------------------------------------------------------------------------
(* Rows as the schema defaults create them.                                *)

NewWork(stage, status) ==
    [stage |-> stage, status |-> status, attempts |-> 0, token |-> NoWorker,
     live |-> FALSE, cursor |-> 0, turns |-> 0]
NewExtraction(status) == [status |-> status, count |-> 0, append |-> NoAppend]
Idle == [pc |-> "idle", v |-> 0, cur |-> 0, hi |-> 0, cnt |-> 0]

Init ==
    /\ captured = 0 /\ indexed = 0 /\ deleting = FALSE
    /\ tomb = [v \in Versions |-> FALSE]
    /\ work = [v \in Versions |-> NewWork("transform", "none")]
    /\ ext = [v \in Versions |-> NewExtraction("pending")]
    /\ segs = [v \in Versions |-> {}]
    /\ stamped = {} /\ retired = {} /\ rows = {} /\ late = {}
    /\ at = [w \in Workers |-> Idle]

----------------------------------------------------------------------------
(* Capture: a new version becomes the captured head and gets its work row. *)

RegisterFileVersions(del) ==
    LET v == captured + 1 IN
    /\ v \in Versions
    /\ ~deleting
    /\ captured' = v
    /\ tomb' = [tomb EXCEPT ![v] = del]
    /\ work' = [work EXCEPT ![v] =
                    NewWork(IF del THEN "index" ELSE "transform", "pending")]
    /\ ext' = [ext EXCEPT ![v] =
                    NewExtraction(IF del THEN "complete" ELSE "pending")]
    /\ UNCHANGED <<indexed, deleting, segs, stamped, retired, rows, late, at>>

(* PrepareRootDeletion: fences captures, claims and publications.          *)
PrepareRootDeletion ==
    /\ RootDeletable /\ ~deleting
    /\ deleting' = TRUE
    /\ UNCHANGED <<captured, tomb, indexed, work, ext, segs, stamped, retired,
                   rows, late, at>>

----------------------------------------------------------------------------
(* Claims and leases.                                                      *)

Due(v) ==
    /\ work[v].attempts < MaxAttempts
    /\ \/ work[v].status = "pending"
       \/ work[v].status = "running" /\ ~work[v].live

\* Mutant of Stale: a newer capture is forgotten.
StaleRootOnly(v) == deleting

\* What makes a claimed or finished job obsolete.
Stale(v) == deleting \/ captured # v

\* The fence every transition of an attempt repeats.
Owned(w) ==
    LET v == at[w].v IN
    /\ work[v].token = w
    /\ work[v].status = "running"
    /\ work[v].live

Claimed(w, v) == [work[v] EXCEPT !.status = "running", !.token = w,
                                 !.attempts = @ + 1, !.live = TRUE]

ClaimDueWork(w, v) ==
    /\ at[w].pc = "idle"
    /\ Due(v)
    /\ ~Stale(v)
    /\ work' = [work EXCEPT ![v] = Claimed(w, v)]
    /\ at' = [at EXCEPT ![w] =
                [pc |-> work[v].stage, v |-> v, cur |-> work[v].cursor,
                 hi |-> work[v].cursor, cnt |-> ext[v].count]]
    /\ UNCHANGED <<catalog, ext, segs, stamped, retired, rows, late>>

ClaimSuperseded(w, v) ==
    /\ at[w].pc = "idle"
    /\ Due(v)
    /\ Stale(v)
    /\ work' = [work EXCEPT ![v] =
                    [Claimed(w, v) EXCEPT !.status = "superseded", !.live = FALSE]]
    /\ ext' = [ext EXCEPT ![v].status = IF @ = "pending" THEN "superseded" ELSE @]
    /\ UNCHANGED <<catalog, segs, stamped, retired, rows, late, at>>

\* The five minutes pass without a renewal: the thread renews every minute
\* until it stops, crashes or cannot reach the database.
LeaseExpires(v) ==
    /\ work[v].status = "running" /\ work[v].live
    /\ work' = [work EXCEPT ![v].live = FALSE]
    /\ UNCHANGED <<catalog, ext, segs, stamped, retired, rows, late, at>>

\* An attempt ends without a result: attempt_token and lease_until NULL.
Dropped(v, status) ==
    [work[v] EXCEPT !.status = status, !.token = NoWorker, !.live = FALSE]

\* Mutant of RetireExhaustedWork: an attempt that died is not looked for.
RetireExhaustedPending(v) ==
    /\ work[v].status = "pending"
    /\ work[v].attempts >= MaxAttempts
    /\ work' = [work EXCEPT ![v].status = "failed"]
    /\ UNCHANGED <<catalog, ext, segs, stamped, retired, rows, late, at>>

RetireExhaustedWork(v) ==
    /\ work[v].status \in {"pending", "running"}
    /\ work[v].attempts >= MaxAttempts
    /\ ~work[v].live
    /\ work' = [work EXCEPT ![v] = Dropped(v, "failed")]
    /\ UNCHANGED <<catalog, ext, segs, stamped, retired, rows, late, at>>

\* A turn that gives the row back: attempt_token and lease_until NULL.
Released(v, stage, attempts) ==
    [work[v] EXCEPT !.stage = stage, !.status = "pending", !.attempts = attempts,
                    !.token = NoWorker, !.live = FALSE]

Leave(w) == at' = [at EXCEPT ![w] = Idle]

----------------------------------------------------------------------------
(* Transformation.                                                         *)

\* seed_append: the predecessor must be the published extraction.
AppendBase(v) ==
    /\ v > 1 /\ indexed = v - 1
    /\ ~tomb[v - 1]
    /\ ext[v - 1].status = "complete"
    /\ ext[v - 1].append # NoAppend

Reusable(p) == {s \in segs[p] : /\ Ordinal(s) < ext[p].append
                                /\ s \in stamped
                                /\ s \notin retired}

SeedAppend(w) ==
    LET v == at[w].v
        n == ext[v - 1].append IN
    /\ at[w].pc = "transform" /\ Native
    /\ Owned(w) /\ work[v].stage = "transform"
    /\ at[w].cnt = 0 /\ ext[v].count = 0 /\ work[v].turns = 0
    /\ AppendBase(v)
    /\ {Ordinal(s) : s \in Reusable(v - 1)} = 0..(n - 1)
    /\ segs' = [segs EXCEPT ![v] = Reusable(v - 1)]
    /\ ext' = [ext EXCEPT ![v].count = n]
    /\ work' = [work EXCEPT ![v] = [@ EXCEPT !.cursor = n,
                                             !.turns = work[v - 1].turns]]
    /\ at' = [at EXCEPT ![w] = [@ EXCEPT !.cur = n, !.hi = n, !.cnt = n]]
    /\ UNCHANGED <<catalog, stamped, retired, rows, late>>

\* store_segments: n new segments extend the extraction's prefix.
NewSegments(v, n) == {v} \X (ext[v].count..(ext[v].count + n - 1))

\* One turn of transform_native_segments; pre of its n segments precede EOF.
SaveSegmentTurn(w, n, done, pre) ==
    LET v == at[w].v
        count == ext[v].count + n IN
    /\ at[w].pc = "transform" /\ Native
    /\ Owned(w) /\ work[v].stage = "transform"
    /\ ext[v].count = at[w].cnt /\ ext[v].status = "pending"
    /\ done \/ work[v].turns < MaxTurns
    /\ count <= MaxChunks
    /\ NewSegments(v, n) \cap retired = {}
    /\ segs' = [segs EXCEPT ![v] = @ \cup NewSegments(v, n)]
    /\ ext' = [ext EXCEPT ![v] =
                [status |-> IF done THEN "complete" ELSE "pending",
                 count |-> count,
                 append |-> IF done THEN ext[v].count + pre ELSE NoAppend]]
    /\ work' = [work EXCEPT ![v] =
                [Released(v, IF done \/ count > work[v].cursor
                             THEN "index" ELSE "transform", 0)
                 EXCEPT !.turns = IF work[v].turns < MaxTurns
                                  THEN work[v].turns + 1 ELSE work[v].turns]]
    /\ Leave(w)
    /\ UNCHANGED <<catalog, stamped, retired, rows, late>>

\* prepare_decoded_segments: a decoder saves each segment while it runs.
SaveDecodedSegment(w) ==
    LET v == at[w].v IN
    /\ at[w].pc = "transform" /\ ~Native
    /\ Owned(w) /\ work[v].stage = "transform"
    /\ ext[v].count = at[w].cnt /\ ext[v].count < MaxChunks
    /\ NewSegments(v, 1) \cap retired = {}
    /\ segs' = [segs EXCEPT ![v] = @ \cup NewSegments(v, 1)]
    /\ ext' = [ext EXCEPT ![v].count = @ + 1]
    /\ at' = [at EXCEPT ![w].cnt = @ + 1]
    /\ UNCHANGED <<catalog, work, stamped, retired, rows, late>>

CompleteExtraction(w) ==
    LET v == at[w].v IN
    /\ at[w].pc = "transform" /\ ~Native
    /\ Owned(w)
    /\ work' = [work EXCEPT ![v] = Released(v, "index", 0)]
    /\ ext' = [ext EXCEPT ![v] = [@ EXCEPT !.status = "complete",
                                           !.count = at[w].cnt]]
    /\ Leave(w)
    /\ UNCHANGED <<catalog, segs, stamped, retired, rows, late>>

----------------------------------------------------------------------------
(* Indexing.                                                               *)

\* The rows of the batch the worker sent or is about to send.
Batch(w) == {at[w].v} \X (at[w].cur..(at[w].hi - 1))

\* delete_by_filter version_sequence <= v: the rows a tombstone erases.
Erased(v) == {s \in Segments : Owner(s) <= v}

\* Mutant of SendUpsert: the worker goes on without the index's response.
SendUnawaited(w, hi) ==
    /\ at[w].pc \in {"index", "wrote"} /\ ~tomb[at[w].v]
    /\ at[w].cur < hi /\ hi <= at[w].cnt
    /\ at' = [at EXCEPT ![w] = [@ EXCEPT !.pc = "acked", !.hi = hi]]
    /\ UNCHANGED <<catalog, work, ext, segs, stamped, retired, rows, late>>

SendUpsert(w, hi) ==
    LET v == at[w].v IN
    /\ at[w].pc \in {"index", "wrote"} /\ ~tomb[v]
    /\ at[w].cur < hi /\ hi <= at[w].cnt
    /\ {v} \X (at[w].cur..(hi - 1)) \subseteq segs[v] \ retired
    /\ at' = [at EXCEPT ![w] = [@ EXCEPT !.pc = "sent", !.hi = hi]]
    /\ UNCHANGED <<catalog, work, ext, segs, stamped, retired, rows, late>>

\* The index applies the write and the worker reads its response.
UpsertLands(w) ==
    /\ at[w].pc = "sent"
    /\ rows' = rows \cup Batch(w)
    /\ at' = [at EXCEPT ![w].pc = "acked"]
    /\ UNCHANGED <<catalog, work, ext, segs, stamped, retired, late>>

CheckpointIndex(w) ==
    LET v == at[w].v IN
    /\ at[w].pc = "acked"
    /\ Owned(w) /\ work[v].stage = "index"
    /\ work[v].cursor = at[w].cur /\ ext[v].count = at[w].cnt
    /\ work' = [work EXCEPT ![v].cursor = at[w].hi]
    /\ stamped' = stamped \cup (Batch(w) \ retired)
    /\ at' = [at EXCEPT ![w] = [@ EXCEPT !.pc = "wrote", !.cur = at[w].hi]]
    /\ UNCHANGED <<catalog, ext, segs, retired, rows, late>>

\* Stopping process, or no provider capacity: no attempt is spent.
YieldIndex(w) ==
    LET v == at[w].v IN
    /\ \/ at[w].pc = "index"
       \/ at[w].pc = "wrote" /\ at[w].cur < at[w].cnt
    /\ Owned(w) /\ work[v].stage = "index"
    /\ work' = [work EXCEPT ![v] =
                    Released(v, "index", IF work[v].attempts > 0
                                         THEN work[v].attempts - 1 ELSE 0)]
    /\ Leave(w)
    /\ UNCHANGED <<catalog, ext, segs, stamped, retired, rows, late>>

TurnWritten(w) ==
    \/ at[w].pc = "wrote"
    \/ at[w].pc = "index" /\ ~tomb[at[w].v] /\ at[w].cur = at[w].cnt

FileComplete(v) == work[v].cursor = ext[v].count /\ ext[v].status = "complete"

\* finish_index_turn, last turn: the lease is kept for the publication.
FinishLastTurn(w) ==
    LET v == at[w].v IN
    /\ TurnWritten(w)
    /\ Owned(w) /\ work[v].stage = "index" /\ work[v].cursor = at[w].cur
    /\ FileComplete(v)
    /\ at' = [at EXCEPT ![w].pc = "publish"]
    /\ UNCHANGED <<catalog, work, ext, segs, stamped, retired, rows, late>>

\* finish_index_turn, more to transform or to write: the row is given back.
FinishIndexTurn(w) ==
    LET v == at[w].v IN
    /\ TurnWritten(w)
    /\ Owned(w) /\ work[v].stage = "index" /\ work[v].cursor = at[w].cur
    /\ ~FileComplete(v)
    /\ work' = [work EXCEPT ![v] =
                    Released(v, IF work[v].cursor = ext[v].count
                                THEN "transform" ELSE "index", 0)]
    /\ Leave(w)
    /\ UNCHANGED <<catalog, ext, segs, stamped, retired, rows, late>>

SendErase(w) ==
    /\ at[w].pc \in {"index", "erase"} /\ tomb[at[w].v]
    /\ at' = [at EXCEPT ![w].pc = "erasing"]
    /\ UNCHANGED <<catalog, work, ext, segs, stamped, retired, rows, late>>

\* A bounded deletion removes some of the matching rows; the worker repeats it
\* until the index reports that none remain.
EraseLands(w) ==
    /\ at[w].pc = "erasing"
    /\ \E gone \in SUBSET (rows \cap Erased(at[w].v)) :
        /\ rows' = rows \ gone
        /\ at' = [at EXCEPT ![w].pc =
                    IF gone = rows \cap Erased(at[w].v) THEN "publish" ELSE "erase"]
    /\ UNCHANGED <<catalog, work, ext, segs, stamped, retired, late>>

\* The outcome of an attempt: lease_until NULL, the token stays.
Finished(v, status) == [work[v] EXCEPT !.status = status, !.live = FALSE]

PublishHead(w) ==
    LET v == at[w].v IN
    /\ at[w].pc = "publish"
    /\ Owned(w)
    /\ FileComplete(v)
    /\ \/ /\ Stale(v)
          /\ work' = [work EXCEPT ![v] = Finished(v, "superseded")]
          /\ UNCHANGED indexed
       \/ /\ ~Stale(v)
          /\ work' = [work EXCEPT ![v] = Finished(v, "complete")]
          /\ indexed' = v
    /\ at' = [at EXCEPT ![w].pc = "done"]
    /\ UNCHANGED <<captured, tomb, deleting, ext, segs, stamped, retired, rows, late>>

Return(w) ==
    /\ at[w].pc = "done"
    /\ Leave(w)
    /\ UNCHANGED <<catalog, work, ext, segs, stamped, retired, rows, late>>

----------------------------------------------------------------------------
(* An attempt ends with an error, or with its process.  A request it was   *)
(* waiting for stays in flight (or never arrives).                         *)

Put(S) == [kind |-> "put", segs |-> S]
Del(S) == [kind |-> "del", segs |-> S]

InFlight(w) ==
    CASE at[w].pc = "sent" -> {Put(Batch(w))}
      [] at[w].pc = "erasing" -> {Del(Erased(at[w].v))}
      [] OTHER -> {}

Orphan(w) ==
    \/ late' = late
    \/ /\ InFlight(w) # {}
       /\ Cardinality(late) < MaxLate
       /\ late' = late \cup InFlight(w)

\* Mutant of FailFence: the failure of an attempt reopens finished work.
TokenFence(w) == work[at[w].v].token = w

\* The fence of fail_attempt has no lease condition.
FailFence(w) ==
    /\ work[at[w].v].token = w
    /\ work[at[w].v].status = "running"

FailAttempt(w) ==
    LET v == at[w].v IN
    /\ at[w].pc # "idle"
    /\ work' = IF FailFence(w)
               THEN [work EXCEPT ![v] =
                        Dropped(v, IF work[v].attempts >= MaxAttempts
                                   THEN "failed" ELSE "pending")]
               ELSE work
    /\ Orphan(w)
    /\ Leave(w)
    /\ UNCHANGED <<catalog, ext, segs, stamped, retired, rows>>

\* The process dies, or fail_attempt cannot reach the database.
Crash(w) ==
    /\ at[w].pc # "idle"
    /\ Orphan(w)
    /\ Leave(w)
    /\ UNCHANGED <<catalog, work, ext, segs, stamped, retired, rows>>

LateLands(r) ==
    /\ late' = late \ {r}
    /\ \/ r.kind = "put" /\ rows' = rows \cup r.segs
       \/ /\ r.kind = "del"
          /\ \E gone \in SUBSET r.segs : gone # {} /\ rows' = rows \ gone
    /\ UNCHANGED <<catalog, work, ext, segs, stamped, retired, at>>

----------------------------------------------------------------------------
(* cleanup_segments.                                                       *)

Pinned(v) == \/ v = indexed
             \/ v = captured
             \/ work[v].status \notin {"complete", "superseded"}

\* Mutant of Referenced: only the extraction that made the segment is asked.
ReferencedByOwner(s) == s \in segs[Owner(s)] /\ Pinned(Owner(s))

Referenced(s) == \E v \in 1..captured : s \in segs[v] /\ Pinned(v)

\* Mutants of RetireSegment: only the published extraction protects a segment;
\* only segments of work that completed are looked for.
RetireUnpublished(s) ==
    /\ s \in segs[Owner(s)] /\ s \notin retired
    /\ indexed # 0 => s \notin segs[indexed]
    /\ retired' = retired \cup {s}
    /\ UNCHANGED <<catalog, work, ext, segs, stamped, rows, late, at>>
RetireCompleted(s) ==
    /\ work[Owner(s)].status = "complete" /\ s \notin retired
    /\ ~Referenced(s)
    /\ retired' = retired \cup {s}
    /\ UNCHANGED <<catalog, work, ext, segs, stamped, rows, late, at>>

RetireSegment(s) ==
    /\ ~deleting
    /\ s \in segs[Owner(s)] /\ s \notin retired
    /\ ~Referenced(s)
    /\ retired' = retired \cup {s}
    /\ UNCHANGED <<catalog, work, ext, segs, stamped, rows, late, at>>

\* Recurring: the rows of a retired segment are deleted again and again.
SweepSegment(s) ==
    /\ ~deleting
    /\ s \in retired
    /\ Cardinality(late) < MaxLate
    /\ late' = late \cup {Del({s})}
    /\ UNCHANGED <<catalog, work, ext, segs, stamped, retired, rows, at>>

----------------------------------------------------------------------------

Worker(w) ==
    \/ \E v \in Versions : ClaimDueWork(w, v) \/ ClaimSuperseded(w, v)
    \/ SeedAppend(w)
    \/ \E n \in 0..MaxChunks, done \in BOOLEAN :
          \E pre \in 0..n : SaveSegmentTurn(w, n, done, pre)
    \/ SaveDecodedSegment(w)
    \/ CompleteExtraction(w)
    \/ \E hi \in 1..MaxChunks : SendUpsert(w, hi)
    \/ UpsertLands(w)
    \/ CheckpointIndex(w)
    \/ YieldIndex(w)
    \/ FinishLastTurn(w)
    \/ FinishIndexTurn(w)
    \/ SendErase(w)
    \/ EraseLands(w)
    \/ PublishHead(w)
    \/ Return(w)
    \/ FailAttempt(w)
    \/ Crash(w)

Next ==
    \/ \E del \in BOOLEAN : RegisterFileVersions(del)
    \/ PrepareRootDeletion
    \/ \E w \in Workers : Worker(w)
    \/ \E v \in Versions : LeaseExpires(v) \/ RetireExhaustedWork(v)
    \/ \E r \in late : LateLands(r)
    \/ \E s \in Segments : RetireSegment(s) \/ SweepSegment(s)

Spec == Init /\ [][Next]_vars

----------------------------------------------------------------------------
(* Fairness.  Worker loops keep running: an attempt goes on to its next    *)
(* transaction or request, a requested write is answered, and an attempt   *)
(* whose fence fails raises and calls fail_attempt.  Claims are served     *)
(* oldest first; the maintenance loop runs every minute; a lease nobody    *)
(* renews expires; provider capacity is granted in turn and processes stop *)
(* now and then only, so that not every attempt at a file is deferred.     *)

Progress(w) ==
    \/ \E n \in 0..MaxChunks, done \in BOOLEAN :
          \E pre \in 0..n : SaveSegmentTurn(w, n, done, pre)
    \/ CompleteExtraction(w)
    \/ UpsertLands(w)
    \/ CheckpointIndex(w)
    \/ FinishLastTurn(w)
    \/ FinishIndexTurn(w)
    \/ SendErase(w)
    \/ PublishHead(w)
    \/ Return(w)
    \/ at[w].pc # "idle" /\ ~Owned(w) /\ FailAttempt(w)

\* What an indexing attempt does when it does not yield.
Undeferred(w) ==
    \/ \E hi \in 1..MaxChunks : SendUpsert(w, hi)
    \/ FinishLastTurn(w)
    \/ FinishIndexTurn(w)
    \/ SendErase(w)

Abandoned(v) == \A w \in Workers : at[w].v # v

Fairness ==
    /\ \A v \in Versions :
        /\ SF_vars(\E w \in Workers : ClaimDueWork(w, v))
        /\ SF_vars(\E w \in Workers : ClaimSuperseded(w, v))
        /\ SF_vars(\E w \in Workers : at[w].v = v /\ Undeferred(w))
        /\ WF_vars(RetireExhaustedWork(v))
        /\ WF_vars(Abandoned(v) /\ LeaseExpires(v))
    /\ \A w \in Workers :
        /\ WF_vars(Progress(w))
        /\ SF_vars(EraseLands(w) /\ at'[w].pc = "publish")
    /\ \A s \in Segments :
        /\ WF_vars(RetireSegment(s))
        /\ SF_vars(SweepSegment(s))
    /\ WF_vars(\E r \in late : LateLands(r))

FairSpec == Spec /\ Fairness

----------------------------------------------------------------------------
(* Properties.                                                             *)

\* No tombstone was captured after version v.
NotDeletedSince(v) == \A t \in (v + 1)..captured : ~tomb[t]

\* Every chunk of version v has its row in the index.
Searchable(v) == {Ordinal(s) : s \in segs[v] \cap rows} = 0..(ext[v].count - 1)

\* Every chunk of the published version can be found, whatever late writes,
\* retries, superseded workers and cleanups do, until a tombstone of the file
\* is captured (publish_head, delete_by_filter, cleanup_segments).
PublishedIsSearchable ==
    indexed # 0 /\ NotDeletedSince(indexed) => Searchable(indexed)

\* cleanup_segments never retires a segment that the published extraction, the
\* captured head or unfinished work is made of, although append reuse passes
\* segments on from version to version.
RetiredIsUnreferenced == \A s \in retired : ~Referenced(s)

\* index_cursor is durable evidence: a worker that resumes at it, after any
\* crash, finds every row below it in the index.
CursorIsConfirmed ==
    \A v \in 1..captured :
        Pinned(v) /\ NotDeletedSince(v)
            => \A s \in segs[v] : Ordinal(s) < work[v].cursor => s \in rows

\* The published head only moves to the captured head of a live root, and so
\* never back to an older version.
HeadMovesForward ==
    [][indexed' # indexed => indexed' = captured /\ indexed' > indexed /\ ~deleting]_vars

\* Finished work is never reopened, not even by an attempt that learns of the
\* outcome of its own publication too late.
FinishedIsFinal ==
    [][\A v \in Versions : work[v].status \in Terminal
                            => work'[v].status = work[v].status]_vars

\* The pipeline as a whole behaves like FileHead: captures advance the head,
\* each publication exposes the complete head at once, and what is published
\* stays complete until the file is deleted.
Promise == INSTANCE FileHead WITH
            head <- captured,
            deletions <- {v \in 1..captured : tomb[v]},
            published <- indexed,
            closed <- deleting,
            whole <- indexed = 0 \/ Searchable(indexed)
ImplementsFileHead == Promise!Spec

\* Every registered version settles: its work completes, is superseded or
\* fails visibly; no crash, expiry or deferral leaves it pending for ever.
WorkSettles ==
    \A v \in Versions : work[v].status = "pending" ~> work[v].status \in Terminal

\* The rows of segments nothing refers to any more disappear from the index
\* (cleanup_segments), and once more whenever a late request put them back.
ObsoleteRowsVanish ==
    \A s \in Segments : s \in rows /\ ~Referenced(s) ~> s \notin rows

\* What docs/api-reference.md says of search: capturing a new version leaves
\* the previous publication searchable until the new one is published.
PriorStaysSearchable ==
    indexed # 0 /\ ~deleting /\ ~tomb[captured] => Searchable(indexed)

\* What docs/architecture-and-functionality.md says of late and stale writes:
\* cleanup removes obsolete rows, those of versions older than the published
\* one that it does not share.
CleanupRemovesObsolete ==
    \A s \in Segments :
        s \in rows /\ Owner(s) < indexed /\ s \notin segs[indexed] ~> s \notin rows
=============================================================================

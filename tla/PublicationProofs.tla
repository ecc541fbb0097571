------------------------- MODULE PublicationProofs -------------------------
(***************************************************************************)
(* Proofs about Publication, for every number of workers, versions,        *)
(* chunks, attempts, turns and requests in flight.                         *)
(*                                                                         *)
(* The argument.  A publication needs index_cursor = chunk_count, so it is *)
(* enough that every row below a cursor is in the index (CursorIsConfirmed)*)
(* and stays there.  A row can only be removed by the deletion a tombstone *)
(* or a retirement sent, at once or late (LateDeletesAreSafe), and neither *)
(* reaches a version that is still pinned and not deleted since            *)
(* (RetiredIsUnreferenced, Made).  A cursor only moves over a batch the    *)
(* index confirmed (AcksHold) by the worker whose snapshot the row still   *)
(* agrees with (OwnersAreCurrent), or over rows that a publication already *)
(* covers (append reuse).                                                  *)
(***************************************************************************)
EXTENDS Publication, TLAPS

----------------------------------------------------------------------------
(* The rows that the helpers of Publication make.                          *)

\* A claimed row keeps its stage and cursor, and has room for one more attempt.
LEMMA ClaimedRow ==
    ASSUME TypeOK, NEW w \in Workers, NEW v \in Versions, work[v].attempts < MaxAttempts
    PROVE  /\ Claimed(w, v) \in WorkRow
           /\ Claimed(w, v).stage = work[v].stage
           /\ Claimed(w, v).status = "running"
           /\ Claimed(w, v).token = w
           /\ Claimed(w, v).cursor = work[v].cursor
<1>1. work[v] \in WorkRow
  BY DEF TypeOK
<1> DEFINE a == [work[v] EXCEPT !.status = "running", !.token = w]
           n == work[v].attempts + 1
<1>2. a \in WorkRow
  BY <1>1, WorkerAssumption DEF WorkRow, Terminal
<1>3. n \in 0..MaxAttempts /\ a.attempts = work[v].attempts
  BY <1>1, BoundAssumption DEF WorkRow
<1>4. [a EXCEPT !.attempts = n, !.live = TRUE] \in WorkRow
  <2> HIDE DEF a, n
  <2> QED BY <1>2, <1>3 DEF WorkRow
<1>5. [a EXCEPT !.attempts = n, !.live = TRUE] = Claimed(w, v)
  BY <1>1 DEF Claimed, WorkRow
<1>6. QED
  BY <1>1, <1>4, <1>5 DEF Claimed, WorkRow

\* A row given back keeps its cursor and loses its token.
LEMMA ReleasedRow ==
    ASSUME TypeOK, NEW v \in Versions, NEW stage \in {"transform", "index"},
           NEW n \in 0..MaxAttempts
    PROVE  /\ Released(v, stage, n) \in WorkRow
           /\ Released(v, stage, n).stage = stage
           /\ Released(v, stage, n).status = "pending"
           /\ Released(v, stage, n).token = NoWorker
           /\ Released(v, stage, n).cursor = work[v].cursor
<1>1. work[v] \in WorkRow
  BY DEF TypeOK
<1> DEFINE a == [work[v] EXCEPT !.stage = stage, !.status = "pending"]
<1>2. a \in WorkRow
  BY <1>1 DEF WorkRow
<1>4. [a EXCEPT !.attempts = n, !.token = NoWorker, !.live = FALSE] \in WorkRow
  <2> HIDE DEF a
  <2> QED BY <1>2 DEF WorkRow
<1>5. QED
  BY <1>1, <1>4 DEF Released, WorkRow

\* A row whose attempt ended without a result keeps its stage and cursor.
LEMMA DroppedRow ==
    ASSUME TypeOK, NEW v \in Versions, NEW status \in {"pending", "failed"}
    PROVE  /\ Dropped(v, status) \in WorkRow
           /\ Dropped(v, status).stage = work[v].stage
           /\ Dropped(v, status).status = status
           /\ Dropped(v, status).token = NoWorker
           /\ Dropped(v, status).cursor = work[v].cursor
<1>1. work[v] \in WorkRow
  BY DEF TypeOK
<1>2. QED
  BY <1>1 DEF Dropped, WorkRow, Terminal

\* A row with an outcome keeps everything but its status and lease.
LEMMA FinishedRow ==
    ASSUME TypeOK, NEW v \in Versions, NEW status \in {"complete", "superseded"}
    PROVE  /\ Finished(v, status) \in WorkRow
           /\ Finished(v, status).stage = work[v].stage
           /\ Finished(v, status).status = status
           /\ Finished(v, status).token = work[v].token
           /\ Finished(v, status).cursor = work[v].cursor
<1>1. work[v] \in WorkRow
  BY DEF TypeOK
<1>2. QED
  BY <1>1 DEF Finished, WorkRow, Terminal
----------------------------------------------------------------------------
(* The inductive invariant.                                                *)

\* Versions that were not captured yet have no rows of any kind.
Fresh ==
    \A v \in Versions :
        /\ v > captured => /\ segs[v] = {} /\ ~tomb[v]
                           /\ work[v] = NewWork("transform", "none")
                           /\ ext[v] = NewExtraction("pending")
        /\ v <= captured => work[v].status # "none"

\* A tombstone is complete from the start and has no segments.
TombShape ==
    \A v \in Versions : tomb[v] =>
        /\ segs[v] = {}
        /\ work[v].stage = "index" /\ work[v].cursor = 0
        /\ ext[v].status = "complete" /\ ext[v].count = 0

\* The published version is a captured one whose work is complete.
HeadShape ==
    /\ indexed <= captured
    /\ indexed # 0 => work[indexed].status = "complete" /\ FileComplete(indexed)

\* What an extraction is made of: every ordinal below its count, from itself or,
\* below the cursor, from earlier versions that no deletion separates from it.
Made(v) ==
    /\ work[v].cursor <= ext[v].count
    /\ ext[v].append <= ext[v].count
    /\ \A o \in 0..(ext[v].count - 1) : \E s \in segs[v] : Ordinal(s) = o
    /\ \A s \in segs[v] :
        /\ Ordinal(s) < ext[v].count
        /\ Owner(s) <= v
        /\ Owner(s) # v => Ordinal(s) < work[v].cursor
        /\ \A t \in Owner(s)..v : ~tomb[t]
ExtractionShape == \A v \in Versions : Made(v)

\* A worker's snapshot: within the extraction, and of the right kind of version.
Busy(w) == at[w].pc # "idle"
Fits(a) ==
    /\ a.v \in 1..captured
    /\ a.cur <= a.hi /\ a.hi <= a.cnt
    /\ a.pc \in {"transform", "sent", "acked", "wrote"} => ~tomb[a.v]
    /\ a.pc \in {"erase", "erasing"} => tomb[a.v]
    /\ a.pc \in {"sent", "acked"} => {a.v} \X (a.cur..(a.hi - 1)) \subseteq segs[a.v]
Snapshots == \A w \in Workers : Busy(w) => Fits(at[w])

\* While its token is in the row, a worker's snapshot is what the row says.
Writing == {"index", "sent", "acked", "wrote"}
Matches(a) ==
    /\ a.pc # "done" => a.cnt = ext[a.v].count
    /\ a.pc = "transform" => work[a.v].stage = "transform"
    /\ a.pc \in Writing => work[a.v].stage = "index" /\ work[a.v].cursor = a.cur
Holds(w, v) == work[v].token = w /\ work[v].status = "running"
OwnersAreCurrent == \A w \in Workers : Busy(w) /\ Holds(w, at[w].v) => Matches(at[w])

\* A confirmed batch stays in the index as long as its version needs it.
Acked(w) == Pinned(at[w].v) /\ NotDeletedSince(at[w].v) => Batch(w) \subseteq rows
AcksHold == \A w \in Workers : at[w].pc = "acked" => Acked(w)

\* A deletion in flight can only hit what a tombstone or a retirement doomed.
Doomed(S) ==
    \/ S \subseteq retired
    \/ \E t \in 1..captured : tomb[t] /\ S \subseteq Erased(t)
LateDeletesAreSafe == \A r \in late : r.kind = "del" => Doomed(r.segs)

IInv ==
    /\ TypeOK /\ Fresh /\ TombShape /\ HeadShape /\ ExtractionShape
    /\ Snapshots /\ OwnersAreCurrent /\ AcksHold /\ LateDeletesAreSafe
    /\ RetiredIsUnreferenced /\ CursorIsConfirmed

----------------------------------------------------------------------------
(* Type correctness, one lemma per group of actions.                       *)

\* The rows and snapshots the schema starts with are well typed.
LEMMA InitType == Init => TypeOK
<1> SUFFICES ASSUME Init PROVE TypeOK
  OBVIOUS
<1>1. NewWork("transform", "none") \in WorkRow
  BY WorkerAssumption, BoundAssumption DEF NewWork, WorkRow, Terminal
<1>2. NewExtraction("pending") \in ExtractionRow
  BY BoundAssumption DEF NewExtraction, ExtractionRow, NoAppend
<1>3. Idle \in WorkerState
  BY BoundAssumption DEF Idle, WorkerState, Position
<1>4. captured \in 0..MaxVersions /\ indexed \in 0..MaxVersions
  BY BoundAssumption DEF Init
<1>5. tomb \in [Versions -> BOOLEAN] /\ deleting \in BOOLEAN
  BY Zenon DEF Init
<1>6. QED
  BY <1>1, <1>2, <1>3, <1>4, <1>5 DEF Init, TypeOK

\* Registrations and root deletions keep the types.
LEMMA CatalogType ==
    ASSUME TypeOK,
           \/ \E del \in BOOLEAN : RegisterFileVersions(del)
           \/ PrepareRootDeletion
    PROVE  TypeOK'
<1>1. ASSUME NEW del \in BOOLEAN, RegisterFileVersions(del)
      PROVE  TypeOK'
  <2>1. NewWork(IF del THEN "index" ELSE "transform", "pending") \in WorkRow
    BY WorkerAssumption, BoundAssumption DEF NewWork, WorkRow, Terminal
  <2>2. NewExtraction(IF del THEN "complete" ELSE "pending") \in ExtractionRow
    BY BoundAssumption DEF NewExtraction, ExtractionRow, NoAppend
  <2>3. captured' \in 0..MaxVersions
    BY <1>1, BoundAssumption DEF RegisterFileVersions, TypeOK, Versions
  <2>4. QED
    BY <1>1, <2>1, <2>2, <2>3 DEF RegisterFileVersions, TypeOK
<1>2. CASE PrepareRootDeletion
  BY <1>2 DEF PrepareRootDeletion, TypeOK
<1>3. QED
  BY <1>1, <1>2

\* Claims keep the types.
LEMMA ClaimType ==
    ASSUME TypeOK, NEW w \in Workers, NEW v \in Versions,
           ClaimDueWork(w, v) \/ ClaimSuperseded(w, v)
    PROVE  TypeOK'
<1>1. work[v].attempts < MaxAttempts
  BY DEF ClaimDueWork, ClaimSuperseded, Due
<1>2. Claimed(w, v) \in WorkRow
  BY <1>1, ClaimedRow
<1>3. work[v] \in WorkRow /\ ext[v] \in ExtractionRow
  BY DEF TypeOK
<1>4. CASE ClaimDueWork(w, v)
  <2>1. [pc |-> work[v].stage, v |-> v, cur |-> work[v].cursor,
         hi |-> work[v].cursor, cnt |-> ext[v].count] \in WorkerState
    BY <1>3, BoundAssumption DEF WorkerState, Position, WorkRow, ExtractionRow, Versions
  <2>2. QED
    BY <1>2, <1>4, <2>1 DEF ClaimDueWork, TypeOK, catalog
<1>5. CASE ClaimSuperseded(w, v)
  <2>1. [Claimed(w, v) EXCEPT !.status = "superseded", !.live = FALSE] \in WorkRow
    BY <1>2 DEF WorkRow, Terminal
  <2>2. [ext[v] EXCEPT !.status = IF ext[v].status = "pending" THEN "superseded"
                                  ELSE ext[v].status] \in ExtractionRow
    BY <1>3 DEF ExtractionRow
  <2>3. ext' \in [Versions -> ExtractionRow]
    BY <1>5, <2>2 DEF ClaimSuperseded, TypeOK
  <2>4. QED
    BY <1>5, <2>1, <2>3 DEF ClaimSuperseded, TypeOK, catalog
<1>6. QED
  BY <1>4, <1>5

\* Lease expiry and the retirement of exhausted work keep the types.
LEMMA LeaseType ==
    ASSUME TypeOK, NEW v \in Versions, LeaseExpires(v) \/ RetireExhaustedWork(v)
    PROVE  TypeOK'
<1>1. CASE LeaseExpires(v)
  <2>1. [work[v] EXCEPT !.live = FALSE] \in WorkRow
    BY DEF TypeOK, WorkRow
  <2>2. work' \in [Versions -> WorkRow]
    BY <1>1, <2>1 DEF LeaseExpires, TypeOK
  <2>3. QED
    BY <1>1, <2>2 DEF LeaseExpires, TypeOK, catalog
<1>2. CASE RetireExhaustedWork(v)
  <2>1. Dropped(v, "failed") \in WorkRow
    BY DroppedRow
  <2>2. QED
    BY <1>2, <2>1 DEF RetireExhaustedWork, TypeOK, catalog
<1>3. QED
  BY <1>1, <1>2

\* A worker that goes idle has a well-typed snapshot.
LEMMA LeaveType ==
    ASSUME TypeOK, NEW w \in Workers, Leave(w)
    PROVE  at' \in [Workers -> WorkerState]
BY BoundAssumption DEF Leave, Idle, TypeOK, WorkerState, Position

\* The version a busy worker works on.
LEMMA JobVersion ==
    ASSUME IInv, NEW w \in Workers, at[w].pc # "idle"
    PROVE  /\ at[w].v \in Versions /\ at[w].v \in 1..captured
           /\ at[w] \in WorkerState /\ work[at[w].v] \in WorkRow
           /\ ext[at[w].v] \in ExtractionRow /\ segs[at[w].v] \in SUBSET Segments
<1>1. at[w].v \in 1..captured /\ captured \in 0..MaxVersions
  BY DEF IInv, Snapshots, Busy, Fits, TypeOK
<1>2. at[w].v \in Versions
  BY <1>1, BoundAssumption DEF Versions
<1>3. QED
  BY <1>1, <1>2 DEF IInv, TypeOK

\* The turns of the transformation keep the types.
LEMMA TransformType ==
    ASSUME IInv, NEW w \in Workers,
           \/ SeedAppend(w)
           \/ \E n \in 0..MaxChunks, done \in BOOLEAN :
                 \E pre \in 0..n : SaveSegmentTurn(w, n, done, pre)
           \/ SaveDecodedSegment(w)
           \/ CompleteExtraction(w)
    PROVE  TypeOK'
<1> DEFINE v == at[w].v
<1>0. TypeOK
  BY DEF IInv
<1>1. at[w].pc = "transform"
  BY DEF SeedAppend, SaveSegmentTurn, SaveDecodedSegment, CompleteExtraction
<1>2. /\ v \in Versions /\ at[w] \in WorkerState /\ work[v] \in WorkRow
      /\ ext[v] \in ExtractionRow /\ segs[v] \in SUBSET Segments
  BY <1>1, JobVersion
<1>3. CASE SeedAppend(w)
  <2> DEFINE n == ext[v - 1].append
  <2>1. v - 1 \in Versions /\ n # NoAppend
    BY <1>2, <1>3, BoundAssumption DEF SeedAppend, AppendBase, Versions
  <2>2. n \in 0..MaxChunks /\ work[v - 1].turns \in 0..MaxTurns
    BY <1>0, <2>1 DEF TypeOK, ExtractionRow, WorkRow
  <2>3. [work[v] EXCEPT !.cursor = n, !.turns = work[v - 1].turns] \in WorkRow
    BY <1>2, <2>2 DEF WorkRow
  <2>4. [ext[v] EXCEPT !.count = n] \in ExtractionRow
    BY <1>2, <2>2 DEF ExtractionRow
  <2>5. [at[w] EXCEPT !.cur = n, !.hi = n, !.cnt = n] \in WorkerState
    BY <1>2, <2>2 DEF WorkerState
  <2>6. Reusable(v - 1) \in SUBSET Segments
    BY <1>0, <2>1 DEF TypeOK, Reusable
  <2>7. /\ work' \in [Versions -> WorkRow] /\ ext' \in [Versions -> ExtractionRow]
        /\ at' \in [Workers -> WorkerState] /\ segs' \in [Versions -> SUBSET Segments]
    BY <1>0, <1>2, <1>3, <2>3, <2>4, <2>5, <2>6 DEF SeedAppend, TypeOK
  <2>8. QED
    BY <1>0, <1>3, <2>7 DEF SeedAppend, TypeOK, catalog
<1>4. ASSUME NEW n \in 0..MaxChunks, NEW done \in BOOLEAN, NEW pre \in 0..n,
             SaveSegmentTurn(w, n, done, pre)
      PROVE  TypeOK'
  <2> DEFINE stage == IF done \/ ext[v].count + n > work[v].cursor
                      THEN "index" ELSE "transform"
             turns == IF work[v].turns < MaxTurns THEN work[v].turns + 1
                      ELSE work[v].turns
             append == IF done THEN ext[v].count + pre ELSE NoAppend
  <2>1. ext[v].count \in 0..MaxChunks /\ ext[v].count + n <= MaxChunks
    BY <1>2, <1>4 DEF SaveSegmentTurn, ExtractionRow
  <2>2. turns \in 0..MaxTurns
    BY <1>2, BoundAssumption DEF WorkRow
  <2>3. Released(v, stage, 0) \in WorkRow
    BY <1>0, <1>2, ReleasedRow, BoundAssumption
  <2>4. [Released(v, stage, 0) EXCEPT !.turns = turns] \in WorkRow
    <3> HIDE DEF stage, turns
    <3> QED BY <2>2, <2>3 DEF WorkRow
  <2>5. append \in 0..MaxChunks \cup {NoAppend}
    BY <2>1, BoundAssumption DEF NoAppend
  <2>6. [status |-> IF done THEN "complete" ELSE "pending",
         count |-> ext[v].count + n, append |-> append] \in ExtractionRow
    <3> HIDE DEF append
    <3> QED BY <2>1, <2>5, BoundAssumption DEF ExtractionRow
  <2>7. NewSegments(v, n) \in SUBSET Segments
    BY <1>2, <2>1, BoundAssumption DEF NewSegments, Segments, Ordinals
  <2>8. /\ work' \in [Versions -> WorkRow] /\ ext' \in [Versions -> ExtractionRow]
        /\ segs' \in [Versions -> SUBSET Segments]
    BY <1>0, <1>2, <1>4, <2>4, <2>6, <2>7 DEF SaveSegmentTurn, TypeOK
  <2>9. QED
    BY <1>0, <1>4, <2>8, LeaveType DEF SaveSegmentTurn, TypeOK, catalog
<1>5. CASE SaveDecodedSegment(w)
  <2>1. ext[v].count \in 0..MaxChunks /\ ext[v].count + 1 \in 0..MaxChunks
        /\ at[w].cnt = ext[v].count
    BY <1>2, <1>5, BoundAssumption DEF SaveDecodedSegment, ExtractionRow
  <2>2. [ext[v] EXCEPT !.count = ext[v].count + 1] \in ExtractionRow
    BY <1>2, <2>1 DEF ExtractionRow
  <2>3. [at[w] EXCEPT !.cnt = at[w].cnt + 1] \in WorkerState
    BY <1>2, <2>1 DEF WorkerState
  <2>4. NewSegments(v, 1) \in SUBSET Segments
    BY <1>2, <2>1, BoundAssumption DEF NewSegments, Segments, Ordinals
  <2>5. /\ ext' \in [Versions -> ExtractionRow] /\ at' \in [Workers -> WorkerState]
        /\ segs' \in [Versions -> SUBSET Segments]
    BY <1>0, <1>2, <1>5, <2>2, <2>3, <2>4 DEF SaveDecodedSegment, TypeOK
  <2>6. QED
    BY <1>0, <1>5, <2>5 DEF SaveDecodedSegment, TypeOK, catalog
<1>6. CASE CompleteExtraction(w)
  <2>1. Released(v, "index", 0) \in WorkRow
    BY <1>0, <1>2, ReleasedRow, BoundAssumption
  <2>2. [ext[v] EXCEPT !.status = "complete", !.count = at[w].cnt] \in ExtractionRow
    BY <1>2 DEF ExtractionRow, WorkerState
  <2>3. QED
    BY <1>0, <1>2, <1>6, <2>1, <2>2, LeaveType DEF CompleteExtraction, TypeOK, catalog
<1>7. QED
  BY <1>3, <1>4, <1>5, <1>6

\* The writes to the index and their checkpoints keep the types.
LEMMA WriteType ==
    ASSUME IInv, NEW w \in Workers,
           \/ \E hi \in 1..MaxChunks : SendUpsert(w, hi)
           \/ UpsertLands(w)
           \/ CheckpointIndex(w)
           \/ SendErase(w)
           \/ EraseLands(w)
    PROVE  TypeOK'
<1> DEFINE v == at[w].v
<1>0. TypeOK
  BY DEF IInv
<1>1. at[w].pc # "idle"
  BY DEF SendUpsert, UpsertLands, CheckpointIndex, SendErase, EraseLands
<1>2. /\ v \in Versions /\ at[w] \in WorkerState /\ work[v] \in WorkRow
      /\ at[w].cur \in 0..MaxChunks /\ at[w].hi \in 0..MaxChunks
  BY <1>1, JobVersion DEF WorkerState
<1>3. Batch(w) \in SUBSET Segments
  BY <1>2, BoundAssumption DEF Batch, Segments, Ordinals
<1>4. \A pc \in Position : [at[w] EXCEPT !.pc = pc] \in WorkerState
  BY <1>2 DEF WorkerState
<1>5. ASSUME NEW hi \in 1..MaxChunks, SendUpsert(w, hi)
      PROVE  TypeOK'
  <2>0. hi \in 0..MaxChunks /\ "sent" \in Position
    BY BoundAssumption DEF Position
  <2>1. [at[w] EXCEPT !.pc = "sent", !.hi = hi] \in WorkerState
    BY <1>2, <2>0 DEF WorkerState
  <2>2. at' \in [Workers -> WorkerState]
    BY <1>0, <1>5, <2>1 DEF SendUpsert, TypeOK
  <2>3. QED
    BY <1>0, <1>5, <2>2 DEF SendUpsert, TypeOK, catalog
<1>6. CASE UpsertLands(w)
  <2>1. [at[w] EXCEPT !.pc = "acked"] \in WorkerState
    BY <1>4 DEF Position
  <2>2. at' \in [Workers -> WorkerState]
    BY <1>0, <1>6, <2>1 DEF UpsertLands, TypeOK
  <2>3. QED
    BY <1>0, <1>3, <1>6, <2>2 DEF UpsertLands, TypeOK, catalog
<1>7. CASE CheckpointIndex(w)
  <2>1. [work[v] EXCEPT !.cursor = at[w].hi] \in WorkRow
    BY <1>2 DEF WorkRow
  <2>2. [at[w] EXCEPT !.pc = "wrote", !.cur = at[w].hi] \in WorkerState
    BY <1>2 DEF WorkerState, Position
  <2>3. work' \in [Versions -> WorkRow] /\ at' \in [Workers -> WorkerState]
    BY <1>0, <1>2, <1>7, <2>1, <2>2 DEF CheckpointIndex, TypeOK
  <2>4. QED
    BY <1>0, <1>3, <1>7, <2>3 DEF CheckpointIndex, TypeOK, catalog
<1>8. CASE SendErase(w)
  <2>1. [at[w] EXCEPT !.pc = "erasing"] \in WorkerState
    BY <1>4 DEF Position
  <2>2. at' \in [Workers -> WorkerState]
    BY <1>0, <1>8, <2>1 DEF SendErase, TypeOK
  <2>3. QED
    BY <1>0, <1>8, <2>2 DEF SendErase, TypeOK, catalog
<1>9. CASE EraseLands(w)
  <2>1. PICK gone \in SUBSET (rows \cap Erased(v)) :
            /\ rows' = rows \ gone
            /\ at' = [at EXCEPT ![w].pc =
                        IF gone = rows \cap Erased(v) THEN "publish" ELSE "erase"]
    BY <1>9 DEF EraseLands
  <2>2. /\ [at[w] EXCEPT !.pc = "publish"] \in WorkerState
        /\ [at[w] EXCEPT !.pc = "erase"] \in WorkerState
    BY <1>4 DEF Position
  <2>3. at' \in [Workers -> WorkerState]
    BY <1>0, <2>1, <2>2 DEF TypeOK
  <2>4. QED
    BY <1>0, <1>9, <2>1, <2>3 DEF EraseLands, TypeOK, catalog
<1>10. QED
  BY <1>5, <1>6, <1>7, <1>8, <1>9

\* The ends of an indexing turn keep the types.
LEMMA TurnType ==
    ASSUME IInv, NEW w \in Workers,
           \/ YieldIndex(w)
           \/ FinishLastTurn(w)
           \/ FinishIndexTurn(w)
           \/ PublishHead(w)
           \/ Return(w)
    PROVE  TypeOK'
<1> DEFINE v == at[w].v
<1>0. TypeOK
  BY DEF IInv
<1>1. at[w].pc # "idle"
  BY DEF YieldIndex, FinishLastTurn, FinishIndexTurn, TurnWritten, PublishHead, Return
<1>2. /\ v \in Versions /\ at[w] \in WorkerState /\ work[v] \in WorkRow
  BY <1>1, JobVersion
<1>3. \A pc \in Position : [at[w] EXCEPT !.pc = pc] \in WorkerState
  BY <1>2 DEF WorkerState
<1>4. CASE YieldIndex(w)
  <2> DEFINE n == IF work[v].attempts > 0 THEN work[v].attempts - 1 ELSE 0
  <2>1. n \in 0..MaxAttempts
    BY <1>2, BoundAssumption DEF WorkRow
  <2>2. Released(v, "index", n) \in WorkRow
    <3> HIDE DEF n
    <3> QED BY <1>0, <1>2, <2>1, ReleasedRow
  <2>3. QED
    BY <1>0, <1>2, <1>4, <2>2, LeaveType DEF YieldIndex, TypeOK, catalog
<1>5. CASE FinishLastTurn(w)
  <2>1. [at[w] EXCEPT !.pc = "publish"] \in WorkerState
    BY <1>3 DEF Position
  <2>2. at' \in [Workers -> WorkerState]
    BY <1>0, <1>5, <2>1 DEF FinishLastTurn, TypeOK
  <2>3. QED
    BY <1>0, <1>5, <2>2 DEF FinishLastTurn, TypeOK, catalog
<1>6. CASE FinishIndexTurn(w)
  <2> DEFINE stage == IF work[v].cursor = ext[v].count THEN "transform" ELSE "index"
  <2>1. Released(v, stage, 0) \in WorkRow
    BY <1>0, <1>2, ReleasedRow, BoundAssumption
  <2>2. QED
    BY <1>0, <1>2, <1>6, <2>1, LeaveType DEF FinishIndexTurn, TypeOK, catalog
<1>7. CASE PublishHead(w)
  <2>1. [at[w] EXCEPT !.pc = "done"] \in WorkerState
    BY <1>3 DEF Position
  <2>2. at' \in [Workers -> WorkerState]
    BY <1>0, <1>7, <2>1 DEF PublishHead, TypeOK
  <2>3. Finished(v, "superseded") \in WorkRow /\ Finished(v, "complete") \in WorkRow
    BY <1>0, <1>2, FinishedRow
  <2>4. work' \in [Versions -> WorkRow]
    BY <1>0, <1>2, <1>7, <2>3 DEF PublishHead, TypeOK
  <2>5. indexed' \in 0..MaxVersions
    BY <1>0, <1>2, <1>7 DEF PublishHead, TypeOK, Versions
  <2>6. QED
    BY <1>0, <1>7, <2>2, <2>4, <2>5 DEF PublishHead, TypeOK
<1>8. CASE Return(w)
  BY <1>0, <1>8, LeaveType DEF Return, TypeOK, catalog
<1>9. QED
  BY <1>4, <1>5, <1>6, <1>7, <1>8

\* Failed and crashed attempts keep the types.
LEMMA FailureType ==
    ASSUME IInv, NEW w \in Workers, FailAttempt(w) \/ Crash(w)
    PROVE  TypeOK'
<1> DEFINE v == at[w].v
<1>0. TypeOK
  BY DEF IInv
<1>1. at[w].pc # "idle" /\ Leave(w) /\ Orphan(w)
  BY DEF FailAttempt, Crash
<1>2. /\ v \in Versions /\ at[w] \in WorkerState
      /\ at[w].cur \in 0..MaxChunks /\ at[w].hi \in 0..MaxChunks
  BY <1>1, JobVersion DEF WorkerState
<1>3. Batch(w) \in SUBSET Segments /\ Erased(v) \in SUBSET Segments
  BY <1>2, BoundAssumption DEF Batch, Erased, Segments, Ordinals
<1>4. InFlight(w) \subseteq Request
  BY <1>3 DEF InFlight, Put, Del, Request
<1>5. late' \in SUBSET Request
  BY <1>0, <1>1, <1>4 DEF Orphan, TypeOK
<1>6. at' \in [Workers -> WorkerState]
  BY <1>0, <1>1, LeaveType
<1>7. CASE FailAttempt(w)
  <2>1. Dropped(v, "failed") \in WorkRow /\ Dropped(v, "pending") \in WorkRow
    BY <1>0, <1>2, DroppedRow
  <2>2. work' \in [Versions -> WorkRow]
    BY <1>0, <1>2, <1>7, <2>1 DEF FailAttempt, TypeOK
  <2>3. QED
    BY <1>0, <1>5, <1>6, <1>7, <2>2 DEF FailAttempt, TypeOK, catalog
<1>8. CASE Crash(w)
  BY <1>0, <1>5, <1>6, <1>8 DEF Crash, TypeOK, catalog
<1>9. QED
  BY <1>7, <1>8

\* Late requests and segment cleanup keep the types.
LEMMA CleanupType ==
    ASSUME TypeOK,
           \/ \E r \in late : LateLands(r)
           \/ \E s \in Segments : RetireSegment(s) \/ SweepSegment(s)
    PROVE  TypeOK'
<1>1. ASSUME NEW r \in late, LateLands(r)
      PROVE  TypeOK'
  <2>1. r.segs \in SUBSET Segments
    BY <1>1 DEF TypeOK, Request
  <2>2. rows' \in SUBSET Segments /\ late' \in SUBSET Request
    BY <1>1, <2>1 DEF LateLands, TypeOK
  <2>3. QED
    BY <1>1, <2>2 DEF LateLands, TypeOK, catalog
<1>2. ASSUME NEW s \in Segments, RetireSegment(s)
      PROVE  TypeOK'
  BY <1>2 DEF RetireSegment, TypeOK, catalog
<1>3. ASSUME NEW s \in Segments, SweepSegment(s)
      PROVE  TypeOK'
  <2>1. Del({s}) \in Request
    BY DEF Del, Request
  <2>2. QED
    BY <1>3, <2>1 DEF SweepSegment, TypeOK, catalog
<1>4. QED
  BY <1>1, <1>2, <1>3

\* Every step keeps the types.
LEMMA TypeStep == IInv /\ [Next]_vars => TypeOK'
<1> SUFFICES ASSUME IInv, [Next]_vars PROVE TypeOK'
  OBVIOUS
<1>0. TypeOK
  BY DEF IInv
<1>1. CASE UNCHANGED vars
  BY <1>0, <1>1 DEF TypeOK, vars
<1>2. ASSUME NEW w \in Workers, Worker(w)
      PROVE  TypeOK'
  BY <1>0, <1>2, ClaimType, TransformType, WriteType, TurnType, FailureType DEF Worker
<1>3. QED
  BY <1>0, <1>1, <1>2, CatalogType, LeaseType, CleanupType DEF Next

----------------------------------------------------------------------------
(* Steps by what they do to the rows: registrations, the five steps of an  *)
(* attempt that make an extraction or advance its cursor, and the others.  *)

Making(w) ==
    \/ SeedAppend(w)
    \/ \E n \in 0..MaxChunks, done \in BOOLEAN :
          \E pre \in 0..n : SaveSegmentTurn(w, n, done, pre)
    \/ SaveDecodedSegment(w)
    \/ CompleteExtraction(w)
    \/ CheckpointIndex(w)
Handing(w) ==
    \/ \E v \in Versions : ClaimDueWork(w, v) \/ ClaimSuperseded(w, v)
    \/ YieldIndex(w)
    \/ FinishIndexTurn(w)
    \/ PublishHead(w)
    \/ FailAttempt(w)
Alone(w) ==
    \/ \E hi \in 1..MaxChunks : SendUpsert(w, hi)
    \/ UpsertLands(w)
    \/ FinishLastTurn(w)
    \/ SendErase(w)
    \/ EraseLands(w)
    \/ Return(w)
    \/ Crash(w)
Outside ==
    \/ PrepareRootDeletion
    \/ \E v \in Versions : LeaseExpires(v) \/ RetireExhaustedWork(v)
    \/ \E r \in late : LateLands(r)
    \/ \E s \in Segments : RetireSegment(s) \/ SweepSegment(s)

\* Every step is of one of these kinds.
LEMMA StepKinds ==
    ASSUME Next
    PROVE  \/ \E del \in BOOLEAN : RegisterFileVersions(del)
           \/ \E w \in Workers : Making(w) \/ Handing(w) \/ Alone(w)
           \/ Outside
BY Zenon DEF Next, Worker, Making, Handing, Alone, Outside

Open == {"pending", "running"}

\* What steps other than registrations and the making of extractions leave.
Quiet ==
    /\ UNCHANGED <<captured, tomb, segs>>
    /\ \A v \in Versions :
        /\ work'[v].cursor = work[v].cursor
        /\ ext'[v].count = ext[v].count /\ ext'[v].append = ext[v].append
        /\ ext[v].status = "complete" => ext'[v].status = "complete"
        /\ tomb[v] => work'[v].stage = work[v].stage
        /\ work[v].status \notin Open => work'[v] = work[v] /\ ext'[v] = ext[v]
        /\ work[v].status \in Open => work'[v].status # "none"

\* It is enough to look at the one row a step writes.
LEMMA QuietRow ==
    ASSUME TypeOK, NEW v \in Versions, NEW r,
           work' = [work EXCEPT ![v] = r], UNCHANGED <<captured, tomb, segs>>,
           work[v].status \in Open, r.status # "none", r.cursor = work[v].cursor,
           tomb[v] => r.stage = work[v].stage,
           \A u \in Versions \ {v} : ext'[u] = ext[u],
           ext'[v].count = ext[v].count, ext'[v].append = ext[v].append,
           ext[v].status = "complete" => ext'[v].status = "complete"
    PROVE  Quiet
<1>1. work'[v] = r /\ \A u \in Versions \ {v} : work'[u] = work[u]
  BY DEF TypeOK
<1>2. ASSUME NEW u \in Versions \ {v}
      PROVE  work[u].status \in Open => work[u].status # "none"
  BY DEF Open
<1>3. QED
  BY <1>1, <1>2 DEF Quiet

\* Claims, returns, outcomes and failures are quiet.
LEMMA HandingIsQuiet ==
    ASSUME IInv, NEW w \in Workers, Handing(w)
    PROVE  Quiet
<1>0. TypeOK
  BY DEF IInv
<1>1. ASSUME NEW v \in Versions, ClaimDueWork(w, v)
      PROVE  Quiet
  <2>1. work[v].attempts < MaxAttempts /\ work[v].status \in Open
    BY <1>1 DEF ClaimDueWork, Due, Open
  <2>2. /\ Claimed(w, v).stage = work[v].stage
        /\ Claimed(w, v).status = "running"
        /\ Claimed(w, v).cursor = work[v].cursor
    BY <1>0, <2>1, ClaimedRow
  <2>3. QED
    BY <1>0, <1>1, <2>1, <2>2, QuietRow DEF ClaimDueWork, catalog
<1>2. ASSUME NEW v \in Versions, ClaimSuperseded(w, v)
      PROVE  Quiet
  <2> DEFINE r == [Claimed(w, v) EXCEPT !.status = "superseded", !.live = FALSE]
             e == [ext[v] EXCEPT !.status = IF ext[v].status = "pending"
                                  THEN "superseded" ELSE ext[v].status]
  <2>1. work[v].attempts < MaxAttempts /\ work[v].status \in Open
    BY <1>2 DEF ClaimSuperseded, Due, Open
  <2>2. /\ Claimed(w, v) \in WorkRow
        /\ Claimed(w, v).stage = work[v].stage
        /\ Claimed(w, v).cursor = work[v].cursor
    BY <1>0, <2>1, ClaimedRow
  <2>3. r.stage = work[v].stage /\ r.status = "superseded" /\ r.cursor = work[v].cursor
    BY <2>2 DEF WorkRow
  <2>4. /\ e.count = ext[v].count /\ e.append = ext[v].append
        /\ ext[v].status = "complete" => e.status = "complete"
    BY <1>0 DEF TypeOK, ExtractionRow
  <2>5. work' = [work EXCEPT ![v] = r] /\ ext' = [ext EXCEPT ![v] = e]
    BY <1>0, <1>2 DEF ClaimSuperseded, TypeOK
  <2> HIDE DEF r, e
  <2>6. ext'[v] = e /\ \A u \in Versions \ {v} : ext'[u] = ext[u]
    BY <1>0, <2>5 DEF TypeOK
  <2>7. UNCHANGED <<captured, tomb, segs>>
    BY <1>2 DEF ClaimSuperseded, catalog
  <2>8. QED
    BY <1>0, <2>1, <2>3, <2>4, <2>5, <2>6, <2>7, QuietRow
<1> DEFINE v == at[w].v
<1>3. CASE YieldIndex(w)
  <2> DEFINE n == IF work[v].attempts > 0 THEN work[v].attempts - 1 ELSE 0
  <2>1. v \in Versions /\ work[v] \in WorkRow
    BY <1>3, JobVersion DEF YieldIndex
  <2>2. n \in 0..MaxAttempts
    BY <2>1, BoundAssumption DEF WorkRow
  <2>3. work[v].status \in Open /\ work[v].stage = "index"
        /\ work' = [work EXCEPT ![v] = Released(v, "index", n)]
    BY <1>3 DEF YieldIndex, Owned, Open
  <2> HIDE DEF n
  <2>4. /\ Released(v, "index", n).stage = "index"
        /\ Released(v, "index", n).status = "pending"
        /\ Released(v, "index", n).cursor = work[v].cursor
    BY <1>0, <2>1, <2>2, ReleasedRow
  <2>5. QED
    BY <1>0, <1>3, <2>1, <2>3, <2>4, QuietRow DEF YieldIndex, catalog
<1>4. CASE FinishIndexTurn(w)
  <2> DEFINE stage == IF work[v].cursor = ext[v].count THEN "transform" ELSE "index"
  <2>1. at[w].pc # "idle"
    BY <1>4 DEF FinishIndexTurn, TurnWritten
  <2>2. v \in Versions /\ 0 \in 0..MaxAttempts
    BY <2>1, JobVersion, BoundAssumption
  <2>3. ~tomb[v]
    BY <1>4, <2>1 DEF FinishIndexTurn, TurnWritten, IInv, Snapshots, Fits, Busy
  <2>4. work[v].status \in Open /\ work' = [work EXCEPT ![v] = Released(v, stage, 0)]
    BY <1>4 DEF FinishIndexTurn, Owned, Open
  <2>5. /\ Released(v, stage, 0).status = "pending"
        /\ Released(v, stage, 0).cursor = work[v].cursor
    BY <1>0, <2>2, ReleasedRow
  <2> HIDE DEF stage
  <2>6. QED
    BY <1>0, <1>4, <2>2, <2>3, <2>4, <2>5, QuietRow DEF FinishIndexTurn, catalog
<1>5. CASE PublishHead(w)
  <2>1. v \in Versions /\ work[v].status \in Open
    BY <1>5, JobVersion DEF PublishHead, Owned, Open
  <2>2. PICK status \in {"complete", "superseded"} :
            work' = [work EXCEPT ![v] = Finished(v, status)]
    BY <1>5 DEF PublishHead
  <2>3. /\ Finished(v, status).stage = work[v].stage
        /\ Finished(v, status).status = status
        /\ Finished(v, status).cursor = work[v].cursor
    BY <1>0, <2>1, FinishedRow
  <2>4. QED
    BY <1>0, <1>5, <2>1, <2>2, <2>3, QuietRow DEF PublishHead
<1>6. CASE FailAttempt(w)
  <2>1. v \in Versions
    BY <1>6, JobVersion DEF FailAttempt
  <2>2. CASE ~FailFence(w)
    BY <1>0, <1>6, <2>2 DEF FailAttempt, Quiet, catalog, TypeOK, WorkRow, Open
  <2>3. CASE FailFence(w)
    <3>1. PICK status \in {"pending", "failed"} :
              work' = [work EXCEPT ![v] = Dropped(v, status)]
      BY <1>6, <2>3 DEF FailAttempt
    <3>2. /\ Dropped(v, status).stage = work[v].stage
          /\ Dropped(v, status).status = status
          /\ Dropped(v, status).cursor = work[v].cursor
      BY <1>0, <2>1, DroppedRow
    <3>3. work[v].status \in Open
      BY <2>3 DEF FailFence, Open
    <3>4. QED
      BY <1>0, <1>6, <2>1, <3>1, <3>2, <3>3, QuietRow DEF FailAttempt, catalog
  <2>4. QED
    BY <2>2, <2>3
<1>7. QED
  BY <1>1, <1>2, <1>3, <1>4, <1>5, <1>6 DEF Handing

\* So are the steps that write no row of an extraction.
LEMMA OtherStepsAreQuiet ==
    ASSUME IInv, Outside \/ (\E w \in Workers : Alone(w))
    PROVE  Quiet
<1>0. TypeOK
  BY DEF IInv
<1>1. ASSUME UNCHANGED <<captured, tomb, segs, work, ext>>
      PROVE  Quiet
  BY <1>0, <1>1 DEF Quiet, TypeOK, WorkRow, Open
<1>2. ASSUME NEW w \in Workers, Alone(w)
      PROVE  UNCHANGED <<captured, tomb, segs, work, ext>>
  BY <1>2 DEF Alone, SendUpsert, UpsertLands, FinishLastTurn, SendErase, EraseLands,
              Return, Crash, catalog
<1>3. CASE \/ PrepareRootDeletion
           \/ \E r \in late : LateLands(r)
           \/ \E s \in Segments : RetireSegment(s) \/ SweepSegment(s)
  <2>1. UNCHANGED <<captured, tomb, segs, work, ext>>
    BY <1>3 DEF PrepareRootDeletion, LateLands, RetireSegment, SweepSegment, catalog
  <2>2. QED
    BY <1>1, <2>1
<1>4. ASSUME NEW v \in Versions, LeaseExpires(v)
      PROVE  Quiet
  <2> DEFINE r == [work[v] EXCEPT !.live = FALSE]
  <2>1. /\ r.stage = work[v].stage /\ r.status = work[v].status
        /\ r.cursor = work[v].cursor
    BY <1>0 DEF TypeOK, WorkRow
  <2>2. work' = [work EXCEPT ![v] = r] /\ work[v].status = "running"
    BY <1>0, <1>4 DEF LeaseExpires, TypeOK
  <2> HIDE DEF r
  <2>3. QED
    BY <1>0, <1>4, <2>1, <2>2 DEF LeaseExpires, Quiet, catalog, TypeOK, Open
<1>5. ASSUME NEW v \in Versions, RetireExhaustedWork(v)
      PROVE  Quiet
  <2>1. /\ Dropped(v, "failed").stage = work[v].stage
        /\ Dropped(v, "failed").status = "failed"
        /\ Dropped(v, "failed").cursor = work[v].cursor
    BY <1>0, DroppedRow
  <2>2. QED
    BY <1>0, <1>5, <2>1 DEF RetireExhaustedWork, Quiet, catalog, TypeOK, Open
<1>6. QED
  BY <1>1, <1>2, <1>3, <1>4, <1>5 DEF Outside

\* Which pairs are segments of version v with an ordinal in a..b.
LEMMA PairFacts ==
    ASSUME NEW v \in Versions, NEW a \in Nat, NEW b \in Int
    PROVE  /\ \A s \in {v} \X (a..b) : Owner(s) = v /\ Ordinal(s) \in a..b
           /\ \A o \in a..b : \E s \in {v} \X (a..b) : Ordinal(s) = o
           /\ \A s \in Segments : Owner(s) = v /\ Ordinal(s) \in a..b
                                  => s \in {v} \X (a..b)
<1>1. ASSUME NEW s \in {v} \X (a..b)
      PROVE  Owner(s) = v /\ Ordinal(s) \in a..b
  BY DEF Owner, Ordinal
<1>2. ASSUME NEW o \in a..b
      PROVE  \E s \in {v} \X (a..b) : Ordinal(s) = o
  <2>1. <<v, o>> \in {v} \X (a..b) /\ Ordinal(<<v, o>>) = o
    BY DEF Ordinal
  <2>2. QED
    BY <2>1
<1>3. ASSUME NEW s \in Segments, Owner(s) = v, Ordinal(s) \in a..b
      PROVE  s \in {v} \X (a..b)
  <2>1. s = <<Owner(s), Ordinal(s)>>
    BY DEF Owner, Ordinal, Segments
  <2>2. QED
    BY <1>3, <2>1
<1>4. QED
  BY <1>1, <1>2, <1>3

\* The types of a segment's owner and ordinal.
LEMMA SegmentFacts ==
    ASSUME NEW s \in Segments
    PROVE  Owner(s) \in Versions /\ Ordinal(s) \in Nat
BY BoundAssumption DEF Segments, Ordinals, Owner, Ordinal

\* Extending an extraction by new segments keeps its shape.
LEMMA ExtendMade ==
    ASSUME IInv, NEW v \in Versions, NEW n \in Nat, Made(v), ~tomb[v], tomb' = tomb,
           segs'[v] = segs[v] \cup NewSegments(v, n),
           ext'[v].count = ext[v].count + n,
           ext'[v].append <= ext'[v].count, work'[v].cursor = work[v].cursor
    PROVE  Made(v)'
<1>1. /\ ext[v].count \in Nat /\ work[v].cursor \in Nat
      /\ segs[v] \subseteq Segments /\ v \in Nat
  BY BoundAssumption DEF IInv, TypeOK, ExtractionRow, WorkRow, Versions
<1>2. /\ \A s \in NewSegments(v, n) :
              Owner(s) = v /\ Ordinal(s) \in ext[v].count..(ext[v].count + n - 1)
      /\ \A o \in ext[v].count..(ext[v].count + n - 1) :
              \E s \in NewSegments(v, n) : Ordinal(s) = o
  <2> DEFINE a == ext[v].count
             b == ext[v].count + n - 1
  <2>1. a \in Nat /\ b \in Int
    BY <1>1
  <2>2. NewSegments(v, n) = {v} \X (a..b)
    BY DEF NewSegments
  <2> HIDE DEF a, b
  <2>3. /\ \A s \in {v} \X (a..b) : Owner(s) = v /\ Ordinal(s) \in a..b
        /\ \A o \in a..b : \E s \in {v} \X (a..b) : Ordinal(s) = o
    BY <2>1, PairFacts
  <2>4. QED
    BY <2>2, <2>3 DEF a, b
<1>3. work'[v].cursor <= ext'[v].count /\ ext'[v].append <= ext'[v].count
  BY <1>1 DEF Made
<1>4. ASSUME NEW o \in 0..(ext'[v].count - 1)
      PROVE  \E s \in segs'[v] : Ordinal(s) = o
  <2>1. CASE o < ext[v].count
    BY <1>1, <2>1 DEF Made
  <2>2. CASE o >= ext[v].count
    BY <1>1, <1>2, <2>2
  <2>3. QED
    BY <1>1, <2>1, <2>2
<1>5. ASSUME NEW s \in segs'[v]
      PROVE  /\ Ordinal(s) < ext'[v].count
             /\ Owner(s) <= v
             /\ Owner(s) # v => Ordinal(s) < work'[v].cursor
             /\ \A t \in Owner(s)..v : ~tomb'[t]
  <2>1. CASE s \in segs[v]
    <3>1. Ordinal(s) \in Nat
      BY <1>1, <2>1, SegmentFacts
    <3>2. QED
      BY <1>1, <2>1, <3>1 DEF Made
  <2>2. CASE s \in NewSegments(v, n)
    BY <1>1, <1>2, <2>2
  <2>3. QED
    BY <2>1, <2>2
<1>6. QED
  BY <1>3, <1>4, <1>5 DEF Made

\* What the making of an extraction does.
Extends(w) == \E v \in Versions :
    /\ v = at[w].v /\ at[w].pc \in {"transform", "acked"} /\ Owned(w) /\ ~tomb[v]
    /\ UNCHANGED <<catalog, retired, rows, late>>
    /\ \A u \in Versions \ {v} :
          work'[u] = work[u] /\ ext'[u] = ext[u] /\ segs'[u] = segs[u]
    /\ work'[v].status \in Open
    /\ segs[v] \subseteq segs'[v]
    /\ (segs'[v] \ segs[v]) \cap retired = {}
    /\ Made(v)'

\* Each of the five steps that make an extraction extends it.
LEMMA MakingExtends ==
    ASSUME IInv, NEW w \in Workers, Making(w)
    PROVE  Extends(w)
<1>0. TypeOK
  BY DEF IInv
<1>1. at[w].pc \in {"transform", "acked"} /\ Owned(w)
  BY DEF Making, SeedAppend, SaveSegmentTurn, SaveDecodedSegment, CompleteExtraction,
         CheckpointIndex
<1>2. PICK v \in Versions :
        /\ v = at[w].v /\ v \in 1..captured /\ at[w] \in WorkerState
        /\ work[v] \in WorkRow /\ ext[v] \in ExtractionRow
        /\ segs[v] \in SUBSET Segments
  BY <1>1, JobVersion
<1>3. ~tomb[v] /\ Fits(at[w]) /\ Made(v)
  BY <1>1, <1>2 DEF IInv, Snapshots, Fits, Busy, ExtractionShape
<1>4. work[v].status = "running" /\ Matches(at[w])
  BY <1>1, <1>2 DEF Owned, IInv, OwnersAreCurrent, Busy, Holds
<1>5. CASE SeedAppend(w)
  <2> DEFINE n == ext[v - 1].append
             r == [work[v] EXCEPT !.cursor = n, !.turns = work[v - 1].turns]
             e == [ext[v] EXCEPT !.count = n]
  <2>1. /\ v - 1 \in Versions /\ n # NoAppend /\ ~tomb[v - 1] /\ indexed = v - 1
        /\ {Ordinal(s) : s \in Reusable(v - 1)} = 0..(n - 1) /\ ext[v].count = 0
    BY <1>2, <1>5, BoundAssumption DEF SeedAppend, AppendBase, Versions
  <2>2. n \in 0..MaxChunks /\ segs[v - 1] \subseteq Segments /\ v \in Nat
    BY <1>0, <1>2, <2>1, BoundAssumption DEF TypeOK, ExtractionRow, Versions
  <2>3. r.status = "running" /\ r.cursor = n /\ e.count = n /\ e.append = ext[v].append
    BY <1>2, <1>4 DEF WorkRow, ExtractionRow
  <2>4. /\ work' = [work EXCEPT ![v] = r] /\ ext' = [ext EXCEPT ![v] = e]
        /\ segs' = [segs EXCEPT ![v] = Reusable(v - 1)]
    BY <1>0, <1>2, <1>5 DEF SeedAppend, TypeOK
  <2>5. ext[v].append <= n
    BY <1>2, <1>3, <2>1, <2>2 DEF Made, ExtractionRow, NoAppend
  <2> HIDE DEF r, e
  <2>6. work'[v] = r /\ ext'[v] = e /\ segs'[v] = Reusable(v - 1)
    BY <1>0, <1>2, <2>4 DEF TypeOK
  <2>7. \A u \in Versions \ {v} :
            work'[u] = work[u] /\ ext'[u] = ext[u] /\ segs'[u] = segs[u]
    BY <1>0, <1>2, <2>4 DEF TypeOK
  <2>8. UNCHANGED <<catalog, retired, rows, late>>
    BY <1>5 DEF SeedAppend
  <2>9. segs[v] = {}
    <3>1. ASSUME NEW s \in segs[v] PROVE FALSE
      <4>1. Ordinal(s) \in Nat /\ Ordinal(s) < 0
        BY <1>2, <1>3, <2>1, SegmentFacts DEF Made
      <4>2. QED
        BY <4>1
    <3>2. QED
      BY <3>1
  <2>10. ASSUME NEW s \in Reusable(v - 1)
         PROVE  /\ Ordinal(s) < n /\ Owner(s) <= v
                /\ \A t \in Owner(s)..v : ~tomb[t]
    <3>1. s \in segs[v - 1] /\ Ordinal(s) < n
      BY DEF Reusable
    <3>2. Owner(s) <= v - 1 /\ \A t \in Owner(s)..(v - 1) : ~tomb[t]
      BY <2>1, <3>1 DEF IInv, ExtractionShape, Made
    <3>3. Owner(s) \in Nat
      BY <2>2, <3>1, SegmentFacts DEF Versions
    <3>4. QED
      BY <1>3, <2>2, <3>1, <3>2, <3>3
  <2>11. \A o \in 0..(n - 1) : \E s \in Reusable(v - 1) : Ordinal(s) = o
    BY <2>1
  <2>12. tomb' = tomb
    BY <2>8 DEF catalog
  <2>13. Made(v)'
    BY <2>2, <2>3, <2>5, <2>6, <2>10, <2>11, <2>12 DEF Made
  <2>14. Reusable(v - 1) \cap retired = {}
    BY DEF Reusable
  <2>15. QED
    BY <1>1, <1>2, <1>3, <2>3, <2>6, <2>7, <2>8, <2>9, <2>13, <2>14 DEF Extends, Open
<1>6. ASSUME NEW n \in 0..MaxChunks, NEW done \in BOOLEAN, NEW pre \in 0..n,
             SaveSegmentTurn(w, n, done, pre)
      PROVE  Extends(w)
  <2> DEFINE stage == IF done \/ ext[v].count + n > work[v].cursor
                      THEN "index" ELSE "transform"
             turns == IF work[v].turns < MaxTurns THEN work[v].turns + 1
                      ELSE work[v].turns
             r == [Released(v, stage, 0) EXCEPT !.turns = turns]
             e == [status |-> IF done THEN "complete" ELSE "pending",
                   count |-> ext[v].count + n,
                   append |-> IF done THEN ext[v].count + pre ELSE NoAppend]
  <2>1. /\ Released(v, stage, 0) \in WorkRow /\ Released(v, stage, 0).status = "pending"
        /\ Released(v, stage, 0).cursor = work[v].cursor
    BY <1>0, <1>2, ReleasedRow, BoundAssumption
  <2>2. r.status = "pending" /\ r.cursor = work[v].cursor
    <3> HIDE DEF stage, turns
    <3> QED BY <2>1 DEF WorkRow
  <2>3. e.count = ext[v].count + n /\ e.append <= e.count /\ n \in Nat
    BY <1>2, BoundAssumption DEF ExtractionRow, NoAppend
  <2>4. /\ work' = [work EXCEPT ![v] = r] /\ ext' = [ext EXCEPT ![v] = e]
        /\ segs' = [segs EXCEPT ![v] = segs[v] \cup NewSegments(v, n)]
        /\ NewSegments(v, n) \cap retired = {}
        /\ UNCHANGED <<catalog, retired, rows, late>>
    BY <1>0, <1>2, <1>6 DEF SaveSegmentTurn, TypeOK
  <2> HIDE DEF r, e
  <2>5. work'[v] = r /\ ext'[v] = e /\ segs'[v] = segs[v] \cup NewSegments(v, n)
    BY <1>0, <1>2, <2>4 DEF TypeOK
  <2>6. \A u \in Versions \ {v} :
            work'[u] = work[u] /\ ext'[u] = ext[u] /\ segs'[u] = segs[u]
    BY <1>0, <1>2, <2>4 DEF TypeOK
  <2>7. tomb' = tomb
    BY <2>4 DEF catalog
  <2>8. Made(v)'
    BY <1>2, <1>3, <2>2, <2>3, <2>5, <2>7, ExtendMade
  <2>9. QED
    BY <1>1, <1>2, <1>3, <2>2, <2>4, <2>5, <2>6, <2>8 DEF Extends, Open
<1>7. CASE SaveDecodedSegment(w)
  <2> DEFINE e == [ext[v] EXCEPT !.count = ext[v].count + 1]
  <2>1. e.count = ext[v].count + 1 /\ e.append = ext[v].append
    BY <1>2 DEF ExtractionRow
  <2>2. ext[v].append <= ext[v].count + 1 /\ ext[v].count \in Nat
    BY <1>2, <1>3 DEF Made, ExtractionRow, NoAppend
  <2>3. /\ work' = work /\ ext' = [ext EXCEPT ![v] = e]
        /\ segs' = [segs EXCEPT ![v] = segs[v] \cup NewSegments(v, 1)]
        /\ NewSegments(v, 1) \cap retired = {}
        /\ UNCHANGED <<catalog, retired, rows, late>>
    BY <1>0, <1>2, <1>7 DEF SaveDecodedSegment, TypeOK
  <2> HIDE DEF e
  <2>4. ext'[v] = e /\ segs'[v] = segs[v] \cup NewSegments(v, 1)
    BY <1>0, <1>2, <2>3 DEF TypeOK
  <2>5. \A u \in Versions \ {v} :
            work'[u] = work[u] /\ ext'[u] = ext[u] /\ segs'[u] = segs[u]
    BY <1>0, <1>2, <2>3 DEF TypeOK
  <2>6. tomb' = tomb
    BY <2>3 DEF catalog
  <2>7. Made(v)'
    BY <1>2, <1>3, <2>1, <2>2, <2>3, <2>4, <2>6, ExtendMade
  <2>8. QED
    BY <1>1, <1>2, <1>3, <1>4, <2>3, <2>4, <2>5, <2>7 DEF Extends, Open
<1>8. CASE CompleteExtraction(w)
  <2> DEFINE e == [ext[v] EXCEPT !.status = "complete", !.count = at[w].cnt]
  <2>1. e.count = ext[v].count /\ e.append = ext[v].append
    BY <1>2, <1>4, <1>8 DEF CompleteExtraction, Matches, ExtractionRow
  <2>2. /\ Released(v, "index", 0).status = "pending"
        /\ Released(v, "index", 0).cursor = work[v].cursor
    BY <1>0, <1>2, ReleasedRow, BoundAssumption
  <2>3. /\ work' = [work EXCEPT ![v] = Released(v, "index", 0)]
        /\ ext' = [ext EXCEPT ![v] = e]
        /\ segs' = segs /\ UNCHANGED <<catalog, retired, rows, late>>
    BY <1>0, <1>2, <1>8 DEF CompleteExtraction, TypeOK
  <2> HIDE DEF e
  <2>4. work'[v] = Released(v, "index", 0) /\ ext'[v] = e
    BY <1>0, <1>2, <2>3 DEF TypeOK
  <2>5. \A u \in Versions \ {v} :
            work'[u] = work[u] /\ ext'[u] = ext[u] /\ segs'[u] = segs[u]
    BY <1>0, <1>2, <2>3 DEF TypeOK
  <2>6. Made(v)'
    BY <1>3, <2>1, <2>2, <2>3, <2>4 DEF Made, catalog
  <2>7. QED
    BY <1>1, <1>2, <1>3, <2>2, <2>3, <2>4, <2>5, <2>6 DEF Extends, Open
<1>9. CASE CheckpointIndex(w)
  <2> DEFINE r == [work[v] EXCEPT !.cursor = at[w].hi]
  <2>1. r.cursor = at[w].hi /\ r.status = "running"
    BY <1>2, <1>4 DEF WorkRow
  <2>2. /\ at[w].hi <= ext[v].count /\ work[v].cursor <= at[w].hi
        /\ at[w].hi \in Nat /\ work[v].cursor \in Nat
    BY <1>2, <1>3, <1>9 DEF CheckpointIndex, Fits, WorkerState, WorkRow
  <2>3. /\ work' = [work EXCEPT ![v] = r] /\ ext' = ext
        /\ segs' = segs /\ UNCHANGED <<catalog, retired, rows, late>>
    BY <1>0, <1>2, <1>9 DEF CheckpointIndex, TypeOK
  <2> HIDE DEF r
  <2>4. work'[v] = r /\ \A u \in Versions \ {v} : work'[u] = work[u]
    BY <1>0, <1>2, <2>3 DEF TypeOK
  <2>5. \A s \in segs[v] : Ordinal(s) \in Nat
    BY <1>2, SegmentFacts
  <2>6. Made(v)'
    BY <1>3, <2>1, <2>2, <2>3, <2>4, <2>5 DEF Made, catalog
  <2>7. QED
    BY <1>1, <1>2, <1>3, <2>1, <2>3, <2>4, <2>6 DEF Extends, Open
<1>10. QED
  BY <1>5, <1>6, <1>7, <1>8, <1>9 DEF Making

\* What a registration does.
Registers == \E v \in Versions, del \in BOOLEAN :
    /\ v = captured + 1 /\ captured' = v
    /\ tomb'[v] = del /\ \A u \in Versions \ {v} : tomb'[u] = tomb[u]
    /\ work'[v] = NewWork(IF del THEN "index" ELSE "transform", "pending")
    /\ ext'[v] = NewExtraction(IF del THEN "complete" ELSE "pending")
    /\ \A u \in Versions \ {v} : work'[u] = work[u] /\ ext'[u] = ext[u]
    /\ UNCHANGED <<indexed, deleting, segs, stamped, retired, rows, late, at>>

\* The registration does what Registers says.
LEMMA RegisterRegisters ==
    ASSUME TypeOK, NEW del \in BOOLEAN, RegisterFileVersions(del)
    PROVE  Registers
<1>1. PICK v \in Versions : v = captured + 1
  BY DEF RegisterFileVersions
<1>2. QED
  BY <1>1 DEF RegisterFileVersions, Registers, TypeOK

\* Every step registers a version, extends one extraction, or is quiet.
LEMMA Steps ==
    ASSUME IInv, [Next]_vars
    PROVE  \/ Registers
           \/ \E w \in Workers : Making(w) /\ Extends(w)
           \/ Quiet
<1>0. TypeOK
  BY DEF IInv
<1>1. CASE UNCHANGED vars
  <2>1. \A v \in Versions : work[v].status \in Open => work[v].status # "none"
    BY DEF Open
  <2>2. QED
    BY <1>1, <2>1 DEF Quiet, vars
<1>2. CASE Next
  BY <1>0, <1>2, StepKinds, RegisterRegisters, MakingExtends, HandingIsQuiet,
     OtherStepsAreQuiet
<1>3. QED
  BY <1>1, <1>2

\* The fields of newly created rows.
LEMMA NewRowFacts ==
    ASSUME NEW stage, NEW status
    PROVE  /\ NewWork(stage, status).stage = stage
           /\ NewWork(stage, status).status = status
           /\ NewWork(stage, status).cursor = 0
           /\ NewWork(stage, status).token = NoWorker
           /\ NewExtraction(status).status = status
           /\ NewExtraction(status).count = 0
           /\ NewExtraction(status).append = -1
BY DEF NewWork, NewExtraction, NoAppend

\* Versions beyond the head stay without rows.
LEMMA FreshStep == IInv /\ [Next]_vars => Fresh'
<1> SUFFICES ASSUME IInv, [Next]_vars PROVE Fresh'
  OBVIOUS
<1>0. TypeOK /\ Fresh /\ captured \in Nat
  BY BoundAssumption DEF IInv, TypeOK
<1>1. CASE Registers
  <2>1. PICK v \in Versions, del \in BOOLEAN : Registers!(v, del)
    BY <1>1 DEF Registers
  <2>2. work'[v].status # "none"
    BY <2>1, NewRowFacts
  <2>3. ASSUME NEW u \in Versions, u > captured'
        PROVE  /\ segs'[u] = {} /\ ~tomb'[u]
               /\ work'[u] = NewWork("transform", "none")
               /\ ext'[u] = NewExtraction("pending")
    <3>1. u # v /\ u > captured
      BY <1>0, <2>1, <2>3 DEF Versions
    <3>2. QED
      BY <1>0, <2>1, <3>1 DEF Fresh
  <2>4. ASSUME NEW u \in Versions, u <= captured'
        PROVE  work'[u].status # "none"
    <3>1. CASE u = v
      BY <2>2, <3>1
    <3>2. CASE u # v
      <4>1. u <= captured
        BY <1>0, <2>1, <2>4, <3>2 DEF Versions
      <4>2. QED
        BY <1>0, <2>1, <3>2, <4>1 DEF Fresh
    <3>3. QED
      BY <3>1, <3>2
  <2>5. QED
    BY <2>3, <2>4 DEF Fresh
<1>2. ASSUME NEW w \in Workers, Extends(w)
      PROVE  Fresh'
  <2>1. PICK v \in Versions : Extends(w)!(v)
    BY <1>2 DEF Extends
  <2>2. captured' = captured /\ tomb' = tomb
    BY <2>1 DEF catalog
  <2>3. work[v].status = "running" /\ work'[v].status # "none"
    BY <2>1 DEF Owned, Open
  <2>4. ~(v > captured)
    <3>1. NewWork("transform", "none").status = "none"
      BY NewRowFacts
    <3>2. QED
      BY <1>0, <2>3, <3>1 DEF Fresh
  <2>5. QED
    BY <1>0, <2>1, <2>2, <2>3, <2>4 DEF Fresh
<1>3. CASE Quiet
  <2>1. ASSUME NEW v \in Versions, v > captured
        PROVE  work'[v] = work[v] /\ ext'[v] = ext[v]
    <3>1. work[v].status = "none"
      BY <1>0, <2>1, NewRowFacts DEF Fresh
    <3>2. QED
      BY <1>3, <3>1 DEF Quiet, Open
  <2>2. ASSUME NEW v \in Versions, work[v].status # "none"
        PROVE  work'[v].status # "none"
    BY <1>3, <2>2 DEF Quiet
  <2>3. QED
    BY <1>0, <1>3, <2>1, <2>2 DEF Fresh, Quiet
<1>4. QED
  BY <1>1, <1>2, <1>3, Steps

\* Tombstones stay complete and empty.
LEMMA TombStep == IInv /\ [Next]_vars => TombShape'
<1> SUFFICES ASSUME IInv, [Next]_vars PROVE TombShape'
  OBVIOUS
<1>0. TypeOK /\ Fresh /\ TombShape /\ captured \in Nat
  BY BoundAssumption DEF IInv, TypeOK
<1>1. CASE Registers
  <2>1. PICK v \in Versions, del \in BOOLEAN : Registers!(v, del)
    BY <1>1 DEF Registers
  <2>2. v > captured
    BY <1>0, <2>1
  <2>3. segs'[v] = {}
    BY <1>0, <2>1, <2>2 DEF Fresh
  <2>4. tomb'[v] => /\ work'[v].stage = "index" /\ work'[v].cursor = 0
                    /\ ext'[v].status = "complete" /\ ext'[v].count = 0
    BY <2>1, NewRowFacts
  <2>5. QED
    BY <1>0, <2>1, <2>3, <2>4 DEF TombShape
<1>2. ASSUME NEW w \in Workers, Extends(w)
      PROVE  TombShape'
  <2>1. PICK v \in Versions : Extends(w)!(v)
    BY <1>2 DEF Extends
  <2>2. tomb' = tomb
    BY <2>1 DEF catalog
  <2>3. QED
    BY <1>0, <2>1, <2>2 DEF TombShape
<1>3. CASE Quiet
  BY <1>0, <1>3 DEF Quiet, TombShape
<1>4. QED
  BY <1>1, <1>2, <1>3, Steps

\* Extractions keep their shape.
LEMMA ShapeStep == IInv /\ [Next]_vars => ExtractionShape'
<1> SUFFICES ASSUME IInv, [Next]_vars PROVE ExtractionShape'
  OBVIOUS
<1>0. TypeOK /\ Fresh /\ ExtractionShape /\ captured \in Nat
  BY BoundAssumption DEF IInv, TypeOK
<1>1. CASE Registers
  <2>1. PICK v \in Versions, del \in BOOLEAN : Registers!(v, del)
    BY <1>1 DEF Registers
  <2>2. v > captured /\ v \in Nat
    BY <1>0, <2>1
  <2>3. segs'[v] = {}
    BY <1>0, <2>1, <2>2 DEF Fresh
  <2>4. /\ work'[v].cursor = 0 /\ ext'[v].count = 0 /\ ext'[v].append = -1
    BY <2>1, NewRowFacts
  <2>5. Made(v)'
    BY <2>3, <2>4 DEF Made
  <2>6. ASSUME NEW u \in Versions \ {v}
        PROVE  Made(u)'
    <3>1. Made(u)
      BY <1>0 DEF ExtractionShape
    <3>2. ASSUME NEW s \in segs[u], NEW t \in Owner(s)..u
          PROVE  ~tomb'[t]
      <4>0. s \in Segments /\ ~(u > captured)
        BY <1>0 DEF Fresh, TypeOK
      <4>1. u <= captured /\ Owner(s) \in Versions
        BY <1>0, <4>0, SegmentFacts DEF Versions
      <4>2. Owner(s) \in 1..MaxVersions /\ u \in 1..MaxVersions /\ v \in Nat
        BY <2>2, <4>1 DEF Versions
      <4>3. t \in 1..MaxVersions /\ t <= captured /\ t # v
        BY <1>0, <2>2, <4>1, <4>2, BoundAssumption
      <4>4. t \in Versions \ {v}
        BY <4>3 DEF Versions
      <4>5. QED
        BY <2>1, <3>1, <4>4 DEF Made
    <3>3. QED
      BY <2>1, <3>1, <3>2 DEF Made
  <2>7. QED
    BY <2>5, <2>6 DEF ExtractionShape
<1>2. ASSUME NEW w \in Workers, Extends(w)
      PROVE  ExtractionShape'
  <2>1. PICK v \in Versions : Extends(w)!(v)
    BY <1>2 DEF Extends
  <2>2. tomb' = tomb
    BY <2>1 DEF catalog
  <2>3. ASSUME NEW u \in Versions \ {v}
        PROVE  Made(u)'
    BY <1>0, <2>1, <2>2 DEF ExtractionShape, Made
  <2>4. QED
    BY <2>1, <2>3 DEF ExtractionShape
<1>3. CASE Quiet
  BY <1>0, <1>3 DEF Quiet, ExtractionShape, Made
<1>4. QED
  BY <1>1, <1>2, <1>3, Steps

\* The published head moves in one step of one action.
LEMMA IndexedStep ==
    ASSUME [Next]_vars, indexed' # indexed
    PROVE  \E w \in Workers : /\ PublishHead(w) /\ ~Stale(at[w].v)
                              /\ indexed' = at[w].v
                              /\ work' = [work EXCEPT ![at[w].v] =
                                             Finished(at[w].v, "complete")]
<1>1. ~(UNCHANGED vars)
  BY DEF vars
<1>2. Next
  BY <1>1
<1>3. ASSUME NEW w \in Workers, Worker(w)
      PROVE  PublishHead(w)
  BY <1>3 DEF Worker, ClaimDueWork, ClaimSuperseded, SeedAppend, SaveSegmentTurn,
              SaveDecodedSegment, CompleteExtraction, SendUpsert, UpsertLands,
              CheckpointIndex, YieldIndex, FinishLastTurn, FinishIndexTurn, SendErase,
              EraseLands, Return, FailAttempt, Crash, catalog
<1>4. \E w \in Workers : Worker(w)
  BY <1>2 DEF Next, RegisterFileVersions, PrepareRootDeletion, LeaseExpires,
              RetireExhaustedWork, LateLands, RetireSegment, SweepSegment, catalog
<1>5. PICK w \in Workers : PublishHead(w)
  BY <1>3, <1>4
<1>6. QED
  BY <1>5 DEF PublishHead

\* The published version stays a captured and completed one.
LEMMA HeadStep == IInv /\ [Next]_vars => HeadShape'
<1> SUFFICES ASSUME IInv, [Next]_vars PROVE HeadShape'
  OBVIOUS
<1>0. TypeOK /\ Fresh /\ HeadShape /\ captured \in Nat /\ indexed \in 0..MaxVersions
  BY BoundAssumption DEF IInv, TypeOK
<1>1. ASSUME indexed' # indexed
      PROVE  HeadShape'
  <2>1. PICK w \in Workers :
            /\ PublishHead(w) /\ ~Stale(at[w].v) /\ indexed' = at[w].v
            /\ work' = [work EXCEPT ![at[w].v] = Finished(at[w].v, "complete")]
    BY <1>1, IndexedStep
  <2>2. PICK v \in Versions : v = at[w].v
    BY <2>1, JobVersion DEF PublishHead
  <2>3. v = captured /\ FileComplete(v) /\ UNCHANGED <<captured, ext>>
    BY <2>1, <2>2 DEF PublishHead, Stale
  <2>4. work'[v] = Finished(v, "complete")
    BY <1>0, <2>1, <2>2 DEF TypeOK
  <2>5. work'[v].status = "complete" /\ work'[v].cursor = work[v].cursor
    BY <1>0, <2>4, FinishedRow
  <2>6. QED
    BY <1>0, <2>1, <2>2, <2>3, <2>5 DEF HeadShape, FileComplete
<1>2. ASSUME indexed' = indexed, indexed = 0, captured' >= captured, captured' \in Nat
      PROVE  HeadShape'
  BY <1>0, <1>2 DEF HeadShape
<1>3. ASSUME indexed' = indexed, indexed # 0, captured' >= captured, captured' \in Nat,
             work'[indexed] = work[indexed], ext'[indexed] = ext[indexed]
      PROVE  HeadShape'
  BY <1>0, <1>3 DEF HeadShape, FileComplete
<1>4. indexed # 0 => indexed \in Versions /\ work[indexed].status \notin Open
  BY <1>0, BoundAssumption DEF HeadShape, Versions, Open
<1>5. CASE Registers
  <2>1. PICK v \in Versions, del \in BOOLEAN : Registers!(v, del)
    BY <1>5 DEF Registers
  <2>2. indexed # v
    BY <1>0, <2>1 DEF HeadShape
  <2>3. QED
    BY <1>0, <1>2, <1>3, <1>4, <2>1, <2>2
<1>6. ASSUME NEW w \in Workers, Extends(w)
      PROVE  HeadShape'
  <2>1. PICK v \in Versions : Extends(w)!(v)
    BY <1>6 DEF Extends
  <2>2. indexed # 0 => indexed # v
    BY <1>4, <2>1 DEF Owned, Open
  <2>3. captured' = captured /\ indexed' = indexed
    BY <2>1 DEF catalog
  <2>4. QED
    BY <1>0, <1>2, <1>3, <1>4, <2>1, <2>2, <2>3
<1>7. CASE Quiet /\ indexed' = indexed
  BY <1>0, <1>2, <1>3, <1>4, <1>7 DEF Quiet
<1>8. QED
  BY <1>1, <1>5, <1>6, <1>7, Steps

----------------------------------------------------------------------------
(* What no step ever does to a captured version.                           *)

\* The head moves by one, tombstones stay, and extractions only grow.
LEMMA CatalogStep ==
    ASSUME IInv, [Next]_vars
    PROVE  /\ captured \in Nat /\ captured' \in {captured, captured + 1}
           /\ \A t \in 1..captured : t \in Versions /\ tomb'[t] = tomb[t]
           /\ \A v \in Versions : segs[v] \subseteq segs'[v]
<1>0. captured \in 0..MaxVersions /\ captured \in Nat
  BY BoundAssumption DEF IInv, TypeOK
<1>1. \A t \in 1..captured : t \in Versions /\ t # captured + 1
  BY <1>0, BoundAssumption DEF Versions
<1>2. CASE Registers
  BY <1>0, <1>1, <1>2 DEF Registers
<1>3. ASSUME NEW w \in Workers, Extends(w)
      PROVE  /\ captured' = captured /\ tomb' = tomb
             /\ \A v \in Versions : segs[v] \subseteq segs'[v]
  BY <1>3 DEF Extends, catalog
<1>4. CASE Quiet
  BY <1>0, <1>1, <1>4 DEF Quiet
<1>5. QED
  BY <1>0, <1>1, <1>2, <1>3, <1>4, Steps

\* Only an open row of a captured version is ever written.
LEMMA SettledStep ==
    ASSUME IInv, [Next]_vars, NEW v \in Versions,
           work[v].status \notin Open, work[v].status # "none"
    PROVE  work'[v] = work[v] /\ ext'[v] = ext[v] /\ segs'[v] = segs[v]
<1>1. CASE Registers
  <2>1. PICK u \in Versions, del \in BOOLEAN : Registers!(u, del)
    BY <1>1 DEF Registers
  <2>2. u > captured
    BY <2>1, CatalogStep
  <2>3. v # u
    BY <2>2, NewRowFacts DEF IInv, Fresh
  <2>4. QED
    BY <2>1, <2>3
<1>2. ASSUME NEW w \in Workers, Extends(w)
      PROVE  work'[v] = work[v] /\ ext'[v] = ext[v] /\ segs'[v] = segs[v]
  BY <1>2 DEF Extends, Owned, Open
<1>3. CASE Quiet
  BY <1>3 DEF Quiet
<1>4. QED
  BY <1>1, <1>2, <1>3, Steps

\* A version that nothing pins any more is never pinned again.
LEMMA PinnedStep ==
    ASSUME IInv, [Next]_vars, NEW v \in 1..captured, Pinned(v)'
    PROVE  Pinned(v)
<1>0. v \in Versions /\ captured \in Nat /\ work[v].status # "none"
  BY CatalogStep DEF IInv, Fresh
<1>1. CASE v = indexed'
  <2>1. CASE indexed' = indexed
    BY <1>1, <2>1 DEF Pinned
  <2>2. CASE indexed' # indexed
    BY <1>1, <2>2, IndexedStep DEF Stale, Pinned
  <2>3. QED
    BY <2>1, <2>2
<1>2. CASE v = captured'
  BY <1>0, <1>2, CatalogStep DEF Pinned
<1>3. CASE work'[v].status \notin {"complete", "superseded"}
  BY <1>0, <1>3, SettledStep DEF Pinned, Open
<1>4. QED
  BY <1>1, <1>2, <1>3 DEF Pinned

\* A deletion is never taken back.
LEMMA DeletedStep ==
    ASSUME IInv, [Next]_vars, NEW v \in 1..captured, NotDeletedSince(v)'
    PROVE  NotDeletedSince(v)
<1>1. SUFFICES ASSUME NEW t \in (v + 1)..captured
               PROVE  ~tomb[t]
  BY DEF NotDeletedSince
<1>2. t \in 1..captured /\ t \in (v + 1)..captured'
  BY CatalogStep
<1>3. QED
  BY <1>2, CatalogStep DEF NotDeletedSince

\* Segments are retired by one action, one by one.
LEMMA RetiringStep ==
    ASSUME [Next]_vars, retired' # retired
    PROVE  \E s \in Segments : RetireSegment(s)
<1>1. Next
  BY DEF vars
<1>2. ASSUME NEW w \in Workers, Worker(w)
      PROVE  retired' = retired
  BY <1>2 DEF Worker, ClaimDueWork, ClaimSuperseded, SeedAppend, SaveSegmentTurn,
              SaveDecodedSegment, CompleteExtraction, SendUpsert, UpsertLands,
              CheckpointIndex, YieldIndex, FinishLastTurn, FinishIndexTurn, SendErase,
              EraseLands, PublishHead, Return, FailAttempt, Crash
<1>3. QED
  BY <1>1, <1>2 DEF Next, RegisterFileVersions, PrepareRootDeletion, LeaseExpires,
              RetireExhaustedWork, LateLands, SweepSegment

\* Memberships of a captured version only grow by segments nobody retired.
LEMMA MemberStep ==
    ASSUME IInv, [Next]_vars, NEW v \in Versions, NEW s \in segs'[v], s \notin segs[v]
    PROVE  s \notin retired
<1>1. ASSUME NEW w \in Workers, Extends(w)
      PROVE  s \notin retired
  BY <1>1 DEF Extends
<1>2. QED
  BY <1>1, Steps DEF Registers, Quiet

\* A step never makes a retired segment referenced, nor a referenced one retired.
LEMMA RetiredStep == IInv /\ [Next]_vars => RetiredIsUnreferenced'
<1> SUFFICES ASSUME IInv, [Next]_vars, NEW s \in retired'
             PROVE  ~Referenced(s)'
  BY DEF RetiredIsUnreferenced
<1>1. CASE s \in retired
  <2> SUFFICES ASSUME NEW v \in 1..captured', s \in segs'[v], Pinned(v)'
               PROVE  FALSE
    BY DEF Referenced
  <2>1. CASE v \in 1..captured
    <3>1. v \in Versions /\ Pinned(v)
      BY <2>1, CatalogStep, PinnedStep
    <3>2. s \in segs[v]
      BY <1>1, <3>1, MemberStep
    <3>3. QED
      BY <1>1, <2>1, <3>1, <3>2 DEF IInv, RetiredIsUnreferenced, Referenced
  <2>2. CASE v \notin 1..captured
    <3>1. v = captured + 1 /\ captured' = v
      BY <2>2, CatalogStep
    <3>2. v \in Versions /\ Fresh'
      BY <3>1, TypeStep, FreshStep, BoundAssumption DEF TypeOK, Versions
    <3>3. segs[v] = {} /\ v > captured
      BY <3>1, <3>2, CatalogStep DEF IInv, Fresh
    <3>4. QED
      BY <1>1, <3>2, <3>3, MemberStep
  <2>3. QED
    BY <2>1, <2>2
<1>2. CASE s \notin retired
  <2>1. PICK x \in Segments : RetireSegment(x)
    BY <1>2, RetiringStep
  <2>2. s = x /\ ~Referenced(s)
    BY <1>2, <2>1 DEF RetireSegment
  <2>3. QED
    BY <2>1, <2>2 DEF RetireSegment, catalog, Referenced, Pinned
<1>3. QED
  BY <1>1, <1>2

----------------------------------------------------------------------------
(* Snapshots of the workers.                                               *)

\* A snapshot changes by a step of its own worker.
LEMMA ActorStep ==
    ASSUME TypeOK, [Next]_vars, NEW u \in Workers, ~Worker(u)
    PROVE  at'[u] = at[u]
<1>1. ASSUME NEW w \in Workers, Worker(w)
      PROVE  \E a : at' = [at EXCEPT ![w] = a]
  <2>1. ASSUME UNCHANGED at
        PROVE  \E a : at' = [at EXCEPT ![w] = a]
    <3>1. at' = [at EXCEPT ![w] = at[w]]
      BY <2>1 DEF TypeOK
    <3>2. QED
      BY <3>1
  <2>2. CASE EraseLands(w)
    <3>1. PICK gone : at' = [at EXCEPT ![w].pc =
                  IF gone = rows \cap Erased(at[w].v) THEN "publish" ELSE "erase"]
      BY <2>2 DEF EraseLands
    <3>2. QED
      BY <3>1
  <2>3. QED
    BY <1>1, <2>1, <2>2
       DEF Worker, ClaimDueWork, ClaimSuperseded, SeedAppend, SaveSegmentTurn,
           SaveDecodedSegment, CompleteExtraction, SendUpsert, UpsertLands,
           CheckpointIndex, YieldIndex, FinishLastTurn, FinishIndexTurn, SendErase,
           PublishHead, Return, FailAttempt, Crash, Leave
<1>2. CASE \E w \in Workers : Worker(w)
  <2>1. PICK w \in Workers : Worker(w)
    BY <1>2
  <2>2. PICK a : at' = [at EXCEPT ![w] = a]
    BY <1>1, <2>1
  <2>3. QED
    BY <2>1, <2>2 DEF TypeOK
<1>3. CASE ~ \E w \in Workers : Worker(w)
  <2>1. at' = at
    BY <1>3 DEF Next, RegisterFileVersions, PrepareRootDeletion, LeaseExpires, vars,
              RetireExhaustedWork, LateLands, RetireSegment, SweepSegment
  <2>2. QED
    BY <2>1
<1>4. QED
  BY <1>2, <1>3

\* What a worker's own step makes of its snapshot, action by action.
Claims(w) == \E v \in Versions :
    /\ ClaimDueWork(w, v)
    /\ at'[w] = [pc |-> work[v].stage, v |-> v, cur |-> work[v].cursor,
                 hi |-> work[v].cursor, cnt |-> ext[v].count]
Moves(w) ==
    \/ Claims(w)
    \/ at'[w].pc = "idle"
    \/ SeedAppend(w) /\ \E n \in 0..MaxChunks :
          /\ n = ext[at[w].v - 1].append
          /\ at'[w] = [at[w] EXCEPT !.cur = n, !.hi = n, !.cnt = n]
    \/ SaveDecodedSegment(w) /\ at'[w] = [at[w] EXCEPT !.cnt = at[w].cnt + 1]
    \/ \E hi \in 1..MaxChunks :
          SendUpsert(w, hi) /\ at'[w] = [at[w] EXCEPT !.pc = "sent", !.hi = hi]
    \/ UpsertLands(w) /\ at'[w] = [at[w] EXCEPT !.pc = "acked"]
    \/ CheckpointIndex(w) /\ at'[w] = [at[w] EXCEPT !.pc = "wrote", !.cur = at[w].hi]
    \/ FinishLastTurn(w) /\ at'[w] = [at[w] EXCEPT !.pc = "publish"]
    \/ SendErase(w) /\ at'[w] = [at[w] EXCEPT !.pc = "erasing"]
    \/ EraseLands(w) /\ at'[w] = [at[w] EXCEPT !.pc = "publish"]
    \/ EraseLands(w) /\ at'[w] = [at[w] EXCEPT !.pc = "erase"]
    \/ PublishHead(w) /\ at'[w] = [at[w] EXCEPT !.pc = "done"]

\* Every step of a worker is one of its moves.
LEMMA WorkerMoves ==
    ASSUME IInv, NEW w \in Workers, Worker(w)
    PROVE  Moves(w)
<1>0. at \in [Workers -> WorkerState] /\ TypeOK
  BY DEF IInv, TypeOK
<1>1. ASSUME Leave(w) PROVE at'[w].pc = "idle"
  BY <1>0, <1>1 DEF Leave, Idle
<1>2. ASSUME NEW v \in Versions, ClaimDueWork(w, v) \/ ClaimSuperseded(w, v)
      PROVE  Moves(w)
  BY <1>0, <1>2 DEF ClaimDueWork, ClaimSuperseded, Moves, Claims
<1>3. CASE SeedAppend(w)
  <2> DEFINE n == ext[at[w].v - 1].append
  <2>1. at[w].v \in Versions
    BY <1>3, JobVersion DEF SeedAppend
  <2>2. at[w].v - 1 \in Versions /\ n # NoAppend
    BY <1>3, <2>1, BoundAssumption DEF SeedAppend, AppendBase, Versions
  <2>3. n \in 0..MaxChunks
    BY <1>0, <2>2 DEF TypeOK, ExtractionRow
  <2>4. at'[w] = [at[w] EXCEPT !.cur = n, !.hi = n, !.cnt = n]
    BY <1>0, <1>3 DEF SeedAppend
  <2>5. QED
    BY <1>3, <2>3, <2>4 DEF Moves
<1>4. CASE SaveDecodedSegment(w)
  BY <1>0, <1>4 DEF SaveDecodedSegment, Moves
<1>5. CASE \E hi \in 1..MaxChunks : SendUpsert(w, hi)
  BY <1>0, <1>5 DEF SendUpsert, Moves
<1>6. CASE UpsertLands(w)
  BY <1>0, <1>6 DEF UpsertLands, Moves
<1>7. CASE CheckpointIndex(w)
  BY <1>0, <1>7 DEF CheckpointIndex, Moves
<1>8. CASE FinishLastTurn(w)
  BY <1>0, <1>8 DEF FinishLastTurn, Moves
<1>9. CASE SendErase(w)
  BY <1>0, <1>9 DEF SendErase, Moves
<1>10. CASE EraseLands(w)
  <2>1. PICK f \in {"publish", "erase"} : at' = [at EXCEPT ![w].pc = f]
    BY <1>10 DEF EraseLands
  <2>2. at'[w] = [at[w] EXCEPT !.pc = f]
    BY <1>0, <2>1
  <2>3. QED
    BY <1>10, <2>1, <2>2 DEF Moves
<1>11. CASE PublishHead(w)
  BY <1>0, <1>11 DEF PublishHead, Moves
<1>12. CASE \/ CompleteExtraction(w) \/ YieldIndex(w) \/ FinishIndexTurn(w)
            \/ Return(w) \/ FailAttempt(w) \/ Crash(w)
            \/ \E n \in 0..MaxChunks, done \in BOOLEAN :
                  \E pre \in 0..n : SaveSegmentTurn(w, n, done, pre)
  <2>1. Leave(w)
    BY <1>12 DEF CompleteExtraction, YieldIndex, FinishIndexTurn, Return, FailAttempt,
                 Crash, SaveSegmentTurn
  <2>2. QED
    BY <1>1, <2>1 DEF Moves
<1>13. QED
  BY <1>2, <1>3, <1>4, <1>5, <1>6, <1>7, <1>8, <1>9, <1>10, <1>11, <1>12 DEF Worker

\* A snapshot that fits goes on fitting.
LEMMA FitsStep ==
    ASSUME IInv, [Next]_vars, NEW a, Fits(a)
    PROVE  Fits(a)'
<1>1. a.v \in 1..captured /\ a.v \in Versions /\ captured \in Nat
  BY CatalogStep DEF Fits
<1>2. a.v \in 1..captured' /\ tomb'[a.v] = tomb[a.v] /\ segs[a.v] \subseteq segs'[a.v]
  BY <1>1, CatalogStep
<1>3. QED
  BY <1>2 DEF Fits

\* Snapshots keep fitting the extraction they were taken from.
LEMMA SnapshotStep == IInv /\ [Next]_vars => Snapshots'
<1> SUFFICES ASSUME IInv, [Next]_vars, NEW w \in Workers, at'[w].pc # "idle"
             PROVE  Fits(at[w])'
  BY DEF Snapshots, Busy
<1>0. TypeOK
  BY DEF IInv
<1>1. ASSUME Fits(at'[w])
      PROVE  Fits(at[w])'
  <2>1. PICK a : a = at'[w]
    OBVIOUS
  <2>2. Fits(a)'
    BY <1>1, <2>1, FitsStep
  <2>3. QED
    BY <2>1, <2>2 DEF Fits
<1>2. CASE ~Worker(w)
  BY <1>0, <1>1, <1>2, ActorStep DEF IInv, Snapshots, Busy
<1>3. CASE Worker(w)
  <2>0. Moves(w)
    BY <1>3, WorkerMoves
  <2>1. CASE Claims(w)
    <3>1. PICK v \in Versions :
            /\ ClaimDueWork(w, v)
            /\ at'[w] = [pc |-> work[v].stage, v |-> v, cur |-> work[v].cursor,
                         hi |-> work[v].cursor, cnt |-> ext[v].count]
      BY <2>1 DEF Claims
    <3>2. work[v].status # "none" /\ Made(v) /\ work[v] \in WorkRow
      BY <1>0, <3>1 DEF ClaimDueWork, Due, IInv, ExtractionShape, TypeOK
    <3>3. v \in 1..captured
      <4>1. ~(v > captured)
        BY <3>2, NewRowFacts DEF IInv, Fresh
      <4>2. QED
        BY <4>1, CatalogStep, BoundAssumption DEF Versions
    <3>4. work[v].stage = "transform" => ~tomb[v]
      BY DEF IInv, TombShape
    <3>5. work[v].stage \in {"transform", "index"} /\ work[v].cursor \in Nat
          /\ work[v].cursor <= ext[v].count
      BY <3>2 DEF WorkRow, Made
    <3>6. Fits(at'[w])
      BY <3>1, <3>3, <3>4, <3>5 DEF Fits
    <3>7. QED
      BY <1>1, <3>6
  <2>2. ASSUME at[w].pc # "idle"
        PROVE  /\ Fits(at[w]) /\ at[w] \in WorkerState
               /\ at[w].cur \in Nat /\ at[w].hi \in Nat /\ at[w].cnt \in Nat
    BY <1>0, <2>2 DEF IInv, Snapshots, Busy, TypeOK, WorkerState
  <2>3. CASE SeedAppend(w) /\ \E n \in 0..MaxChunks :
                /\ n = ext[at[w].v - 1].append
                /\ at'[w] = [at[w] EXCEPT !.cur = n, !.hi = n, !.cnt = n]
    <3>1. at[w].pc = "transform" /\ Fits(at[w]) /\ at[w] \in WorkerState
      BY <2>2, <2>3 DEF SeedAppend
    <3>2. PICK n \in 0..MaxChunks :
              at'[w] = [at[w] EXCEPT !.cur = n, !.hi = n, !.cnt = n]
      BY <2>3
    <3>3. /\ at'[w].pc = "transform" /\ at'[w].v = at[w].v
          /\ at'[w].cur = n /\ at'[w].hi = n /\ at'[w].cnt = n
      BY <3>1, <3>2 DEF WorkerState
    <3>4. QED
      BY <1>1, <3>1, <3>3 DEF Fits
  <2>4. CASE SaveDecodedSegment(w) /\ at'[w] = [at[w] EXCEPT !.cnt = at[w].cnt + 1]
    <3>1. at[w].pc = "transform" /\ Fits(at[w]) /\ at[w] \in WorkerState
      BY <2>2, <2>4 DEF SaveDecodedSegment
    <3>2. /\ at'[w].pc = "transform" /\ at'[w].v = at[w].v
          /\ at'[w].cur = at[w].cur /\ at'[w].hi = at[w].hi
          /\ at'[w].cnt = at[w].cnt + 1
      BY <2>4, <3>1 DEF WorkerState
    <3>3. at[w].hi \in Nat /\ at[w].cnt \in Nat
      BY <2>2, <3>1
    <3>4. Fits(at'[w])
      BY <3>1, <3>2, <3>3 DEF Fits
    <3>5. QED
      BY <1>1, <3>4
  <2>5. ASSUME NEW hi \in 1..MaxChunks, SendUpsert(w, hi),
               at'[w] = [at[w] EXCEPT !.pc = "sent", !.hi = hi]
        PROVE  Fits(at[w])'
    <3>1. at[w].pc # "idle"
      BY <2>5 DEF SendUpsert
    <3>2. Fits(at[w]) /\ at[w] \in WorkerState /\ at[w].cur \in Nat
      BY <2>2, <3>1
    <3>3. /\ at'[w].pc = "sent" /\ at'[w].v = at[w].v /\ at'[w].cur = at[w].cur
          /\ at'[w].hi = hi /\ at'[w].cnt = at[w].cnt
      BY <2>5, <3>2 DEF WorkerState
    <3>4. /\ ~tomb[at[w].v] /\ at[w].cur <= hi /\ hi <= at[w].cnt
          /\ {at[w].v} \X (at[w].cur..(hi - 1)) \subseteq segs[at[w].v]
      BY <2>5, <3>2 DEF SendUpsert
    <3>5. QED
      BY <1>1, <3>2, <3>3, <3>4 DEF Fits
  <2>6. CASE CheckpointIndex(w)
              /\ at'[w] = [at[w] EXCEPT !.pc = "wrote", !.cur = at[w].hi]
    <3>1. at[w].pc = "acked" /\ Fits(at[w]) /\ at[w] \in WorkerState
          /\ at[w].hi \in Nat
      BY <2>2, <2>6 DEF CheckpointIndex
    <3>2. /\ at'[w].pc = "wrote" /\ at'[w].v = at[w].v /\ at'[w].cur = at[w].hi
          /\ at'[w].hi = at[w].hi /\ at'[w].cnt = at[w].cnt
      BY <2>6, <3>1 DEF WorkerState
    <3>3. QED
      BY <1>1, <3>1, <3>2 DEF Fits
  <2>7. ASSUME NEW f, at[w].pc # "idle", at'[w] = [at[w] EXCEPT !.pc = f],
               \/ f = "acked" /\ at[w].pc = "sent"
               \/ f \in {"publish", "done"}
               \/ f \in {"erase", "erasing"} /\ tomb[at[w].v]
        PROVE  Fits(at[w])'
    <3>1. Fits(at[w]) /\ at[w] \in WorkerState
      BY <2>2, <2>7
    <3>2. /\ at'[w].pc = f /\ at'[w].v = at[w].v /\ at'[w].cur = at[w].cur
          /\ at'[w].hi = at[w].hi /\ at'[w].cnt = at[w].cnt
      BY <2>7, <3>1 DEF WorkerState
    <3>3. QED
      BY <1>1, <2>7, <3>1, <3>2 DEF Fits
  <2>8. CASE UpsertLands(w) /\ at'[w] = [at[w] EXCEPT !.pc = "acked"]
    BY <2>7, <2>8 DEF UpsertLands
  <2>9. CASE FinishLastTurn(w) /\ at'[w] = [at[w] EXCEPT !.pc = "publish"]
    BY <2>7, <2>9 DEF FinishLastTurn, TurnWritten
  <2>10. CASE SendErase(w) /\ at'[w] = [at[w] EXCEPT !.pc = "erasing"]
    BY <2>7, <2>10 DEF SendErase
  <2>11. CASE EraseLands(w) /\ at'[w] = [at[w] EXCEPT !.pc = "publish"]
    BY <2>7, <2>11 DEF EraseLands
  <2>12. CASE EraseLands(w) /\ at'[w] = [at[w] EXCEPT !.pc = "erase"]
    <3>1. at[w].pc = "erasing"
      BY <2>12 DEF EraseLands
    <3>2. tomb[at[w].v]
      BY <2>2, <3>1 DEF Fits
    <3>3. QED
      BY <2>7, <2>12, <3>1, <3>2
  <2>13. CASE PublishHead(w) /\ at'[w] = [at[w] EXCEPT !.pc = "done"]
    BY <2>7, <2>13 DEF PublishHead
  <2>14. QED
    BY <2>0, <2>1, <2>3, <2>4, <2>5, <2>6, <2>8, <2>9, <2>10, <2>11, <2>12, <2>13
       DEF Moves
<1>4. QED
  BY <1>2, <1>3

\* A row that names a worker after a step of others named it before, unchanged.
LEMMA KeptByOthers ==
    ASSUME IInv, [Next]_vars, NEW u \in Workers, ~Worker(u),
           NEW v \in Versions, v \in 1..captured, Holds(u, v)'
    PROVE  /\ Holds(u, v)
           /\ work'[v].stage = work[v].stage /\ work'[v].cursor = work[v].cursor
           /\ ext'[v].count = ext[v].count
<1> DEFINE Kept == /\ Holds(u, v)
                   /\ work'[v].stage = work[v].stage
                   /\ work'[v].cursor = work[v].cursor
                   /\ ext'[v].count = ext[v].count
<1>0. TypeOK /\ u # NoWorker /\ captured \in Nat
  BY WorkerAssumption, BoundAssumption DEF IInv, TypeOK
<1>1. ASSUME work'[v] = work[v], ext'[v].count = ext[v].count PROVE Kept
  BY <1>1 DEF Holds
<1>2. CASE UNCHANGED vars
  BY <1>1, <1>2 DEF vars
<1>3. ASSUME NEW del \in BOOLEAN, RegisterFileVersions(del) PROVE Kept
  BY <1>0, <1>1, <1>3, RegisterRegisters DEF Registers
<1>4. CASE Outside
  <2>1. CASE \/ PrepareRootDeletion
             \/ \E r \in late : LateLands(r)
             \/ \E s \in Segments : RetireSegment(s) \/ SweepSegment(s)
    BY <1>1, <2>1 DEF PrepareRootDeletion, LateLands, RetireSegment, SweepSegment
  <2>2. ASSUME NEW x \in Versions, LeaseExpires(x) PROVE Kept
    <3>1. CASE x # v
      BY <1>0, <1>1, <2>2, <3>1 DEF LeaseExpires, TypeOK
    <3>2. CASE x = v
      BY <1>0, <2>2, <3>2 DEF LeaseExpires, TypeOK, WorkRow, Holds
    <3>3. QED
      BY <3>1, <3>2
  <2>3. ASSUME NEW x \in Versions, RetireExhaustedWork(x) PROVE Kept
    <3>1. work' = [work EXCEPT ![x] = Dropped(x, "failed")] /\ ext' = ext
      BY <2>3 DEF RetireExhaustedWork
    <3>2. x # v
      BY <1>0, <3>1, DroppedRow DEF Holds, TypeOK
    <3>3. QED
      BY <1>0, <1>1, <3>1, <3>2 DEF TypeOK
  <2>4. QED
    BY <1>4, <2>1, <2>2, <2>3 DEF Outside
<1>5. ASSUME NEW w \in Workers, w # u, Making(w) PROVE Kept
  <2>1. PICK x \in Versions : Extends(w)!(x)
    BY <1>5, MakingExtends DEF Extends
  <2>2. CASE x # v
    BY <1>1, <2>1, <2>2
  <2>3. CASE x = v
    <3>1. work[x].token = w /\ x = at[w].v
      BY <2>1 DEF Owned
    <3>2. work'[x].token \in {w, NoWorker}
      <4>1. CASE SeedAppend(w)
        <5>1. work[x] \in WorkRow
          BY <1>0 DEF TypeOK
        <5>2. work'[x] = [work[x] EXCEPT !.cursor = ext[x - 1].append,
                                         !.turns = work[x - 1].turns]
          BY <1>0, <3>1, <4>1 DEF SeedAppend, TypeOK
        <5>3. QED
          BY <3>1, <5>1, <5>2 DEF WorkRow
      <4>2. ASSUME NEW n \in 0..MaxChunks, NEW done \in BOOLEAN, NEW pre \in 0..n,
                   SaveSegmentTurn(w, n, done, pre)
            PROVE  work'[x].token \in {w, NoWorker}
        <5> DEFINE stage == IF done \/ ext[x].count + n > work[x].cursor
                            THEN "index" ELSE "transform"
                   turns == IF work[x].turns < MaxTurns THEN work[x].turns + 1
                            ELSE work[x].turns
        <5>1. Released(x, stage, 0) \in WorkRow /\ Released(x, stage, 0).token = NoWorker
          BY <1>0, ReleasedRow, BoundAssumption
        <5>2. work'[x] = [Released(x, stage, 0) EXCEPT !.turns = turns]
          BY <1>0, <3>1, <4>2 DEF SaveSegmentTurn, TypeOK
        <5> HIDE DEF stage, turns
        <5>3. QED
          BY <5>1, <5>2 DEF WorkRow
      <4>3. CASE SaveDecodedSegment(w)
        BY <3>1, <4>3 DEF SaveDecodedSegment
      <4>4. CASE CompleteExtraction(w)
        <5>1. work'[x] = Released(x, "index", 0)
          BY <1>0, <3>1, <4>4 DEF CompleteExtraction, TypeOK
        <5>2. QED
          BY <1>0, <5>1, ReleasedRow, BoundAssumption
      <4>5. CASE CheckpointIndex(w)
        <5>1. work[x] \in WorkRow
          BY <1>0 DEF TypeOK
        <5>2. work'[x] = [work[x] EXCEPT !.cursor = at[w].hi]
          BY <1>0, <3>1, <4>5 DEF CheckpointIndex, TypeOK
        <5>3. QED
          BY <3>1, <5>1, <5>2 DEF WorkRow
      <4>6. QED
        BY <1>5, <4>1, <4>2, <4>3, <4>4, <4>5 DEF Making
    <3>3. QED
      BY <1>0, <1>5, <2>3, <3>2 DEF Holds
  <2>4. QED
    BY <2>2, <2>3
<1>6. ASSUME NEW w \in Workers, w # u, Handing(w) PROVE Kept
  <2>0. ext'[v].count = ext[v].count
    BY <1>6, HandingIsQuiet DEF Quiet
  <2>1. ASSUME NEW x \in Versions, NEW r, work' = [work EXCEPT ![x] = r],
               r.token # u \/ r.status # "running"
        PROVE  Kept
    <3>1. x # v
      BY <1>0, <2>1 DEF Holds, TypeOK
    <3>2. QED
      BY <1>0, <1>1, <2>0, <2>1, <3>1 DEF TypeOK
  <2>2. ASSUME NEW x \in Versions, ClaimDueWork(w, x) \/ ClaimSuperseded(w, x)
        PROVE  Kept
    <3>1. work[x].attempts < MaxAttempts
      BY <2>2 DEF ClaimDueWork, ClaimSuperseded, Due
    <3>2. Claimed(w, x) \in WorkRow /\ Claimed(w, x).token = w
      BY <1>0, <3>1, ClaimedRow
    <3>3. [Claimed(w, x) EXCEPT !.status = "superseded", !.live = FALSE].token = w
      BY <3>2 DEF WorkRow
    <3>4. QED
      BY <1>6, <2>1, <2>2, <3>2, <3>3 DEF ClaimDueWork, ClaimSuperseded
  <2>3. CASE YieldIndex(w) \/ FinishIndexTurn(w) \/ PublishHead(w) \/ FailAttempt(w)
    <3>1. PICK x \in Versions : x = at[w].v
      BY <2>3, JobVersion
         DEF YieldIndex, FinishIndexTurn, TurnWritten, PublishHead, FailAttempt
    <3>2. CASE YieldIndex(w)
      <4> DEFINE n == IF work[x].attempts > 0 THEN work[x].attempts - 1 ELSE 0
      <4>1. n \in 0..MaxAttempts
        BY <1>0, BoundAssumption DEF TypeOK, WorkRow
      <4>2. work' = [work EXCEPT ![x] = Released(x, "index", n)]
        BY <3>1, <3>2 DEF YieldIndex
      <4> HIDE DEF n
      <4>3. QED
        BY <1>0, <2>1, <4>1, <4>2, ReleasedRow
    <3>3. CASE FinishIndexTurn(w)
      <4> DEFINE stage == IF work[x].cursor = ext[x].count THEN "transform" ELSE "index"
      <4>1. work' = [work EXCEPT ![x] = Released(x, stage, 0)]
        BY <3>1, <3>3 DEF FinishIndexTurn
      <4>2. Released(x, stage, 0).token = NoWorker
        BY <1>0, ReleasedRow, BoundAssumption
      <4> HIDE DEF stage
      <4>3. QED
        BY <1>0, <2>1, <4>1, <4>2
    <3>4. CASE PublishHead(w)
      <4>1. PICK status \in {"complete", "superseded"} :
                work' = [work EXCEPT ![x] = Finished(x, status)]
        BY <3>1, <3>4 DEF PublishHead
      <4>2. Finished(x, status).status # "running"
        BY <1>0, FinishedRow
      <4>3. QED
        BY <2>1, <4>1, <4>2
    <3>5. CASE FailAttempt(w)
      <4>1. CASE ~FailFence(w)
        BY <1>1, <2>0, <3>5, <4>1 DEF FailAttempt
      <4>2. CASE FailFence(w)
        <5>1. PICK status \in {"pending", "failed"} :
                  work' = [work EXCEPT ![x] = Dropped(x, status)]
          BY <3>1, <3>5, <4>2 DEF FailAttempt
        <5>2. Dropped(x, status).token = NoWorker
          BY <1>0, DroppedRow
        <5>3. QED
          BY <1>0, <2>1, <5>1, <5>2
      <4>3. QED
        BY <4>1, <4>2
    <3>6. QED
      BY <2>3, <3>2, <3>3, <3>4, <3>5
  <2>4. QED
    BY <1>6, <2>2, <2>3 DEF Handing
<1>7. ASSUME NEW w \in Workers, Alone(w) PROVE Kept
  BY <1>1, <1>7 DEF Alone, SendUpsert, UpsertLands, FinishLastTurn, SendErase,
                    EraseLands, Return, Crash
<1>8. ASSUME NEW w \in Workers, Making(w) \/ Handing(w) \/ Alone(w)
      PROVE  w # u
  BY <1>8 DEF Worker, Making, Handing, Alone
<1>9. QED
  BY <1>2, <1>3, <1>4, <1>5, <1>6, <1>7, <1>8, StepKinds

\* A worker whose token is in the row keeps a current snapshot.
LEMMA CurrentStep == IInv /\ [Next]_vars => OwnersAreCurrent'
<1> SUFFICES ASSUME IInv, [Next]_vars, NEW w \in Workers, at'[w].pc # "idle",
                    Holds(w, at[w].v)'
             PROVE  Matches(at[w])'
  BY DEF OwnersAreCurrent, Busy
<1>0. TypeOK
  BY DEF IInv
<1>1. CASE ~Worker(w)
  <2>1. at'[w] = at[w]
    BY <1>0, <1>1, ActorStep
  <2>2. PICK v \in Versions : v = at[w].v /\ v \in 1..captured
    BY <2>1, JobVersion
  <2>3. Holds(w, v)'
    BY <2>1, <2>2 DEF Holds
  <2>4. /\ Holds(w, v)
        /\ work'[v].stage = work[v].stage /\ work'[v].cursor = work[v].cursor
        /\ ext'[v].count = ext[v].count
    BY <1>1, <2>2, <2>3, KeptByOthers
  <2>5. Matches(at[w])
    BY <2>1, <2>2, <2>4 DEF IInv, OwnersAreCurrent, Busy
  <2>6. QED
    BY <2>1, <2>2, <2>4, <2>5 DEF Matches
<1>2. CASE Worker(w)
  <2>0. Moves(w)
    BY <1>2, WorkerMoves
  <2>1. CASE Claims(w)
    <3>1. PICK v \in Versions :
            /\ ClaimDueWork(w, v)
            /\ at'[w] = [pc |-> work[v].stage, v |-> v, cur |-> work[v].cursor,
                         hi |-> work[v].cursor, cnt |-> ext[v].count]
      BY <2>1 DEF Claims
    <3>2. work[v].attempts < MaxAttempts /\ ext' = ext
          /\ work' = [work EXCEPT ![v] = Claimed(w, v)]
      BY <3>1 DEF ClaimDueWork, Due
    <3>3. /\ Claimed(w, v).stage = work[v].stage
          /\ Claimed(w, v).cursor = work[v].cursor
      BY <1>0, <3>2, ClaimedRow
    <3>4. work'[v] = Claimed(w, v) /\ work[v].stage \in {"transform", "index"}
      BY <1>0, <3>2 DEF TypeOK, WorkRow
    <3>5. QED
      BY <3>1, <3>2, <3>3, <3>4 DEF Matches, Writing
  <2>2. ASSUME at[w].pc # "idle"
        PROVE  /\ at[w] \in WorkerState /\ at[w].v \in Versions
               /\ work[at[w].v] \in WorkRow /\ ext[at[w].v] \in ExtractionRow
    BY <2>2, JobVersion
  <2>3. CASE SeedAppend(w) /\ \E n \in 0..MaxChunks :
                /\ n = ext[at[w].v - 1].append
                /\ at'[w] = [at[w] EXCEPT !.cur = n, !.hi = n, !.cnt = n]
    <3>1. at[w].pc = "transform"
      BY <2>3 DEF SeedAppend
    <3>2. PICK n \in 0..MaxChunks : n = ext[at[w].v - 1].append
              /\ at'[w] = [at[w] EXCEPT !.cur = n, !.hi = n, !.cnt = n]
      BY <2>3, Zenon
    <3>3. at'[w].pc = "transform" /\ at'[w].v = at[w].v /\ at'[w].cnt = n
      BY <2>2, <3>1, <3>2 DEF WorkerState
    <3>4. PICK v \in Versions : v = at[w].v
      BY <2>2, <3>1
    <3>5. /\ ext'[v] = [ext[v] EXCEPT !.count = n]
          /\ work'[v] = [work[v] EXCEPT !.cursor = n, !.turns = work[v - 1].turns]
          /\ work[v].stage = "transform"
      BY <1>0, <2>3, <3>2, <3>4 DEF SeedAppend, TypeOK
    <3>6. ext'[v].count = n /\ work'[v].stage = "transform"
      BY <2>2, <3>1, <3>4, <3>5 DEF WorkRow, ExtractionRow
    <3>7. QED
      BY <3>3, <3>4, <3>6 DEF Matches, Writing
  <2>4. CASE SaveDecodedSegment(w) /\ at'[w] = [at[w] EXCEPT !.cnt = at[w].cnt + 1]
    <3>1. at[w].pc = "transform" /\ at[w] \in WorkerState
      BY <2>2, <2>4 DEF SaveDecodedSegment
    <3>2. at'[w].pc = "transform" /\ at'[w].v = at[w].v /\ at'[w].cnt = at[w].cnt + 1
      BY <2>4, <3>1 DEF WorkerState
    <3>3. PICK v \in Versions : v = at[w].v
      BY <2>2, <3>1
    <3>4. /\ ext'[v] = [ext[v] EXCEPT !.count = ext[v].count + 1]
          /\ work' = work /\ work[v].stage = "transform" /\ ext[v].count = at[w].cnt
      BY <1>0, <2>4, <3>3 DEF SaveDecodedSegment, TypeOK
    <3>5. ext'[v].count = at[w].cnt + 1
      BY <2>2, <3>1, <3>3, <3>4 DEF ExtractionRow
    <3>6. QED
      BY <3>2, <3>3, <3>4, <3>5 DEF Matches, Writing
  \* Steps that only move the worker on.
  <2>5. ASSUME NEW f, at[w].pc # "idle", UNCHANGED <<work, ext>>,
               at'[w].pc = f, at'[w].v = at[w].v, at'[w].cur = at[w].cur,
               at'[w].cnt = at[w].cnt, at[w].pc # "done", f # "transform",
               f \in Writing => at[w].pc \in Writing
        PROVE  Matches(at[w])'
    <3>1. Holds(w, at[w].v)
      BY <2>5 DEF Holds
    <3>2. Matches(at[w])
      BY <2>5, <3>1 DEF IInv, OwnersAreCurrent, Busy
    <3>3. QED
      BY <2>5, <3>2 DEF Matches
  <2>6. ASSUME NEW hi \in 1..MaxChunks, SendUpsert(w, hi),
               at'[w] = [at[w] EXCEPT !.pc = "sent", !.hi = hi]
        PROVE  Matches(at[w])'
    <3>1. at[w].pc \in {"index", "wrote"} /\ UNCHANGED <<work, ext>>
      BY <2>6 DEF SendUpsert
    <3>2. at[w] \in WorkerState
      BY <2>2, <3>1
    <3>3. QED
      BY <2>5, <2>6, <3>1, <3>2 DEF Writing, WorkerState
  <2>7. CASE UpsertLands(w) /\ at'[w] = [at[w] EXCEPT !.pc = "acked"]
    <3>1. at[w].pc = "sent" /\ UNCHANGED <<work, ext>>
      BY <2>7 DEF UpsertLands
    <3>2. QED
      BY <2>2, <2>5, <2>7, <3>1 DEF Writing, WorkerState
  <2>8. CASE CheckpointIndex(w)
              /\ at'[w] = [at[w] EXCEPT !.pc = "wrote", !.cur = at[w].hi]
    <3>1. at[w].pc = "acked" /\ at[w] \in WorkerState
      BY <2>2, <2>8 DEF CheckpointIndex
    <3>2. /\ at'[w].pc = "wrote" /\ at'[w].v = at[w].v /\ at'[w].cur = at[w].hi
          /\ at'[w].cnt = at[w].cnt
      BY <2>8, <3>1 DEF WorkerState
    <3>3. PICK v \in Versions : v = at[w].v
      BY <2>2, <3>1
    <3>4. /\ work'[v] = [work[v] EXCEPT !.cursor = at[w].hi] /\ ext' = ext
          /\ work[v].stage = "index" /\ ext[v].count = at[w].cnt
      BY <1>0, <2>8, <3>3 DEF CheckpointIndex, TypeOK
    <3>5. work'[v].stage = "index" /\ work'[v].cursor = at[w].hi
      BY <2>2, <3>1, <3>3, <3>4 DEF WorkRow
    <3>6. QED
      BY <3>2, <3>3, <3>4, <3>5 DEF Matches
  <2>9. CASE FinishLastTurn(w) /\ at'[w] = [at[w] EXCEPT !.pc = "publish"]
    <3>1. at[w].pc \in {"index", "wrote"} /\ UNCHANGED <<work, ext>>
      BY <2>9 DEF FinishLastTurn, TurnWritten
    <3>2. QED
      BY <2>2, <2>5, <2>9, <3>1 DEF Writing, WorkerState
  <2>10. CASE SendErase(w) /\ at'[w] = [at[w] EXCEPT !.pc = "erasing"]
    <3>1. at[w].pc \in {"index", "erase"} /\ UNCHANGED <<work, ext>>
      BY <2>10 DEF SendErase
    <3>2. QED
      BY <2>2, <2>5, <2>10, <3>1 DEF Writing, WorkerState
  <2>11. CASE \/ EraseLands(w) /\ at'[w] = [at[w] EXCEPT !.pc = "publish"]
              \/ EraseLands(w) /\ at'[w] = [at[w] EXCEPT !.pc = "erase"]
    <3>1. at[w].pc = "erasing" /\ UNCHANGED <<work, ext>>
      BY <2>11 DEF EraseLands
    <3>2. QED
      BY <2>2, <2>5, <2>11, <3>1 DEF Writing, WorkerState
  <2>12. CASE PublishHead(w) /\ at'[w] = [at[w] EXCEPT !.pc = "done"]
    <3>1. at[w].pc = "publish"
      BY <2>12 DEF PublishHead
    <3>2. at'[w].pc = "done"
      BY <2>2, <2>12, <3>1 DEF WorkerState
    <3>3. QED
      BY <3>2 DEF Matches, Writing
  <2>13. QED
    BY <2>0, <2>1, <2>3, <2>4, <2>6, <2>7, <2>8, <2>9, <2>10, <2>11, <2>12, Zenon
       DEF Moves
<1>3. QED
  BY <1>1, <1>2

----------------------------------------------------------------------------
(* Rows of the index.                                                      *)

\* Which steps of a worker touch the index and the requests in flight.
LEMMA IndexActors ==
    ASSUME NEW w \in Workers, Worker(w)
    PROVE  /\ UpsertLands(w) \/ EraseLands(w) \/ rows' = rows
           /\ FailAttempt(w) \/ Crash(w) \/ late' = late
<1>1. CASE Making(w)
  <2>1. rows' = rows
    BY <1>1, Zenon DEF Making, SeedAppend, SaveSegmentTurn, SaveDecodedSegment,
              CompleteExtraction, CheckpointIndex
  <2>2. late' = late
    BY <1>1, Zenon DEF Making, SeedAppend, SaveSegmentTurn, SaveDecodedSegment,
              CompleteExtraction, CheckpointIndex
  <2>3. QED
    BY <2>1, <2>2
<1>2. CASE Handing(w)
  <2>1. rows' = rows
    BY <1>2, Zenon DEF Handing, ClaimDueWork, ClaimSuperseded, YieldIndex,
              FinishIndexTurn, PublishHead, FailAttempt
  <2>2. FailAttempt(w) \/ late' = late
    BY <1>2, Zenon DEF Handing, ClaimDueWork, ClaimSuperseded, YieldIndex,
              FinishIndexTurn, PublishHead
  <2>3. QED
    BY <2>1, <2>2, Zenon
<1>3. CASE Alone(w)
  <2>1. UpsertLands(w) \/ EraseLands(w) \/ rows' = rows
    BY <1>3, Zenon DEF Alone, SendUpsert, FinishLastTurn, SendErase, Return, Crash
  <2>2. Crash(w) \/ late' = late
    BY <1>3, Zenon DEF Alone, SendUpsert, UpsertLands, FinishLastTurn, SendErase,
              EraseLands, Return
  <2>3. QED
    BY <2>1, <2>2, Zenon
<1>4. QED
  BY <1>1, <1>2, <1>3, Zenon DEF Worker, Making, Handing, Alone

\* A row only disappears when a tombstone or a retirement doomed it.
LEMMA RowsStep ==
    ASSUME IInv, [Next]_vars, NEW s \in rows, s \notin rows'
    PROVE  s \in retired \/ \E t \in 1..captured : tomb[t] /\ Owner(s) <= t
<1>1. ASSUME NEW w \in Workers, EraseLands(w)
      PROVE  \E t \in 1..captured : tomb[t] /\ Owner(s) <= t
  <2>1. at[w].pc = "erasing" /\ s \in Erased(at[w].v)
    BY <1>1 DEF EraseLands
  <2>2. at[w].v \in 1..captured /\ tomb[at[w].v]
    BY <2>1 DEF IInv, Snapshots, Busy, Fits
  <2>3. QED
    BY <2>1, <2>2 DEF Erased
<1>2. ASSUME NEW r \in late, LateLands(r)
      PROVE  s \in retired \/ \E t \in 1..captured : tomb[t] /\ Owner(s) <= t
  <2>1. r.kind = "del" /\ s \in r.segs
    BY <1>2 DEF LateLands
  <2>2. Doomed(r.segs)
    BY <2>1 DEF IInv, LateDeletesAreSafe
  <2>3. QED
    BY <2>1, <2>2 DEF Doomed, Erased
<1>3. ASSUME NEW w \in Workers, Worker(w)
      PROVE  EraseLands(w)
  BY <1>3, IndexActors DEF UpsertLands
<1>4. QED
  BY <1>1, <1>2, <1>3 DEF Next, vars, RegisterFileVersions, PrepareRootDeletion,
              LeaseExpires, RetireExhaustedWork, RetireSegment, SweepSegment

\* The rows a pinned version is made of stay until the file is deleted.
LEMMA KeptRow ==
    ASSUME IInv, [Next]_vars, NEW v \in 1..captured, NEW s \in segs[v], s \in rows,
           Pinned(v), NotDeletedSince(v)
    PROVE  s \in rows'
<1> SUFFICES ASSUME s \notin rows' PROVE FALSE
  OBVIOUS
<1>0. v \in Versions /\ captured \in Nat /\ segs[v] \subseteq Segments
  BY CatalogStep DEF IInv, TypeOK
<1>1. s \notin retired
  BY DEF IInv, RetiredIsUnreferenced, Referenced
<1>2. PICK t \in 1..captured : tomb[t] /\ Owner(s) <= t
  BY <1>1, RowsStep
<1>3. ~(t > v)
  BY <1>0, <1>2 DEF NotDeletedSince
<1>4. \A x \in Owner(s)..v : ~tomb[x]
  BY <1>0 DEF IInv, ExtractionShape, Made
<1>5. Owner(s) \in Nat
  BY <1>0, SegmentFacts DEF Versions
<1>6. QED
  BY <1>2, <1>3, <1>4, <1>5

\* Confirmed batches stay in the index.
LEMMA AcksStep == IInv /\ [Next]_vars => AcksHold'
<1> SUFFICES ASSUME IInv, [Next]_vars, NEW w \in Workers, at'[w].pc = "acked",
                    Pinned(at[w].v)', NotDeletedSince(at[w].v)'
             PROVE  Batch(w)' \subseteq rows'
  BY DEF AcksHold, Acked
<1>0. TypeOK
  BY DEF IInv
<1>1. CASE ~Worker(w)
  <2>1. at'[w] = at[w]
    BY <1>0, <1>1, ActorStep
  <2>2. Fits(at[w]) /\ Acked(w)
    BY <2>1 DEF IInv, AcksHold, Snapshots, Busy
  <2>3. PICK v \in 1..captured : v = at[w].v
    BY <2>2 DEF Fits
  <2>4. Pinned(v)' /\ NotDeletedSince(v)'
    BY <2>1, <2>3 DEF Pinned, NotDeletedSince
  <2>5. Pinned(v) /\ NotDeletedSince(v)
    BY <2>4, PinnedStep, DeletedStep
  <2>6. Batch(w) \subseteq rows /\ Batch(w) \subseteq segs[v]
    BY <2>1, <2>2, <2>3, <2>5 DEF Acked, Fits, Batch
  <2>7. Batch(w) \subseteq rows'
    BY <2>5, <2>6, KeptRow
  <2>8. QED
    BY <2>1, <2>7 DEF Batch
<1>2. CASE Worker(w)
  <2>0. Moves(w)
    BY <1>2, WorkerMoves
  <2>1. at[w] \in WorkerState /\ \A v \in Versions : work[v].stage # "acked"
    BY <1>0 DEF TypeOK, WorkRow
  <2>2. UpsertLands(w) /\ at'[w] = [at[w] EXCEPT !.pc = "acked"]
    <3>1. ASSUME NEW a, at'[w] = [at[w] EXCEPT !.pc = a] PROVE a = "acked"
      BY <2>1, <3>1 DEF WorkerState
    <3>2. ASSUME Claims(w) PROVE FALSE
      <4>1. PICK v \in Versions :
                at'[w] = [pc |-> work[v].stage, v |-> v, cur |-> work[v].cursor,
                          hi |-> work[v].cursor, cnt |-> ext[v].count]
        BY <3>2 DEF Claims
      <4>2. QED
        BY <2>1, <4>1
    <3>3. ASSUME SeedAppend(w), NEW n \in 0..MaxChunks,
                 at'[w] = [at[w] EXCEPT !.cur = n, !.hi = n, !.cnt = n]
          PROVE  FALSE
      BY <2>1, <3>3 DEF SeedAppend, WorkerState
    <3>4. ASSUME SaveDecodedSegment(w), at'[w] = [at[w] EXCEPT !.cnt = at[w].cnt + 1]
          PROVE  FALSE
      BY <2>1, <3>4 DEF SaveDecodedSegment, WorkerState
    <3>5. ASSUME NEW hi \in 1..MaxChunks,
                 at'[w] = [at[w] EXCEPT !.pc = "sent", !.hi = hi]
          PROVE  FALSE
      BY <2>1, <3>5 DEF WorkerState
    <3>6. ASSUME at'[w] = [at[w] EXCEPT !.pc = "wrote", !.cur = at[w].hi]
          PROVE  FALSE
      BY <2>1, <3>6 DEF WorkerState
    <3>7. QED
      BY <2>0, <3>1, <3>2, <3>3, <3>4, <3>5, <3>6, Zenon DEF Moves
  <2>3. at'[w].v = at[w].v /\ at'[w].cur = at[w].cur /\ at'[w].hi = at[w].hi
    BY <2>1, <2>2 DEF WorkerState
  <2>4. QED
    BY <2>2, <2>3 DEF Batch, UpsertLands
<1>3. QED
  BY <1>1, <1>2

\* Requests in flight never come to threaten rows that are needed.
LEMMA LateStep == IInv /\ [Next]_vars => LateDeletesAreSafe'
<1> SUFFICES ASSUME IInv, [Next]_vars, NEW r \in late', r.kind = "del"
             PROVE  Doomed(r.segs)'
  BY DEF LateDeletesAreSafe
<1>0. captured \in Nat /\ \A t \in 1..captured : t \in 1..captured' /\ tomb'[t] = tomb[t]
  BY CatalogStep
<1>1. retired \subseteq retired'
  BY RetiringStep DEF RetireSegment
<1>2. ASSUME Doomed(r.segs) PROVE Doomed(r.segs)'
  <2>1. CASE r.segs \subseteq retired
    BY <1>1, <2>1 DEF Doomed
  <2>2. ASSUME NEW t \in 1..captured, tomb[t], r.segs \subseteq Erased(t)
        PROVE  Doomed(r.segs)'
    BY <1>0, <2>2 DEF Doomed, Erased
  <2>3. QED
    BY <1>2, <2>1, <2>2 DEF Doomed
<1>3. CASE r \in late
  BY <1>2, <1>3 DEF IInv, LateDeletesAreSafe
<1>4. ASSUME NEW w \in Workers, Worker(w), r \notin late
      PROVE  Doomed(r.segs)
  <2>1. Orphan(w) /\ at[w].pc # "idle"
    BY <1>4, IndexActors DEF FailAttempt, Crash
  <2>2. r \in InFlight(w)
    BY <1>4, <2>1 DEF Orphan
  <2>3. at[w].pc = "erasing" /\ r.segs = Erased(at[w].v)
    BY <2>2 DEF InFlight, Put, Del
  <2>4. at[w].v \in 1..captured /\ tomb[at[w].v]
    BY <2>3 DEF IInv, Snapshots, Busy, Fits
  <2>5. QED
    BY <2>3, <2>4 DEF Doomed
<1>5. ASSUME NEW s \in Segments, SweepSegment(s), r \notin late
      PROVE  Doomed(r.segs)
  BY <1>5 DEF SweepSegment, Del, Doomed
<1>6. QED
  BY <1>2, <1>3, <1>4, <1>5 DEF Next, vars, RegisterFileVersions, PrepareRootDeletion,
              LeaseExpires, RetireExhaustedWork, RetireSegment, LateLands

\* What lies below an extraction's cursor after one of its workers extended it.
LEMMA CursorMaking ==
    ASSUME IInv, [Next]_vars, NEW w \in Workers, Making(w),
           NEW v \in 1..captured, v = at[w].v, Pinned(v), NotDeletedSince(v),
           NEW s \in segs'[v], Ordinal(s) < work'[v].cursor
    PROVE  s \in rows
<1>0. TypeOK /\ v \in Versions /\ captured \in Nat
  BY CatalogStep DEF IInv
<1>1. /\ work[v] \in WorkRow /\ ext[v] \in ExtractionRow
      /\ segs[v] \in SUBSET Segments
  BY <1>0 DEF TypeOK
<1>2. Extends(w) /\ Made(v) /\ ~tomb[v]
  BY <1>0, MakingExtends DEF Extends, IInv, ExtractionShape
<1>3. ASSUME s \in segs[v], Ordinal(s) < work[v].cursor PROVE s \in rows
  BY <1>3 DEF IInv, CursorIsConfirmed
<1>4. ASSUME NEW n \in Nat, segs'[v] = segs[v] \cup NewSegments(v, n),
             work'[v].cursor = work[v].cursor
      PROVE  s \in rows
  <2>1. ext[v].count \in Nat /\ work[v].cursor \in Nat /\ work[v].cursor <= ext[v].count
    BY <1>1, <1>2 DEF Made, WorkRow, ExtractionRow
  <2>2. s \notin NewSegments(v, n)
    <3>1. ASSUME s \in NewSegments(v, n) PROVE FALSE
      <4>1. PICK b \in Int : b = ext[v].count + n - 1
        BY <2>1
      <4>2. s \in {v} \X (ext[v].count..b)
        BY <3>1, <4>1 DEF NewSegments
      <4>3. Ordinal(s) \in ext[v].count..b
        BY <1>0, <2>1, <4>2, PairFacts
      <4>4. QED
        BY <1>4, <2>1, <4>3
    <3>2. QED
      BY <3>1
  <2>3. QED
    BY <1>3, <1>4, <2>2
<1>5. CASE SeedAppend(w)
  <2> DEFINE n == ext[v - 1].append
             r == [work[v] EXCEPT !.cursor = n, !.turns = work[v - 1].turns]
  <2>1. /\ v - 1 \in Versions /\ n # NoAppend /\ indexed = v - 1
    BY <1>0, <1>5, BoundAssumption DEF SeedAppend, AppendBase, Versions
  <2>2. segs'[v] = Reusable(v - 1)
    BY <1>0, <1>5 DEF SeedAppend, TypeOK
  <2>3. s \in segs[v - 1] /\ Ordinal(s) < n
    BY <2>2 DEF Reusable
  <2>4. /\ work[v - 1].cursor = ext[v - 1].count /\ n <= ext[v - 1].count
        /\ segs[v - 1] \in SUBSET Segments /\ n \in Nat /\ ext[v - 1].count \in Nat
        /\ v - 1 \in 1..captured
    BY <1>0, <2>1, BoundAssumption
       DEF IInv, HeadShape, FileComplete, ExtractionShape, Made, TypeOK, ExtractionRow,
           Versions
  <2>5. Pinned(v - 1) /\ NotDeletedSince(v - 1)
    BY <1>0, <1>2, <2>1 DEF Pinned, NotDeletedSince
  <2>6. Ordinal(s) \in Nat
    BY <2>3, <2>4, SegmentFacts
  <2>7. Ordinal(s) < work[v - 1].cursor
    BY <2>3, <2>4, <2>6
  <2>8. QED
    BY <2>3, <2>4, <2>5, <2>7 DEF IInv, CursorIsConfirmed
<1>6. ASSUME NEW n \in 0..MaxChunks, NEW done \in BOOLEAN, NEW pre \in 0..n,
             SaveSegmentTurn(w, n, done, pre)
      PROVE  s \in rows
  <2> DEFINE stage == IF done \/ ext[v].count + n > work[v].cursor
                      THEN "index" ELSE "transform"
             turns == IF work[v].turns < MaxTurns THEN work[v].turns + 1
                      ELSE work[v].turns
  <2>1. Released(v, stage, 0) \in WorkRow /\ Released(v, stage, 0).cursor = work[v].cursor
    BY <1>0, ReleasedRow, BoundAssumption
  <2>2. work'[v] = [Released(v, stage, 0) EXCEPT !.turns = turns]
        /\ segs'[v] = segs[v] \cup NewSegments(v, n)
    BY <1>0, <1>6 DEF SaveSegmentTurn, TypeOK
  <2> HIDE DEF stage, turns
  <2>3. work'[v].cursor = work[v].cursor
    BY <2>1, <2>2 DEF WorkRow
  <2>4. QED
    BY <1>4, <2>2, <2>3
<1>7. CASE SaveDecodedSegment(w)
  <2>1. work' = work /\ segs'[v] = segs[v] \cup NewSegments(v, 1)
    BY <1>0, <1>7 DEF SaveDecodedSegment, TypeOK
  <2>2. QED
    BY <1>4, <2>1
<1>8. CASE CompleteExtraction(w)
  <2>1. work'[v] = Released(v, "index", 0) /\ segs' = segs
    BY <1>0, <1>8 DEF CompleteExtraction, TypeOK
  <2>2. work'[v].cursor = work[v].cursor
    BY <1>0, <2>1, ReleasedRow, BoundAssumption
  <2>3. QED
    BY <1>3, <2>1, <2>2
<1>9. CASE CheckpointIndex(w)
  <2>1. /\ at[w].pc = "acked" /\ work[v].cursor = at[w].cur /\ segs' = segs
        /\ work'[v] = [work[v] EXCEPT !.cursor = at[w].hi]
    BY <1>0, <1>9 DEF CheckpointIndex, TypeOK
  <2>2. work'[v].cursor = at[w].hi /\ Ordinal(s) \in Nat /\ Owner(s) \in Versions
    BY <1>1, <2>1, SegmentFacts DEF WorkRow
  <2>3. at[w].cur \in Nat /\ at[w].hi \in Nat
    BY <1>0 DEF TypeOK, WorkerState
  <2>4. Batch(w) \subseteq rows
    BY <2>1 DEF IInv, AcksHold, Acked
  <2>5. CASE Ordinal(s) < work[v].cursor
    BY <1>3, <2>1, <2>5
  <2>6. CASE ~(Ordinal(s) < work[v].cursor)
    <3>1. Owner(s) = v
      BY <1>2, <2>1, <2>6 DEF Made
    <3>2. Ordinal(s) \in at[w].cur..(at[w].hi - 1)
      BY <2>1, <2>2, <2>3, <2>6
    <3>3. s \in Batch(w)
      BY <1>0, <1>1, <2>1, <2>3, <3>1, <3>2, PairFacts DEF Batch
    <3>4. QED
      BY <2>4, <3>3
  <2>7. QED
    BY <2>5, <2>6
<1>10. QED
  BY <1>5, <1>6, <1>7, <1>8, <1>9 DEF Making

\* Every row below a cursor stays in the index.
LEMMA CursorStep == IInv /\ [Next]_vars => CursorIsConfirmed'
<1> SUFFICES ASSUME IInv, [Next]_vars, NEW v \in 1..captured', Pinned(v)',
                    NotDeletedSince(v)', NEW s \in segs'[v],
                    Ordinal(s) < work'[v].cursor
             PROVE  s \in rows'
  BY DEF CursorIsConfirmed
<1>0. captured \in Nat /\ captured \in 0..MaxVersions
  BY CatalogStep DEF IInv, TypeOK
<1>1. CASE v \in 1..captured
  <2>0. v \in Versions /\ Pinned(v) /\ NotDeletedSince(v) /\ v # captured + 1
    BY <1>0, <1>1, CatalogStep, PinnedStep, DeletedStep
  <2>1. ASSUME segs'[v] = segs[v], work'[v].cursor = work[v].cursor
        PROVE  s \in rows'
    <3>1. s \in rows
      BY <1>1, <2>0, <2>1 DEF IInv, CursorIsConfirmed
    <3>2. QED
      BY <1>1, <2>0, <2>1, <3>1, KeptRow
  <2>2. CASE Registers
    BY <2>0, <2>1, <2>2 DEF Registers
  <2>3. ASSUME NEW w \in Workers, Making(w), Extends(w)
        PROVE  s \in rows'
    <3>1. CASE v = at[w].v
      BY <1>1, <2>0, <2>3, <3>1, CursorMaking DEF Extends
    <3>2. CASE v # at[w].v
      BY <2>0, <2>1, <2>3, <3>2 DEF Extends
    <3>3. QED
      BY <3>1, <3>2
  <2>4. CASE Quiet
    BY <2>0, <2>1, <2>4 DEF Quiet
  <2>5. QED
    BY <2>2, <2>3, <2>4, Steps
<1>2. CASE v \notin 1..captured
  <2>1. v = captured + 1 /\ captured' # captured /\ v > captured
    BY <1>0, <1>2, CatalogStep
  <2>2. v \in Versions
    BY <2>1, TypeStep, BoundAssumption DEF TypeOK, Versions
  <2>3. ASSUME NEW w \in Workers, Extends(w) PROVE captured' = captured
    BY <2>3 DEF Extends, catalog
  <2>4. Registers
    BY <2>1, <2>3, Steps DEF Quiet
  <2>5. segs'[v] = {}
    BY <2>1, <2>2, <2>4 DEF Registers, IInv, Fresh
  <2>6. QED
    BY <2>5
<1>3. QED
  BY <1>1, <1>2

----------------------------------------------------------------------------
(* The invariant as a whole.                                               *)

\* The invariant holds at first.
LEMMA InitInv == Init => IInv
<1> SUFFICES ASSUME Init PROVE IInv
  OBVIOUS
<1>1. TypeOK
  BY InitType
<1>2. Fresh /\ TombShape
  BY BoundAssumption DEF Init, Fresh, TombShape, Versions
<1>3. HeadShape
  BY DEF Init, HeadShape
<1>4. ExtractionShape
  <2> SUFFICES ASSUME NEW v \in Versions PROVE Made(v)
    BY DEF ExtractionShape
  <2>1. /\ work[v] = NewWork("transform", "none") /\ ext[v] = NewExtraction("pending")
        /\ segs[v] = {}
    BY DEF Init
  <2>2. QED
    BY <2>1, NewRowFacts DEF Made
<1>5. Snapshots /\ OwnersAreCurrent /\ AcksHold
  BY DEF Init, Idle, Snapshots, OwnersAreCurrent, AcksHold, Busy
<1>6. LateDeletesAreSafe /\ RetiredIsUnreferenced
  BY DEF Init, LateDeletesAreSafe, RetiredIsUnreferenced
<1>7. CursorIsConfirmed
  BY DEF Init, CursorIsConfirmed
<1>8. QED
  BY <1>1, <1>2, <1>3, <1>4, <1>5, <1>6, <1>7 DEF IInv

\* The invariant is inductive.
LEMMA InvStep == IInv /\ [Next]_vars => IInv'
BY TypeStep, FreshStep, TombStep, HeadStep, ShapeStep, SnapshotStep, CurrentStep,
   AcksStep, LateStep, RetiredStep, CursorStep DEF IInv

\* The invariant implies that what is published can be found.
LEMMA InvSearchable == IInv => PublishedIsSearchable
<1> SUFFICES ASSUME IInv, indexed # 0, NotDeletedSince(indexed)
             PROVE  Searchable(indexed)
  BY DEF PublishedIsSearchable
<1>1. /\ indexed \in 0..MaxVersions /\ captured \in 0..MaxVersions
      /\ MaxVersions \in Nat /\ indexed <= captured
  BY BoundAssumption DEF IInv, TypeOK, HeadShape
<1>2. PICK v \in Versions : v = indexed /\ v \in 1..captured
  BY <1>1 DEF Versions
<1>3. /\ work[v].cursor = ext[v].count /\ Made(v)
      /\ segs[v] \in SUBSET Segments /\ ext[v].count \in Nat
  BY <1>2 DEF IInv, HeadShape, FileComplete, ExtractionShape, TypeOK, ExtractionRow
<1>4. ASSUME NEW s \in segs[v]
      PROVE  s \in rows /\ Ordinal(s) \in 0..(ext[v].count - 1)
  <2>1. Ordinal(s) \in Nat /\ Ordinal(s) < ext[v].count
    BY <1>3, SegmentFacts DEF Made
  <2>2. s \in rows
    BY <1>2, <1>3, <2>1 DEF IInv, CursorIsConfirmed, Pinned
  <2>3. QED
    BY <1>3, <2>1, <2>2
<1>5. \A o \in 0..(ext[v].count - 1) : \E s \in segs[v] : Ordinal(s) = o
  BY <1>3 DEF Made
<1>6. {Ordinal(s) : s \in segs[v] \cap rows} = 0..(ext[v].count - 1)
  BY <1>4, <1>5
<1>7. QED
  BY <1>2, <1>6 DEF Searchable

----------------------------------------------------------------------------
(* Theorems.                                                               *)

\* The invariant always holds.
LEMMA Invariance == Spec => []IInv
<1>1. QED
  BY InitInv, InvStep, PTL DEF Spec

\* Type correctness: every row, cursor and snapshot stays in its range, in
\* particular the attempts of a work row never exceed MAX_WORK_ATTEMPTS.
THEOREM TypeCorrect == Spec => []TypeOK
<1>1. IInv => TypeOK
  BY DEF IInv
<1>2. QED
  BY <1>1, Invariance, PTL

\* The published version can be found in full until a tombstone of its file is
\* captured, for every number of workers, retries, crashes and late requests.
THEOREM PublishedStaysSearchable == Spec => []PublishedIsSearchable
<1>1. QED
  BY InvSearchable, Invariance, PTL

\* Segment cleanup never retires a segment that the head, the publication or
\* unfinished work is made of.
THEOREM CleanupIsSafe == Spec => []RetiredIsUnreferenced
<1>1. IInv => RetiredIsUnreferenced
  BY DEF IInv
<1>2. QED
  BY <1>1, Invariance, PTL

\* Everything below index_cursor is in the index, so that a resumed attempt may
\* skip it.
THEOREM CursorIsDurable == Spec => []CursorIsConfirmed
<1>1. IInv => CursorIsConfirmed
  BY DEF IInv
<1>2. QED
  BY <1>1, Invariance, PTL

\* Published work is complete and running work is not, so a publication moves
\* the head to a version it was not at.
LEMMA PublishStep ==
    ASSUME IInv, [Next]_vars, indexed' # indexed
    PROVE  indexed' = captured /\ indexed' > indexed /\ ~deleting
<1>1. PICK w \in Workers : /\ PublishHead(w) /\ ~Stale(at[w].v)
                           /\ indexed' = at[w].v
  BY IndexedStep
<1>2. indexed' = captured /\ ~deleting
  BY <1>1 DEF Stale
<1>3. indexed <= captured /\ indexed \in Nat /\ captured \in Nat
  BY BoundAssumption DEF IInv, TypeOK, HeadShape
<1>4. QED
  BY <1>2, <1>3

\* The head only moves forward, to the captured version of a live root
\* (publish_head).
THEOREM HeadAdvances == Spec => HeadMovesForward
<1>1. IInv /\ [Next]_vars
        => [indexed' # indexed => indexed' = captured /\ indexed' > indexed /\ ~deleting]_vars
  BY PublishStep
<1>2. QED
  BY <1>1, Invariance, PTL DEF Spec, HeadMovesForward

\* Completed, failed and superseded work is never reopened.
THEOREM OutcomesAreFinal == Spec => FinishedIsFinal
<1>1. IInv /\ [Next]_vars
        => [\A v \in Versions : work[v].status \in Terminal
                                  => work'[v].status = work[v].status]_vars
  <2> SUFFICES ASSUME IInv, [Next]_vars, NEW v \in Versions,
                      work[v].status \in Terminal
               PROVE  work'[v].status = work[v].status
    OBVIOUS
  <2>1. work[v].status \notin Open /\ work[v].status # "none"
    BY DEF Terminal, Open
  <2>2. QED
    BY <2>1, SettledStep
<1>2. QED
  BY <1>1, Invariance, PTL DEF Spec, FinishedIsFinal

----------------------------------------------------------------------------
(* Refinement of FileHead.                                                 *)

Whole == indexed = 0 \/ Searchable(indexed)
Deletions == {v \in 1..captured : tomb[v]}

\* Outside deletions of the file, what is published is whole.
LEMMA WholeUnlessDeleted ==
    ASSUME IInv, ~Whole
    PROVE  \E d \in Deletions : d > indexed
<1>1. indexed # 0 /\ ~Searchable(indexed)
  BY DEF Whole
<1>2. PICK t \in (indexed + 1)..captured : tomb[t]
  BY <1>1, InvSearchable DEF PublishedIsSearchable, NotDeletedSince
<1>3. indexed \in Nat /\ captured \in Nat
  BY BoundAssumption DEF IInv, TypeOK
<1>4. QED
  BY <1>2, <1>3 DEF Deletions

\* A step captures, closes the root, or does neither.
LEMMA CatalogKinds ==
    ASSUME IInv, [Next]_vars
    PROVE  \/ (\E del \in BOOLEAN : RegisterFileVersions(del))
           \/ PrepareRootDeletion
           \/ captured' = captured /\ tomb' = tomb /\ deleting' = deleting
<1>1. ASSUME NEW w \in Workers, Worker(w)
      PROVE  captured' = captured /\ tomb' = tomb /\ deleting' = deleting
  <2>1. CASE Making(w)
    BY <2>1, MakingExtends DEF Extends, catalog
  <2>2. CASE Handing(w)
    <3>1. deleting' = deleting
      <4>1. ASSUME UNCHANGED catalog PROVE deleting' = deleting
        BY <4>1 DEF catalog
      <4>2. QED
        BY <2>2, <4>1, Zenon DEF Handing, ClaimDueWork, ClaimSuperseded, YieldIndex,
           FinishIndexTurn, PublishHead, FailAttempt
    <3>2. QED
      BY <2>2, <3>1, HandingIsQuiet DEF Quiet
  <2>3. CASE Alone(w)
    <3>1. UNCHANGED catalog
      BY <2>3, Zenon DEF Alone, SendUpsert, UpsertLands, FinishLastTurn, SendErase,
         EraseLands, Return, Crash
    <3>2. QED
      BY <3>1 DEF catalog
  <2>4. QED
    BY <1>1, <2>1, <2>2, <2>3, Zenon DEF Worker, Making, Handing, Alone
<1>2. CASE UNCHANGED vars
  BY <1>2 DEF vars
<1>3. CASE \/ \E v \in Versions : LeaseExpires(v) \/ RetireExhaustedWork(v)
           \/ \E r \in late : LateLands(r)
           \/ \E s \in Segments : RetireSegment(s) \/ SweepSegment(s)
  BY <1>3 DEF LeaseExpires, RetireExhaustedWork, LateLands, RetireSegment,
              SweepSegment, catalog
<1>4. QED
  BY <1>1, <1>2, <1>3, Zenon DEF Next

\* Every step is a step of FileHead or leaves its state alone.
LEMMA PromiseStep ==
    ASSUME IInv, [Next]_vars, IInv'
    PROVE  [Promise!Next]_(Promise!vars)
<1>0. /\ captured \in Nat /\ indexed \in Nat /\ indexed <= captured
      /\ indexed \in 0..MaxVersions
  BY BoundAssumption DEF IInv, TypeOK, HeadShape
<1>1. ASSUME NEW del \in BOOLEAN, RegisterFileVersions(del)
      PROVE  Promise!Capture
  <2>1. PICK v \in Versions : /\ v = captured + 1 /\ captured' = v /\ ~deleting
                              /\ tomb' = [tomb EXCEPT ![v] = del]
                              /\ \A u \in Versions \ {v} : ext'[u] = ext[u]
                              /\ UNCHANGED <<indexed, deleting, segs, rows>>
    BY <1>1 DEF RegisterFileVersions, IInv, TypeOK
  <2>2. Whole' = Whole
    <3>1. CASE indexed = 0
      BY <2>1, <3>1 DEF Whole
    <3>2. CASE indexed # 0
      <4>1. ext'[indexed] = ext[indexed]
        BY <1>0, <2>1, <3>2 DEF Versions
      <4>2. Searchable(indexed)' = Searchable(indexed)
        BY <2>1, <4>1 DEF Searchable
      <4>3. QED
        BY <2>1, <4>2 DEF Whole
    <3>3. QED
      BY <3>1, <3>2
  <2>3. \A t \in 1..captured : tomb'[t] = tomb[t]
    BY CatalogStep
  <2>4. tomb'[v] = del
    BY <2>1 DEF IInv, TypeOK
  <2>5. Deletions' = IF del THEN Deletions \cup {captured + 1} ELSE Deletions
    BY <1>0, <2>1, <2>3, <2>4 DEF Deletions
  <2>6. QED
    BY <2>1, <2>2, <2>5 DEF Promise!Capture, Deletions, Whole
<1>2. CASE PrepareRootDeletion
  <2>1. /\ ~deleting /\ deleting' = TRUE
        /\ captured' = captured /\ indexed' = indexed
    BY <1>2 DEF PrepareRootDeletion
  <2>2. Whole' = Whole /\ Deletions' = Deletions
    BY <1>2 DEF PrepareRootDeletion, Whole, Deletions, Searchable
  <2>3. Promise!Close
    BY <2>1, <2>2 DEF Promise!Close, Deletions, Whole
  <2>4. QED
    BY <2>3 DEF Promise!Next
<1>3. CASE captured' = captured /\ tomb' = tomb /\ deleting' = deleting
  <2>1. Deletions' = Deletions
    BY <1>3 DEF Deletions
  <2>2. CASE indexed' # indexed
    <3>1. indexed' = captured /\ indexed' > indexed /\ ~deleting
      BY <2>2, PublishStep
    <3>2. Whole'
      <4>1. SUFFICES ASSUME ~Whole' PROVE FALSE
        OBVIOUS
      <4>2. (\E d \in Deletions : d > indexed)'
        <5>1. IInv' /\ ~Whole' => (\E d \in Deletions : d > indexed)'
          BY WholeUnlessDeleted, PTL
        <5>2. QED
          BY <4>1, <5>1
      <4>3. QED
        BY <1>0, <1>3, <3>1, <4>2 DEF Deletions
    <3>3. Promise!Publish
      BY <1>0, <1>3, <2>1, <3>1, <3>2 DEF Promise!Publish, Deletions, Whole
    <3>4. QED
      BY <3>3 DEF Promise!Next
  <2>3. CASE indexed' = indexed /\ Whole' = Whole
    BY <1>3, <2>1, <2>3 DEF Promise!vars, Deletions, Whole
  <2>4. CASE indexed' = indexed /\ Whole' # Whole
    <3>1. Whole' = ~Whole
      BY <2>4 DEF Whole
    <3>2. \E d \in Deletions : d > indexed
      <4>1. CASE ~Whole
        BY <4>1, WholeUnlessDeleted
      <4>2. CASE Whole
        <5>1. ~Whole'
          BY <3>1, <4>2, Zenon
        <5>2. IInv' /\ ~Whole' => (\E d \in Deletions : d > indexed)'
          BY WholeUnlessDeleted, PTL
        <5>3. (\E d \in Deletions : d > indexed)'
          BY <5>1, <5>2
        <5>4. QED
          BY <2>1, <2>4, <5>3
      <4>3. QED
        BY <4>1, <4>2
    <3>3. Promise!Erode
      BY <1>3, <2>1, <2>4, <3>1, <3>2 DEF Promise!Erode, Deletions, Whole
    <3>4. QED
      BY <3>3 DEF Promise!Next
  <2>5. QED
    BY <2>2, <2>3, <2>4
<1>4. QED
  BY <1>1, <1>2, <1>3, CatalogKinds DEF Promise!Next

\* The initial state is one of FileHead.
LEMMA PromiseInit == Init => Promise!Init
<1> SUFFICES ASSUME Init PROVE Promise!Init
  OBVIOUS
<1>1. captured = 0 /\ indexed = 0 /\ deleting = FALSE
  BY DEF Init
<1>2. Deletions = {}
  BY <1>1 DEF Deletions
<1>3. Whole = TRUE
  BY <1>1 DEF Whole
<1>4. QED
  BY <1>1, <1>2, <1>3 DEF Promise!Init, Deletions, Whole

\* The pipeline implements FileHead: through every interleaving of captures,
\* attempts, crashes, late requests and cleanups the file behaves as a head, a
\* publication that follows it in single steps, and nothing else.
THEOREM PipelineImplementsFileHead == Spec => ImplementsFileHead
<1>1. IInv /\ IInv' /\ [Next]_vars => [Promise!Next]_(Promise!vars)
  BY PromiseStep
<1>2. QED
  BY <1>1, PromiseInit, Invariance, PTL DEF Spec, ImplementsFileHead, Promise!Spec
=============================================================================

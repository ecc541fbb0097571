# A verification project for pufferfs

pufferfs captures the files of a directory tree, turns them into chunks of text
in the background, publishes each file version in a search index and answers
searches and reads from it. This directory holds TLA+ models of its concurrent
parts, TLC configurations that check them on small instances, and TLAPS proofs
of the main results for every instance. Paths are relative to the repository.

## Inventory

| Component | State | Operations | What is hard | What makes it correct | Module |
|---|---|---|---|---|---|
| Capture registration (`internal/server/file_catalog.go`) | `file_catalog`, `file_versions`, first `file_extractions` and `file_work` rows | `RegisterFileVersions` (replay by capture id, conflict by previous version) | two clients, replays after lost answers, root deletion | one linear history per file; a replay never changes it | `Publication`, `CaptureClient` |
| Publication pipeline (`workers/file_runtime.py`, `segment_runtime.py`, `append_segments.py`, `native_segments.py`, `decoded_segments.py`, `index_worker.py`, `index_publish.py`) | `file_work` (stage, status, token, lease, cursors), `file_extractions`, `file_segments`, `extraction_segments`; rows in the search index | claim, heartbeat, save turn, seed append, checkpoint, yield, finish turn, publish, fail, retire exhausted | leases that expire under a live worker, crashes between an index write and its checkpoint, late index requests, tombstones against recaptures | the published version is complete; cursors are evidence; outcomes are final; work settles | `Publication`, `FileHead` |
| Segment cleanup (`workers/segment_cleanup.py`) | `retired_at`, `index_cleanup_due_at` | retire unreferenced segments, delete their rows again and again | references that appear while a segment is retired | never retires what is referenced; obsolete rows go away | `Publication`, `Search` |
| Provider batches (`workers/provider_*.py`, `batch_collector.py`, `collection.py`) | `provider_batches`, `provider_requests` | prepare, submit, reconcile, collect, retry, assemble | a submission whose answer is lost; paid jobs | no paid job is created twice; every request is answered or fails visibly | `ProviderBatch` |
| Source retention (`internal/server/capture_multipart.go`, `source_authorization.go`, `workers/source_cleanup.py`) | `source_objects` with authorization, completion, capture and retirement | authorize, complete, bind, retire, delete | an upload URL that outlives its pack; cleanup racing a registration | bytes that a version needs are never deleted | `SourceRetention` |
| Capture client (`cmd/pufferfs/capture_*.go`, `sync_capture.go`) | journals and packs of the spool, local heads | scan, copy, upload, register, save heads, clean the spool | crashes at any point, edits during a copy, lost answers, retired packs | what is captured can be read back; nothing is lost or registered twice | `CaptureClient` |
| Catalog change feed (`internal/server/catalog_changes.go`) | outbox, revisions | record, assign revisions, read a page from a cursor | commits that become visible out of order | a cursor never skips a committed change | `CatalogFollow` |
| Following daemon (`cmd/pufferfs/watch*.go`, `capture_catalog_cache.go`) | path hints, cached catalog, cursor, pending paths | observe, sync the hinted paths, reconcile, retry | events during a sync, lost requests, two syncs, policy changes | no difference is forgotten; files and catalog converge | `CatalogFollow` |
| Search and reads (`internal/server/search_publication.go`, `search_segments.go`, `segment_reads.go`, `file_read_rows.go`) | pinned publications, exclusions and pages of one request | candidate passes, pages | publications that move, rows swept during the request | answers are exact for the pinned publication | `Search` |
| Search admission (`internal/server/search_admission.go`) | reservations with leases | admit, release, expire | servers that die with a reservation | the capacity holds, in total and per tenant | `Search` |
| Accounts (`internal/server/email_login.go`, `db.go`, `internal/auth`) | users, members, invitations, keys, login codes | log in, change members, invite, create keys | requests whose authority is read long before it is used | an owner stays; codes are single-use; roles are granted by owners | `Accounts` |
| Access (`internal/server/capture_authorization.go`, `handlers.go`, `db.go`) | roles, groups, grants, denies, keys | capture, administer | rights revoked between check and commit | a capture that commits is authorized at that moment | `Access` |
| Root deletion (`internal/server/db.go`, `workers/root_cleanup.py`) | `deleting_at`, `root_cleanup_targets` | prepare, erase, delete, sweep again | workers still writing, a step that fails | nothing of the root stays | `Access` |

Document parsers, object storage clients, the HTTP layer, billing, analytics and
the set-up commands of the CLI carry no concurrent logic; `PROJECT.json` lists them
as not modelled.

Components meet in Postgres: each transaction is atomic, and everything between
two transactions (S3, the search index, the provider, the local disk) can be slow,
fail, or take effect late. There are no messages between the components. Workers
poll `file_work` and own a row by the token of their attempt while its lease runs;
clients and daemons poll the API.

## Modules

**`FileHead`** is what the catalog promises about one file: captures advance a
head, a publication follows it in one step, what is published is whole until
the file is deleted, and a closed root changes no more.

**`Publication`** is the pipeline of one file. Versions are numbered by their
sequence; a version has one extraction and one work row, as `writeCapturedVersions`
creates them. A segment is the pair of the version that made it and its
ordinal, and holds one chunk. Each action is one transaction, or one external
request taking effect:

| Action | Code |
|---|---|
| `RegisterFileVersions`, `PrepareRootDeletion` | the Go methods of the same name |
| `ClaimDueWork`, `ClaimSuperseded` | `claim_due_work`, whose transaction either hands out the job or supersedes it |
| `LeaseExpires` | five minutes without a heartbeat of `work_lease` |
| `SeedAppend` | `seed_append` (its second transaction, which rechecks the first) |
| `SaveSegmentTurn` | one turn of `transform_native_segments`, through `save_segment_turn` |
| `SaveDecodedSegment`, `CompleteExtraction` | `prepare_decoded_segments`, `complete_extraction` |
| `SendUpsert`, `UpsertLands`, `CheckpointIndex`, `YieldIndex` | the write loop of `publish_extraction` |
| `SendErase`, `EraseLands` | its tombstone branch, with partial deletions |
| `FinishLastTurn`, `FinishIndexTurn`, `PublishHead`, `Return` | `finish_index_turn`, `publish_head`, the end of the attempt |
| `FailAttempt`, `Crash` | the error path of `process_files`, and the end of a process |
| `LateLands` | the search index applying a request nobody waits for |
| `RetireExhaustedWork`, `RetireSegment`, `SweepSegment` | the maintenance loop |

A worker keeps the snapshot `at[w]` of the job it claimed: `cur` and `cnt` are
`index_cursor` and `chunk_count` of that moment, `hi` the end of the batch in
flight. The fences of the code compare this snapshot with the rows, and so do
the guards. `FailAttempt` may happen at any point of an attempt (any external
call can raise) and puts the request the worker waited for into `late`, or
loses it.

Abstractions. Time: `next_attempt_at`, delays and the one-minute age limit of
cleanup are left out, a lease is live or not. The attempt token is the
worker's identity; a worker that claims a row again has given up its earlier
attempt. `check_lease` is not modelled: it only makes an attempt fail earlier.
An attempt that reads its segments before they are retired and sends them
afterwards is the same as one whose request arrives late. Content,
hashes and S3 objects are left out; a transformation produces any number of
chunks up to the bound. `stale_revision` is left out because no code creates a
second extraction of a version. Rows without a `segment_id` are written by no
current path. A replay or a conflict of `RegisterFileVersions` changes nothing.

**`ProviderBatch`** is one batch of requests to the paid batch provider. It has
the `provider_batches` row (`batch`), the transform row of the file (`work`), the
status of the extraction (`phase`), the provider's files and jobs (`uploads`,
`jobs`), the create requests nobody waits for (`late`), and for each worker its
position and the batch row it read (`at`). A worker thread takes one of three
parts:

| Part | Actions | Code |
|---|---|---|
| preparer | `ClaimWork`, `ReadRecorded`, `ClaimBatch`, `PersistNew`, `ReserveBatch`, `FinishPreparation`, `FailAttempt` | `prepare_provider`, `persist_inputs`, `finish_preparation` |
| submitter (of both) | `SkipRefresh`, `RefreshInputs`, `PublishInputs`, `SkipSubmission`, `StartSubmission`, `Create...`, `ClearMarker`, `RecordSubmission`, `JobFound`, `JobNotFound` | `refresh_batch_inputs`, `submit_batch`, `reconcile_submission`, `record_submission` |
| collector | `ClaimDueBatch`, `SourceStands`, `CancelJob`, `AbandonBatch`, `ReserveRetry`, `JobRuns`, `ReadOutput`, `PublishResult` | `claim_due_batch`, `advance_batch`, `reserve_retry`, `collect_batch` |
| cleaner | `ClaimCleanup`, `RemoveUpload`, `CheckpointCleanup` | `claim_cleanup`, `cleanup_provider_files` |

`Release`, `IOFails` and `Crash` end a turn at any point between two
transactions. A crash or a timeout during the create request leaves it in
`late` or loses it; `LateCreate` lets it take effect at any later time.

Abstractions. There is one batch; the other batches of the file appear only in
`AssembleExtraction`, one action for `assemble_extraction`, which may fail the
extraction at any time because of a sibling. Manifests are immutable, so an
input manifest is the index of its upload (`prev` is its "previous" link) and a
result manifest is its set of complete requests. A request succeeds or fails
when the output is read; the vision fallback is part of that choice. An upload
close to its expiry counts as expired. Uploads that no manifest refers to, left
by a preparer that lost its row, are not deleted by the code either: they
expire. In `submit_batch` the update of a batch without a source to 'failed' is
rolled back by the exception raised in the same transaction, so the model
leaves the row alone there.

**`SourceRetention`** is what one root keeps in S3 of its source bytes. Clients
upload packs with signed URLs, in one request or in parts; a capture refers to
them; cleanup retires what no version needs. The state is the `source_objects`
row of each pack with its multipart row (`pack`), the versions with their extents
(`ver`, `head`, `indexed`), the objects and multipart sessions of S3 (`object`,
`session`, `parts`), the URLs given out and the uploads in flight (`url`,
`putting`), the position of each API request (`handler`), and the passes of
cleanup between S3 calls (`swept`).

| Action | Code |
|---|---|
| `SourcePackInit`, `Presign`, `PinSignedSourceUpload` | `handleSourcePackInit`, `pinSignedSourceUpload` |
| `SourcePackComplete`, `ObjectSize`, `MarkComplete` | `handleSourcePackComplete` |
| `MultipartInit`, `CreateUpload`, `PersistUpload`, `ProbeUpload`, `AcceptCompleted` | `handleCaptureMultipartInit` |
| `MultipartPart` (then as above), `MultipartComplete`, `CompleteUpload` | `handleCaptureMultipartPart`, `handleCaptureMultipartComplete` |
| `HandlerFails` | an S3 error, a cancelled request, the end of the process |
| `RegisterFileVersions`, `WorkEnds`, `PrepareRootDeletion` | registration with `authorizeCaptureSources`; the outcome of the pipeline; the root fence |
| `RetireVersion`, `RetirePack`, `AbortSessions`, `DeleteObject`, `CleanupFails` | `cleanup_source_packs` |
| `StartUpload`, `UploadEnds`, `SessionExpires`, `Tick` | S3 and the clock |

Abstractions. Times count down, with one clock for the database and S3. The age
limits of cleanup are left out, so cleanup may come as soon as everything else
allows it. A pack has one uploader; extents are sets of packs without ranges;
the parts of an upload are one flag. Cleanup lists candidates first, but checks
each again in the update under the root lock, so the update alone is the
action. A replayed or refused registration changes nothing. The rows of a root
that is being deleted are not followed further.

**`CaptureClient`** is `pufferfs sync`: it copies what changed into an immutable
spool, uploads the packs, registers the versions and keeps a local head per path.
The server's catalog and its objects (`ver`, `head`, `obj`) are state as well, so that
registration, reuse of extents and cleanup of packs meet the client's disk
(`spool`, `lhead`). The process has its position in `run`; every write to disk and
every request is a step.

| Actions | Code |
|---|---|
| `StartSync`, `RetainCaptureSpools`, `DiscardIncompleteCaptures`, `ResumePending` | the lock, `retainCaptureSpools`, `resumeCaptureJournal` |
| `Scan`, `CreateSpool`, `OpenSource`, `TruncatedSource`, `CopySource`, `PublishJournal` | `planCaptures` and `buildCaptureSpool`: copy with a check for changes under the copy, then rename |
| `ConfirmEarlier`, `InitSourcePack`, `PutSourcePack`, `CompleteSourcePack` | packs uploaded in one request |
| `MultipartIdentity`, `MultipartInit`, `PutPart`, `MultipartComplete` | packs uploaded in parts |
| `RegisterCapture`, `RegisterRetired`, `RegisterConflict` | registration, the rebuild after a retired source, `--force` |
| `SaveHead`, `CompleteCapture`, `Finish` | `saveAcceptedCaptureHeads` and the receipt |
| `Crash`, `AppendFile`, `ReplaceFile`, `RemoveFile`, `OtherCapture`, `RetirePack`, `ExpireSession` | faults and the environment |

A token stands for bytes, digest and modification time; every captured file has a
pack of its own; a lost response is the step of the request with the process stopping
instead of writing.

**`CatalogFollow`** is `sync --follow` against the feed of catalog changes: the file
system events (`follow`), the cached catalog with its cursor and pending paths (`cat`,
`cursor`, `pend`, `stamp`), the sync that holds the lock (`run`), and on the server the
heads, content proofs, the outbox, its revisions, and the denies and the ignore policy
that change what a client may see. `AdvanceCatalogChanges` assigns revisions to
committed outbox rows; `OtherBegin` and `OtherCommit` are another client's transaction,
whose rows appear late. A capture is a journal with one registration here; its uploads
are the subject of `CaptureClient`.

`skipped` records what the code itself leaves to the next full sync, and `NoChangeIsLost`
excepts it. There are three such cases. A sync of a selection (`--include`) takes other
files off the pending paths when it saves the policy. A change of access makes the client
forget its cached catalog, and that this sync has to look at everything is known to
this sync only (`reset` in `capture_catalog_cache.go`): when it fails, edits behind the deny
rule wait for the reconciliation. And when the ignore policy flips and flips back around a
sync that ends between its receipts and `savePolicy`, the next sync of hints finds clean
receipts and passes over files that it sees otherwise than the older policy did; the
comment in `capture_sync.go` that local changes are already in the changed paths does not
hold of them. All three are found by the next reconciliation (`Converges`).

**`Search`** has searches and reads of the API server over an index that workers
change. A row is the row of the one segment a version added. The publication side is
`Capture`, `IndexRows`, `EraseRow`, `Publish`, `RetireSegment`, `SweepSegment`, `SweepLegacy`,
`DeleteRoot` and `SweepRoot`, a coarser view of what `Publication` does. `EraseRow` is the
`delete_by_filter` of a deletion's worker: it takes the file's rows up to the deleted version,
with or without segments, one by one, without a grace, before the deletion is published, and
its request may still land after the file was captured again (`tombs` keeps the versions that
are deletions). Left out are upserts that land late, after the rows were swept or erased: they
only add rows that the catalog rejects, which is what `ObsoleteRowsVanish` is about. A search
is `BeginSearch` (admission), `QueryNamespace`, `CandidatePublications` and `Validate`, once
for each pass; a read is `BeginRead`, `ListSegments`, `ReadPage` (or `ReadLegacy`); `End` is
an answer, an error, a deadline or the death of the server, which may leave the
reservation. `Tick` is 15 seconds: the deadline of a request is 2, a lease 3 and the
grace of a replaced publication 4. `asked` is history: what the search could hope to
find when it last asked. One root, so one namespace and one slot for each search;
fusion, `top_k` and the access filter are applied to exact lists and are left out.
Searches and reads share no state and are not mixed in one instance. The erasure shows in both
properties: `SearchIsExact` does not demand the rows of a file whose deletion was captured
before the search last asked, and `ReadIsWhole` demands all rows only if the file was not deleted
since it was pinned. Such a read ends early and answers with what it has, because
`readSegmentRows` does not compare the rows of a page with its segments; and when the file is
captured again at once, the older publication stays visible without its rows, which is the
finding `prior` seen from the reader.

**`Accounts`** has the users, one organization with its members, invitations and
keys, and the logins. A request reads the caller's identity first and executes its
statements later, between those of others. A login is the code's verification
(`HandleEmailLoginVerify`, `IncrementAttempts`, `ConsumeEmailLoginChallenge`) or the OAuth
callback, then `FindLoginUser` to `FinishLogin`; a member's request is its handler and the
statement it ends in; the platform administrator's are single statements. Hashes,
tokens, OAuth's state and nonce are data. Expiry of keys is left out because no code
sets it. Some things the models show are deliberate in the code and no property
forbids them: an invitation that is revoked between a login's read and its join still
admits the user; two first logins at once may create two personal organizations; a
member who is added again may use his old keys again.

**`Access`** has who may capture into one root, and the deletion of roots, users and
organizations. `CaptureIdentity` is the check before the upload; `LockRoot` to
`ReadDenies` are the statements of the transaction, each taking its row locks, and a
change that needs a locked row waits (`Administration`). The deletion is `PrepareRootDeletion`,
`EraseRows`, `EraseObjects`, `DeleteRoot`, any of which may fail, and `SweepTarget` of the
maintenance loop, while `WriteLands` lets uploads and index writes of workers arrive
afterwards. Memberships of groups and grants survive the removal of a member from the
organization; they give nothing without the membership.

**`MCPublication`**, **`MCProviderBatch`**, **`MCAccounts`** and **`MCSearch`** give constants
their values and define symmetries; the other modules are checked directly.
**`PublicationProofs`**, **`ProviderBatchProofs`**, **`SourceRetentionProofs`**,
**`AccountsProofs`**, **`AccessProofs`**, **`SearchProofs`**, **`CatalogFollowProofs`** and
**`CaptureClientProofs`** hold the proofs.

## Runs

| Run | Instance | Checks |
|---|---|---|
| `retries` | 2 workers, 2 versions, 1 chunk, 2 attempts, 1 late request, root deletion | `PublishedIsSearchable`, `RetiredIsUnreferenced`, `CursorIsConfirmed`, `ImplementsFileHead`, `FinishedIsFinal` |
| `settles` | 1 worker, 2 versions, decoders, fairness | `WorkSettles`, `ObsoleteRowsVanish` |
| `prior` | 1 worker, 3 versions | `PriorStaysSearchable` fails |
| `obsolete` | 1 worker, 2 versions, fairness | `CleanupRemovesObsolete` fails |
| `paid` | 2 workers, 2 requests, 2 attempts, 2 uploads | `OneJobPerAttempt`, `RunningJobKeepsInput`, `NoResultBoughtTwice`, `CleanedLeavesNothing`, `ResultsAccumulate` |
| `batch_settles` | 1 worker, 2 requests, 3 attempts, 3 uploads, 1 expiry, fairness | `BatchSettles`, `EndedIsCleaned` |
| `retention` | 1 API request at a time, a multipart and a plain pack, 2 captures, fairness | `NeededIsReadable`, `SignedUploadIsPinned`, `RetirementIsFinal`, `RetiredVanishes`, `LeftoversRetire` |
| `captures` | 2 files, one in 2 parts, 2 captures, 3 edits, 1 fault, a spool of 3 tokens, fairness | `HeadIsReadable`, `RegisteredOnce`, `SyncedIsCaptured`, `SpoolIsBounded`, `CapturedBytesSurvive`, `PendingSettles` |
| `follow` | a file and a directory with one, 2 edits, 1 foreign version, pages of 1, 1 disturbance, fairness | `TypeOK`, `CacheCatchesUp`, `NoChangeIsLost`, `ProofIsLocal`, `Converges` |
| `search` | 2 files (one legacy), 2 requests, 2 rankings of 1 row, pages of 1, 2 captures, 3 passes | `SearchIsExact`, `ReadIsWhole`, `SearchesFitCapacity` |
| `accounts` | 2 addresses, 2 requests at once, 3 calls, 3 users, 1 key, 1 code, 1 invitation | `TypeOK`, `OwnerRemains`, `CodeBuysOneLogin`, `AuthorityIsGranted` |
| `access` | 1 user, 2 requests at once, 2 administrative changes, 1 fault, fairness | `CommitIsAuthorized`, `DeletedRootVanishes` |

Runs end in states in which nothing is left to do, so deadlock is not checked.

**Bounds.** *Publication*: two workers are enough for one to lose its lease to the other,
two versions for every supersession and for append reuse, three for a deletion between
two publications. Two attempts let one fail and one take over. One late request can
cross any number of later steps, and a second one adds nothing because requests only
write rows. *ProviderBatch*: two workers again let one lose its lease to the other at every
point; two requests let an attempt succeed in part; two attempts let a late request of the
first meet the second, three put two retries behind each other, with an expired upload
between them. *SourceRetention*: the request, cleanup and the clock interleave at every
statement; the second capture reuses the first one's pack or replaces it with the other,
which is what `SourceSets` lists. A second request at the same time or a second file makes the
run too large: that two requests initialize one upload, and that a pack is shared with or handed
to another file, occurs in no run and rests on the theorems `RetiredIsFinal`,
`SourcesStayReadable` and `BytesStayInFamily`, which hold for any of them. `Lifetime` is 1: a renewal and a signature are before or
after a tick. *CaptureClient*: two captures let one be pending while the next is made; four
keys are a pack, its replacement after retirement, and the same for the second capture; the
fault may be of any kind and at any point. *CatalogFollow*: two pages, a batch of one outbox
row and one other client's version make every cursor stop between two changes. *Search*:
with a list of one row, one row of an unpublished or replaced version displaces the
published one; three versions let a file be replaced twice during a request; two captures
go to one file or to both, and a deletion with the recapture over it takes both; pages of one
segment make the read of an appended file take two pages. *Accounts*: two requests interleave at every statement, three calls are two of them
and what the platform does in between. *Access*: two requests at every statement of the
transaction, two changes between them; a third role or user adds only symmetric rows, and
the theorem covers all.

**Fairness.** *Publication* (`FairSpec`): a claim of each version is strongly fair: workers
poll for ever and serve the oldest due row of the least recently served tenant. The steps of
an attempt are weakly fair because its thread runs on; an attempt that lost its row raises and
calls `fail_attempt`. An attempt that is not deferred happens again and again (strong fairness
on `Undeferred`): processes stop now and then only, and `provider_capacity` grants waiters in
turn. The maintenance loop runs every minute, which makes `RetireExhaustedWork` and
`RetireSegment` weakly fair, and the index answers a request it received. `Crash`, failures and
expiries under a live worker are never forced.

*ProviderBatch*: the three claims are strongly fair, the steps of a turn and the abandoned
leases weakly; a job ends and a request in flight arrives. The code retries collection and
cleanup without limit, so it settles a batch once its faults stop for long enough:
`<>[][~Fault]_vars` says that errors, crashes, answers that hide an existing job and leases lost
under a live worker stop in the end. `BatchSettles` has two exceptions that the code makes on
purpose. `Ambiguous`: the create request was lost, its marker is set and no job can be found;
`submit_batch` never pays again on its own. `NeverSealed`: the preparation failed for good
before the request range was sealed, so `reserve_retry` postpones the batch again and again.
Each of them, left out, makes TLC find the batch that waits for ever. The third disjunct, the
bound on uploads, belongs to the instance: histories that use the third upload are not required
to settle, the others are.

*SourceRetention*: time passes, requests and uploads end, and maintenance runs every minute. A
pass may fail at any point; passes are repeated daily for ever, so a deletion that is tried
again and again succeeds at last (strong fairness on `DeleteObject`). Clients owe nothing: no
upload, completion or registration is ever forced.

*CaptureClient*: a started sync makes progress, and the user or the daemon starts another;
faults and edits are bounded, never forced. *CatalogFollow*: the sync, the observer and the
timer of the daemon make progress, the service manager restarts it, another client's
transaction ends. The reconciliation tick waits in its channel while a sync runs, and the
loop's select does not pass it over for ever: it is strongly fair. *Access*: requests end,
writes in flight land, and the maintenance loop comes round to every target.

## Proofs

`PublicationProofs` proves, for all values of the constants that satisfy the two
assumptions of `Publication` (the bounds are naturals, `NoWorker` is no worker):

- `PublishedStaysSearchable`, `CleanupIsSafe`, `CursorIsDurable`: the invariants
  of the run `retries`;
- `TypeCorrect`, and `HeadAdvances`: the published head only moves to the captured
  head of a live root, never back (no run repeats it: it follows from the refinement);
- `OutcomesAreFinal`: the action property of the run;
- `PipelineImplementsFileHead`: the refinement of `FileHead`.

None of the invariants is inductive. The inductive invariant `IInv` adds the
shape of the rows (`Fresh`, `TombShape`, `HeadShape`, `ExtractionShape`), what a
worker's snapshot has to do with them (`Snapshots`: it stays within the
extraction; `OwnersAreCurrent`: while the token is in the row, snapshot and row
agree), and what is known of the index: `AcksHold` (a confirmed batch stays
while its version is pinned and not deleted) and `LateDeletesAreSafe` (a
deletion in flight only reaches rows that a tombstone or a retirement doomed).
The argument for publication: it needs `index_cursor = chunk_count`, so every
segment lies below the cursor; a cursor only moves over a batch the index
confirmed, or over the prefix of the published predecessor, whose own cursor
covers it; and no deletion reaches a segment of a pinned version without a
tombstone after it, because every segment of an extraction was made after the
last tombstone before it (`Made`).

The proofs are organised by what a step does to the rows. `Steps` shows that
every step registers a version, extends one extraction or is quiet; most
conjuncts of `IInv` are then proved from these three cases.

`ProviderBatchProofs` proves, from the two assumptions of `ProviderBatch` (the
bounds are naturals, at least one attempt, finitely many requests and at least
one; `NoWorker` is no worker):

- `ProviderTypeCorrect`: `TypeOK`;
- `PaidOnce`: `OneJobPerAttempt`.

A payment is a job, a create request in flight, or a worker between its marker
and the outcome. `OneJobPerAttempt` speaks of jobs alone and is not inductive.
The invariant `Inv` says that no two payments are for the same attempt (`Unique`)
and that each is covered by the row (`AllCovered`): it is for an earlier attempt,
or for the current one with the marker set. So `StartSubmission`, which needs the
marker unset, starts the only payment of its attempt; `ReserveRetry` opens an
attempt above all payments; and `ClearMarker` may take the marker back, because
the rejected worker's payment was the only one. `Refs` (references lead to
uploads that exist, chains of manifests end) is what the types need.

The second part of the module builds on that invariant and proves

- `InputsOutliveJobs`: `RunningJobKeepsInput`;
- `ResultsBoughtOnce`: `NoResultBoughtTwice`;
- `ResultsAreKept`: the action property `ResultsAccumulate`;
- `CleanupIsComplete`: `CleanedLeavesNothing`.

None of them is inductive, because each relates the row to what was read from it one or more
statements ago. The invariant `Extra` adds what the code relies on when it goes on: a worker with
a live lease uses the row as it is (`Agrees`); the row has the job of its attempt, and its input
asks for what it lacks (`RowHolds`); payments are for the open attempt and its input
(`PaymentsHold`); what a worker carries besides the row belongs to it (`WorkersHold`); and files
are deleted only once nothing is paid for any more (`CleaningIsDue`). A retry opens an attempt when
the job of the last one has ended, and by `Unique` that job was its only payment, so nothing is
open (`EndedIsPaid`); an input is replaced only while the marker is unset, so nothing was paid
(`UnmarkedIsUnpaid`). `Steps` says once, action by action, what a turn may do to its worker, to the
lease, to the row and to files and jobs; the conjuncts follow from that. For cleanup, `WalkedTo` says
that some set of settled manifests leads from the newest input down to the cursor, and
`CursorsMove` that a cleaner at its checkpoint either stands still or leaves a settled manifest;
`RowStays` is why this survives other workers: the inputs of a batch that ended do not change.
`Chain`, the least set closed under predecessors, is inside every such walk once the cursor
reaches the end.

`SourceRetentionProofs` proves, from the assumptions of `SourceRetention` (there is a
pack, the bounds are naturals, a lifetime is at least one tick):

- `SourcesStayReadable`, `SignedUploadsArePinned`: the invariants of the run;
- `RetentionTypeCorrect`, and `BytesStayInFamily`: a version's packs hold bytes
  captured for its own file (no run repeats these two);
- `RetiredIsFinal`: the action property of the run.

`NeededIsReadable` relates versions to S3, and every link between them can be cut
by a step of somebody else, so `IInv` names the links. `Kept`: a version that is
not retired refers to complete packs that are not retired, and a retired version
is neither the head nor published, and its work is done. `Stored`: the object of
a complete pack is there until the pack is retired; the same holds for a handler
that saw the object and did not commit yet; and a cleanup pass that is about to
delete belongs to a retired pack. `Pins`: no URL outlives `authorized_until`, and
a retired pack has no time left. `Written`: versions are written in the order of
captures, which `BytesComeFromOwnFile` needs. `PackSteps` and `StoreSteps` say once,
action by action, what a step may do to a pack and to S3; the conjuncts of `IInv`
follow from them.

`AccountsProofs` proves, from the assumption of `Accounts` (finite or infinite sets of addresses
and requests, natural bounds): `TypeCorrect`, `TeamKeepsOwner`, `CodesAreSpentOnce` and
`RolesAreGranted`, the four properties of the run. The inductive invariant adds to them what a
request carries from one statement to the next (`RequestsOK`: a role that it is about to grant was
in the gift of somebody who was an owner), that a code is redeemed exactly when it is marked
(`CodesOK`), and that whoever is an owner is recorded as one (`OwnersRecorded`). `OwnerRemains`
holds because `change_org_member` locks all members first: the role of the actor is the current
one, so that an owner who changes somebody else is still an owner afterwards, nobody changes his
own role, and an administrator touches no privileged one.

`AccessProofs` proves, from the assumption of `Access` (the constants are of their kinds):
`TypeCorrect`, and `CapturesAreAuthorized`, which is `CommitIsAuthorized` for any users, requests
and changes. The inductive invariant `ReadsStand` says, for each position of the transaction,
that what its statements have read so far still stands; each administrative change keeps it
because it either needs a row the transaction has locked or only adds rights.

`SearchProofs` proves, from the assumption of `Search` (finitely many files and requests; a
request's deadline is shorter than a lease and than the grace of a replaced publication):
`TypeCorrect`, `SearchExact`, `ReadWhole` and `SearchesFit`, the three properties of the run for
any number of files, versions, requests, segments per page, rankings and list lengths. The
inductive invariant `SearchInv` is made of what holds of the catalog (`CatalogOK`), of its
deletions (`TombsOK`: the versions captured after a deletion have only segments that are newer
than it, because an append continues only the version just before it) and of the index
(`IndexOK`: the published and the captured extraction are not retired, and their rows are there
unless the file was deleted after them), and of each request. An erasure, however late, therefore
spares every version that no deletion follows (`EraseSpares`). `PinOK` carries the argument about time: a pinned publication is the published
one, or was replaced since the request began, so that the file was idle for no longer than the
request is old; `RetireSegment` needs the file to be idle for longer than any request lives.
`ListsOK` says that exclusions spare pinned publications, `Outranked` that what was asked for
and is missing is outranked. The latter rests on `BestOutranks`: a row that is not among the
best of a finite set is preceded by `Limit` of the best, by a minimal counterexample.
`PagesOK` says what a read has up to its cursor while nothing was erased under it; `LeaseOK` that a search's reservation is as
old as the search.

`CatalogFollowProofs` proves, from the assumption of `CatalogFollow` (natural bounds, positive
sizes of a page and of a batch, and sets of files that are files): `TypeCorrect`,
`FeedSkipsNothing`, `ProofsAreLocal` and `ChangesAreRemembered`, the four invariants of the run,
for any number of files, edits, foreign versions, disturbances, deny rules and selections. It
begins with what the model counts: a finite set of numbers listed by rank (`InOrder`), what
a batch of outbox rows takes and leaves (`AdvanceFacts`), where a page of changes stops
(`PageFacts`), and what a mark does to the hints (`MarkFacts`). `Steps` then says once what a step
does: the event loop goes on and keeps its hints, a sync ends or starts, a file changes, another
actor of the catalog acts, or a sync makes one of its steps. Each part of the invariant
`FollowInv` is proved from that list. `FeedOK` is the argument for the feed: whatever the cached
catalog does not show is in a committed row or above the cursor, a revision given to a row is
above every cursor, and a full page stops at its own last change, so nothing is below the cursor
unseen. `FreshOK` says that a sync which has read the last page knows the catalog's state of
every file whose receipt is the head's; the feed therefore has to be drained before discovery.
`HintsOK` is the argument for `NoChangeIsLost`, one conjunct for each place where the knowledge of a
difference can be: `Known` when no sync would look at the file because of the catalog, `PassedOver` and
`TakenForRemoved` between discovery and its end, `Journaled` and `Captured` between the copy of a file
and its receipt. A file that has no hint was the same before the step, because hints are only
dropped when a sync takes them, and a sync that fails gives them back; so every step moves the
knowledge from one conjunct to the next, and `savePolicy` clears pending paths only when each
of them is covered by the plan, by a clean receipt, or by `skipped`.

`CaptureClientProofs` proves, from the assumption of `CaptureClient` (natural bounds, large
files that are files, at least one part): `TypeCorrect`, `CapturesRegisterOnce`,
`CapturedHeadsAreReadable`, `SpoolStaysBounded`, `SyncsCapture` and the action property `CapturedBytesStay`, for
any number of files, captures, keys, edits, crashes, lost responses and retired packs. Its
invariant `Inv` (`ClientInvariant`) has two halves. `BaseInv` relates the running sync, the
journals and the versions: where the sync is says what the spool it works on is (`RunOK`), a
version and the spool it came from agree (`VersionsOK`), a file has one version of a capture
(`Once`), and a capture is registered as a whole, so that a receipt in the journal names its
version (`AllReceiptsOK`). `KeyInv` relates packs and objects. No two packs share a key
(`OwnersOK`), so an upload that is retried, even one that was confirmed without the answer, can
only meet its own bytes (`PacksStored`). An object that is complete or retired never changes its bytes,
so the extents an append reuses, those of local heads and those of versions stay what they
were (`SpoolsReadable`, `HeadsMatch`, `VersionsReadable`), and what a captured head needs stays
complete (`NeededStands`). `UploadMove` says once what the requests of an upload do, `KeyChange` and
`GoodChange` what a journal may become, and `Grown` what a registration does to the log of versions;
the proof of each action refers to these. What the model computes with sequences (the
concatenation of extents by `FlattenSeq`, the listing of a batch by `SetToSeq`, the next file by
`Min`) has lemmas of its own, proved by taking a smallest counterexample, since induction theorems with
an operator parameter cannot be used. For the limit of the spool, `PackTokens` counts the
bytes on disk as a set, and `Bounded`, that it is finite and within the limit, is inductive.
`SyncsCapture` proves `SyncedIsCaptured` with a second invariant over `Inv`, `SyncInv`, about one sync.
`PlanOK`: from the scan to the end, a file that stood still is captured as it is, or is still in the plan, or
is in the batch that is being uploaded. `CopyOK`: the batch holds such a file as it is on the disk once
it was copied. `UploadOK`: a batch of this sync was never registered before, so its registration makes
its copies the heads; a replay would leave the heads of some later version.

Only model-checked: all liveness properties, since TLAPS has no `ENABLED` and no
fairness reasoning here, and the two violations. Every invariant and every action property that a
passing run checks is also a theorem.

## Findings

- `prior`: a tombstone erases the rows of the published version before it is
  published. When the file is captured again at that moment, the tombstone is
  superseded and the old version stays published without its rows, although
  `docs/api-reference.md` says that it stays searchable.
- `obsolete`: `cleanup_segments` takes failed work for a live reference, so rows
  that a failed version wrote are never removed, although
  `docs/architecture-and-functionality.md` says cleanup removes them.

## Not modelled

- File formats (parsers, media, tables): pure data, abstracted to a number of chunks.
- Several batches of one file: `ProviderBatch` follows one; the others appear as the choices
  of `AssembleExtraction`.
- The budget of embedding tokens (one SQL function over a sliding minute): a refused
  reservation is a search that ends, or an attempt that is deferred.
- Fusion of ranked lists, `top_k`, several namespaces and the access filter of a search.
- Rows without segments outside of `Search`: no current path writes them. Publications of
  that format have no grace period, so a read or search of one that is replaced meanwhile may
  miss rows; the properties of `Search` leave them out, as they do a root under deletion and, for
  completeness, a file that was deleted meanwhile.
- File system notifications themselves (an event is a hint that may come late), progress
  output, billing, analytics, HTTP decoding, self-update and set-up commands.

## Plan

Done: all modules above, with the proofs of eight of them. What a next step would add:

1. assembly of several batches of one file, in place of the abstract action;
2. the budget of provider capacity and its waiters.

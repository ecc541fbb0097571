--------------------------- MODULE CatalogFollow ---------------------------
(***************************************************************************)
(* "pufferfs sync --follow" and the catalog change feed it reads.  A daemon *)
(* turns file system events into path hints, and each of its syncs looks at *)
(* the hinted paths and at the paths the server's feed reports, never at    *)
(* the whole root unless something asks for it.  The feed numbers committed *)
(* changes; the client keeps a cached catalog, a cursor and the paths whose *)
(* change it has fetched and not yet synced.                                *)
(*                                                                         *)
(* A file's content is a token, 0 when it is missing: local edits make the  *)
(* tokens up to MaxEdits, Foreign is what another client captures.  Uploads *)
(* are the subject of CaptureClient; here a capture is a journal with one   *)
(* registration.  Path Dir is a directory that holds the files of InDir.    *)
(***************************************************************************)
EXTENDS Integers, Sequences, FiniteSets

CONSTANTS
    NumFiles, InDir,    \* paths of the root, and those below the directory
    Hidden,             \* the files the other ignore policy hides
    Deniable,           \* the files a deny rule may cover
    Shared,             \* the files another client captures as well
    Selections,         \* the selections a user syncs beside the daemon
    PageLimit,          \* changes per response (500)
    OutboxBatch,        \* outbox rows per revision assignment (2000)
    MaxMarks,           \* maxFollowChangedPaths
    MaxSameFailures,    \* --max-same-failures
    MaxEdits,           \* bound: local edits
    MaxOther,           \* bound: versions of another client
    MaxFaults           \* bound: lost requests, crashes, watcher errors, subset
                        \* syncs, and changes of access and policy

Files == 1..NumFiles
Dir == 0
Paths == Files \cup {Dir}
Foreign == MaxEdits + 1

ASSUME CatalogFollowAssumption ==
    /\ {NumFiles, PageLimit, OutboxBatch, MaxMarks, MaxSameFailures, MaxEdits,
        MaxOther, MaxFaults} \subseteq Nat
    /\ PageLimit > 0 /\ OutboxBatch > 0 /\ MaxEdits > 0
    /\ InDir \cup Hidden \cup Deniable \cup Shared \subseteq Files /\ Selections \subseteq SUBSET Files

VARIABLES
    disk, dir,      \* the local files, and whether the directory exists and is watched
    follow,         \* the daemon: its event queue, hints, timer and failures
    run,            \* the sync that holds the lock of the cache directory, in memory
    head, proof,    \* file_catalog.captured_version_id; file_content_proofs of this user
    tx,             \* the uncommitted capture of another client; it has the root lock
    outbox,         \* catalog_change_outbox, in the order of its ids
    rev, chg,       \* catalog_change_state and catalog_file_changes
    denied, policy, \* root_acls of this user; the ignore policy
    cat, cursor, pend, stamp,   \* remote-catalog.db: files, cursor, pending, policy
    lhead, jour,    \* the local heads; the pending capture
    skipped,        \* history: changes that a sync of a selection, or a capture under
                    \* another policy, left to the next full one
    edits, others, faults

local == <<disk, dir>>
catalog == <<head, proof, tx, outbox, rev, chg, denied, policy>>
cached == <<cat, cursor, pend, stamp>>
captures == <<lhead, jour, skipped>>
bounds == <<edits, others, faults>>
vars == <<local, follow, run, catalog, cached, captures, bounds>>

Content == 0..Foreign
Version == [seq: Nat, content: Content]
Fetched == [seq: Nat, content: Content, proved: BOOLEAN]
Cursor == [set: BOOLEAN, access: SUBSET Files, rev: Nat]
LocalHead == [seq: Nat, content: Content, dirty: BOOLEAN]
Journal == [files: SUBSET Files, prev: [Files -> Nat], content: [Files -> Content],
            dirty: SUBSET Files, accepted: [Files -> Nat],
            policy: {0, 1}]     \* history: the policy of the sync that made it
Keys == {"", "busy", "network", "conflict", "vanished", "forbidden", "stale proof", "reset"}
Follow == [on: BOOLEAN, events: SUBSET Paths, installing: BOOLEAN,
           full: BOOLEAN, paths: SUBSET Paths, due: BOOLEAN,
           key: Keys, same: Nat]
Run == [pc: {"off", "register", "proofs", "refresh", "page", "scan",
             "prove", "spool", "finish"},
        daemon: BOOLEAN, select: SUBSET Files, full: BOOLEAN, paths: SUBSET Paths,
        policy: {0, 1}, reset: BOOLEAN, changed: SUBSET Files, fresh: BOOLEAN,
        access: SUBSET Files, rev: Nat, more: BOOLEAN,
        scope: SUBSET Files, verified: SUBSET Files, plan: SUBSET Files,
        seen: [Files -> Content], dirty: SUBSET Files]

TypeOK ==
    /\ disk \in [Files -> Content] /\ dir \in {"none", "new", "watched"}
    /\ follow \in Follow /\ run \in Run
    /\ head \in [Files -> Version] /\ proof \in [Files -> Version]
    /\ tx \in Files \cup {0} /\ outbox \in Seq([file: Files, content: Content, done: BOOLEAN])
    /\ rev \in Nat /\ chg \in [Files -> 0..rev]
    /\ denied \in SUBSET Deniable /\ policy \in {0, 1}
    /\ cat \in [Files -> Fetched] /\ cursor \in Cursor /\ pend \in SUBSET Files /\ stamp \in {0, 1, 2}
    /\ lhead \in [Files -> LocalHead] /\ jour \in Journal
    /\ skipped \in SUBSET Files /\ edits \in 0..MaxEdits /\ others \in 0..MaxOther /\ faults \in 0..MaxFaults

----------------------------------------------------------------------------

Each(value) == [f \in Files |-> value]
NoVersion == [seq |-> 0, content |-> 0]
NotFetched == [seq |-> 0, content |-> 0, proved |-> FALSE]
NoCursor == [set |-> FALSE, access |-> {}, rev |-> 0]
NoJournal == [files |-> {}, prev |-> Each(0), content |-> Each(0), dirty |-> {}, accepted |-> Each(0),
              policy |-> 0]
Stopped == [on |-> FALSE, events |-> {}, installing |-> FALSE, full |-> FALSE, paths |-> {},
            due |-> FALSE, key |-> "", same |-> 0]
Off == [pc |-> "off", daemon |-> FALSE, select |-> {}, full |-> FALSE, paths |-> {}, policy |-> 0,
        reset |-> FALSE, changed |-> {}, fresh |-> FALSE, access |-> {}, rev |-> 0, more |-> FALSE,
        scope |-> {}, verified |-> {}, plan |-> {}, seen |-> Each(0), dirty |-> {}]

Init ==
    /\ disk = [f \in Files |-> IF f \in InDir THEN 0 ELSE 1] /\ dir = "none"
    /\ follow = Stopped /\ run = Off
    /\ head = Each(NoVersion) /\ proof = Each(NoVersion) /\ tx = 0 /\ outbox = <<>>
    /\ rev = 0 /\ chg = Each(0) /\ denied = {} /\ policy = 0
    /\ cat = Each(NotFetched) /\ cursor = NoCursor /\ pend = {} /\ stamp = 2
    /\ lhead = Each([seq |-> 0, content |-> 0, dirty |-> FALSE]) /\ jour = NoJournal
    /\ skipped = {} /\ edits = 1 /\ others = 0 /\ faults = 0

Fault == faults < MaxFaults /\ faults' = faults + 1 /\ UNCHANGED <<edits, others>>
Below(paths) == (paths \cap Files) \cup (IF Dir \in paths THEN InDir ELSE {})
Ignored(p) == IF p = 1 THEN Hidden ELSE {}
Visible(f, p) == IF f \in Ignored(p) THEN 0 ELSE disk[f]

----------------------------------------------------------------------------
(* The user's files and the other actors of the catalog.                   *)

Watched(f) == follow.on /\ (f \in InDir => dir = "watched")

Edit(f, content) ==
    /\ edits < MaxEdits /\ edits' = edits + 1 /\ (f \in InDir => dir # "none")
    /\ content # disk[f] /\ disk' = [disk EXCEPT ![f] = content]
    /\ follow' = [follow EXCEPT !.events = IF Watched(f) THEN @ \cup {f} ELSE @]
    /\ UNCHANGED <<dir, run, catalog, cached, captures, others, faults>>

MakeDir ==
    /\ dir = "none" /\ dir' = "new"
    /\ follow' = [follow EXCEPT !.events = IF follow.on THEN @ \cup {Dir} ELSE @]
    /\ UNCHANGED <<disk, run, catalog, cached, captures, bounds>>

\* A set of numbers from the least to the greatest, each at its rank.
InOrder(S) == [n \in 1..Cardinality(S) |-> CHOOSE i \in S : Cardinality({j \in S : j <= i}) = n]

Row(f) == [file |-> f, content |-> 0, done |-> TRUE]
Rows(files) == [n \in 1..Cardinality(files) |-> Row(InOrder(files)[n])]

\* Its outbox row has an id before the transaction commits.
OtherBegin(f) ==
    /\ tx = 0 /\ others < MaxOther /\ others' = others + 1
    /\ \E content \in {Foreign, disk[f]} \ {head[f].content} :
         outbox' = Append(outbox, [file |-> f, content |-> content, done |-> FALSE])
    /\ tx' = f
    /\ UNCHANGED <<local, follow, run, head, proof, rev, chg, denied, policy, cached, captures, edits, faults>>

OtherCommit ==
    LET i == CHOOSE i \in DOMAIN outbox : ~outbox[i].done IN
    /\ tx # 0 /\ tx' = 0
    /\ head' = [head EXCEPT ![tx] = [seq |-> @.seq + 1, content |-> outbox[i].content]]
    /\ outbox' = [outbox EXCEPT ![i] = Row(tx)]
    /\ UNCHANGED <<local, follow, run, proof, rev, chg, denied, policy, cached, captures, bounds>>

\* Denies are written under the root lock.
SetAccess ==
    /\ Fault /\ tx = 0 /\ \E d \in SUBSET Deniable \ {denied} : denied' = d
    /\ UNCHANGED <<local, follow, run, head, proof, tx, outbox, rev, chg, policy, cached, captures>>

SetPolicy ==
    /\ Fault /\ policy' = 1 - policy
    /\ UNCHANGED <<local, follow, run, head, proof, tx, outbox, rev, chg, denied, cached, captures>>

----------------------------------------------------------------------------
(* advanceCatalogChanges: committed rows get revisions, at most a batch.    *)

Committed == {i \in DOMAIN outbox : outbox[i].done}
Consumed == {i \in Committed : Cardinality({j \in Committed : j <= i}) <= OutboxBatch}
Remaining == LET kept == InOrder(DOMAIN outbox \ Consumed) IN [n \in DOMAIN kept |-> outbox[kept[n]]]
ChangedFiles == {outbox[i].file : i \in Consumed}

\* Mutant of Ordinal: revisions start one too high.
OrdinalAhead(f) == Cardinality({g \in ChangedFiles : g <= f}) + 1

Ordinal(f) == Cardinality({g \in ChangedFiles : g <= f})

Revision(f) == IF f \in ChangedFiles THEN rev + Ordinal(f) ELSE chg[f]

AdvanceCatalogChanges ==
    /\ outbox' = Remaining
    /\ chg' = [f \in Files |-> Revision(f)]
    /\ rev' = rev + Cardinality(ChangedFiles)

\* Another reader of the feed.
OtherReader ==
    /\ Consumed # {} /\ AdvanceCatalogChanges /\ Fault
    /\ UNCHANGED <<local, follow, run, head, proof, tx, denied, policy, cached, captures>>

----------------------------------------------------------------------------
(* The daemon: hints, timer and failures.                                   *)

\* Mutant of Noticed: the notice starts no timer.
NoticedOnly(state) == state.due

\* A hint leaves a notice, which starts the timer unless it is running already: a
\* sync is due.
Noticed(state) == TRUE

\* mark: full swallows the paths, and so does too long a list of them.
Mark(state, full, paths) ==
    LET all == state.paths \cup paths
        overflow == full \/ state.full \/ Cardinality(all) > MaxMarks
    IN [state EXCEPT !.full = overflow, !.paths = IF overflow THEN {} ELSE all, !.due = Noticed(state)]

Unwatched == IF dir = "watched" THEN "new" ELSE dir
Repaired == IF dir = "new" THEN "watched" ELSE dir      \* addWatchDirs

\* Watching starts before the initial scan.
StartFollow ==
    /\ ~follow.on
    /\ follow' = [Mark(Stopped, TRUE, {}) EXCEPT !.on = TRUE, !.due = TRUE]
    /\ dir' = Repaired
    /\ UNCHANGED <<disk, run, catalog, cached, captures, bounds>>

\* observe: the watches of a new directory come before its hint; when they fail, and
\* when the queue of events overflows, everything is looked at.
Observe(p) ==
    /\ p \in follow.events /\ ~follow.installing
    /\ LET seen == [follow EXCEPT !.events = @ \ {p}] IN
       \/ p # Dir /\ follow' = Mark(seen, FALSE, {p}) /\ UNCHANGED <<dir, bounds>>
       \/ p = Dir /\ dir' = "watched" /\ follow' = [seen EXCEPT !.installing = TRUE] /\ UNCHANGED bounds
       \/ p = Dir /\ follow' = Mark(seen, TRUE, {}) /\ Fault /\ UNCHANGED dir
    /\ UNCHANGED <<disk, run, catalog, cached, captures>>

ObserveInstalled ==
    /\ follow.installing
    /\ follow' = [Mark(follow, FALSE, {Dir}) EXCEPT !.installing = FALSE]
    /\ UNCHANGED <<local, run, catalog, cached, captures, bounds>>

WatcherError ==
    /\ follow.on /\ ~follow.installing /\ Fault
    /\ follow' = [Mark(follow, TRUE, {}) EXCEPT !.events = {}]
    /\ UNCHANGED <<local, run, catalog, cached, captures>>

Looping == follow.on /\ ~(run.pc # "off" /\ run.daemon)

\* The metadata ticker marks no path and the reconcile ticker all of them.
Tick(full) ==
    /\ Looping /\ follow' = Mark(follow, full, {})
    /\ UNCHANGED <<local, run, catalog, cached, captures, bounds>>

Permanent == {"forbidden", "stale proof", "reset"}
SameCount(key) == IF follow.key = key THEN follow.same + 1 ELSE 1

\* The hints of a failed sync are marked again before the delay.
Retried(state, full, paths) == Mark(state, full, paths)

\* runFollowSync after an error: exit on a permanent one, and when the same one keeps
\* coming, by count or by time; else try again.
Failed(state, watches, key, full, paths) ==
    \/ /\ key \in Permanent \/ SameCount(key) >= MaxSameFailures \/ SameCount(key) > 1
       /\ follow' = Stopped /\ dir' = Unwatched
    \/ /\ key \notin Permanent /\ SameCount(key) < MaxSameFailures
       /\ follow' = [Retried(state, full, paths) EXCEPT !.key = key, !.same = SameCount(key)]
       /\ dir' = watches

Begin(daemon, select, full, paths) ==
    run' = [Off EXCEPT !.pc = IF jour.files = {} THEN "refresh" ELSE "register", !.daemon = daemon, !.select = select, !.full = full,
                       !.paths = paths, !.policy = policy]

\* The timer fires: take the hints; a full set repairs the watches.
Fire ==
    LET taken == [follow EXCEPT !.due = FALSE, !.full = FALSE, !.paths = {}]
        watches == IF follow.full THEN Repaired ELSE dir IN
    /\ Looping /\ follow.due
    /\ \/ /\ run.pc = "off" /\ follow' = taken
          /\ dir' = watches
          /\ Begin(TRUE, Files, follow.full, follow.paths)
       \/ /\ run.pc # "off" /\ Failed(taken, watches, "busy", follow.full, follow.paths)
          /\ UNCHANGED run
    /\ UNCHANGED <<disk, catalog, cached, captures, bounds>>

\* A user syncs the whole root or --include'd files beside the daemon.
UserSync(select) ==
    /\ run.pc = "off" /\ Fault /\ Begin(FALSE, select, TRUE, {})
    /\ UNCHANGED <<local, follow, catalog, cached, captures>>

\* The sync ends with an error, in its own process or in the daemon's.
Fail(key) ==
    /\ run' = Off
    /\ IF run.daemon THEN Failed(follow, dir, key, run.full, run.paths) ELSE UNCHANGED <<follow, dir>>

LoseRequest ==
    /\ run.pc \in {"register", "proofs", "refresh", "page", "prove"} /\ Fault
    /\ Fail("network")
    /\ UNCHANGED <<disk, catalog, cached, captures>>

Crash ==
    /\ Fault
    /\ \/ run.pc # "off" /\ ~run.daemon /\ run' = Off /\ UNCHANGED <<follow, dir>>
       \/ follow.on /\ follow' = Stopped /\ dir' = Unwatched
          /\ run' = IF run.daemon THEN Off ELSE run
    /\ UNCHANGED <<disk, catalog, cached, captures>>

----------------------------------------------------------------------------
(* A sync: pending captures first, then the feed, then the files.           *)

Conflicts == \E f \in jour.files : jour.accepted[f] = 0 /\ head[f].seq # jour.prev[f]

\* RegisterFileVersions, under the root lock.  accepted is what the server knows of
\* this capture; the journal says so when the proofs are recorded as well.
Register ==
    LET new == {f \in jour.files : jour.accepted[f] = 0} IN
    /\ run.pc = "register" /\ tx = 0
    /\ \/ /\ jour.files \cap denied # {} /\ Fail("forbidden")
          /\ UNCHANGED <<catalog, captures>>
       \/ /\ jour.files \cap denied = {} /\ Conflicts /\ Fail("conflict")
          /\ UNCHANGED <<catalog, captures>>
       \/ /\ jour.files \cap denied = {} /\ ~Conflicts
          /\ head' = [f \in Files |-> IF f \in new
                        THEN [seq |-> head[f].seq + 1, content |-> jour.content[f]] ELSE head[f]]
          /\ outbox' = outbox \o Rows(new)
          /\ jour' = [jour EXCEPT !.accepted = [f \in Files |-> IF f \in new THEN head'[f].seq ELSE @[f]]]
          /\ run' = [run EXCEPT !.pc = "proofs"]
          /\ UNCHANGED <<proof, tx, rev, chg, denied, policy, lhead, skipped, follow, dir>>
    /\ UNCHANGED <<disk, cached, bounds>>

\* The proof's trigger appends rows of its own, without the root lock.
Prove(files, version) ==
    LET new == {f \in files : proof[f].seq < version[f].seq} IN
    /\ proof' = [f \in Files |-> IF f \in new THEN version[f] ELSE proof[f]]
    /\ outbox' = outbox \o Rows(new)

\* A policy and the one of the last complete sync disagree about a file.  When the
\* sync of a capture or a proof ends before savePolicy, and the next one sees the older
\* policy again, the local head is clean and nothing looks at the file.
OtherwiseIgnored(f, p) == (f \in Ignored(p)) # (f \in Ignored(stamp))

\* RecordCapturedProofs, then the local heads and the end of the journal.
RecordCapturedProofs ==
    /\ run.pc = "proofs"
    /\ Prove(jour.files, [f \in Files |-> [seq |-> jour.accepted[f], content |-> jour.content[f]]])
    /\ lhead' = [f \in Files |-> IF f \in jour.files /\ lhead[f].seq < jour.accepted[f]
                   THEN [seq |-> jour.accepted[f], content |-> jour.content[f], dirty |-> f \in jour.dirty]
                   ELSE lhead[f]]
    /\ jour' = NoJournal
    /\ skipped' = skipped \cup {f \in jour.files : OtherwiseIgnored(f, jour.policy)}
    /\ run' = [run EXCEPT !.pc = IF run.fresh THEN "finish" ELSE "refresh", !.dirty = @ \cup jour.dirty]
    /\ UNCHANGED <<local, follow, head, tx, rev, chg, denied, policy, cached, bounds>>

\* The cursor carries the access it was made with; a change of access starts over.
\* Only this sync knows that: when it fails, what was edited behind a deny rule waits
\* for the next full one.
CatalogReset ==
    /\ run.pc = "refresh" /\ cursor.set /\ cursor.access # denied
    /\ IF run.reset THEN Fail("reset") /\ UNCHANGED <<cached, skipped>>
       ELSE /\ cat' = Each(NotFetched) /\ cursor' = NoCursor /\ pend' = {}
            /\ run' = [run EXCEPT !.reset = TRUE, !.changed = {}]
            /\ skipped' = skipped \cup cursor.access
            /\ UNCHANGED <<stamp, follow, dir>>
    /\ UNCHANGED <<disk, catalog, lhead, jour, bounds>>

CatalogRequest ==
    /\ run.pc = "refresh" /\ ~(cursor.set /\ cursor.access # denied)
    /\ AdvanceCatalogChanges
    /\ run' = [run EXCEPT !.pc = "page", !.access = denied, !.rev = rev',
                          !.more = \E i \in DOMAIN outbox' : outbox'[i].done,
                          !.changed = @ \cup pend]
    /\ UNCHANGED <<local, follow, head, proof, tx, denied, policy, cached, captures, bounds>>

InRange == {f \in Files : head[f].seq # 0 /\ cursor.rev < chg[f] /\ chg[f] <= run.rev}
Page == {f \in InRange : Cardinality({g \in InRange : chg[g] < chg[f]}) < PageLimit}

\* Mutant of PageCursor: the cursor moves to the end of the range.
PageCursorEnd == run.rev

\* A full page ends at its last change, filtered ones included.
PageCursor == IF Page = InRange THEN run.rev ELSE chg[CHOOSE f \in Page : \A g \in Page : chg[g] <= chg[f]]

Current(f) == [seq |-> head[f].seq, content |-> head[f].content, proved |-> proof[f] = head[f]]

\* Mutant of Kept: fetched paths are remembered in memory only.
KeptInMemory(page) == pend

\* Fetching metadata is not a completed sync.
Kept(page) == pend \cup page

\* The page is read later than its revision, and saved with its cursor.
CatalogPage ==
    LET page == Page \ run.access IN
    /\ run.pc = "page"
    /\ cat' = [f \in Files |-> IF f \in page THEN Current(f) ELSE cat[f]]
    /\ pend' = Kept(page)
    /\ cursor' = [set |-> TRUE, access |-> run.access, rev |-> PageCursor]
    /\ run' = [run EXCEPT !.changed = @ \cup page, !.pc =
                 IF run.more \/ Page # InRange THEN "refresh" ELSE "scan",
                 !.access = {}, !.rev = 0, !.more = FALSE]
    /\ UNCHANGED <<local, follow, catalog, stamp, captures, bounds>>

\* Versions of our own need no visit when their receipts are clean.
Unclean(f) ==
    /\ cat[f].seq # 0
    /\ \/ lhead[f].seq # cat[f].seq \/ lhead[f].dirty
       \/ cat[f].content # 0 /\ ~cat[f].proved

Cached(f) ==
    /\ lhead[f].seq = cat[f].seq /\ cat[f].proved /\ ~lhead[f].dirty
    /\ lhead[f].content = cat[f].content /\ lhead[f].content = disk[f]

\* Mutant of Verified: the hash of the catalog counts as evidence.
VerifiedRemotely(f) == cat[f].content # 0

\* hashCapturedFile: the local bytes are those of the captured version.
Verified(f) == cat[f].content # 0 /\ disk[f] = cat[f].content

PolicyChanged == stamp # run.policy

Scan ==
    LET full == run.full \/ run.reset \/ PolicyChanged
        scope == IF full THEN Files ELSE Below(run.paths \cup {f \in run.changed : Unclean(f)})
        candidates == {f \in scope \cap run.select : Visible(f, run.policy) # 0 /\ ~Cached(f)}
        verified == {f \in candidates : Verified(f)}
        removed == {f \in scope \cap run.select : cat[f].content # 0 /\ Visible(f, run.policy) = 0} IN
    /\ run.pc = "scan"
    /\ run' = [run EXCEPT !.pc = IF verified # {} THEN "prove"
                                 ELSE IF candidates \cup removed # {} THEN "spool" ELSE "finish", !.scope = scope, !.verified = verified,
                          !.plan = (candidates \ verified) \cup removed,
                          !.seen = [f \in Files |-> IF f \in candidates \ verified THEN disk[f] ELSE 0]]
    /\ UNCHANGED <<local, follow, catalog, cached, captures, bounds>>

\* bootstrapCapturedProofs: one stale member refuses them all.
BootstrapProofs ==
    LET asked == {f \in run.verified : ~cat[f].proved} IN
    /\ run.pc = "prove" /\ (asked # {} => tx = 0)
    /\ \/ /\ \E f \in asked : head[f].seq # cat[f].seq \/ f \in denied
          /\ Fail("stale proof") /\ UNCHANGED <<proof, outbox, lhead, skipped>>
       \/ /\ \A f \in asked : head[f].seq = cat[f].seq /\ f \notin denied
          /\ Prove(asked, [f \in Files |-> [seq |-> cat[f].seq, content |-> cat[f].content]])
          /\ lhead' = [f \in Files |-> IF f \in run.verified /\ lhead[f].seq <= cat[f].seq
                         THEN [seq |-> cat[f].seq, content |-> cat[f].content, dirty |-> FALSE]
                         ELSE lhead[f]]
          /\ skipped' = skipped \cup {f \in run.verified : OtherwiseIgnored(f, run.policy)}
          /\ run' = [run EXCEPT !.pc = IF run.plan = {} THEN "finish" ELSE "spool", !.verified = {}]
          /\ UNCHANGED <<follow, dir>>
    /\ UNCHANGED <<disk, head, tx, rev, chg, denied, policy, cached, jour, bounds>>

\* createCaptureSpool: a file that changes while it is copied is dirty; one that is
\* gone ends the sync.
Spool ==
    LET gone == {f \in run.plan : run.seen[f] # 0 /\ disk[f] = 0}
        moved == {f \in run.plan : run.seen[f] # 0 /\ disk[f] # run.seen[f]} IN
    /\ run.pc = "spool"
    /\ \/ gone # {} /\ Fail("vanished") /\ UNCHANGED jour
       \/ /\ gone = {}
          /\ \E dirty \in SUBSET moved :
               jour' = [files |-> run.plan, prev |-> [f \in Files |-> cat[f].seq],
                        content |-> [f \in Files |-> IF f \notin run.plan THEN 0 ELSE
                                       IF f \in moved \ dirty THEN disk[f] ELSE run.seen[f]],
                        dirty |-> dirty, accepted |-> Each(0), policy |-> run.policy]
          /\ run' = [run EXCEPT !.pc = "register", !.fresh = TRUE, !.seen = Each(0)]
          /\ UNCHANGED <<follow, dir>>
    /\ UNCHANGED <<disk, catalog, cached, lhead, skipped, bounds>>

\* savePolicy clears the pending paths; the daemon goes on, with dirty files marked.
Finish ==
    /\ run.pc = "finish" /\ run' = Off
    /\ IF PolicyChanged \/ run.changed # {} THEN stamp' = run.policy /\ pend' = {}
       ELSE UNCHANGED <<stamp, pend>>
    /\ follow' = IF ~run.daemon THEN follow
                 ELSE LET calm == [follow EXCEPT !.key = "", !.same = 0]
                      IN IF run.dirty = {} THEN calm ELSE Retried(calm, FALSE, run.dirty)
    /\ skipped' = (skipped \ (run.scope \cap run.select)) \cup
                  ((IF PolicyChanged THEN Files ELSE run.changed) \ run.select)
    /\ UNCHANGED <<local, catalog, cat, cursor, lhead, jour, bounds>>

Sync ==
    \/ Register \/ RecordCapturedProofs \/ CatalogReset \/ CatalogRequest \/ CatalogPage
    \/ Scan \/ BootstrapProofs \/ Spool \/ Finish
Observer == ObserveInstalled \/ \E p \in Paths : Observe(p)
Daemon == StartFollow \/ Fire
Environment ==
    \/ MakeDir \/ SetAccess \/ SetPolicy \/ OtherCommit \/ OtherReader \/ WatcherError
    \/ LoseRequest \/ Crash
    \/ \E f \in Shared : OtherBegin(f)
    \/ \E f \in Files : Edit(f, 0) \/ Edit(f, edits + 1)
    \/ \E select \in Selections : UserSync(select)

Next == Sync \/ Observer \/ Daemon \/ Environment \/ \E full \in BOOLEAN : Tick(full)
Spec == Init /\ [][Next]_vars

\* Processes make progress, the service manager restarts the daemon and transactions
\* end.  A tick waits in its channel while a sync runs, and the loop's select does not
\* pass it over for ever: the reconciliation is strongly fair.
FairSpec ==
    /\ Spec /\ WF_vars(Sync) /\ WF_vars(Observer) /\ WF_vars(StartFollow)
    /\ WF_vars(Fire) /\ WF_vars(OtherCommit) /\ SF_vars(Tick(TRUE))

----------------------------------------------------------------------------

\* A committed row of the outbox that no reader has numbered yet.
InOutbox(f) == \E i \in Committed : outbox[i].file = f

\* The feed skips nothing: a captured version or a proof that the cached catalog does
\* not show is in a committed outbox row or has a revision after the cursor, however
\* late its transaction committed and whatever was denied when the cursor was made.
CacheCatchesUp ==
    \A f \in Files \ cursor.access : cursor.set /\ head[f].seq # 0 /\ cat[f] # Current(f) =>
        chg[f] > cursor.rev \/ InOutbox(f)

\* What the event loop knows of a file, and what a sync of the daemon was started for.
Hinted(f) ==
    follow.full \/ f \in Below(follow.events \cup follow.paths) \/ (follow.installing /\ f \in InDir)
Taken(f) == run.pc # "off" /\ run.daemon /\ (run.full \/ f \in Below(run.paths))

\* The discovery of the running sync is over, and done under the policy it started from.
Scanned == run.fresh \/ run.pc \in {"prove", "spool", "finish"}
Syncing(f) == Taken(f) /\ (Scanned /\ run.policy = stamp => f \in run.plan)

\* A change of the catalog that a next sync reads, or looks at because of its receipt.
Unread(f) ==
    \/ cat[f].seq # head[f].seq
    \/ f \in pend /\ (lhead[f].seq # head[f].seq \/ lhead[f].dirty)

\* A difference between a file and the catalog is never forgotten while the daemon
\* runs: an event, a hint, the running sync, the feed or a change of policy will bring
\* a sync to it, and otherwise it is one that an earlier sync left to the next
\* reconciliation.
NoChangeIsLost ==
    \A f \in Files : head[f].content # Visible(f, policy) =>
        \/ ~follow.on \/ stamp # policy \/ f \in skipped
        \/ Hinted(f) \/ Syncing(f) \/ Unread(f)

\* The server holds a proof only for bytes that were on this client's disk.
ProofIsLocal == \A f \in Files : proof[f].content # Foreign \/ proof[f].seq = 0

\* Files and catalog agree again and again, unless a deny rule or a conflicting
\* capture keeps the daemon from syncing.
Converges ==
    []<>(\/ \A f \in Files : head[f].content = Visible(f, policy)
         \/ denied # {} \/ Conflicts)
=============================================================================

--------------------------- MODULE CaptureClient ---------------------------
(***************************************************************************)
(* The capture side of the command line tool: "pufferfs sync" copies what   *)
(* changed under a root into an immutable spool on the local disk, uploads  *)
(* the packs of the spool, registers the versions with the API and keeps a  *)
(* local head per path.  The process can stop after every write, by a crash *)
(* or by returning an error; the next sync resumes from the disk.           *)
(*                                                                         *)
(* A file's content is a sequence of tokens, fresh with every edit, which   *)
(* stands for its bytes, its digest and its modification time at once; the  *)
(* empty sequence is a missing file (empty files, which discovery skips,    *)
(* are left out).  Every captured file has a pack of its own, for the bytes *)
(* that no earlier version holds.  What a client writes to its journal after a      *)
(* response is part of the step of the request: a response that is lost is  *)
(* the same step with the process stopping instead of writing.              *)
(***************************************************************************)
EXTENDS Integers, Sequences, FiniteSets, SequencesExt, FiniteSetsExt

CONSTANTS
    NumFiles,       \* paths of the root, in their order
    Large,          \* the paths whose packs are uploaded in parts
    Parts,          \* part numbers
    MaxCaptures,    \* bound: capture spools
    MaxKeys,        \* bound: object keys
    MaxEdits,       \* bound: changes of local files
    MaxFaults,      \* bound: crashes and lost responses of the client, versions of
                    \* another client, retired packs and expired sessions
    SpoolLimit,     \* PUFFERFS_CAPTURE_SPOOL_BYTES, in tokens
    MaxReceipts     \* the 64 completed captures whose journals are kept

Files == 1..NumFiles
Captures == 1..MaxCaptures
Keys == 1..MaxKeys
NoKey == 0

ASSUME CaptureClientAssumption ==
    /\ {NumFiles, MaxCaptures, MaxKeys, MaxEdits, MaxFaults, SpoolLimit,
        MaxReceipts} \subseteq Nat
    /\ Large \subseteq Files /\ Parts # {}

VARIABLES
    disk,       \* the content of the user's files
    edits,      \* changes so far: the source of fresh tokens
    ver,        \* file_versions, by sequence number
    head,       \* file_catalog.captured_version_id, as a sequence number
    obj,        \* source_objects and the objects of S3, by key
    spool,      \* the capture directories with their journals
    lhead,      \* the local heads
    run,        \* the running sync, in memory
    faults      \* faults so far

server == <<ver, head, obj>>
vars == <<disk, edits, ver, head, obj, spool, lhead, run, faults>>

Version == [file: Files, capture: 0..MaxCaptures, prev: Nat, content: Seq(Nat), keys: Seq(Keys)]
Object == [state: {"free", "open", "complete", "expired", "retired"},
           stored: BOOLEAN, bytes: Seq(Nat), acked: SUBSET Parts, capture: 0..MaxCaptures]
Pack == [key: 0..MaxKeys, request: 0..MaxKeys, acked: SUBSET Parts, complete: BOOLEAN]
Spool == [place: {"none", "incomplete", "pending", "completed", "conflicts", "removed"},
          files: SUBSET Files,              \* journal.Request.Files
          prev: [Files -> Nat],             \* PreviousVersionID
          content: [Files -> Seq(Nat)],     \* Source.ContentHash; empty: Deleted
          reused: [Files -> Seq(Keys)],     \* the remote extents of an append
          packs: SUBSET Files,              \* journal.Packs: the files with new bytes
          pack: [Files -> Pack],            \* their upload
          bytes: [Files -> Seq(Nat)],       \* the pack files on disk
          dirty: SUBSET Files,              \* journal.Dirty
          accepted: [Files -> Nat]]         \* journal.Accepted; 0: none
LocalHead == [seq: Nat, content: Seq(Nat), keys: Seq(Keys), dirty: BOOLEAN]
Run == [pc: {"off", "clean", "discard", "resume", "scan", "spool", "copy", "upload", "heads", "done"},
        force: BOOLEAN, cur: 0..MaxCaptures, attempt: 0..1, fresh: BOOLEAN,
        todo: SUBSET Files,                 \* files of the plan not yet captured
        gone: SUBSET Files,                 \* those of them that become tombstones
        seen: [Files -> Nat],               \* the catalog the plan was made against
        copied: 0..NumFiles,                \* the last file of the batch in the spool
        before: Seq(Nat),                   \* the open source
        stage: [Files -> {"start", "init", "put", "confirm"}],
        calm: SUBSET Files]                 \* history: no change since the scan

TypeOK ==
    /\ disk \in [Files -> Seq(Nat)] /\ edits \in Nat
    /\ ver \in Seq(Version) /\ head \in [Files -> 0..Len(ver)]
    /\ obj \in [Keys -> Object]
    /\ spool \in [Captures -> Spool] /\ lhead \in [Files -> LocalHead]
    /\ run \in Run /\ faults \in 0..MaxFaults

----------------------------------------------------------------------------

Each(value) == [f \in Files |-> value]
FreeObject == [state |-> "free", stored |-> FALSE, bytes |-> <<>>, acked |-> {}, capture |-> 0]
NewPack == [key |-> NoKey, request |-> NoKey, acked |-> {}, complete |-> FALSE]
NoSpool == [place |-> "none", files |-> {}, prev |-> Each(0), content |-> Each(<<>>),
            reused |-> Each(<<>>), packs |-> {}, pack |-> Each(NewPack), bytes |-> Each(<<>>),
            dirty |-> {}, accepted |-> Each(0)]
NoHead == [seq |-> 0, content |-> <<>>, keys |-> <<>>, dirty |-> FALSE]
Off == [pc |-> "off", force |-> FALSE, cur |-> 0, attempt |-> 0, fresh |-> FALSE, todo |-> {}, gone |-> {},
        seen |-> Each(0), copied |-> 0, before |-> <<>>, stage |-> Each("start"), calm |-> {}]

Init ==
    /\ disk = [f \in Files |-> <<f>>] /\ edits = NumFiles
    /\ ver = <<>> /\ head = Each(0)
    /\ obj = [k \in Keys |-> FreeObject]
    /\ spool = [c \in Captures |-> NoSpool] /\ lhead = Each(NoHead)
    /\ run = Off /\ faults = 0

\* The live content of the catalog; empty when there is no head or a tombstone.
Captured(f, seq) == IF seq = 0 THEN <<>> ELSE ver[seq].content

\* The process ends, by a crash or by returning an error; only memory is lost.
Fault == faults < MaxFaults /\ faults' = faults + 1
Stop == run' = Off /\ Fault

Crash ==
    /\ run.pc # "off" /\ Stop
    /\ UNCHANGED <<disk, edits, server, spool, lhead>>

Journal(c, new) == spool' = [spool EXCEPT ![c] = new]

Edit(f, content) ==
    /\ edits < MaxEdits /\ edits' = edits + 1
    /\ disk' = [disk EXCEPT ![f] = content]
    /\ run' = [run EXCEPT !.calm = @ \ {f}]
    /\ UNCHANGED <<server, spool, lhead, faults>>

AppendFile(f) == disk[f] # <<>> /\ Edit(f, Append(disk[f], edits + 1))
ReplaceFile(f) == Edit(f, <<edits + 1>>)
RemoveFile(f) == disk[f] # <<>> /\ Edit(f, <<>>)

\* Another client registers its own version, or one with the bytes we have.
OtherCapture(f) ==
    /\ Fault
    /\ \E content \in {<<>>, <<0>>, disk[f]} \ {Captured(f, head[f])} :
         ver' = Append(ver, [file |-> f, capture |-> 0, prev |-> head[f],
                             content |-> content, keys |-> <<>>])
    /\ head' = [head EXCEPT ![f] = Len(ver) + 1]
    /\ run' = [run EXCEPT !.calm = @ \ {f}]
    /\ UNCHANGED <<disk, edits, obj, spool, lhead>>

\* The server forgets a pack that no captured head needs.
Needed(k) == \E f \in Files : head[f] # 0 /\ k \in ToSet(ver[head[f]].keys)
RetirePack(k) ==
    /\ Fault
    /\ obj[k].state \in {"open", "complete", "expired"} /\ ~Needed(k)
    /\ obj' = [obj EXCEPT ![k].state = "retired", ![k].stored = FALSE]
    /\ UNCHANGED <<disk, edits, ver, head, spool, lhead, run>>

\* A multipart session without an object expires in S3.
ExpireSession(k) ==
    /\ Fault
    /\ obj[k].state = "open" /\ ~obj[k].stored
    /\ \E c \in Captures, f \in Large : spool[c].pack[f].request = k
    /\ obj' = [obj EXCEPT ![k].state = "expired", ![k].acked = {}]
    /\ UNCHANGED <<disk, edits, ver, head, spool, lhead, run>>

----------------------------------------------------------------------------
(* The start of a sync: cleanup of the spools of earlier ones.             *)

\* The flock of the cache directory admits one sync at a time.
StartSync(force) ==
    /\ run.pc = "off"
    /\ run' = [Off EXCEPT !.pc = "clean", !.force = force]
    /\ UNCHANGED <<disk, edits, server, spool, lhead, faults>>

HeadsDurable(c) == \A f \in spool[c].files : lhead[f].seq >= spool[c].accepted[f]

Completed == {c \in Captures : spool[c].place = "completed"}
Expired(c) == Cardinality({d \in Completed : d > c}) >= MaxReceipts
Receipt(c) == IF Expired(c) THEN [NoSpool EXCEPT !.place = "removed"]
              ELSE [spool[c] EXCEPT !.bytes = Each(<<>>)]

AfterClean == IF run.cur = 0 THEN "discard" ELSE IF ~run.fresh THEN "resume"
              ELSE IF run.todo # {} THEN "spool" ELSE "done"

\* retainCaptureSpools: packs of completed captures go once their heads are durable.
\* The pass can stop after any of its removals.
RetainCaptureSpools ==
    /\ run.pc = "clean" /\ \A c \in Completed : HeadsDurable(c)
    /\ \E left \in SUBSET Completed :
         /\ spool' = [c \in Captures |-> IF c \in Completed \ left THEN Receipt(c) ELSE spool[c]]
         /\ \/ /\ left = {} /\ run' = [run EXCEPT !.pc = AfterClean, !.cur = 0]
               /\ UNCHANGED faults
            \/ left # {} /\ Stop
    /\ UNCHANGED <<disk, edits, server, lhead>>

IsAccepted(c) == \A f \in spool[c].files : spool[c].accepted[f] # 0

\* Mutant of Incomplete: whatever the server did not accept is discarded.
Unaccepted(c) == spool[c].place \in {"incomplete", "pending"} /\ ~IsAccepted(c)

\* A spool without a journal was never submitted.
Incomplete(c) == spool[c].place = "incomplete"

DiscardIncompleteCaptures ==
    /\ run.pc = "discard"
    /\ spool' = [c \in Captures |-> IF Incomplete(c) THEN NoSpool ELSE spool[c]]
    /\ run' = [run EXCEPT !.pc = "resume"]
    /\ UNCHANGED <<disk, edits, server, lhead, faults>>

Pending == {c \in Captures : spool[c].place = "pending"}
Submit(c, fresh) == [run EXCEPT !.pc = IF IsAccepted(c) THEN "heads" ELSE "upload", !.cur = c,
                                !.fresh = fresh, !.attempt = 0, !.stage = Each("start")]

ResumePending(c) ==
    /\ run.pc = "resume" /\ c \in Pending
    /\ run' = Submit(c, FALSE)
    /\ UNCHANGED <<disk, edits, server, spool, lhead, faults>>

----------------------------------------------------------------------------
(* The plan and the spool.                                                 *)

\* A clean local head of the current version speaks for the file: its metadata was
\* the same before and after the bytes were read.
Cached(f) ==
    /\ lhead[f].seq = head[f] /\ head[f] # 0 /\ ~lhead[f].dirty
    /\ lhead[f].content = disk[f] /\ Captured(f, head[f]) = disk[f]

Candidates == {f \in Files : disk[f] # <<>> /\ (run.force \/ ~Cached(f))}

\* hashCapturedFile: the bytes on disk are those of the captured head.
Verified(f) == Captured(f, head[f]) = disk[f]

\* bootstrapCapturedProofs: bytes that are already captured need no capture.
Bootstrapped == [f \in Files |->
    IF ~run.force /\ f \in Candidates /\ Verified(f)
      THEN [seq |-> head[f], content |-> disk[f], dirty |-> FALSE,
            keys |-> IF lhead[f].seq = head[f] THEN lhead[f].keys ELSE <<>>]
      ELSE lhead[f]]

\* The catalog is read and the root is walked after all pending captures.
Scan ==
    LET changed == {f \in Candidates : run.force \/ ~Verified(f)}
        removed == {f \in Files : disk[f] = <<>> /\ Captured(f, head[f]) # <<>>} IN
    /\ run.pc = "resume" /\ Pending = {}
    /\ lhead' = Bootstrapped
    /\ run' = [run EXCEPT !.pc = IF changed \cup removed = {} THEN "done" ELSE "spool",
                          !.todo = changed \cup removed, !.gone = removed, !.seen = head,
                          !.calm = Files]
    /\ UNCHANGED <<disk, edits, server, spool, faults>>

\* pending, completed and conflicted packs all count.
Tokens(c, f) == {<<c, f>>} \X (1..Len(spool[c].bytes[f]))
PackTokens == UNION {Tokens(c, f) : c \in Captures, f \in Files}
PackBytes == Cardinality(PackTokens)

CreateSpool(c) ==
    /\ run.pc = "spool" /\ spool[c].place = "none" /\ \A d \in Captures : d < c => spool[d].place # "none"
    /\ IF PackBytes >= SpoolLimit THEN run' = Off /\ UNCHANGED spool
       ELSE /\ Journal(c, [NoSpool EXCEPT !.place = "incomplete", !.files = run.todo, !.prev = run.seen])
            /\ run' = [run EXCEPT !.pc = "copy", !.cur = c, !.copied = 0, !.before = <<>>]
    /\ UNCHANGED <<disk, edits, server, lhead, faults>>

ToCopy == {f \in spool[run.cur].files \ run.gone : f > run.copied}

\* A file that vanished since the scan ends the sync.
OpenSource ==
    LET f == Min(ToCopy) IN
    /\ run.pc = "copy" /\ ToCopy # {} /\ run.before = <<>>
    /\ run' = IF disk[f] = <<>> THEN Off ELSE [run EXCEPT !.before = disk[f]]
    /\ UNCHANGED <<disk, edits, server, spool, lhead, faults>>

\* What reading the observed length returns: the old bytes, also of a file that was
\* appended to or replaced by a rename, or the bytes of a rewrite in place.
ReadBytes(f) == {run.before} \cup
                (IF Len(disk[f]) >= Len(run.before) THEN {SubSeq(disk[f], 1, Len(run.before))} ELSE {})

\* Mutant of Reusable: the local bytes are not compared with the captured prefix.
ReusableUnverified(f, read) ==
    /\ lhead[f].seq = run.seen[f] /\ lhead[f].keys # <<>> /\ Len(lhead[f].content) <= Len(read)

\* HashVerifiedPrefix: the extents of the version the capture builds on.
Reusable(f, read) ==
    /\ lhead[f].seq = run.seen[f] /\ lhead[f].keys # <<>>
    /\ IsPrefix(lhead[f].content, read)

\* Mutant of Fits: only the file itself is measured.
FitsAlone(bytes) == Len(bytes) <= SpoolLimit

Fits(bytes) == PackBytes + Len(bytes) <= SpoolLimit

Dirty(f) == disk[f] # run.before

\* A file truncated in place ends the sync as well.
TruncatedSource ==
    /\ run.pc = "copy" /\ ToCopy # {} /\ Len(disk[Min(ToCopy)]) < Len(run.before)
    /\ run' = Off
    /\ UNCHANGED <<disk, edits, server, spool, lhead, faults>>

CopySource ==
    LET f == Min(ToCopy)
        s == spool[run.cur] IN
    /\ run.pc = "copy" /\ ToCopy # {} /\ run.before # <<>>
    /\ \E read \in ReadBytes(f) :
         LET reused == IF Reusable(f, read) THEN lhead[f].keys ELSE <<>>
             bytes == IF Reusable(f, read) THEN SubSeq(read, Len(lhead[f].content) + 1, Len(read)) ELSE read
         IN \/ /\ Fits(bytes)
               /\ Journal(run.cur,
                    [s EXCEPT !.content[f] = read, !.reused[f] = reused, !.bytes[f] = bytes,
                              !.packs = IF bytes = <<>> THEN @ ELSE @ \cup {f},
                              !.dirty = IF Dirty(f) THEN @ \cup {f} ELSE @])
               /\ run' = [run EXCEPT !.copied = f, !.before = <<>>]
            \/ /\ ~Fits(bytes)
               /\ IF \E g \in s.files : g < f
                    THEN /\ Journal(run.cur, [s EXCEPT !.files = {g \in @ : g < f}])
                         /\ run' = [run EXCEPT !.copied = f, !.before = <<>>]
                    ELSE run' = Off /\ UNCHANGED spool
    /\ UNCHANGED <<disk, edits, server, lhead, faults>>

\* Mutant of Uncaptured: the batch counts as captured, whatever fitted the spool.
UncapturedNone == {}

\* offset += captured: a batch may end early.
Uncaptured == run.todo \ spool[run.cur].files

\* The journal is published last, after every pack is durable.
PublishJournal ==
    /\ run.pc = "copy" /\ ToCopy = {}
    /\ Journal(run.cur, [spool[run.cur] EXCEPT !.place = "pending"])
    /\ run' = [Submit(run.cur, TRUE) EXCEPT !.pc = "upload", !.todo = Uncaptured]
    /\ UNCHANGED <<disk, edits, server, lhead, faults>>

----------------------------------------------------------------------------
(* The upload of packs, concurrent between the packs of a capture.          *)

Cur == spool[run.cur]
Unsent == {f \in Cur.packs : ~Cur.pack[f].complete}
Uploading(f) == run.pc = "upload" /\ f \in Unsent
SavePack(f, pack) == Journal(run.cur, [Cur EXCEPT !.pack[f] = pack])
At(f, stage) == run' = [run EXCEPT !.stage[f] = stage]
FreshKeys == {k \in Keys : /\ obj[k].state = "free"
                           /\ \A c \in Captures, f \in Files : spool[c].pack[f].request # k}

RetiredKeys == {k \in Keys : obj[k].state = "retired"}

\* The response arrived and was journalled, or the process stopped before.
Answered(written, next) == \/ written /\ next /\ UNCHANGED faults
                           \/ UNCHANGED spool /\ Stop

\* Mutant of Reset: only the flag of the retired pack is cleared.
ResetFlag(pack) == [pack EXCEPT !.complete = FALSE]

Reset(pack) == NewPack

\* resetRetiredCapturePacks: once per submission, and only for packs of this journal.
ResetRetired(keys) ==
    LET owned == {f \in Cur.packs : Cur.pack[f].key \in keys \/ Cur.pack[f].request \in keys} IN
    IF run.attempt = 0 /\ \A k \in keys : \E f \in owned : k \in {Cur.pack[f].key, Cur.pack[f].request}
      THEN /\ Journal(run.cur, [Cur EXCEPT !.pack = [f \in Files |->
                                  IF f \in owned THEN Reset(Cur.pack[f]) ELSE Cur.pack[f]]])
           /\ run' = [run EXCEPT !.attempt = 1, !.stage = Each("start")]
      ELSE run' = Off /\ UNCHANGED spool

\* sources/complete accepts an object of the declared size.
SourcePackComplete(f, otherwise) ==
    LET k == Cur.pack[f].key IN
    \/ /\ obj[k].stored
       /\ obj' = [obj EXCEPT ![k].state = "complete"]
       /\ Answered(SavePack(f, [Cur.pack[f] EXCEPT !.complete = TRUE]), UNCHANGED run)
    \/ /\ obj[k].state = "retired" /\ ResetRetired({k}) /\ UNCHANGED <<obj, faults>>
    \/ /\ obj[k].state # "retired" /\ ~obj[k].stored /\ otherwise /\ UNCHANGED <<obj, spool, faults>>

\* An earlier PUT may have succeeded without its response.
ConfirmEarlier(f) ==
    /\ Uploading(f) /\ f \notin Large /\ run.stage[f] = "start" /\ Cur.pack[f].key # NoKey
    /\ SourcePackComplete(f, At(f, "init"))
    /\ UNCHANGED <<disk, edits, ver, head, lhead>>

\* sources/init registers a key, or renews the one in the journal.
InitSourcePack(f) ==
    LET known == Cur.pack[f].key IN
    /\ Uploading(f) /\ f \notin Large /\ Cur.bytes[f] # <<>>
    /\ run.stage[f] = IF known = NoKey THEN "start" ELSE "init"
    /\ \/ known \in RetiredKeys /\ ResetRetired({known}) /\ UNCHANGED <<obj, faults>>
       \/ /\ known \notin RetiredKeys /\ (FreshKeys # {} \/ known # NoKey)
          /\ LET k == IF known = NoKey THEN Min(FreshKeys) ELSE known IN
             /\ obj' = [obj EXCEPT ![k].state = IF @ = "free" THEN "open" ELSE @]
             /\ Answered(SavePack(f, [Cur.pack[f] EXCEPT !.key = k]), At(f, "put"))
    /\ UNCHANGED <<disk, edits, ver, head, lhead>>

\* If-None-Match: the object is written once; a second PUT is as good as the first.
PutSourcePack(f) ==
    LET k == Cur.pack[f].key IN
    /\ Uploading(f) /\ f \notin Large /\ run.stage[f] = "put"
    /\ IF obj[k].state = "retired" THEN run' = Off /\ UNCHANGED obj
       ELSE /\ obj' = IF obj[k].stored THEN obj
                      ELSE [obj EXCEPT ![k].stored = TRUE, ![k].bytes = Cur.bytes[f]]
            /\ At(f, "confirm")
    /\ UNCHANGED <<disk, edits, ver, head, spool, lhead, faults>>

CompleteSourcePack(f) ==
    /\ Uploading(f) /\ f \notin Large /\ run.stage[f] = "confirm"
    /\ SourcePackComplete(f, run' = Off)
    /\ UNCHANGED <<disk, edits, ver, head, lhead>>

\* A multipart upload has an identity of its own before the first request.
MultipartIdentity(f) ==
    /\ Uploading(f) /\ f \in Large /\ Cur.pack[f].request = NoKey /\ FreshKeys # {}
    /\ SavePack(f, [NewPack EXCEPT !.request = Min(FreshKeys)])
    /\ UNCHANGED <<disk, edits, server, lhead, run, faults>>

Restarted(pack, k) == [NewPack EXCEPT !.request = k]

MultipartInit(f) ==
    LET k == Cur.pack[f].request IN
    /\ Uploading(f) /\ f \in Large /\ k # NoKey /\ run.stage[f] = "start"
    /\ \/ /\ obj[k].state = "retired" /\ ResetRetired({k}) /\ UNCHANGED <<obj, faults>>
       \/ /\ obj[k].state = "expired" /\ FreshKeys # {}
          /\ SavePack(f, Restarted(Cur.pack[f], Min(FreshKeys)))
          /\ UNCHANGED <<obj, run, faults>>
       \/ /\ obj[k].state \in {"free", "open", "complete"}
          /\ obj' = [obj EXCEPT ![k].state = IF obj[k].stored THEN "complete" ELSE "open"]
          /\ Answered(SavePack(f, [Cur.pack[f] EXCEPT !.key = k, !.complete = obj[k].stored]),
                      At(f, "put"))
    /\ UNCHANGED <<disk, edits, ver, head, lhead>>

PutCapturedPart(k, n) == obj' = [obj EXCEPT ![k].acked = @ \cup {n}]

\* Every confirmed part is journalled, in whatever order they come.
PutPart(f, n) ==
    LET k == Cur.pack[f].key IN
    /\ Uploading(f) /\ f \in Large /\ run.stage[f] = "put" /\ n \in Parts \ Cur.pack[f].acked
    /\ IF obj[k].state # "open" THEN run' = Off /\ UNCHANGED <<obj, spool, faults>>
       ELSE /\ PutCapturedPart(k, n)
            /\ Answered(SavePack(f, [Cur.pack[f] EXCEPT !.acked = @ \cup {n}]), UNCHANGED run)
    /\ UNCHANGED <<disk, edits, ver, head, lhead>>

\* S3 assembles the object before the row says so, and the answer comes last.
MultipartComplete(f) ==
    LET k == Cur.pack[f].key
        whole == Cur.pack[f].acked \subseteq obj[k].acked IN
    /\ Uploading(f) /\ f \in Large /\ run.stage[f] = "put" /\ Cur.pack[f].acked = Parts
    /\ \/ /\ obj[k].state = "retired" /\ ResetRetired({k}) /\ UNCHANGED <<obj, faults>>
       \/ /\ obj[k].state = "open" /\ whole
          /\ \E state \in {"open", "complete"} :
               /\ obj' = [obj EXCEPT ![k].stored = TRUE, ![k].state = state,
                                     ![k].bytes = IF @ = <<>> THEN Cur.bytes[f] ELSE @]
               /\ \/ state = "complete" /\ SavePack(f, [Cur.pack[f] EXCEPT !.complete = TRUE])
                     /\ UNCHANGED <<run, faults>>
                  \/ UNCHANGED spool /\ Stop
       \/ /\ obj[k].state = "expired" \/ (obj[k].state = "open" /\ ~whole)
          /\ run' = Off /\ UNCHANGED <<obj, spool, faults>>
    /\ UNCHANGED <<disk, edits, ver, head, lhead>>

----------------------------------------------------------------------------
(* Registration, local heads and the end.                                   *)

SourceKeys(c, f) == spool[c].reused[f] \o (IF f \in spool[c].packs THEN <<spool[c].pack[f].key>> ELSE <<>>)
RequestKeys(c) == UNION {ToSet(SourceKeys(c, f)) : f \in spool[c].files}
Replayed(c) == \E i \in DOMAIN ver : ver[i].capture = c
Conflicts(c) == ~Replayed(c) /\ \E f \in spool[c].files : head[f] # spool[c].prev[f]
Retired(c) == RequestKeys(c) \cap RetiredKeys
Receipts(c, log) == [f \in Files |-> IF f \notin spool[c].files THEN 0
                       ELSE CHOOSE i \in DOMAIN log : log[i].file = f /\ log[i].capture = c]

NewVersions(c) ==
    [i \in 1..Cardinality(spool[c].files) |->
       LET f == SetToSeq(spool[c].files)[i] IN
       [file |-> f, capture |-> c, prev |-> head[f], content |-> spool[c].content[f],
        keys |-> SourceKeys(c, f)]]

\* Mutant of Registered: a repeated capture is registered once more.
RegisteredAgain(c) == ver \o NewVersions(c)

Registered(c) == IF Replayed(c) THEN ver ELSE ver \o NewVersions(c)

\* RegisterFileVersions: one transaction for the capture, and the same answer to a
\* repeated request, whatever the head is by then.
RegisterCapture ==
    LET c == run.cur IN
    /\ run.pc = "upload" /\ Unsent = {} /\ ~Conflicts(c) /\ (Replayed(c) \/ Retired(c) = {})
    /\ ver' = Registered(c)
    /\ head' = [f \in Files |-> IF f \in Cur.files /\ ~Replayed(c) THEN Receipts(c, ver')[f] ELSE head[f]]
    /\ obj' = [k \in Keys |-> IF k \in RequestKeys(c) /\ obj[k].capture = 0
                              THEN [obj[k] EXCEPT !.capture = c] ELSE obj[k]]
    /\ Answered(Journal(c, [Cur EXCEPT !.accepted = Receipts(c, ver')]),
                run' = [run EXCEPT !.pc = "heads"])
    /\ UNCHANGED <<disk, edits, lhead>>

RegisterRetired ==
    LET c == run.cur IN
    /\ run.pc = "upload" /\ Unsent = {} /\ ~Conflicts(c) /\ ~Replayed(c) /\ Retired(c) # {}
    /\ ResetRetired(Retired(c))
    /\ UNCHANGED <<disk, edits, server, lhead, faults>>

\* Only --force sets a conflicting capture aside, with its bytes; the sync goes on to
\* scan the live files.
RegisterConflict ==
    LET c == run.cur IN
    /\ run.pc = "upload" /\ Unsent = {} /\ Conflicts(c)
    /\ IF run.force /\ ~run.fresh
         THEN /\ Journal(c, [Cur EXCEPT !.place = "conflicts"])
              /\ run' = [run EXCEPT !.pc = "resume", !.cur = 0]
         ELSE run' = Off /\ UNCHANGED spool
    /\ UNCHANGED <<disk, edits, server, lhead, faults>>

Behind(c) == {f \in spool[c].files : lhead[f].seq < spool[c].accepted[f]}

\* saveAcceptedCaptureHeads, one path at a time.
SaveHead ==
    LET f == Min(Behind(run.cur)) IN
    /\ run.pc = "heads" /\ Behind(run.cur) # {}
    /\ lhead' = [lhead EXCEPT ![f] = [seq |-> Cur.accepted[f], content |-> Cur.content[f],
                                      keys |-> SourceKeys(run.cur, f), dirty |-> f \in Cur.dirty]]
    /\ UNCHANGED <<disk, edits, server, spool, run, faults>>

\* Only an accepted capture with durable heads becomes eligible for cleanup.
CompleteCapture ==
    /\ run.pc = "heads" /\ Behind(run.cur) = {}
    /\ Journal(run.cur, [Cur EXCEPT !.place = "completed"])
    /\ run' = [run EXCEPT !.pc = "clean"]
    /\ UNCHANGED <<disk, edits, server, lhead, faults>>

Finish ==
    /\ run.pc = "done" /\ run' = Off
    /\ UNCHANGED <<disk, edits, server, spool, lhead, faults>>

Work ==
    \/ RetainCaptureSpools \/ DiscardIncompleteCaptures \/ Scan \/ OpenSource
    \/ TruncatedSource \/ CopySource \/ PublishJournal \/ RegisterCapture \/ RegisterRetired \/ RegisterConflict
    \/ SaveHead \/ CompleteCapture \/ Finish
    \/ \E c \in Captures : ResumePending(c) \/ CreateSpool(c)
    \/ \E f \in Files : \/ ConfirmEarlier(f) \/ InitSourcePack(f) \/ PutSourcePack(f)
                        \/ CompleteSourcePack(f) \/ MultipartIdentity(f) \/ MultipartInit(f)
                        \/ MultipartComplete(f) \/ \E n \in Parts : PutPart(f, n)

Environment ==
    \/ Crash
    \/ \E f \in Files : AppendFile(f) \/ ReplaceFile(f) \/ RemoveFile(f) \/ OtherCapture(f)
    \/ \E k \in Keys : RetirePack(k) \/ ExpireSession(k)

Next == Work \/ Environment \/ \E force \in BOOLEAN : StartSync(force)

Spec == Init /\ [][Next]_vars

\* A daemon or its user runs sync again and again, and the process makes progress.
FairSpec == Spec /\ WF_vars(Work) /\ WF_vars(\E force \in BOOLEAN : StartSync(force))

----------------------------------------------------------------------------

Concat(keys) == FlattenSeq([i \in DOMAIN keys |-> obj[keys[i]].bytes])

\* Every captured head that a capture of this client wrote can be read back: its
\* extents name objects that exist, and their bytes are the captured content.
HeadIsReadable ==
    \A f \in Files : head[f] # 0 /\ ver[head[f]].capture # 0 =>
        /\ \A k \in ToSet(ver[head[f]].keys) : obj[k].stored /\ obj[k].state = "complete"
        /\ Concat(ver[head[f]].keys) = ver[head[f]].content

\* The bytes of a published capture leave the local disk only after the server has
\* their version and the local head records it; those of a conflict stay for good.
CapturedBytesSurvive ==
    [][\A c \in Captures : \A f \in spool[c].packs :
         /\ spool[c].place # "incomplete" /\ spool[c].bytes[f] # <<>> /\ spool'[c].bytes[f] = <<>>
         => /\ spool[c].place # "conflicts"
            /\ \E i \in DOMAIN ver : ver[i].capture = c /\ ver[i].file = f /\ lhead[f].seq >= i]_vars

\* However often a capture is submitted, a file gets one version from it, on top of
\* the version the capture was made against.
RegisteredOnce ==
    \A i \in DOMAIN ver : ver[i].capture # 0 =>
        /\ ver[i].prev = spool[ver[i].capture].prev[ver[i].file]
           \/ spool[ver[i].capture].place = "removed"
        /\ \A j \in DOMAIN ver : ver[j].capture = ver[i].capture /\ ver[j].file = ver[i].file => i = j

\* When a sync ends well, the catalog has the content of every file that neither the
\* user nor another client touched since the scan.
SyncedIsCaptured ==
    run.pc = "done" => \A f \in run.calm : Captured(f, head[f]) = disk[f]

\* The spool stays within its limit, whatever is pending or set aside.
SpoolIsBounded == PackBytes <= SpoolLimit

\* Every published capture is accepted and completed in the end, unless the catalog
\* has moved on and it conflicts.
PendingSettles ==
    \A c \in Captures : spool[c].place = "pending" ~> (spool[c].place # "pending" \/ Conflicts(c))
=============================================================================

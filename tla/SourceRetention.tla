-------------------------- MODULE SourceRetention --------------------------
(***************************************************************************)
(* The source packs of one root: the objects that clients upload straight  *)
(* to S3, the captures that refer to them, and the cleanup that retires    *)
(* versions and packs nobody needs.                                        *)
(*                                                                         *)
(* An API handler is a process: it commits a statement, talks to S3 and    *)
(* commits another statement, and anything may happen in between.  Times   *)
(* are what is left of them: authorized_until and the expiry of a signed   *)
(* URL count down to zero together.  The age limits of the retention are   *)
(* left out: cleanup may come as soon as the other conditions hold.        *)
(* Extents are sets of packs, and the parts of an upload are one flag.     *)
(***************************************************************************)
EXTENDS Integers, FiniteSets

CONSTANTS
    Handlers,       \* concurrent API requests
    Packs,          \* object keys, of one uploader
    Multipart,      \* the packs that are uploaded in parts
    Sessions,       \* multipart upload ids of S3
    NoSession,      \* upload_id = ''
    Files,
    SourceSets,     \* bound: the packs a captured version may consist of
    MaxCaptures,    \* bound: captures of the root
    Lifetime        \* the fifteen minutes of an authorization

ASSUME RetentionSetAssumption ==
    /\ Packs # {} /\ Multipart \subseteq Packs /\ NoSession \notin Sessions
    /\ IsFiniteSet(Handlers) /\ IsFiniteSet(Packs) /\ IsFiniteSet(Files)
ASSUME RetentionBoundAssumption ==
    MaxCaptures \in Nat /\ Lifetime \in Nat \ {0}

VARIABLES
    live,       \* roots.deleting_at is null
    captures,   \* number of accepted captures
    ver,        \* file_versions with their extents and work, by capture and file
    head,       \* file_catalog.captured_version_id, as a capture
    indexed,    \* file_catalog.indexed_version_id, as a capture
    pack,       \* source_objects with source_multipart_uploads
    object,     \* the packs whose object exists in S3
    session,    \* the open multipart sessions of S3
    parts,      \* the packs whose parts are all in the recorded session
    url,        \* what is left of the signed URLs given out
    putting,    \* uploads in flight
    handler,    \* the position of each API request
    swept       \* packs whose sessions this cleanup pass aborted

rows == <<live, captures, ver, head, indexed, pack>>
store == <<object, session, parts>>
vars == <<live, captures, ver, head, indexed, pack, object, session, parts,
          url, putting, handler, swept>>

Captures == 1..MaxCaptures
NoCapture == 0
Left == 0..Lifetime

PackRow == [known: BOOLEAN,
            auth: Left,                         \* authorized_until - NOW()
            upload: Sessions \cup {NoSession},  \* upload_id
            frozen: BOOLEAN,                    \* completion_parts is set
            complete: BOOLEAN,                  \* completed_at is set
            capture: 0..MaxCaptures,            \* capture_id
            retired: BOOLEAN]                   \* retired_at is set
Version == [work: {"none", "active", "failed", "done"},
            packs: SUBSET Packs,                \* file_version_extents
            gone: BOOLEAN]                      \* source_retired_at is set
HandlerState == [pc: {"idle", "sign", "pin", "check", "mark", "create", "persist",
                      "probe", "accept", "complete"},
                 pack: Packs, left: Left, upload: Sessions \cup {NoSession}]

TypeOK ==
    /\ live \in BOOLEAN /\ captures \in 0..MaxCaptures
    /\ ver \in [Captures -> [Files -> Version]]
    /\ head \in [Files -> 0..MaxCaptures] /\ indexed \in [Files -> 0..MaxCaptures]
    /\ pack \in [Packs -> PackRow]
    /\ object \subseteq Packs /\ parts \subseteq Packs
    /\ session \in [Packs -> SUBSET Sessions]
    /\ url \in [Packs -> Left] /\ putting \subseteq Packs
    /\ handler \in [Handlers -> HandlerState]
    /\ swept \subseteq Packs

----------------------------------------------------------------------------

NoVersion == [work |-> "none", packs |-> {}, gone |-> FALSE]
NewPack == [known |-> FALSE, auth |-> 0, upload |-> NoSession, frozen |-> FALSE,
            complete |-> FALSE, capture |-> NoCapture, retired |-> FALSE]
Idle == [pc |-> "idle", pack |-> CHOOSE p \in Packs : TRUE, left |-> 0, upload |-> NoSession]

Init ==
    /\ live = TRUE /\ captures = 0
    /\ ver = [c \in Captures |-> [f \in Files |-> NoVersion]]
    /\ head = [f \in Files |-> NoCapture] /\ indexed = [f \in Files |-> NoCapture]
    /\ pack = [p \in Packs |-> NewPack]
    /\ object = {} /\ parts = {}
    /\ session = [p \in Packs |-> {}]
    /\ url = [p \in Packs |-> 0] /\ putting = {}
    /\ handler = [h \in Handlers |-> Idle]
    /\ swept = {}

Begin(h, p, pc, upload) ==
    handler' = [handler EXCEPT ![h] = [pc |-> pc, pack |-> p, left |-> 0, upload |-> upload]]
Return(h) == handler' = [handler EXCEPT ![h] = Idle]

\* Every first statement of a handler renews the authorization of its pack.
Renewed(p) == [pack[p] EXCEPT !.known = TRUE, !.auth = Lifetime]

Max2(a, b) == IF a >= b THEN a ELSE b

----------------------------------------------------------------------------
(* Packs uploaded with one request.                                        *)

\* A new key, or the renewal of one that is not retired.
SourcePackInit(h, p) ==
    /\ handler[h].pc = "idle" /\ p \notin Multipart
    /\ live /\ ~pack[p].retired
    /\ pack' = [pack EXCEPT ![p] = Renewed(p)]
    /\ Begin(h, p, "sign", NoSession)
    /\ UNCHANGED <<live, captures, ver, head, indexed, store, url, putting, swept>>

\* The clock of the signature starts when the URL is signed.
Presign(h) ==
    /\ handler[h].pc = "sign"
    /\ handler' = [handler EXCEPT ![h].pc = "pin", ![h].left = Lifetime]
    /\ UNCHANGED <<rows, store, url, putting, swept>>

\* Mutant of Pinned: the authorization keeps the time of the first statement.
PinnedEarlier(row, left) == row

Pinned(row, left) == [row EXCEPT !.auth = Max2(@, left)]

\* pinSignedSourceUpload: only a pack that still stands gives out its URL.
PinSignedSourceUpload(h) ==
    LET p == handler[h].pack IN
    /\ handler[h].pc = "pin"
    /\ \/ /\ live /\ ~pack[p].retired
          /\ pack' = [pack EXCEPT ![p] = Pinned(pack[p], handler[h].left)]
          /\ url' = [url EXCEPT ![p] = Max2(@, handler[h].left)]
       \/ /\ ~live \/ pack[p].retired
          /\ UNCHANGED <<pack, url>>
    /\ Return(h)
    /\ UNCHANGED <<live, captures, ver, head, indexed, store, putting, swept>>

SourcePackComplete(h, p) ==
    /\ handler[h].pc = "idle" /\ p \notin Multipart
    /\ pack[p].known /\ ~pack[p].retired
    /\ pack' = [pack EXCEPT ![p] = Renewed(p)]
    /\ Begin(h, p, "check", NoSession)
    /\ UNCHANGED <<live, captures, ver, head, indexed, store, url, putting, swept>>

\* The object has the declared size, or it is not there.
ObjectSize(h) ==
    /\ handler[h].pc = "check"
    /\ \/ /\ handler[h].pack \in object
          /\ handler' = [handler EXCEPT ![h].pc = "mark"]
       \/ /\ handler[h].pack \notin object
          /\ Return(h)
    /\ UNCHANGED <<rows, store, url, putting, swept>>

\* Mutant of MayAccept: the completion forgets that the pack may be retired.
MayAcceptRetired(p) == live

MayAccept(p) == live /\ ~pack[p].retired

MarkComplete(h) ==
    LET p == handler[h].pack IN
    /\ handler[h].pc = "mark"
    /\ pack' = IF MayAccept(p) THEN [pack EXCEPT ![p].complete = TRUE] ELSE pack
    /\ Return(h)
    /\ UNCHANGED <<live, captures, ver, head, indexed, store, url, putting, swept>>

----------------------------------------------------------------------------
(* Packs uploaded in parts.                                                *)

MultipartInit(h, p) ==
    /\ handler[h].pc = "idle" /\ p \in Multipart
    /\ live /\ ~pack[p].retired
    /\ pack' = [pack EXCEPT ![p] = Renewed(p)]
    /\ \/ pack[p].upload = NoSession /\ Begin(h, p, "create", NoSession)
       \/ pack[p].upload # NoSession /\ ~pack[p].complete /\ Begin(h, p, "probe", pack[p].upload)
       \/ pack[p].upload # NoSession /\ pack[p].complete /\ Return(h)
    /\ UNCHANGED <<live, captures, ver, head, indexed, store, url, putting, swept>>

CreateUpload(h, s) ==
    LET p == handler[h].pack IN
    /\ handler[h].pc = "create"
    /\ \A q \in Packs : s \notin session[q] /\ pack[q].upload # s
    /\ \A g \in Handlers : handler[g].upload # s
    /\ session' = [session EXCEPT ![p] = @ \cup {s}]
    /\ handler' = [handler EXCEPT ![h].pc = "persist", ![h].upload = s]
    /\ UNCHANGED <<rows, object, parts, url, putting, swept>>

\* One session is recorded before any part is signed; a known loser is
\* aborted, if the abort gets through.
PersistUpload(h) ==
    LET p == handler[h].pack
        s == handler[h].upload IN
    /\ handler[h].pc = "persist"
    /\ \/ /\ ~pack[p].retired /\ pack[p].upload = NoSession
          /\ pack' = [pack EXCEPT ![p].upload = s]
          /\ UNCHANGED session
       \/ /\ ~pack[p].retired /\ pack[p].upload # NoSession
          /\ session' \in {session, [session EXCEPT ![p] = @ \ {s}]}
          /\ UNCHANGED pack
       \/ /\ pack[p].retired
          /\ UNCHANGED <<pack, session>>
    /\ Return(h)
    /\ UNCHANGED <<live, captures, ver, head, indexed, object, parts, url, putting, swept>>

\* Mutant of FoundCompleted: a session that is gone was completed.
FoundWithoutSession(h) == handler[h].upload \notin session[handler[h].pack]

\* CheckImmutableMultipartUpload: the session is gone and the object is there,
\* a completion whose answer was lost.
FoundCompleted(h) ==
    handler[h].upload \notin session[handler[h].pack] /\ handler[h].pack \in object

\* Otherwise the session is active, or it expired.
ProbeUpload(h) ==
    /\ handler[h].pc = "probe"
    /\ \/ /\ FoundCompleted(h)
          /\ handler' = [handler EXCEPT ![h].pc = "accept"]
       \/ /\ ~FoundCompleted(h)
          /\ Return(h)
    /\ UNCHANGED <<rows, store, url, putting, swept>>

AcceptCompleted(h) ==
    LET p == handler[h].pack IN
    /\ handler[h].pc = "accept"
    /\ pack' = IF MayAccept(p) /\ pack[p].upload = handler[h].upload /\ pack[p].frozen
               THEN [pack EXCEPT ![p].complete = TRUE] ELSE pack
    /\ Return(h)
    /\ UNCHANGED <<live, captures, ver, head, indexed, store, url, putting, swept>>

MultipartPart(h, p) ==
    /\ handler[h].pc = "idle" /\ p \in Multipart
    /\ pack[p].known /\ ~pack[p].retired /\ ~pack[p].complete /\ ~pack[p].frozen
    /\ pack[p].upload # NoSession
    /\ pack' = [pack EXCEPT ![p] = Renewed(p)]
    /\ Begin(h, p, "sign", NoSession)
    /\ UNCHANGED <<live, captures, ver, head, indexed, store, url, putting, swept>>

\* The list of parts is frozen before S3 is asked to complete the upload.
MultipartComplete(h, p) ==
    /\ handler[h].pc = "idle" /\ p \in Multipart
    /\ pack[p].known /\ ~pack[p].retired
    /\ \/ /\ pack[p].upload = NoSession
          /\ pack' = [pack EXCEPT ![p] = Renewed(p)]
          /\ Return(h)
       \/ /\ pack[p].upload # NoSession
          /\ pack' = [pack EXCEPT ![p] = [Renewed(p) EXCEPT !.frozen = TRUE]]
          /\ IF pack[p].complete THEN Return(h) ELSE Begin(h, p, "complete", pack[p].upload)
    /\ UNCHANGED <<live, captures, ver, head, indexed, store, url, putting, swept>>

\* CompleteImmutableMultipartUpload never overwrites; a look at the object
\* recognizes a completion whose answer was lost.
CompleteUpload(h) ==
    LET p == handler[h].pack
        s == handler[h].upload IN
    /\ handler[h].pc = "complete"
    /\ \/ /\ s \in session[p] /\ p \in parts /\ p \notin object
          /\ object' = object \cup {p}
          /\ session' = [session EXCEPT ![p] = @ \ {s}]
          /\ handler' = [handler EXCEPT ![h].pc = "mark"]
       \/ /\ p \in object
          /\ handler' = [handler EXCEPT ![h].pc = "mark"]
          /\ UNCHANGED <<object, session>>
       \/ /\ p \notin object /\ (s \notin session[p] \/ p \notin parts)
          /\ Return(h)
          /\ UNCHANGED <<object, session>>
    /\ UNCHANGED <<rows, parts, url, putting, swept>>

\* The request is cancelled, an S3 call fails, or the process dies.
HandlerFails(h) ==
    /\ handler[h].pc # "idle"
    /\ Return(h)
    /\ UNCHANGED <<rows, store, url, putting, swept>>

----------------------------------------------------------------------------
(* Uploads of clients, time, and S3.                                       *)

\* S3 checks the expiry of a URL when the upload starts.
StartUpload(p) ==
    /\ url[p] > 0 /\ p \notin putting
    /\ putting' = putting \cup {p}
    /\ UNCHANGED <<rows, store, url, handler, swept>>

\* An object is never overwritten (If-None-Match); a part needs its session.
UploadEnds(p) ==
    /\ p \in putting
    /\ putting' = putting \ {p}
    /\ \/ UNCHANGED <<object, parts>>
       \/ p \notin Multipart /\ object' = object \cup {p} /\ UNCHANGED parts
       \/ p \in Multipart /\ pack[p].upload \in session[p]
            /\ parts' = parts \cup {p} /\ UNCHANGED object
    /\ UNCHANGED <<rows, session, url, handler, swept>>

SessionExpires(p) ==
    /\ \E s \in session[p] : session' = [session EXCEPT ![p] = @ \ {s}]
    /\ UNCHANGED <<rows, object, parts, url, putting, handler, swept>>

Elapsed(n) == IF n > 0 THEN n - 1 ELSE 0

Tick ==
    /\ \/ \E p \in Packs : pack[p].auth > 0 \/ url[p] > 0
       \/ \E h \in Handlers : handler[h].left > 0
    /\ pack' = [p \in Packs |-> [pack[p] EXCEPT !.auth = Elapsed(@)]]
    /\ url' = [p \in Packs |-> Elapsed(url[p])]
    /\ handler' = [h \in Handlers |-> [handler[h] EXCEPT !.left = Elapsed(@)]]
    /\ UNCHANGED <<live, captures, ver, head, indexed, store, putting, swept>>

----------------------------------------------------------------------------
(* The catalog.                                                            *)

\* authorizeCaptureSources: bytes of the previous version of the same file, or
\* of a pack that no capture used so far.
SourceAuthorized(f, p) ==
    /\ pack[p].complete /\ ~pack[p].retired
    /\ \/ head[f] # NoCapture /\ p \in ver[head[f]][f].packs
       \/ pack[p].capture = NoCapture

\* RegisterFileVersions under the root lock, for the files of one capture:
\* sources gives the packs of each file's extents, none for a deletion.
RegisterFileVersions(files, sources) ==
    LET c == captures + 1 IN
    /\ live /\ captures < MaxCaptures /\ \A f \in files : sources[f] \in SourceSets
    /\ \A f \in files : \A p \in sources[f] : SourceAuthorized(f, p)
    /\ captures' = c
    /\ ver' = [ver EXCEPT ![c] = [f \in Files |->
                 IF f \in files
                 THEN [work |-> "active", packs |-> sources[f], gone |-> FALSE]
                 ELSE ver[c][f]]]
    /\ head' = [f \in Files |-> IF f \in files THEN c ELSE head[f]]
    /\ pack' = [p \in Packs |->
                  IF pack[p].capture = NoCapture /\ \E f \in files : p \in sources[f]
                  THEN [pack[p] EXCEPT !.capture = c] ELSE pack[p]]
    /\ UNCHANGED <<live, indexed, store, url, putting, handler, swept>>

\* The work of a version ends: published, superseded by a newer capture, or
\* failed for good.
WorkEnds(c, f) ==
    /\ ver[c][f].work = "active"
    /\ \/ /\ head[f] = c /\ live
          /\ ver' = [ver EXCEPT ![c][f].work = "done"]
          /\ indexed' = [indexed EXCEPT ![f] = c]
       \/ /\ head[f] # c
          /\ ver' = [ver EXCEPT ![c][f].work = "done"]
          /\ UNCHANGED indexed
       \/ /\ ver' = [ver EXCEPT ![c][f].work = "failed"]
          /\ UNCHANGED indexed
    /\ UNCHANGED <<live, captures, head, pack, store, url, putting, handler, swept>>

PrepareRootDeletion ==
    /\ live
    /\ live' = FALSE
    /\ UNCHANGED <<captures, ver, head, indexed, pack, store, url, putting, handler, swept>>

----------------------------------------------------------------------------
(* cleanup_source_packs.                                                   *)

VersionEligible(c, f) ==
    /\ ver[c][f].work = "done" /\ ~ver[c][f].gone
    /\ head[f] # c /\ indexed[f] # c

RetireVersion(c, f) ==
    /\ live /\ VersionEligible(c, f)
    /\ ver' = [ver EXCEPT ![c][f].gone = TRUE]
    /\ UNCHANGED <<live, captures, head, indexed, pack, store, url, putting, handler, swept>>

Unreferenced(p) ==
    \A c \in Captures, f \in Files : p \in ver[c][f].packs => ver[c][f].gone

\* Mutant of PackEligible: an upload that was never completed stays.
PackEligibleCompleted(p) ==
    pack[p].complete /\ ~pack[p].retired /\ pack[p].auth = 0 /\ Unreferenced(p)

PackEligible(p) ==
    pack[p].known /\ ~pack[p].retired /\ pack[p].auth = 0 /\ Unreferenced(p)

RetirePack(p) ==
    /\ live /\ PackEligible(p)
    /\ pack' = [pack EXCEPT ![p].retired = TRUE]
    /\ UNCHANGED <<live, captures, ver, head, indexed, store, url, putting, handler, swept>>

\* Mutant of Remaining: only the session the database knows is aborted.
RemainingUnknown(p) == session[p] \ {pack[p].upload}

\* All sessions of the key are listed and aborted.
Remaining(p) == {}

\* A pass over a retired pack, again and again: first its sessions.
AbortSessions(p) ==
    /\ live /\ pack[p].retired /\ p \notin swept
    /\ session' = [session EXCEPT ![p] = Remaining(p)]
    /\ swept' = swept \cup {p}
    /\ UNCHANGED <<rows, object, parts, url, putting, handler>>

\* Then its object.
DeleteObject(p) ==
    /\ p \in swept
    /\ object' = object \ {p}
    /\ swept' = swept \ {p}
    /\ UNCHANGED <<rows, session, parts, url, putting, handler>>

\* The pass ends early: an S3 call fails, the time budget is spent, or the
\* process dies.  A later pass starts over.
CleanupFails(p) ==
    /\ p \in swept
    /\ swept' = swept \ {p}
    /\ UNCHANGED <<rows, store, url, putting, handler>>

----------------------------------------------------------------------------

Proceed(h) ==
    \/ Presign(h) \/ PinSignedSourceUpload(h)
    \/ ObjectSize(h) \/ MarkComplete(h)
    \/ \E s \in Sessions : CreateUpload(h, s)
    \/ PersistUpload(h)
    \/ ProbeUpload(h) \/ AcceptCompleted(h) \/ CompleteUpload(h)

Request(h) ==
    \E p \in Packs : \/ SourcePackInit(h, p) \/ SourcePackComplete(h, p)
                     \/ MultipartInit(h, p) \/ MultipartPart(h, p) \/ MultipartComplete(h, p)

Next ==
    \/ \E h \in Handlers : Request(h) \/ Proceed(h) \/ HandlerFails(h)
    \/ \E p \in Packs : \/ StartUpload(p) \/ UploadEnds(p) \/ SessionExpires(p)
                        \/ RetirePack(p) \/ AbortSessions(p)
                        \/ DeleteObject(p) \/ CleanupFails(p)
    \/ Tick
    \/ \E files \in SUBSET Files \ {{}} : \E sources \in [files -> SUBSET Packs] :
            RegisterFileVersions(files, sources)
    \/ \E c \in Captures, f \in Files : WorkEnds(c, f) \/ RetireVersion(c, f)
    \/ PrepareRootDeletion

Spec == Init /\ [][Next]_vars

\* Time passes, requests and uploads end, and maintenance runs every minute; a
\* deletion that is tried again and again succeeds at last.
Fairness ==
    /\ WF_vars(Tick)
    /\ \A h \in Handlers : WF_vars(Proceed(h) \/ HandlerFails(h))
    /\ \A p \in Packs : /\ WF_vars(UploadEnds(p))
                        /\ WF_vars(RetirePack(p))
                        /\ WF_vars(AbortSessions(p)) /\ SF_vars(DeleteObject(p))
    /\ \A c \in Captures, f \in Files : WF_vars(RetireVersion(c, f))

FairSpec == Spec /\ Fairness

----------------------------------------------------------------------------
(* Properties.                                                             *)

\* The source of a version is needed while it is captured, published, or its
\* work is open or failed (ELIGIBLE_VERSION).
Needed(c, f) ==
    \/ ver[c][f].work \in {"active", "failed"}
    \/ ver[c][f].work = "done" /\ (head[f] = c \/ indexed[f] = c)

\* Every byte a needed version refers to is in S3: from the check of an upload
\* to its registration, through append reuse by later versions, whatever
\* cleanup retires and deletes meanwhile (cleanup_source_packs).
NeededIsReadable ==
    \A c \in Captures, f \in Files :
        Needed(c, f) => ver[c][f].packs \subseteq object

\* A signed URL that can still be used belongs to a pack that is not retired,
\* although signing takes time and cleanup runs (pinSignedSourceUpload).
SignedUploadIsPinned == \A p \in Packs : url[p] > 0 => ~pack[p].retired

\* A version only has bytes that a capture of its own file brought: a pack
\* belongs to one capture, and reaches later versions through the history of
\* one file (authorizeCaptureSources).
BytesComeFromOwnFile ==
    \A c \in Captures, f \in Files : \A p \in ver[c][f].packs :
        pack[p].capture \in 1..c /\ p \in ver[pack[p].capture][f].packs

\* A retired identity is never used again: no handler that started before
\* changes its row any more (retired_at IS NULL in every second statement).
RetirementIsFinal ==
    [][\A p \in Packs : pack[p].retired =>
            pack'[p] = [pack[p] EXCEPT !.auth = pack'[p].auth] /\ pack'[p].auth <= pack[p].auth]_vars

\* What a retired pack left in S3 is removed for good, objects of uploads that
\* end late and sessions nobody recorded included.
RetiredVanishes ==
    \A p \in Packs :
        pack[p].retired ~> [](p \notin object /\ session[p] = {}) \/ []~live

\* A pack that no version needs is retired once its authorization ends, also
\* when its upload was never completed or its capture never arrived.
LeftoversRetire ==
    \A p \in Packs :
        []<>(\/ ~pack[p].known \/ pack[p].auth > 0 \/ pack[p].retired \/ ~live
             \/ \E c \in Captures, f \in Files : p \in ver[c][f].packs /\ Needed(c, f))
=============================================================================

----------------------- MODULE SourceRetentionProofs -----------------------
(***************************************************************************)
(* Proofs about SourceRetention for every set of requests, packs, sessions *)
(* and files, and all bounds.                                              *)
(***************************************************************************)
EXTENDS SourceRetention, TLAPS

\* Authorizations and URLs keep within their lifetime.
LEMMA LeftType ==
    /\ 0 \in Left /\ Lifetime \in Left
    /\ \A a \in Left : Elapsed(a) \in Left /\ a <= Lifetime /\ a >= 0 /\ a \in Int
    /\ \A a, b \in Left : Max2(a, b) \in Left
BY RetentionBoundAssumption DEF Left, Elapsed, Max2

\* A later deadline stays the later one.
LEMMA MaxMonotone ==
    \A a, b, c \in Left : a <= b => Max2(a, c) <= Max2(b, c)
BY RetentionBoundAssumption DEF Left, Max2

\* A pack row keeps its type through the updates of the handlers and of cleanup.
LEMMA PackUpdates ==
    ASSUME NEW row \in PackRow
    PROVE  /\ \A a \in Left : [row EXCEPT !.auth = a] \in PackRow
           /\ \A a \in Left : [row EXCEPT !.known = TRUE, !.auth = a] \in PackRow
           /\ \A s \in Sessions \cup {NoSession} : [row EXCEPT !.upload = s] \in PackRow
           /\ \A c \in 0..MaxCaptures : [row EXCEPT !.capture = c] \in PackRow
           /\ [row EXCEPT !.frozen = TRUE] \in PackRow
           /\ [row EXCEPT !.complete = TRUE] \in PackRow
           /\ [row EXCEPT !.retired = TRUE] \in PackRow
<1>1. \A a \in Left : [row EXCEPT !.auth = a] \in PackRow
  BY DEF PackRow
<1>2. \A a \in Left : [row EXCEPT !.known = TRUE, !.auth = a] \in PackRow
  BY DEF PackRow
<1>3. \A s \in Sessions \cup {NoSession} : [row EXCEPT !.upload = s] \in PackRow
  BY DEF PackRow
<1>4. \A c \in 0..MaxCaptures : [row EXCEPT !.capture = c] \in PackRow
  BY DEF PackRow
<1>5. [row EXCEPT !.frozen = TRUE] \in PackRow
  BY DEF PackRow
<1>6. [row EXCEPT !.complete = TRUE] \in PackRow
  BY DEF PackRow
<1>7. [row EXCEPT !.retired = TRUE] \in PackRow
  BY DEF PackRow
<1>8. QED
  BY <1>1, <1>2, <1>3, <1>4, <1>5, <1>6, <1>7

\* A handler keeps its type through its steps.
LEMMA HandlerUpdates ==
    ASSUME NEW row \in HandlerState,
           NEW pc \in {"idle", "sign", "pin", "check", "mark", "create", "persist",
                       "probe", "accept", "complete"}
    PROVE  /\ [row EXCEPT !.pc = pc] \in HandlerState
           /\ \A a \in Left : [row EXCEPT !.left = a] \in HandlerState
           /\ \A a \in Left : [row EXCEPT !.pc = pc, !.left = a] \in HandlerState
           /\ \A s \in Sessions \cup {NoSession} : [row EXCEPT !.pc = pc, !.upload = s] \in HandlerState
           /\ \A p \in Packs, s \in Sessions \cup {NoSession} :
                 [pc |-> pc, pack |-> p, left |-> 0, upload |-> s] \in HandlerState
BY LeftType DEF HandlerState

\* A version keeps its type when its work ends or its source is retired.
LEMMA VersionUpdates ==
    ASSUME NEW v \in Version
    PROVE  /\ [v EXCEPT !.work = "done"] \in Version
           /\ [v EXCEPT !.work = "failed"] \in Version
           /\ [v EXCEPT !.gone = TRUE] \in Version
<1>1. [v EXCEPT !.work = "done"] \in Version /\ [v EXCEPT !.work = "failed"] \in Version
  BY DEF Version
<1>2. [v EXCEPT !.gone = TRUE] \in Version
  BY DEF Version
<1>3. QED
  BY <1>1, <1>2

\* The first statement of a handler, and its return.
LEMMA HandlerType ==
    ASSUME TypeOK, NEW h \in Handlers, NEW p \in Packs
    PROVE  /\ Idle \in HandlerState
           /\ Return(h) => handler' \in [Handlers -> HandlerState]
           /\ \A s \in Sessions \cup {NoSession} :
                \A pc \in {"sign", "check", "create", "probe", "complete"} :
                    Begin(h, p, pc, s) => handler' \in [Handlers -> HandlerState]
           /\ pack[p] \in PackRow
           /\ pack[p].upload \in Sessions \cup {NoSession}
           /\ Renewed(p) \in PackRow
           /\ [Renewed(p) EXCEPT !.frozen = TRUE] \in PackRow
<1>1. (CHOOSE q \in Packs : TRUE) \in Packs
  OBVIOUS
<1>2. Idle \in HandlerState
  BY <1>1, LeftType DEF Idle, HandlerState
<1>3. Return(h) => handler' \in [Handlers -> HandlerState]
  BY <1>2 DEF TypeOK, Return
<1>4. \A s \in Sessions \cup {NoSession} :
        \A pc \in {"sign", "check", "create", "probe", "complete"} :
            Begin(h, p, pc, s) => handler' \in [Handlers -> HandlerState]
  <2> SUFFICES ASSUME NEW s \in Sessions \cup {NoSession},
                      NEW pc \in {"sign", "check", "create", "probe", "complete"},
                      Begin(h, p, pc, s)
               PROVE  handler' \in [Handlers -> HandlerState]
    OBVIOUS
  <2>1. [pc |-> pc, pack |-> p, left |-> 0, upload |-> s] \in HandlerState
    BY LeftType DEF HandlerState
  <2>2. QED
    BY <2>1 DEF TypeOK, Begin
<1>5. pack[p] \in PackRow
  BY DEF TypeOK
<1>6. pack[p].upload \in Sessions \cup {NoSession}
  BY <1>5 DEF PackRow
<1>7. Renewed(p) \in PackRow
  BY <1>5, PackUpdates, LeftType DEF Renewed
<1>8. [Renewed(p) EXCEPT !.frozen = TRUE] \in PackRow
  BY <1>7, PackUpdates
<1>9. QED
  BY <1>2, <1>3, <1>4, <1>5, <1>6, <1>7, <1>8

\* TypeOK is inductive.
LEMMA TypeStep == TypeOK /\ [Next]_vars => TypeOK'
<1> SUFFICES ASSUME TypeOK, [Next]_vars PROVE TypeOK'
  OBVIOUS
<1>1. ASSUME NEW h \in Handlers, Request(h) PROVE TypeOK'
  <2>1. PICK p \in Packs : \/ SourcePackInit(h, p) \/ SourcePackComplete(h, p)
                           \/ MultipartInit(h, p) \/ MultipartPart(h, p)
                           \/ MultipartComplete(h, p)
    BY <1>1 DEF Request
  <2>2. handler' \in [Handlers -> HandlerState]
    BY <2>1, HandlerType DEF SourcePackInit, SourcePackComplete, MultipartInit,
       MultipartPart, MultipartComplete
  <2>3. pack' \in [Packs -> PackRow]
    BY <2>1, HandlerType DEF SourcePackInit, SourcePackComplete, MultipartInit,
       MultipartPart, MultipartComplete, TypeOK
  <2>4. QED
    BY <2>1, <2>2, <2>3 DEF SourcePackInit, SourcePackComplete, MultipartInit,
       MultipartPart, MultipartComplete, TypeOK, store
<1>2. ASSUME NEW h \in Handlers, Proceed(h) PROVE TypeOK'
  <2> DEFINE p == handler[h].pack
  <2>0. /\ handler[h] \in HandlerState /\ p \in Packs /\ handler[h].left \in Left
        /\ handler[h].upload \in Sessions \cup {NoSession}
    BY DEF TypeOK, HandlerState
  <2>a. pack[p] \in PackRow /\ [pack[p] EXCEPT !.complete = TRUE] \in PackRow
        /\ [pack[p] EXCEPT !.upload = handler[h].upload] \in PackRow
        /\ Pinned(pack[p], handler[h].left) \in PackRow
    <3>1. pack[p] \in PackRow /\ pack[p].auth \in Left
      BY <2>0 DEF TypeOK, PackRow
    <3>2. QED
      BY <2>0, <3>1, PackUpdates, LeftType DEF Pinned
  <2>b. Return(h) => handler' \in [Handlers -> HandlerState]
    BY <2>0, HandlerType
  <2>c. \A pc \in {"mark", "accept"} : [handler[h] EXCEPT !.pc = pc] \in HandlerState
    BY <2>0, HandlerUpdates
  <2>d. [handler[h] EXCEPT !.pc = "pin", !.left = Lifetime] \in HandlerState
    BY <2>0, LeftType DEF HandlerState
  <2>e. \A s \in Sessions : [handler[h] EXCEPT !.pc = "persist", !.upload = s] \in HandlerState
    BY <2>0 DEF HandlerState
  <2>1. CASE Presign(h)
    <3>1. handler' \in [Handlers -> HandlerState]
      BY <2>1, <2>d DEF Presign, TypeOK
    <3>2. QED
      BY <2>1, <3>1 DEF Presign, TypeOK, rows, store
  <2>2. CASE PinSignedSourceUpload(h)
    <3>1. pack' \in [Packs -> PackRow]
      BY <2>2, <2>0, <2>a DEF PinSignedSourceUpload, TypeOK
    <3>2. url' \in [Packs -> Left]
      BY <2>2, <2>0, LeftType DEF PinSignedSourceUpload, TypeOK
    <3>3. QED
      BY <2>2, <2>b, <3>1, <3>2 DEF PinSignedSourceUpload, TypeOK, store
  <2>3. CASE ObjectSize(h)
    <3>1. handler' \in [Handlers -> HandlerState]
      BY <2>3, <2>b, <2>c DEF ObjectSize, TypeOK
    <3>2. QED
      BY <2>3, <3>1 DEF ObjectSize, TypeOK, rows, store
  <2>4. CASE MarkComplete(h)
    <3>1. pack' \in [Packs -> PackRow]
      BY <2>4, <2>0, <2>a DEF MarkComplete, TypeOK
    <3>2. QED
      BY <2>4, <2>b, <3>1 DEF MarkComplete, TypeOK, store
  <2>5. CASE \E s \in Sessions : CreateUpload(h, s)
    <3>1. handler' \in [Handlers -> HandlerState]
      <4>1. PICK s \in Sessions : CreateUpload(h, s)
        BY <2>5
      <4>2. [handler[h] EXCEPT !.pc = "persist", !.upload = s] \in HandlerState
        BY <2>e
      <4>3. QED
        BY <4>1, <4>2 DEF CreateUpload, TypeOK
    <3>2. session' \in [Packs -> SUBSET Sessions]
      BY <2>5, <2>0 DEF CreateUpload, TypeOK
    <3>3. QED
      BY <2>5, <3>1, <3>2 DEF CreateUpload, TypeOK, rows
  <2>6. CASE PersistUpload(h)
    <3>1. pack' \in [Packs -> PackRow]
      BY <2>6, <2>0, <2>a DEF PersistUpload, TypeOK
    <3>2. session' \in [Packs -> SUBSET Sessions]
      BY <2>6, <2>0 DEF PersistUpload, TypeOK
    <3>3. QED
      BY <2>6, <2>b, <3>1, <3>2 DEF PersistUpload, TypeOK
  <2>7. CASE ProbeUpload(h)
    <3>1. handler' \in [Handlers -> HandlerState]
      BY <2>7, <2>b, <2>c DEF ProbeUpload, TypeOK
    <3>2. QED
      BY <2>7, <3>1 DEF ProbeUpload, TypeOK, rows, store
  <2>8. CASE AcceptCompleted(h)
    <3>1. pack' \in [Packs -> PackRow]
      BY <2>8, <2>0, <2>a DEF AcceptCompleted, TypeOK
    <3>2. QED
      BY <2>8, <2>b, <3>1 DEF AcceptCompleted, TypeOK, store
  <2>9. CASE CompleteUpload(h)
    <3>1. handler' \in [Handlers -> HandlerState]
      BY <2>9, <2>b, <2>c DEF CompleteUpload, TypeOK
    <3>2. object' \subseteq Packs /\ session' \in [Packs -> SUBSET Sessions]
      BY <2>9, <2>0 DEF CompleteUpload, TypeOK
    <3>3. QED
      BY <2>9, <3>1, <3>2 DEF CompleteUpload, TypeOK, rows
  <2>10. QED
    BY <1>2, <2>1, <2>2, <2>3, <2>4, <2>5, <2>6, <2>7, <2>8, <2>9 DEF Proceed
<1>3. ASSUME NEW h \in Handlers, HandlerFails(h) PROVE TypeOK'
  <2>1. handler[h].pack \in Packs
    BY DEF TypeOK, HandlerState
  <2>2. handler' \in [Handlers -> HandlerState]
    BY <1>3, <2>1, HandlerType DEF HandlerFails
  <2>3. QED
    BY <1>3, <2>2 DEF HandlerFails, TypeOK, rows, store
<1>4. ASSUME NEW p \in Packs,
             \/ StartUpload(p) \/ UploadEnds(p) \/ SessionExpires(p)
             \/ AbortSessions(p) \/ DeleteObject(p) \/ CleanupFails(p)
      PROVE  TypeOK'
  BY <1>4 DEF StartUpload, UploadEnds, SessionExpires, AbortSessions, DeleteObject,
     CleanupFails, Remaining, TypeOK, rows, store
<1>5. ASSUME NEW p \in Packs, RetirePack(p) PROVE TypeOK'
  <2>1. pack' \in [Packs -> PackRow]
    BY <1>5, PackUpdates DEF RetirePack, TypeOK
  <2>2. QED
    BY <1>5, <2>1 DEF RetirePack, TypeOK, store
<1>6. CASE Tick
  <2>1. pack' \in [Packs -> PackRow]
    <3>1. ASSUME NEW p \in Packs PROVE [pack[p] EXCEPT !.auth = Elapsed(@)] \in PackRow
      BY LeftType DEF TypeOK, PackRow
    <3>2. QED
      BY <1>6, <3>1 DEF Tick
  <2>2. handler' \in [Handlers -> HandlerState]
    <3>1. ASSUME NEW h \in Handlers
          PROVE  [handler[h] EXCEPT !.left = Elapsed(@)] \in HandlerState
      BY LeftType DEF TypeOK, HandlerState
    <3>2. QED
      BY <1>6, <3>1 DEF Tick
  <2>3. QED
    BY <1>6, <2>1, <2>2, LeftType DEF Tick, TypeOK, store
<1>7. ASSUME NEW files \in SUBSET Files, NEW sources \in [files -> SUBSET Packs],
             RegisterFileVersions(files, sources)
      PROVE  TypeOK'
  <2>1. captures + 1 \in 0..MaxCaptures /\ captures + 1 \in Captures
    BY <1>7, RetentionBoundAssumption DEF RegisterFileVersions, TypeOK, Captures
  <2>2. ver' \in [Captures -> [Files -> Version]]
    <3>1. ASSUME NEW f \in Files
          PROVE  (IF f \in files
                  THEN [work |-> "active", packs |-> sources[f], gone |-> FALSE]
                  ELSE ver[captures + 1][f]) \in Version
      BY <2>1 DEF TypeOK, Version
    <3>2. QED
      BY <1>7, <2>1, <3>1 DEF RegisterFileVersions, TypeOK
  <2>3. pack' \in [Packs -> PackRow]
    <3>1. ASSUME NEW p \in Packs
          PROVE  pack[p] \in PackRow /\ [pack[p] EXCEPT !.capture = captures + 1] \in PackRow
      BY <2>1, PackUpdates DEF TypeOK
    <3>2. QED
      BY <1>7, <3>1 DEF RegisterFileVersions
  <2>4. QED
    BY <1>7, <2>1, <2>2, <2>3 DEF RegisterFileVersions, TypeOK, store
<1>8. ASSUME NEW c \in Captures, NEW f \in Files, WorkEnds(c, f) \/ RetireVersion(c, f)
      PROVE  TypeOK'
  <2>1. ver' \in [Captures -> [Files -> Version]]
    <3>1. ver[c][f] \in Version
      BY DEF TypeOK
    <3>2. PICK e \in Version : ver' = [ver EXCEPT ![c] = [ver[c] EXCEPT ![f] = e]]
      BY <1>8, <3>1, VersionUpdates DEF WorkEnds, RetireVersion
    <3>3. QED
      BY <3>2 DEF TypeOK
  <2>2. indexed' \in [Files -> 0..MaxCaptures]
    BY <1>8, RetentionBoundAssumption DEF WorkEnds, RetireVersion, TypeOK, Captures
  <2>3. QED
    BY <1>8, <2>1, <2>2 DEF WorkEnds, RetireVersion, TypeOK, store
<1>9. CASE PrepareRootDeletion
  BY <1>9 DEF PrepareRootDeletion, TypeOK, store
<1>10. CASE UNCHANGED vars
  BY <1>10 DEF vars, TypeOK
<1>11. QED
  BY <1>1, <1>2, <1>3, <1>4, <1>5, <1>6, <1>7, <1>8, <1>9, <1>10 DEF Next

\* The initial state has the types.
LEMMA TypeInit == Init => TypeOK
<1> SUFFICES ASSUME Init PROVE TypeOK
  OBVIOUS
<1>1. NoVersion \in Version
  BY DEF NoVersion, Version
<1>2. NewPack \in PackRow
  BY LeftType, RetentionBoundAssumption DEF NewPack, PackRow, NoCapture
<1>3. Idle \in HandlerState
  <2>1. (CHOOSE q \in Packs : TRUE) \in Packs
    BY RetentionSetAssumption
  <2>2. QED
    BY <2>1, LeftType DEF Idle, HandlerState
<1>4. QED
  BY <1>1, <1>2, <1>3, LeftType, RetentionBoundAssumption DEF Init, TypeOK, NoCapture

\* The rows, S3 and the handlers keep their types, for any number of requests,
\* packs, sessions, files and captures (source_objects, file_versions).
THEOREM RetentionTypeCorrect == Spec => []TypeOK
BY TypeInit, TypeStep, PTL DEF Spec

----------------------------------------------------------------------------
(* The inductive invariant.                                                *)

\* No URL outlives the authorization of its pack, and a retired pack has none.
Pins == \A p \in Packs : /\ url[p] <= pack[p].auth
                         /\ pack[p].retired => pack[p].auth = 0

\* What is complete, or about to be recorded as complete, is in S3 until the
\* pack is retired; only objects of retired packs are deleted.
Stored ==
    /\ \A p \in Packs : pack[p].complete /\ ~pack[p].retired => p \in object
    /\ \A h \in Handlers :
          handler[h].pc \in {"mark", "accept"} /\ ~pack[handler[h].pack].retired
              => handler[h].pack \in object
    /\ \A p \in swept : pack[p].retired

\* A version that is not retired holds its packs; a retired one is not needed.
Kept == \A c \in Captures, f \in Files :
    IF ver[c][f].gone
    THEN ver[c][f].work = "done" /\ head[f] # c /\ indexed[f] # c
    ELSE \A p \in ver[c][f].packs : pack[p].complete /\ ~pack[p].retired

\* Versions are written in the order of captures.
Written ==
    /\ \A c \in Captures, f \in Files : c > captures => ver[c][f] = NoVersion
    /\ \A f \in Files : head[f] <= captures

IInv == TypeOK /\ Pins /\ Stored /\ Kept /\ Written /\ BytesComeFromOwnFile

\* What a step may do to the row of a pack.
PackStep(p) ==
    /\ pack[p].complete => pack'[p].complete
    /\ pack'[p].complete => pack[p].complete \/ (p \in object /\ ~pack[p].retired)
    /\ pack[p].retired => pack'[p].retired
    /\ pack'[p].retired =>
          \/ pack[p].retired
          \/ pack[p].auth = 0 /\ pack'[p].auth = 0 /\ Unreferenced(p) /\ UNCHANGED <<ver, url>>
    /\ pack[p].retired => pack'[p] = [pack[p] EXCEPT !.auth = pack'[p].auth]
    /\ pack[p].retired => pack'[p].auth <= pack[p].auth
    /\ url[p] <= pack[p].auth => url'[p] <= pack'[p].auth
    /\ captures' = captures => pack'[p].capture = pack[p].capture

\* A pack whose row and URL stay has taken such a step.
LEMMA PackStays ==
    ASSUME TypeOK, NEW p \in Packs, pack'[p] = pack[p], url'[p] = url[p]
    PROVE  PackStep(p)
<1>1. pack[p] \in PackRow /\ pack[p].auth \in Left
  BY DEF TypeOK, PackRow
<1>2. pack[p] = [pack[p] EXCEPT !.auth = pack[p].auth]
  BY <1>1 DEF PackRow
<1>3. pack[p].auth <= pack[p].auth
  BY <1>1, LeftType
<1>4. QED
  BY <1>2, <1>3 DEF PackStep

\* Every step does so.
LEMMA PackSteps ==
    ASSUME TypeOK, Stored, [Next]_vars, NEW p \in Packs
    PROVE  PackStep(p)
<1>0. /\ pack \in [Packs -> PackRow] /\ pack[p] \in PackRow /\ pack[p].auth \in Left
      /\ url \in [Packs -> Left] /\ url[p] \in Left
  BY DEF TypeOK, PackRow
<1>1. ASSUME NEW h \in Handlers, Request(h) PROVE PackStep(p)
  <2>1. PICK q \in Packs : \/ SourcePackInit(h, q) \/ SourcePackComplete(h, q)
                           \/ MultipartInit(h, q) \/ MultipartPart(h, q)
                           \/ MultipartComplete(h, q)
    BY <1>1 DEF Request
  <2>2. CASE q # p
    <3>1. pack'[p] = pack[p] /\ url'[p] = url[p]
      BY <1>0, <2>1, <2>2 DEF SourcePackInit, SourcePackComplete, MultipartInit,
         MultipartPart, MultipartComplete
    <3>2. QED
      BY <3>1, PackStays
  <2>3. CASE q = p
    <3>1. ~pack[p].retired /\ url'[p] = url[p]
      BY <1>0, <2>1, <2>3 DEF SourcePackInit, SourcePackComplete, MultipartInit,
         MultipartPart, MultipartComplete
    <3>2. \/ pack'[p] = Renewed(p)
          \/ pack'[p] = [Renewed(p) EXCEPT !.frozen = TRUE]
      BY <1>0, <2>1, <2>3 DEF SourcePackInit, SourcePackComplete, MultipartInit,
         MultipartPart, MultipartComplete
    <3>3. /\ pack'[p].complete = pack[p].complete /\ pack'[p].retired = pack[p].retired
          /\ pack'[p].auth = Lifetime /\ pack'[p].capture = pack[p].capture
      BY <1>0, <3>2 DEF Renewed, PackRow
    <3>4. url'[p] <= pack'[p].auth
      BY <1>0, <3>1, <3>3, LeftType
    <3>5. QED
      BY <3>1, <3>3, <3>4 DEF PackStep
  <2>4. QED
    BY <2>2, <2>3
<1>2. ASSUME NEW h \in Handlers, PinSignedSourceUpload(h) PROVE PackStep(p)
  <2>0. handler[h].pack \in Packs /\ handler[h].left \in Left
    BY DEF TypeOK, HandlerState
  <2>1. CASE handler[h].pack = p /\ live /\ ~pack[p].retired
    <3>1. pack'[p] = Pinned(pack[p], handler[h].left) /\ url'[p] = Max2(url[p], handler[h].left)
      BY <1>0, <1>2, <2>1 DEF PinSignedSourceUpload
    <3>2. /\ pack'[p].complete = pack[p].complete /\ pack'[p].retired = pack[p].retired
          /\ pack'[p].auth = Max2(pack[p].auth, handler[h].left)
          /\ pack'[p].capture = pack[p].capture
      BY <1>0, <3>1 DEF Pinned, PackRow
    <3>3. url[p] <= pack[p].auth => url'[p] <= pack'[p].auth
      BY <1>0, <2>0, <3>1, <3>2, MaxMonotone
    <3>4. QED
      BY <2>1, <3>2, <3>3 DEF PackStep
  <2>2. CASE ~(handler[h].pack = p /\ live /\ ~pack[p].retired)
    <3>1. pack'[p] = pack[p] /\ url'[p] = url[p]
      BY <1>0, <1>2, <2>0, <2>2 DEF PinSignedSourceUpload
    <3>2. QED
      BY <3>1, PackStays
  <2>3. QED
    BY <2>1, <2>2
<1>3. ASSUME NEW h \in Handlers, MarkComplete(h) \/ AcceptCompleted(h) PROVE PackStep(p)
  <2>0. handler[h].pack \in Packs
    BY DEF TypeOK, HandlerState
  <2>1. CASE pack'[p] = pack[p]
    BY <1>3, <2>1, PackStays DEF MarkComplete, AcceptCompleted
  <2>2. CASE pack'[p] # pack[p]
    <3>1. /\ handler[h].pack = p /\ MayAccept(p) /\ url' = url
          /\ handler[h].pc \in {"mark", "accept"}
          /\ pack'[p] = [pack[p] EXCEPT !.complete = TRUE]
      BY <1>0, <1>3, <2>0, <2>2 DEF MarkComplete, AcceptCompleted
    <3>2. p \in object /\ ~pack[p].retired
      BY <3>1 DEF MayAccept, Stored
    <3>3. /\ pack'[p].retired = pack[p].retired /\ pack'[p].auth = pack[p].auth
          /\ pack'[p].complete /\ pack'[p].capture = pack[p].capture
      BY <1>0, <3>1 DEF PackRow
    <3>4. QED
      BY <3>1, <3>2, <3>3 DEF PackStep
  <2>3. QED
    BY <2>1, <2>2
<1>4. ASSUME NEW h \in Handlers, PersistUpload(h) PROVE PackStep(p)
  <2>0. handler[h].pack \in Packs
    BY DEF TypeOK, HandlerState
  <2>1. CASE pack'[p] = pack[p]
    BY <1>4, <2>1, PackStays DEF PersistUpload
  <2>2. CASE pack'[p] # pack[p]
    <3>1. /\ ~pack[p].retired /\ url' = url
          /\ pack'[p] = [pack[p] EXCEPT !.upload = handler[h].upload]
      BY <1>0, <1>4, <2>0, <2>2 DEF PersistUpload
    <3>2. /\ pack'[p].retired = pack[p].retired /\ pack'[p].auth = pack[p].auth
          /\ pack'[p].complete = pack[p].complete /\ pack'[p].capture = pack[p].capture
      BY <1>0, <3>1 DEF PackRow
    <3>3. QED
      BY <3>1, <3>2 DEF PackStep
  <2>3. QED
    BY <2>1, <2>2
<1>5. ASSUME NEW h \in Handlers,
             \/ Presign(h) \/ ObjectSize(h) \/ (\E s \in Sessions : CreateUpload(h, s))
             \/ ProbeUpload(h) \/ CompleteUpload(h) \/ HandlerFails(h)
      PROVE  PackStep(p)
  BY <1>5, PackStays DEF Presign, ObjectSize, CreateUpload, ProbeUpload, CompleteUpload,
     HandlerFails, rows
<1>6. ASSUME NEW q \in Packs,
             \/ StartUpload(q) \/ UploadEnds(q) \/ SessionExpires(q)
             \/ AbortSessions(q) \/ DeleteObject(q) \/ CleanupFails(q)
      PROVE  PackStep(p)
  BY <1>6, PackStays DEF StartUpload, UploadEnds, SessionExpires, AbortSessions,
     DeleteObject, CleanupFails, rows
<1>7. ASSUME NEW q \in Packs, RetirePack(q) PROVE PackStep(p)
  <2>1. CASE p # q
    BY <1>0, <1>7, <2>1, PackStays DEF RetirePack
  <2>2. CASE p = q
    <3>1. /\ ~pack[p].retired /\ pack[p].auth = 0 /\ Unreferenced(p)
          /\ UNCHANGED <<ver, url>> /\ pack'[p] = [pack[p] EXCEPT !.retired = TRUE]
      BY <1>0, <1>7, <2>2 DEF RetirePack, PackEligible
    <3>2. /\ pack'[p].complete = pack[p].complete /\ pack'[p].auth = pack[p].auth
          /\ pack'[p].capture = pack[p].capture
      BY <1>0, <3>1 DEF PackRow
    <3>3. QED
      BY <3>1, <3>2 DEF PackStep
  <2>3. QED
    BY <2>1, <2>2
<1>8. CASE Tick
  <2>1. pack'[p] = [pack[p] EXCEPT !.auth = Elapsed(@)] /\ url'[p] = Elapsed(url[p])
    BY <1>8 DEF Tick
  <2>2. /\ pack'[p].retired = pack[p].retired /\ pack'[p].complete = pack[p].complete
        /\ pack'[p].auth = Elapsed(pack[p].auth) /\ pack'[p].capture = pack[p].capture
    BY <1>0, <2>1 DEF PackRow
  <2>3. pack'[p].auth <= pack[p].auth
    BY <1>0, <2>2, LeftType DEF Elapsed
  <2>4. url[p] <= pack[p].auth => url'[p] <= pack'[p].auth
    BY <1>0, <2>1, <2>2, LeftType DEF Elapsed
  <2>5. pack'[p] = [pack[p] EXCEPT !.auth = pack'[p].auth]
    BY <2>1, <2>2
  <2>6. QED
    BY <2>2, <2>3, <2>4, <2>5 DEF PackStep
<1>9. ASSUME NEW files \in SUBSET Files, NEW sources \in [files -> SUBSET Packs],
             RegisterFileVersions(files, sources)
      PROVE  PackStep(p)
  <2>1. CASE pack'[p] = pack[p]
    BY <1>9, <2>1, PackStays DEF RegisterFileVersions
  <2>2. CASE pack'[p] # pack[p]
    <3>1. /\ ~pack[p].retired /\ url' = url
          /\ pack'[p] = [pack[p] EXCEPT !.capture = captures + 1]
      BY <1>0, <1>9, <2>2 DEF RegisterFileVersions, SourceAuthorized
    <3>2. captures' # captures
      BY <1>9 DEF RegisterFileVersions, TypeOK
    <3>3. /\ pack'[p].retired = pack[p].retired /\ pack'[p].auth = pack[p].auth
          /\ pack'[p].complete = pack[p].complete
      BY <1>0, <3>1 DEF PackRow
    <3>4. QED
      BY <3>1, <3>3, <3>2 DEF PackStep
  <2>3. QED
    BY <2>1, <2>2
<1>10. ASSUME NEW c \in Captures, NEW f \in Files, WorkEnds(c, f) \/ RetireVersion(c, f)
       PROVE  PackStep(p)
  BY <1>10, PackStays DEF WorkEnds, RetireVersion
<1>11. CASE PrepareRootDeletion \/ UNCHANGED vars
  BY <1>11, PackStays DEF PrepareRootDeletion, vars
<1>12. QED
  BY <1>1, <1>2, <1>3, <1>4, <1>5, <1>6, <1>7, <1>8, <1>9, <1>10, <1>11 DEF Next, Proceed

\* Objects stay unless their pack is retired; a handler is about to record a
\* completion only when the object is there; a pass is over a retired pack.
StoreStep ==
    /\ \A p \in object : p \in object' \/ pack[p].retired
    /\ \A h \in Handlers : handler'[h].pc \in {"mark", "accept"} =>
          \/ handler'[h].pack \in object'
          \/ handler[h].pc = handler'[h].pc /\ handler[h].pack = handler'[h].pack
    /\ \A p \in swept' : p \in swept \/ pack[p].retired

\* A handler that returns, and the others, record nothing new.
LEMMA HandlerReturns ==
    ASSUME TypeOK, NEW h \in Handlers, NEW g \in Handlers
    PROVE  /\ Return(h) => handler'[g] = handler[g] \/ handler'[g].pc = "idle"
           /\ \A q, s : \A pc \in {"sign", "check", "create", "probe", "complete"} :
                Begin(h, q, pc, s) => handler'[g] = handler[g] \/ handler'[g].pc = pc
BY DEF TypeOK, Return, Begin, Idle

\* Every step treats S3 so.
LEMMA StoreSteps ==
    ASSUME TypeOK, Stored, [Next]_vars
    PROVE  StoreStep
<1>1. ASSUME NEW h \in Handlers, Request(h) PROVE StoreStep
  <2>1. UNCHANGED <<object, swept>>
    BY <1>1 DEF Request, SourcePackInit, SourcePackComplete, MultipartInit,
       MultipartPart, MultipartComplete, store
  <2>2. PICK q \in Packs : \/ Return(h)
                           \/ \E s : \E pc \in {"sign", "check", "create", "probe", "complete"} :
                                 Begin(h, q, pc, s)
    BY <1>1 DEF Request, SourcePackInit, SourcePackComplete, MultipartInit,
       MultipartPart, MultipartComplete
  <2>3. ASSUME NEW g \in Handlers
        PROVE  handler'[g] = handler[g] \/ handler'[g].pc \notin {"mark", "accept"}
    BY <2>2, HandlerReturns
  <2>4. QED
    BY <2>1, <2>3 DEF StoreStep
<1>2. ASSUME NEW h \in Handlers, ObjectSize(h) \/ ProbeUpload(h) PROVE StoreStep
  <2>1. UNCHANGED <<object, swept>>
    BY <1>2 DEF ObjectSize, ProbeUpload, store
  <2>2. ASSUME NEW g \in Handlers, handler'[g].pc \in {"mark", "accept"}
        PROVE  handler'[g] = handler[g] \/ handler'[g].pack \in object
    <3>1. CASE Return(h)
      BY <2>2, <3>1, HandlerReturns
    <3>2. CASE ~Return(h)
      <4>1. handler[h].pack \in object
        BY <1>2, <3>2 DEF ObjectSize, ProbeUpload, FoundCompleted
      <4>2. \E pc \in {"mark", "accept"} : handler' = [handler EXCEPT ![h].pc = pc]
        BY <1>2, <3>2 DEF ObjectSize, ProbeUpload
      <4>3. g # h => handler'[g] = handler[g]
        BY <4>2 DEF TypeOK
      <4>4. g = h => handler'[g].pack = handler[h].pack
        BY <4>2 DEF TypeOK, HandlerState
      <4>5. QED
        BY <4>1, <4>3, <4>4
    <3>3. QED
      BY <3>1, <3>2
  <2>3. QED
    BY <2>1, <2>2 DEF StoreStep
<1>3. ASSUME NEW h \in Handlers, CompleteUpload(h) PROVE StoreStep
  <2>1. swept' = swept /\ object \subseteq object'
    BY <1>3 DEF CompleteUpload
  <2>2. ASSUME NEW g \in Handlers, handler'[g].pc \in {"mark", "accept"}
        PROVE  handler'[g] = handler[g] \/ handler'[g].pack \in object'
    <3>1. CASE Return(h)
      BY <2>2, <3>1, HandlerReturns
    <3>2. CASE ~Return(h)
      <4>1. handler[h].pack \in object'
        BY <1>3, <3>2 DEF CompleteUpload
      <4>2. handler' = [handler EXCEPT ![h].pc = "mark"]
        BY <1>3, <3>2 DEF CompleteUpload
      <4>3. g # h => handler'[g] = handler[g]
        BY <4>2 DEF TypeOK
      <4>4. g = h => handler'[g].pack = handler[h].pack
        BY <4>2 DEF TypeOK, HandlerState
      <4>5. QED
        BY <4>1, <4>3, <4>4
    <3>3. QED
      BY <3>1, <3>2
  <2>3. QED
    BY <2>1, <2>2 DEF StoreStep
<1>4. ASSUME NEW h \in Handlers, Presign(h) \/ \E s \in Sessions : CreateUpload(h, s)
      PROVE  StoreStep
  <2>1. UNCHANGED <<object, swept>>
    BY <1>4 DEF Presign, CreateUpload, store
  <2>2. ASSUME NEW g \in Handlers
        PROVE  handler'[g] = handler[g] \/ handler'[g].pc \in {"pin", "persist"}
    BY <1>4 DEF Presign, CreateUpload, TypeOK, HandlerState
  <2>3. QED
    BY <2>1, <2>2 DEF StoreStep
<1>5. ASSUME NEW h \in Handlers,
             \/ PinSignedSourceUpload(h) \/ MarkComplete(h) \/ PersistUpload(h)
             \/ AcceptCompleted(h) \/ HandlerFails(h)
      PROVE  StoreStep
  <2>1. UNCHANGED <<object, swept>> /\ Return(h)
    BY <1>5 DEF PinSignedSourceUpload, MarkComplete, PersistUpload, AcceptCompleted,
       HandlerFails, store
  <2>2. ASSUME NEW g \in Handlers PROVE handler'[g] = handler[g] \/ handler'[g].pc = "idle"
    BY <2>1, HandlerReturns
  <2>3. QED
    BY <2>1, <2>2 DEF StoreStep
<1>6. ASSUME NEW q \in Packs,
             \/ StartUpload(q) \/ UploadEnds(q) \/ SessionExpires(q) \/ RetirePack(q)
             \/ AbortSessions(q) \/ DeleteObject(q) \/ CleanupFails(q)
      PROVE  StoreStep
  BY <1>6 DEF StartUpload, UploadEnds, SessionExpires, RetirePack, AbortSessions,
     DeleteObject, CleanupFails, store, StoreStep, Stored
<1>7. CASE Tick
  <2>1. UNCHANGED <<object, swept>>
    BY <1>7 DEF Tick, store
  <2>2. ASSUME NEW g \in Handlers
        PROVE  handler'[g].pc = handler[g].pc /\ handler'[g].pack = handler[g].pack
    BY <1>7 DEF Tick, TypeOK, HandlerState
  <2>3. QED
    BY <2>1, <2>2 DEF StoreStep
<1>8. CASE \/ \E files \in SUBSET Files : \E sources \in [files -> SUBSET Packs] :
                 RegisterFileVersions(files, sources)
           \/ \E c \in Captures, f \in Files : WorkEnds(c, f) \/ RetireVersion(c, f)
           \/ PrepareRootDeletion \/ UNCHANGED vars
  <2>1. UNCHANGED <<object, handler, swept>>
    BY <1>8 DEF RegisterFileVersions, WorkEnds, RetireVersion, PrepareRootDeletion,
       vars, store
  <2>2. QED
    BY <2>1 DEF StoreStep
<1>9. QED
  BY <1>1, <1>2, <1>3, <1>4, <1>5, <1>6, <1>7, <1>8 DEF Next, Proceed

\* A step registers a capture, ends the work or the life of a version, or
\* leaves the versions alone.
LEMMA VersionSteps ==
    ASSUME [Next]_vars
    PROVE  \/ \E files \in SUBSET Files : \E sources \in [files -> SUBSET Packs] :
                 RegisterFileVersions(files, sources)
           \/ \E c \in Captures, f \in Files : WorkEnds(c, f) \/ RetireVersion(c, f)
           \/ UNCHANGED <<captures, ver, head, indexed>>
<1>1. ASSUME NEW h \in Handlers, Request(h) \/ Proceed(h) \/ HandlerFails(h)
      PROVE  UNCHANGED <<captures, ver, head, indexed>>
  BY <1>1 DEF Request, Proceed, HandlerFails, SourcePackInit, SourcePackComplete,
     MultipartInit, MultipartPart, MultipartComplete, Presign, PinSignedSourceUpload,
     ObjectSize, MarkComplete, CreateUpload, PersistUpload, ProbeUpload,
     AcceptCompleted, CompleteUpload, rows
<1>2. ASSUME NEW p \in Packs,
             \/ StartUpload(p) \/ UploadEnds(p) \/ SessionExpires(p) \/ RetirePack(p)
             \/ AbortSessions(p) \/ DeleteObject(p) \/ CleanupFails(p)
      PROVE  UNCHANGED <<captures, ver, head, indexed>>
  BY <1>2 DEF StartUpload, UploadEnds, SessionExpires, RetirePack, AbortSessions,
     DeleteObject, CleanupFails, rows
<1>3. CASE Tick \/ PrepareRootDeletion \/ UNCHANGED vars
  BY <1>3 DEF Tick, PrepareRootDeletion, vars
<1>4. QED
  BY <1>1, <1>2, <1>3 DEF Next

\* What a capture writes.
LEMMA Registered ==
    ASSUME TypeOK, NEW files \in SUBSET Files, NEW sources \in [files -> SUBSET Packs],
           RegisterFileVersions(files, sources)
    PROVE  /\ captures + 1 \in Captures /\ captures' = captures + 1
           /\ \A c \in Captures, f \in Files : c # captures + 1 => ver'[c][f] = ver[c][f]
           /\ \A f \in files : /\ ver'[captures + 1][f].packs = sources[f]
                               /\ ~ver'[captures + 1][f].gone
           /\ \A f \in Files \ files : ver'[captures + 1][f] = ver[captures + 1][f]
           /\ \A f \in Files : head'[f] = IF f \in files THEN captures + 1 ELSE head[f]
           /\ indexed' = indexed
           /\ \A p \in Packs : /\ pack'[p].complete = pack[p].complete
                               /\ pack'[p].retired = pack[p].retired
                               /\ pack[p].capture # NoCapture => pack'[p].capture = pack[p].capture
           /\ \A f \in files : \A p \in sources[f] :
                 /\ p \in Packs
                 /\ SourceAuthorized(f, p)
                 /\ pack[p].capture = NoCapture => pack'[p].capture = captures + 1
<1>1. captures + 1 \in Captures /\ captures' = captures + 1
  BY RetentionBoundAssumption DEF RegisterFileVersions, TypeOK, Captures
<1>2. \A c \in Captures, f \in Files : c # captures + 1 => ver'[c][f] = ver[c][f]
  BY DEF RegisterFileVersions, TypeOK
<1>3. /\ \A f \in files : /\ ver'[captures + 1][f].packs = sources[f]
                          /\ ~ver'[captures + 1][f].gone
      /\ \A f \in Files \ files : ver'[captures + 1][f] = ver[captures + 1][f]
  BY <1>1 DEF RegisterFileVersions, TypeOK
<1>4. /\ \A f \in Files : head'[f] = IF f \in files THEN captures + 1 ELSE head[f]
      /\ indexed' = indexed
  BY DEF RegisterFileVersions
<1>5. \A p \in Packs : pack[p] \in PackRow
  BY DEF TypeOK
<1>6. \A p \in Packs : /\ pack'[p].complete = pack[p].complete
                       /\ pack'[p].retired = pack[p].retired
                       /\ pack[p].capture # NoCapture => pack'[p].capture = pack[p].capture
  BY <1>5 DEF RegisterFileVersions, PackRow
<1>7. ASSUME NEW f \in files, NEW p \in sources[f]
      PROVE  /\ p \in Packs /\ SourceAuthorized(f, p)
             /\ pack[p].capture = NoCapture => pack'[p].capture = captures + 1
  BY <1>5 DEF RegisterFileVersions, PackRow
<1>8. QED
  BY <1>1, <1>2, <1>3, <1>4, <1>6, <1>7

\* What the end of work and a retirement change in the versions.
LEMMA Ended ==
    ASSUME TypeOK, NEW c \in Captures, NEW f \in Files, WorkEnds(c, f) \/ RetireVersion(c, f)
    PROVE  /\ UNCHANGED <<captures, head, pack>>
           /\ ver[c][f] # NoVersion
           /\ \A d \in Captures, g \in Files :
                 /\ ver'[d][g].packs = ver[d][g].packs
                 /\ <<d, g>> # <<c, f>> => ver'[d][g] = ver[d][g]
                 /\ indexed'[g] = indexed[g] \/ (indexed'[g] = c /\ g = f /\ ver[c][f].work = "active")
           /\ \/ ver[c][f].work = "active" /\ ver'[c][f].gone = ver[c][f].gone
              \/ VersionEligible(c, f) /\ ver'[c][f].gone /\ ver'[c][f].work = "done" /\ indexed' = indexed
<1>1. UNCHANGED <<captures, head, pack>>
  BY DEF WorkEnds, RetireVersion
<1>2. ver[c][f].work \in {"active", "done"} /\ ver[c][f] \in Version
  BY DEF WorkEnds, RetireVersion, VersionEligible, TypeOK
<1>3. ver[c][f] # NoVersion
  BY <1>2 DEF NoVersion
<1>4. CASE WorkEnds(c, f)
  <2>1. PICK w \in {"done", "failed"} : ver' = [ver EXCEPT ![c][f].work = w]
    BY <1>4 DEF WorkEnds
  <2>2. \A d \in Captures, g \in Files :
           /\ ver'[d][g].packs = ver[d][g].packs
           /\ <<d, g>> # <<c, f>> => ver'[d][g] = ver[d][g]
           /\ ver'[d][g].gone = ver[d][g].gone
    BY <1>2, <2>1 DEF TypeOK, Version
  <2>3. \A g \in Files : indexed'[g] = indexed[g] \/ (indexed'[g] = c /\ g = f)
    BY <1>4 DEF WorkEnds, TypeOK
  <2>4. QED
    BY <1>1, <1>3, <1>4, <2>2, <2>3 DEF WorkEnds
<1>5. CASE RetireVersion(c, f)
  <2>1. ver' = [ver EXCEPT ![c][f].gone = TRUE] /\ VersionEligible(c, f) /\ indexed' = indexed
    BY <1>5 DEF RetireVersion
  <2>2. \A d \in Captures, g \in Files :
           /\ ver'[d][g].packs = ver[d][g].packs
           /\ <<d, g>> # <<c, f>> => ver'[d][g] = ver[d][g]
    BY <1>2, <2>1 DEF TypeOK, Version
  <2>3. ver'[c][f].gone /\ ver'[c][f].work = ver[c][f].work
    BY <1>2, <2>1 DEF TypeOK, Version
  <2>4. QED
    BY <1>1, <1>3, <2>1, <2>2, <2>3 DEF VersionEligible
<1>6. QED
  BY <1>4, <1>5

\* The invariant holds at first.
LEMMA IInvInit == Init => IInv
<1> SUFFICES ASSUME Init PROVE IInv
  OBVIOUS
<1>1. TypeOK
  BY TypeInit
<1>2. \A p \in Packs : ~pack[p].complete /\ ~pack[p].retired /\ pack[p].auth = 0 /\ url[p] = 0
  BY DEF Init, NewPack
<1>3. Pins
  BY <1>2 DEF Pins
<1>4. \A h \in Handlers : handler[h].pc = "idle"
  BY DEF Init, Idle
<1>5. Stored
  BY <1>2, <1>4 DEF Stored, Init
<1>6. \A c \in Captures, f \in Files : ver[c][f] = NoVersion
  BY DEF Init
<1>7. Kept /\ BytesComeFromOwnFile
  BY <1>6 DEF Kept, BytesComeFromOwnFile, NoVersion
<1>8. Written
  BY <1>6 DEF Written, Init, NoCapture
<1>9. QED
  BY <1>1, <1>3, <1>5, <1>7, <1>8 DEF IInv

\* Every step keeps it.
LEMMA IInvStep == IInv /\ [Next]_vars => IInv'
<1> SUFFICES ASSUME IInv, [Next]_vars PROVE IInv'
  OBVIOUS
<1>0. TypeOK /\ Pins /\ Stored /\ Kept /\ Written /\ BytesComeFromOwnFile
  BY DEF IInv
<1>1. TypeOK'
  BY <1>0, TypeStep
<1>2. \A p \in Packs : PackStep(p)
  BY <1>0, PackSteps
<1>3. StoreStep
  BY <1>0, StoreSteps
<1>4. Pins'
  <2> SUFFICES ASSUME NEW p \in Packs
               PROVE  url'[p] <= pack'[p].auth /\ (pack'[p].retired => pack'[p].auth = 0)
    BY DEF Pins
  <2>1. url[p] <= pack[p].auth /\ (pack[p].retired => pack[p].auth = 0)
    BY <1>0 DEF Pins
  <2>2. pack'[p].auth \in Left
    BY <1>1 DEF TypeOK, PackRow
  <2>3. pack[p].retired => pack'[p].auth = 0
    <3>1. pack[p].retired => pack'[p].auth <= pack[p].auth
      BY <1>2 DEF PackStep
    <3>2. QED
      BY <2>1, <2>2, <3>1, RetentionBoundAssumption DEF Left
  <2>4. QED
    BY <1>2, <2>1, <2>3 DEF PackStep
<1>5. Stored'
  <2>1. ASSUME NEW p \in Packs, pack'[p].complete, ~pack'[p].retired PROVE p \in object'
    BY <1>0, <1>2, <1>3, <2>1 DEF PackStep, StoreStep, Stored
  <2>2. ASSUME NEW h \in Handlers, handler'[h].pc \in {"mark", "accept"},
               ~pack'[handler'[h].pack].retired
        PROVE  handler'[h].pack \in object'
    <3>1. CASE handler'[h].pack \notin object'
      <4>1. handler[h].pc = handler'[h].pc /\ handler[h].pack = handler'[h].pack
        BY <1>3, <2>2, <3>1 DEF StoreStep
      <4>2. handler[h].pack \in Packs
        BY <1>0 DEF TypeOK, HandlerState
      <4>3. ~pack[handler[h].pack].retired
        BY <1>2, <2>2, <4>1, <4>2 DEF PackStep
      <4>4. handler[h].pack \in object
        BY <1>0, <2>2, <4>1, <4>3 DEF Stored
      <4>5. QED
        BY <1>3, <4>1, <4>3, <4>4 DEF StoreStep
    <3>2. QED
      BY <3>1
  <2>3. ASSUME NEW p \in swept' PROVE pack'[p].retired
    <3>1. pack[p].retired /\ p \in Packs
      BY <1>0, <1>1, <1>3, <2>3 DEF StoreStep, Stored, TypeOK
    <3>2. QED
      BY <1>2, <3>1 DEF PackStep
  <2>4. QED
    BY <2>1, <2>2, <2>3 DEF Stored
<1>6. ASSUME NEW files \in SUBSET Files, NEW sources \in [files -> SUBSET Packs],
             RegisterFileVersions(files, sources)
      PROVE  Kept' /\ Written' /\ BytesComeFromOwnFile'
  <2> DEFINE n == captures + 1
  <2>0. captures \in Nat /\ n \in Captures /\ n \in Int
    BY <1>0, <1>6, Registered, RetentionBoundAssumption DEF TypeOK, Captures
  <2>r. /\ \A f \in files : ver'[n][f].packs = sources[f] /\ ~ver'[n][f].gone
        /\ \A f \in Files \ files : ver'[n][f] = NoVersion
    <3>1. \A f \in Files : ver[n][f] = NoVersion
      BY <1>0, <2>0 DEF Written
    <3>2. QED
      BY <1>0, <1>6, <3>1, Registered
  <2>s. \A f \in files : \A p \in sources[f] :
           /\ p \in Packs /\ SourceAuthorized(f, p)
           /\ pack'[p].complete = pack[p].complete /\ pack'[p].retired = pack[p].retired
           /\ pack[p].capture = NoCapture => pack'[p].capture = n
    BY <1>0, <1>6, Registered
  <2> HIDE DEF n
  <2>1. Kept'
    <3> SUFFICES ASSUME NEW c \in Captures, NEW f \in Files
                 PROVE  IF ver'[c][f].gone
                        THEN ver'[c][f].work = "done" /\ head'[f] # c /\ indexed'[f] # c
                        ELSE \A p \in ver'[c][f].packs : pack'[p].complete /\ ~pack'[p].retired
      BY DEF Kept
    <3>1. CASE c = n /\ f \in files
      <4>1. ver'[c][f].packs = sources[f] /\ ~ver'[c][f].gone
        BY <2>r, <3>1
      <4>2. \A p \in sources[f] : pack'[p].complete /\ ~pack'[p].retired
        BY <2>s, <3>1 DEF SourceAuthorized
      <4>3. QED
        BY <4>1, <4>2
    <3>2. CASE c = n /\ f \notin files
      <4>1. ver'[c][f] = NoVersion
        BY <2>r, <3>2
      <4>2. QED
        BY <4>1 DEF NoVersion
    <3>3. CASE c # n
      <4>1. ver'[c][f] = ver[c][f] /\ (head'[f] = head[f] \/ head'[f] = n) /\ indexed' = indexed
        BY <1>0, <1>6, <3>3, Registered DEF n
      <4>2. \A p \in ver[c][f].packs : p \in Packs
        BY <1>0 DEF TypeOK, Version
      <4>3. \A p \in Packs : pack'[p].complete = pack[p].complete
                             /\ pack'[p].retired = pack[p].retired
        BY <1>0, <1>6, Registered
      <4>4. QED
        BY <1>0, <3>3, <4>1, <4>2, <4>3 DEF Kept
    <3>4. QED
      BY <3>1, <3>2, <3>3
  <2>2. Written'
    <3>1. ASSUME NEW c \in Captures, NEW f \in Files, c > captures'
          PROVE  ver'[c][f] = NoVersion
      <4>1. c # n /\ c > captures
        BY <1>0, <1>6, <2>0, <3>1, Registered DEF Captures, n
      <4>2. QED
        BY <1>0, <1>6, <4>1, Registered DEF Written, n
    <3>2. ASSUME NEW f \in Files PROVE head'[f] <= captures'
      <4>1. head[f] <= captures /\ head[f] \in Int
        BY <1>0 DEF Written, TypeOK
      <4>2. captures' = n /\ (head'[f] = n \/ head'[f] = head[f])
        BY <1>0, <1>6, Registered DEF n
      <4>3. QED
        BY <2>0, <4>1, <4>2 DEF n
    <3>3. QED
      BY <3>1, <3>2 DEF Written
  <2>3. BytesComeFromOwnFile'
    <3> SUFFICES ASSUME NEW c \in Captures, NEW f \in Files, NEW p \in ver'[c][f].packs
                 PROVE  /\ pack'[p].capture \in 1..c
                        /\ p \in ver'[pack'[p].capture][f].packs
      BY DEF BytesComeFromOwnFile
    <3>1. p \in Packs
      BY <1>1 DEF TypeOK, Version
    <3>2. ASSUME NEW d \in Captures, d < n, p \in ver[d][f].packs, d <= c
          PROVE  /\ pack'[p].capture \in 1..c
                 /\ p \in ver'[pack'[p].capture][f].packs
      <4>1. pack[p].capture \in 1..d /\ p \in ver[pack[p].capture][f].packs
        BY <1>0, <3>2 DEF BytesComeFromOwnFile
      <4>2. pack'[p].capture = pack[p].capture
        BY <1>0, <1>6, <3>1, <4>1, Registered DEF NoCapture
      <4>3. pack[p].capture \in Captures /\ pack[p].capture # n /\ pack[p].capture \in 1..c
        <5>1. n \in Int /\ c \in Int /\ d \in Int /\ d \in 1..MaxCaptures /\ MaxCaptures \in Nat
          BY <2>0, RetentionBoundAssumption DEF Captures
        <5>2. QED
          BY <3>2, <4>1, <5>1 DEF Captures
      <4>4. ver'[pack[p].capture][f] = ver[pack[p].capture][f]
        <5>1. \A e \in Captures : e # n => ver'[e][f] = ver[e][f]
          BY <1>0, <1>6, Registered DEF n
        <5>2. QED
          BY <4>3, <5>1
      <4>5. QED
        BY <4>1, <4>2, <4>3, <4>4
    <3>3. CASE c # n
      <4>1. ver'[c][f] = ver[c][f]
        BY <1>0, <1>6, <3>3, Registered DEF n
      <4>2. c < n
        <5>1. CASE c > captures
          BY <1>0, <4>1, <5>1 DEF Written, NoVersion
        <5>2. QED
          BY <2>0, <5>1, <3>3 DEF Captures, n
      <4>3. QED
        BY <3>2, <4>1, <4>2 DEF Captures
    <3>4. CASE c = n /\ f \notin files
      BY <2>r, <3>4 DEF NoVersion
    <3>5. CASE c = n /\ f \in files
      <4>1. ver'[c][f].packs = sources[f] /\ p \in sources[f]
        BY <2>r, <3>5
      <4>2. CASE pack[p].capture = NoCapture
        <5>1. pack'[p].capture = n
          BY <2>s, <3>5, <4>1, <4>2
        <5>2. QED
          BY <2>0, <3>5, <4>1, <5>1 DEF Captures
      <4>3. CASE pack[p].capture # NoCapture
        <5>1. head[f] # NoCapture /\ p \in ver[head[f]][f].packs
          BY <2>s, <3>5, <4>1, <4>3 DEF SourceAuthorized
        <5>2. head[f] <= captures /\ head[f] \in 0..MaxCaptures
          BY <1>0 DEF Written, TypeOK
        <5>3. head[f] \in Captures /\ head[f] < n /\ head[f] <= c
          BY <2>0, <3>5, <5>1, <5>2, RetentionBoundAssumption DEF Captures, NoCapture, n
        <5>4. QED
          BY <3>2, <5>1, <5>3
      <4>4. QED
        BY <4>2, <4>3
    <3>6. QED
      BY <3>3, <3>4, <3>5
  <2>4. QED
    BY <2>1, <2>2, <2>3
<1>7. ASSUME NEW c \in Captures, NEW f \in Files, WorkEnds(c, f) \/ RetireVersion(c, f)
      PROVE  Kept' /\ Written' /\ BytesComeFromOwnFile'
  <2>1. Kept'
    <3> SUFFICES ASSUME NEW d \in Captures, NEW g \in Files
                 PROVE  IF ver'[d][g].gone
                        THEN ver'[d][g].work = "done" /\ head'[g] # d /\ indexed'[g] # d
                        ELSE \A p \in ver'[d][g].packs : pack'[p].complete /\ ~pack'[p].retired
      BY DEF Kept
    <3>1. IF ver[d][g].gone
          THEN ver[d][g].work = "done" /\ head[g] # d /\ indexed[g] # d
          ELSE \A p \in ver[d][g].packs : pack[p].complete /\ ~pack[p].retired
      BY <1>0 DEF Kept
    <3>2. CASE d = c /\ g = f
      BY <1>0, <1>7, <3>1, <3>2, Ended DEF VersionEligible
    <3>3. CASE ~(d = c /\ g = f)
      <4>1. ver'[d][g] = ver[d][g] /\ head' = head /\ pack' = pack
        BY <1>0, <1>7, <3>3, Ended
      <4>2. indexed'[g] = indexed[g] \/ indexed'[g] # d
        BY <1>0, <1>7, <3>3, Ended
      <4>3. QED
        BY <3>1, <4>1, <4>2
    <3>4. QED
      BY <3>2, <3>3
  <2>2. Written'
    <3>1. ASSUME NEW d \in Captures, NEW g \in Files, d > captures
          PROVE  ver'[d][g] = NoVersion
      BY <1>0, <1>7, <3>1, Ended DEF Written
    <3>2. captures' = captures /\ head' = head
      BY <1>0, <1>7, Ended
    <3>3. QED
      BY <1>0, <3>1, <3>2 DEF Written
  <2>3. BytesComeFromOwnFile'
    <3>1. pack' = pack /\ \A d \in Captures, g \in Files : ver'[d][g].packs = ver[d][g].packs
      BY <1>0, <1>7, Ended
    <3>2. \A d \in Captures : \A e \in 1..d : e \in Captures
      BY RetentionBoundAssumption DEF Captures
    <3>3. QED
      BY <1>0, <3>1, <3>2 DEF BytesComeFromOwnFile
  <2>4. QED
    BY <2>1, <2>2, <2>3
<1>8. ASSUME UNCHANGED <<captures, ver, head, indexed>>
      PROVE  Kept' /\ Written' /\ BytesComeFromOwnFile'
  <2>1. \A c \in Captures, f \in Files : \A p \in ver[c][f].packs : p \in Packs
    BY <1>0 DEF TypeOK, Version
  <2>2. Kept'
    <3> SUFFICES ASSUME NEW c \in Captures, NEW f \in Files, ~ver[c][f].gone,
                        NEW p \in ver[c][f].packs
                 PROVE  pack'[p].complete /\ ~pack'[p].retired
      BY <1>0, <1>8 DEF Kept
    <3>1. pack[p].complete /\ ~pack[p].retired /\ PackStep(p)
      BY <1>0, <1>2, <2>1 DEF Kept
    <3>2. ~Unreferenced(p)
      BY DEF Unreferenced
    <3>3. QED
      BY <3>1, <3>2 DEF PackStep
  <2>3. Written'
    BY <1>0, <1>8 DEF Written
  <2>4. BytesComeFromOwnFile'
    BY <1>0, <1>2, <1>8, <2>1 DEF BytesComeFromOwnFile, PackStep
  <2>5. QED
    BY <2>2, <2>3, <2>4
<1>9. QED
  BY <1>1, <1>4, <1>5, <1>6, <1>7, <1>8, VersionSteps DEF IInv

\* The inductive invariant holds always.
LEMMA Invariance == Spec => []IInv
BY IInvInit, IInvStep, PTL DEF Spec

----------------------------------------------------------------------------

\* Cleanup never deletes a byte that a version still needs, whatever uploads,
\* requests, captures and failures happen meanwhile (cleanup_source_packs).
THEOREM SourcesStayReadable == Spec => []NeededIsReadable
<1>1. IInv => NeededIsReadable
  <2> SUFFICES ASSUME IInv, NEW c \in Captures, NEW f \in Files, Needed(c, f),
                      NEW p \in ver[c][f].packs
               PROVE  p \in object
    BY DEF NeededIsReadable
  <2>1. p \in Packs
    BY DEF IInv, TypeOK, Version
  <2>2. ~ver[c][f].gone
    BY DEF IInv, Kept, Needed
  <2>3. pack[p].complete /\ ~pack[p].retired
    BY <2>2 DEF IInv, Kept
  <2>4. QED
    BY <2>1, <2>3 DEF IInv, Stored
<1>2. QED
  BY <1>1, Invariance, PTL

\* A URL that can still be used belongs to a pack that stands
\* (pinSignedSourceUpload).
THEOREM SignedUploadsArePinned == Spec => []SignedUploadIsPinned
<1>1. IInv => SignedUploadIsPinned
  <2> SUFFICES ASSUME IInv, NEW p \in Packs, url[p] > 0, pack[p].retired PROVE FALSE
    BY DEF SignedUploadIsPinned
  <2>1. url[p] <= 0 /\ url[p] \in Left
    BY DEF IInv, Pins, TypeOK
  <2>2. QED
    BY <2>1, LeftType
<1>2. QED
  BY <1>1, Invariance, PTL

\* No chain of captures hands the bytes of one file to another
\* (authorizeCaptureSources).
THEOREM BytesStayInFamily == Spec => []BytesComeFromOwnFile
<1>1. IInv => BytesComeFromOwnFile
  BY DEF IInv
<1>2. QED
  BY <1>1, Invariance, PTL

\* No late handler changes a retired pack (retired_at IS NULL in every second
\* statement).
THEOREM RetiredIsFinal == Spec => RetirementIsFinal
<1>1. IInv /\ [Next]_vars =>
        [\A p \in Packs : pack[p].retired =>
            pack'[p] = [pack[p] EXCEPT !.auth = pack'[p].auth] /\ pack'[p].auth <= pack[p].auth]_vars
  BY PackSteps DEF IInv, PackStep
<1>2. QED
  BY <1>1, Invariance, PTL DEF Spec, RetirementIsFinal

=============================================================================

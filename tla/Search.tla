-------------------------------- MODULE Search --------------------------------
(***************************************************************************)
(* Searches and file reads of the API server, against an index that the    *)
(* workers change under them.                                              *)
(*                                                                         *)
(* The index holds the rows of every extraction that was ever uploaded and *)
(* not yet swept: those of the published one, of a newer one that is not   *)
(* published yet, of older ones.  A search asks the index for its best     *)
(* rows, looks up what is published, rejects the other rows and asks again *)
(* with the rejected ones excluded; the publication first seen of a file   *)
(* is pinned for the request.  A read pins a publication and pages through *)
(* its segments.  Neither holds a database connection while it waits for   *)
(* the index, so publication, retirement and sweeping interleave with      *)
(* every step.  What keeps a replaced publication whole is time: a request *)
(* ends after 30 seconds, and a segment is retired no sooner than a minute *)
(* after the publication that dropped it.  A deletion grants no such time: *)
(* its worker erases the file's rows at once.  Searches also hold          *)
(* reservations of a shared capacity, each with a lease of 45 seconds.     *)
(*                                                                         *)
(* Time is a tick of 15 seconds.  A row is <<file, n>>: the row of the one *)
(* segment that version n of the file added, or, for a file of             *)
(* LegacyFiles, of version 1's extraction without segments.  One root, so  *)
(* one namespace and one reserved slot for each search.                    *)
(***************************************************************************)
EXTENDS Integers, FiniteSets

CONSTANTS
    Files,        \* the root's paths
    LegacyFiles,  \* those whose version 1 was indexed without segments
    Requests,     \* the requests the server has in progress
    Tenants, TenantOf,
    Rankings,     \* the ranked lists of a search: one, or two for "hybrid"
    Rank,         \* Rank[k][row]: the position the query text gives a row
    Limit,        \* rows of a ranked list: queryLimit
    PageSize,     \* segments of a page of a read: 8
    GlobalLimit, TenantLimit,   \* searchLimits
    Deadline, LeaseTime, Grace, \* 30 s, 45 s and a minute, in ticks
    MaxVersion,   \* bound on the versions of a file
    MaxChanges,   \* bound on the captures, of all files
    MaxReads,     \* bound on the reads in progress, while no search is
    MaxPasses     \* maxPublicationSearchPasses

Versions == 1..MaxVersion

ASSUME SearchAssumption ==
    /\ IsFiniteSet(Files) /\ IsFiniteSet(Requests) /\ LegacyFiles \subseteq Files
    /\ TenantOf \in [Requests -> Tenants]
    /\ Rank \in [Rankings -> [Files \X Versions -> Int]]
    /\ Limit \in Nat \ {0} /\ PageSize \in Nat \ {0}
    /\ GlobalLimit \in Nat \ {0} /\ TenantLimit \in 1..GlobalLimit
    /\ Deadline \in Nat \ {0} /\ LeaseTime \in Nat /\ Grace \in Nat
    /\ Deadline < LeaseTime /\ Deadline < Grace
    /\ MaxVersion \in Nat \ {0} /\ MaxPasses \in Nat \ {0} /\ MaxReads \in Nat /\ MaxChanges \in Nat

VARIABLES
    captured,  \* file_catalog.captured_version_id
    indexed,   \* file_catalog.indexed_extraction_id, by its version
    tombs,     \* the versions of a file that are deletions
    members,   \* extraction_segments: the segments of a version's extraction
    rows,      \* the rows in the index
    retired,   \* segments with file_segments.retired_at
    idle,      \* ticks since file_catalog.updated_at, up to Grace
    deleting,  \* roots.deleting_at is set
    lease,     \* search_leases: age of a request's reservation; LeaseTime: none
    req        \* the requests in progress

catalog == <<captured, indexed, tombs, members, idle>>
vars == <<catalog, rows, retired, deleting, lease, req>>

Rows == Files \X Versions
Legacy(f, v) == f \in LegacyFiles /\ v = 1
RowsOf(f, v) == {<<f, n>> : n \in IF v = 0 THEN {} ELSE members[f][v]}

\* file_catalog.deleted: the captured version is a deletion.
Deleted(f) == captured[f] \in tombs[f]

\* A deletion was captured after version v.
DeletedSince(f, v) == \E w \in tombs[f] : w > v

Unseen == -1

\* pin:      the publication first seen of a file; 0: none that is visible
\* sets:     the ranked lists of the last answer of the index
\* known:    segment rows found to belong to their pinned publication
\* excluded: the identities of rejected rows
\* asked:    (history) what a search could hope to find when it last asked
\* cursor, page, got: the last segment listed, the page asked for, the rows read
Request == [kind : {"none", "search", "read"},
            at : {"idle", "query", "lookup", "validate", "list", "page", "answer"},
            age : 0..Deadline, pass : 0..MaxPasses,
            pin : [Files -> Unseen..MaxVersion], asked : [Files -> 0..MaxVersion],
            sets : [Rankings -> SUBSET Rows], known : SUBSET Rows, excluded : SUBSET Rows,
            cursor : 0..MaxVersion, page : SUBSET Rows, got : SUBSET Rows]

NoRequest == [kind |-> "none", at |-> "idle", age |-> 0, pass |-> 0,
              pin |-> [f \in Files |-> Unseen], asked |-> [f \in Files |-> 0],
              sets |-> [k \in Rankings |-> {}], known |-> {}, excluded |-> {},
              cursor |-> 0, page |-> {}, got |-> {}]

TypeOK ==
    /\ captured \in [Files -> Versions] /\ indexed \in [Files -> 0..MaxVersion]
    /\ tombs \in [Files -> SUBSET Versions]
    /\ members \in [Files -> [Versions -> SUBSET Versions]]
    /\ rows \in SUBSET Rows /\ retired \in SUBSET Rows
    /\ idle \in [Files -> 0..Grace] /\ deleting \in BOOLEAN
    /\ lease \in [Requests -> 0..LeaseTime]
    /\ req \in [Requests -> Request]

\* Every file has a version that was published some time ago.
Init ==
    /\ captured = [f \in Files |-> 1] /\ indexed = [f \in Files |-> 1]
    /\ tombs = [f \in Files |-> {}]
    /\ members = [f \in Files |-> [v \in Versions |-> IF v = 1 THEN {1} ELSE {}]]
    /\ rows = {<<f, 1>> : f \in Files} /\ retired = {}
    /\ idle = [f \in Files |-> Grace] /\ deleting = FALSE
    /\ lease = [r \in Requests |-> LeaseTime]
    /\ req = [r \in Requests |-> NoRequest]

--------------------------------------------------------------------------------
(* The workers and the captures, as far as the index shows them.           *)

\* A capture moves the head of the file; a deletion hides it at once.
Capture(f, del) ==
    /\ ~deleting /\ captured[f] < MaxVersion
    /\ Cardinality({row \in Rows : 1 < row[2] /\ row[2] <= captured[row[1]]}) < MaxChanges
    /\ captured' = [captured EXCEPT ![f] = @ + 1]
    /\ tombs' = IF del THEN [tombs EXCEPT ![f] = @ \cup {captured[f] + 1}] ELSE tombs
    /\ idle' = [idle EXCEPT ![f] = 0]
    /\ UNCHANGED <<indexed, members, rows, retired, deleting, lease, req>>

\* The captured version's extraction is prepared and its rows are uploaded.  An
\* append keeps the segments of the version before, when that is the published one
\* and has segments.
IndexRows(f, append) ==
    LET v == captured[f]
        kept == IF append THEN members[f][v - 1] ELSE {}
    IN /\ ~deleting /\ ~Deleted(f) /\ v > 1 /\ members[f][v] = {}
       /\ append => indexed[f] = v - 1 /\ kept # {} /\ ~Legacy(f, v - 1)
       /\ members' = [members EXCEPT ![f][v] = kept \cup {v}]
       /\ rows' = rows \cup {<<f, v>>}
       /\ UNCHANGED <<captured, indexed, tombs, idle, retired, deleting, lease, req>>

\* Mutant of EraseRow: the filter of the deletion names the file, not its versions.
EraseAnyRow(row) ==
    /\ tombs[row[1]] # {} /\ row \in rows
    /\ rows' = rows \ {row}
    /\ UNCHANGED <<catalog, retired, deleting, lease, req>>

\* The worker of a deletion removes the file's rows up to its version by filter, in
\* parts; with or without segments, published or not, and without a grace.  What it
\* asked for may still happen after the file was captured again, or after its root
\* was deleted; the rows of newer versions survive it.
EraseRow(row) ==
    /\ row \in rows /\ \E w \in tombs[row[1]] : row[2] <= w
    /\ rows' = rows \ {row}
    /\ UNCHANGED <<catalog, retired, deleting, lease, req>>

\* The captured version becomes the published one; a deletion when the index holds
\* none of the rows it erases.
Publish(f) ==
    /\ ~deleting /\ indexed[f] < captured[f]
    /\ IF Deleted(f) THEN \A row \in rows : row[1] # f
                     ELSE members[f][captured[f]] # {}
    /\ indexed' = [indexed EXCEPT ![f] = captured[f]]
    /\ idle' = [idle EXCEPT ![f] = 0]
    /\ UNCHANGED <<captured, tombs, members, rows, retired, deleting, lease, req>>

\* Segments that neither the published nor the captured extraction has.
Unreferenced(f) ==
    {<<f, n>> : n \in (UNION {members[f][v] : v \in Versions})
                        \ (members[f][indexed[f]] \cup members[f][captured[f]])}

\* Mutant of RetireSegment: the minute since the file last changed is dropped.
RetireAtOnce(row) ==
    /\ ~deleting /\ row \in Unreferenced(row[1]) \ retired
    /\ ~Legacy(row[1], row[2])
    /\ retired' = retired \cup {row}
    /\ UNCHANGED <<catalog, rows, deleting, lease, req>>

RetireSegment(row) ==
    /\ ~deleting /\ row \in Unreferenced(row[1]) \ retired
    /\ ~Legacy(row[1], row[2])
    /\ idle[row[1]] >= Grace
    /\ retired' = retired \cup {row}
    /\ UNCHANGED <<catalog, rows, deleting, lease, req>>

\* The rows of a retired segment are removed.
SweepSegment(row) ==
    /\ ~deleting /\ row \in rows \cap retired
    /\ rows' = rows \ {row}
    /\ UNCHANGED <<catalog, retired, deleting, lease, req>>

\* Rows without a segment are removed as soon as a newer version is published.
SweepLegacy(f) ==
    /\ ~deleting /\ Legacy(f, 1) /\ <<f, 1>> \in rows /\ indexed[f] > 1
    /\ rows' = rows \ {<<f, 1>>}
    /\ UNCHANGED <<catalog, retired, deleting, lease, req>>

DeleteRoot ==
    /\ ~deleting /\ deleting' = TRUE
    /\ UNCHANGED <<catalog, rows, retired, lease, req>>

\* The rows of a deleted root are removed by filter, in parts.
SweepRoot(row) ==
    /\ deleting /\ row \in rows
    /\ rows' = rows \ {row}
    /\ UNCHANGED <<catalog, retired, deleting, lease, req>>

--------------------------------------------------------------------------------
(* Admission, time and the end of a request.                               *)

Running(r) == req[r].kind # "none"
Searching(r) == req[r].kind = "search"
Reading(r) == req[r].kind = "read"

\* The reservations that an admission counts, after it deleted the expired ones.
Active(Q) == Cardinality({q \in Q : lease[q] < LeaseTime})

\* Admissions run one after the other, under an advisory lock.
RoomFor(t) ==
    /\ Active(Requests) + 1 <= GlobalLimit
    /\ Active({q \in Requests : TenantOf[q] = t}) + 1 <= TenantLimit

\* A search that finds no room fails at once and leaves nothing.  Searches and
\* reads have nothing in common, and are not mixed; a reservation that outlived its
\* request keeps the request's name from being used again.
BeginSearch(r) ==
    /\ ~Running(r) /\ \A q \in Requests : ~Reading(q)
    /\ ~deleting /\ lease[r] = LeaseTime
    /\ RoomFor(TenantOf[r])
    /\ lease' = [lease EXCEPT ![r] = 0]
    /\ req' = [req EXCEPT ![r] = [NoRequest EXCEPT !.kind = "search", !.at = "query"]]
    /\ UNCHANGED <<catalog, rows, retired, deleting>>

\* What the catalog lets a request see of a file.
Visible(f) == IF Deleted(f) THEN 0 ELSE indexed[f]

\* The published extraction of a visible file, pinned for the whole read.
Snapshot(f) ==
    [NoRequest EXCEPT !.kind = "read", !.at = "list", !.pin[f] = Visible(f)]

BeginRead(r, f) ==
    /\ ~Running(r) /\ \A q \in Requests : ~Searching(q)
    /\ Cardinality({q \in Requests : Reading(q)}) < MaxReads
    /\ ~deleting /\ Visible(f) > 0
    /\ req' = [req EXCEPT ![r] = Snapshot(f)]
    /\ UNCHANGED <<catalog, rows, retired, deleting, lease>>

\* A request that answered, failed, was cancelled or ran into its deadline; its
\* reservation is deleted, unless that fails or the server died with it.
End(r) ==
    /\ Running(r)
    /\ \E left \in {lease[r], LeaseTime} : lease' = [lease EXCEPT ![r] = left]
    /\ req' = [req EXCEPT ![r] = NoRequest]
    /\ UNCHANGED <<catalog, rows, retired, deleting>>

\* Mutant of Tick: a request goes on past its deadline.
TickNoDeadline ==
    /\ req' = [r \in Requests |-> IF Running(r) /\ req[r].age < Deadline
                                  THEN [req[r] EXCEPT !.age = @ + 1] ELSE req[r]]
    /\ lease' = [r \in Requests |-> IF lease[r] < LeaseTime THEN lease[r] + 1 ELSE LeaseTime]
    /\ idle' = [f \in Files |-> IF idle[f] < Grace THEN idle[f] + 1 ELSE Grace]
    /\ UNCHANGED <<captured, indexed, tombs, members, rows, retired, deleting>>

\* 15 seconds pass.  No request is past its deadline: its context is cancelled.
Tick ==
    /\ \A r \in Requests : Running(r) => req[r].age < Deadline
    /\ req' = [r \in Requests |-> IF Running(r) THEN [req[r] EXCEPT !.age = @ + 1] ELSE req[r]]
    /\ lease' = [r \in Requests |-> IF lease[r] < LeaseTime THEN lease[r] + 1 ELSE LeaseTime]
    /\ idle' = [f \in Files |-> IF idle[f] < Grace THEN idle[f] + 1 ELSE Grace]
    /\ UNCHANGED <<captured, indexed, tombs, members, rows, retired, deleting>>

--------------------------------------------------------------------------------
(* A search: queryPublishedRows.                                           *)

Step(r, next) == req' = [req EXCEPT ![r] = next]

\* The rows the exclusion filter lets pass, and the best of a ranked list.
NotExcluded(q) == rows \ q.excluded
Best(k, S) == {x \in S : Cardinality({y \in S : Rank[k][y] < Rank[k][x]}) < Limit}

\* The rows of the lists that are to be checked against the catalog.
Candidates(q) == UNION {q.sets[k] : k \in Rankings}

\* (history) The publication of a file that a search may hope to find whole: the
\* pinned one, or else what is visible, unless the file was deleted after it.
Hoped(q, f) ==
    LET v == IF q.pin[f] = Unseen THEN Visible(f) ELSE q.pin[f]
    IN IF DeletedSince(f, v) THEN 0 ELSE v

\* The index answers with its best rows that are not excluded.
QueryNamespace(r) ==
    LET q == req[r]
    IN /\ q.at = "query"
       /\ Step(r, [q EXCEPT !.at = "lookup", !.pass = @ + 1,
                            !.sets = [k \in Rankings |-> Best(k, NotExcluded(q))],
                            !.asked = [f \in Files |-> Hoped(q, f)]])
       /\ UNCHANGED <<catalog, rows, retired, deleting, lease>>

\* One statement reads the publications of the files not seen before; without a
\* root the search fails (End).
CandidatePublications(r) ==
    LET q == req[r]
        unseen == {f \in Files : q.pin[f] = Unseen /\ \E row \in Candidates(q) : row[1] = f}
    IN /\ q.at = "lookup"
       /\ unseen # {} => ~deleting
       /\ Step(r, [q EXCEPT !.at = "validate",
                            !.pin = [f \in Files |-> IF f \in unseen THEN Visible(f) ELSE @[f]]])
       /\ UNCHANGED <<catalog, rows, retired, deleting, lease>>

\* candidateSegments: the rows whose segment is a member of the pinned
\* extraction and not retired, looked up once for each.
Members(q) ==
    q.known \cup {row \in Candidates(q) :
                    /\ ~deleting /\ q.pin[row[1]] > 0 /\ ~Legacy(row[1], q.pin[row[1]])
                    /\ row \in RowsOf(row[1], q.pin[row[1]]) \ retired}

Rejected(q) ==
    {row \in Candidates(q) :
        ~ \/ row \in Members(q)
          \/ q.pin[row[1]] = row[2] /\ Legacy(row[1], row[2])}

\* Mutant of Validate: the rejected rows are dropped and the rest is the answer.
ValidateOnce(r) ==
    LET q == req[r]
        rejected == Rejected(q)
    IN /\ q.at = "validate"
       /\ Step(r, [q EXCEPT !.known = Members(q), !.at = "answer",
                            !.sets = [k \in Rankings |-> q.sets[k] \ rejected]])
       /\ UNCHANGED <<catalog, rows, retired, deleting, lease>>

\* Nothing rejected: the lists are the answer.  Otherwise the search asks again
\* without the rejected rows, unless it has done so too often (End: busy).
Validate(r) ==
    LET q == req[r]
        rejected == Rejected(q)
    IN /\ q.at = "validate"
       /\ rejected # {} => ~(rejected \subseteq q.excluded) /\ q.pass < MaxPasses
       /\ Step(r, [q EXCEPT !.known = Members(q), !.excluded = @ \cup rejected,
                            !.at = IF rejected = {} THEN "answer" ELSE "query"])
       /\ UNCHANGED <<catalog, rows, retired, deleting, lease>>

--------------------------------------------------------------------------------
(* A read: readSegmentRows, and collectFileRows for a legacy extraction.   *)

Pinned(q) == CHOOSE f \in Files : q.pin[f] # Unseen

\* The next segments of the pinned extraction that are not retired, in order: a
\* full page, or what is left.
ListSegments(r) ==
    LET q == req[r]
        f == Pinned(q)
        after == {row \in RowsOf(f, q.pin[f]) \ retired : row[2] > q.cursor}
    IN /\ q.at = "list" /\ ~Legacy(f, q.pin[f])
       /\ \E last \in {row[2] : row \in after} \cup {q.cursor} :
             LET page == {row \in after : row[2] <= last}
             IN /\ \/ Cardinality(page) = PageSize
                   \/ Cardinality(page) < PageSize /\ page = after
                /\ Step(r, [q EXCEPT !.page = page, !.cursor = last,
                                     !.at = IF page = {} THEN "answer" ELSE "page"])
       /\ UNCHANGED <<catalog, rows, retired, deleting, lease>>

\* The index returns the rows it has of the page.
ReadPage(r) ==
    LET q == req[r]
    IN /\ q.at = "page"
       /\ Step(r, [q EXCEPT !.got = @ \cup (q.page \cap rows), !.page = {},
                            !.at = IF Cardinality(q.page) < PageSize THEN "answer" ELSE "list"])
       /\ UNCHANGED <<catalog, rows, retired, deleting, lease>>

\* Without segments, the rows that carry the pinned extraction are asked for.
ReadLegacy(r) ==
    LET q == req[r]
        f == Pinned(q)
    IN /\ q.at = "list" /\ Legacy(f, q.pin[f])
       /\ Step(r, [q EXCEPT !.got = {<<f, 1>>} \cap rows, !.at = "answer"])
       /\ UNCHANGED <<catalog, rows, retired, deleting, lease>>

--------------------------------------------------------------------------------
Workers ==
    \/ \E f \in Files :
          \/ \E del \in BOOLEAN : Capture(f, del)
          \/ \E append \in BOOLEAN : IndexRows(f, append)
          \/ Publish(f) \/ SweepLegacy(f)
    \/ \E row \in Rows : \/ EraseRow(row) \/ RetireSegment(row)
                         \/ SweepSegment(row) \/ SweepRoot(row)
    \/ DeleteRoot

Serve(r) ==
    \/ BeginSearch(r) \/ QueryNamespace(r) \/ CandidatePublications(r) \/ Validate(r)
    \/ (\E f \in Files : BeginRead(r, f)) \/ ListSegments(r) \/ ReadPage(r)
    \/ ReadLegacy(r)
    \/ End(r)

Next == Workers \/ Tick \/ \E r \in Requests : Serve(r)

Spec == Init /\ [][Next]_vars

--------------------------------------------------------------------------------
\* A search that is about to answer holds, in each ranked list, only rows of the
\* publications pinned for their files, and every row that was published when it
\* last asked the index (or belongs to a publication pinned before that) is in the
\* list unless Limit better rows are: rejected rows displace nothing, whatever was
\* published, retired or swept meanwhile (queryPublishedRows).  The second half
\* leaves out a file for which a deletion newer than the publication had been
\* captured when the index was asked, even if the file was captured again since:
\* the deletion's worker erases the rows without a grace.  It leaves out
\* publications without segments and a root under deletion too, which have none.
SearchIsExact ==
    \A r \in Requests : LET q == req[r] IN
        q.kind = "search" /\ q.at = "answer" =>
            \A k \in Rankings :
                /\ \A row \in q.sets[k] :
                      q.pin[row[1]] > 0 /\ row[2] \in members[row[1]][q.pin[row[1]]]
                /\ \A f \in Files : ~deleting /\ ~Legacy(f, q.asked[f]) =>
                      \A row \in RowsOf(f, q.asked[f]) \ q.sets[k] :
                          Cardinality({x \in q.sets[k] : Rank[k][x] < Rank[k][row]}) >= Limit

\* A read that is about to answer has rows of the publication it pinned and no
\* other, and it has all of them, though the file may have been replaced, and its
\* segments retired and swept, between any two pages (handleReadFile,
\* readSegmentRows).  Only a deletion of the file captured after the publication
\* can cut the answer short, for its worker erases the rows at once; so can the
\* deletion of the root, and any replacement of a publication without segments.
ReadIsWhole ==
    \A r \in Requests : LET q == req[r] IN
        q.kind = "read" /\ q.at = "answer" =>
            LET f == Pinned(q)
                v == q.pin[f]
            IN /\ q.got \subseteq RowsOf(f, v)
               /\ ~deleting /\ ~Legacy(f, v) /\ ~DeletedSince(f, v) => q.got = RowsOf(f, v)

\* The searches that are in progress, on all servers, fit the capacity, in total
\* and for each tenant, although a server may die with its reservation and expired
\* reservations are deleted while others search (admitSearch).
SearchesFitCapacity ==
    /\ Cardinality({r \in Requests : Searching(r)}) <= GlobalLimit
    /\ \A t \in Tenants : Cardinality({r \in Requests : Searching(r) /\ TenantOf[r] = t})
                              <= TenantLimit
================================================================================

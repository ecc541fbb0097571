----------------------------- MODULE SearchProofs -----------------------------
(***************************************************************************)
(* The searches and reads of Search, for every number of files, versions   *)
(* and requests, every ranking and every limit.                            *)
(***************************************************************************)
EXTENDS Search, FiniteSetTheorems, WellFoundedInduction, TLAPS

\* The catalog: the published version is not newer than the captured one, a published
\* version that is visible has segments, and segments are numbered by the version that
\* added them.
CatalogOK ==
    \A f \in Files :
        /\ indexed[f] >= 1 /\ indexed[f] <= captured[f]
        /\ indexed[f] = captured[f] /\ ~Deleted(f) => members[f][captured[f]] # {}
        /\ members[f][1] = {1}
        /\ \A v \in Versions : /\ \A n \in members[f][v] : n <= v
                               /\ members[f][v] # {} => v <= captured[f]

\* A deletion is not newer than the captured version, and the versions from it on have
\* no segment that its worker may erase.
TombsOK ==
    \A f \in Files : \A w \in tombs[f] :
        /\ w <= captured[f]
        /\ \A v \in Versions : w <= v => \A n \in members[f][v] : w < n

\* The segments of a version are not retired, and their rows are in the index unless
\* the file was deleted after it.
Present(f, v) ==
    /\ \A n \in members[f][v] : <<f, n>> \notin retired
    /\ ~DeletedSince(f, v) => \A n \in members[f][v] : <<f, n>> \in rows

\* Only segments of some extraction are retired; the published and the captured
\* extraction are there.
IndexOK ==
    /\ \A row \in retired : \E v \in Versions : row[2] \in members[row[1]][v]
    /\ \A f \in LegacyFiles : \A v \in Versions : v > 1 => 1 \notin members[f][v]
    /\ ~deleting => \A f \in Files : Present(f, indexed[f]) /\ Present(f, captured[f])

\* Where a request of each kind may be, and the room a search has for another pass.
Placed(q) ==
    /\ q.at \in {"query", "lookup", "validate"} => q.kind = "search"
    /\ q.at \in {"list", "page"} => q.kind = "read"
    /\ q.at = "query" => q.pass < MaxPasses
    /\ q.kind = "none" => \A f \in Files : q.pin[f] = Unseen

\* A pinned publication is the published one, or was replaced since the request began;
\* its segments are then still within their grace.
PinOK(q) ==
    \A f \in Files : q.pin[f] > 0 =>
        /\ q.pin[f] <= indexed[f]
        /\ q.pin[f] # indexed[f] => idle[f] <= q.age
        /\ ~deleting /\ ~Legacy(f, q.pin[f]) => Present(f, q.pin[f])

\* A row that belongs to the publication pinned for its file.
OfPin(q, row) == q.pin[row[1]] > 0 /\ row[2] \in members[row[1]][q.pin[row[1]]]

\* Exclusions spare the pinned publications, and an answer has nothing else.
ListsOK(q) ==
    /\ \A row \in q.known : OfPin(q, row)
    /\ \A row \in q.excluded :
          /\ q.pin[row[1]] # Unseen
          /\ ~deleting /\ ~Legacy(row[1], q.pin[row[1]]) => ~OfPin(q, row)
    /\ q.at = "validate" => \A row \in Candidates(q) : q.pin[row[1]] # Unseen
    /\ q.kind = "search" /\ q.at = "answer" => \A row \in Candidates(q) : OfPin(q, row)

\* The rows of a ranked list that precede a row.
Better(sets, k, row) == {x \in sets[k] : Rank[k][x] < Rank[k][row]}

\* What was asked for and is not in a list is outranked there.
Outranked(q) ==
    /\ \A f \in Files : q.asked[f] <= indexed[f]
    /\ q.at \in {"lookup", "validate", "answer"} /\ q.kind = "search" /\ ~deleting =>
          \A k \in Rankings, f \in Files : q.asked[f] > 0 /\ ~Legacy(f, q.asked[f]) =>
              \A n \in members[f][q.asked[f]] :
                  <<f, n>> \in q.sets[k] \/ Cardinality(Better(q.sets, k, <<f, n>>)) >= Limit

\* The rows of a set of segments, and those up to a segment.
AllRows(f, S) == {<<f, n>> : n \in S}
UpTo(f, S, cursor) == {<<f, n>> : n \in {m \in S : m <= cursor}}

\* What a read has, and what its page will add.
PagesOK(q, f) ==
    LET S == members[f][q.pin[f]]
    IN /\ q.at = "list" => q.got = UpTo(f, S, q.cursor)
       /\ q.at = "page" => /\ q.got \cup q.page = UpTo(f, S, q.cursor)
                           /\ Cardinality(q.page) < PageSize => UpTo(f, S, q.cursor) = AllRows(f, S)
       /\ q.at = "answer" => q.got = AllRows(f, S)

\* Nothing was retired or erased under the publication that a read has pinned.
Undisturbed(q, f) == ~deleting /\ ~Legacy(f, q.pin[f]) /\ ~DeletedSince(f, q.pin[f])

ReadOK(q) ==
    q.kind = "read" =>
        \E f \in Files : /\ q.pin[f] > 0 /\ \A g \in Files : g # f => q.pin[g] = Unseen
                         /\ q.at = "page" => ~Legacy(f, q.pin[f])
                         /\ q.got \cup q.page \subseteq RowsOf(f, q.pin[f])
                         /\ Undisturbed(q, f) => PagesOK(q, f)

\* A search's own reservation is as old as the search, and those that count fit.
LeaseOK ==
    /\ \A r \in Requests : Searching(r) => lease[r] = req[r].age
    /\ Active(Requests) <= GlobalLimit
    /\ \A t \in Tenants : Active({q \in Requests : TenantOf[q] = t}) <= TenantLimit

PlacedInv == \A r \in Requests : Placed(req[r])
PinInv == \A r \in Requests : PinOK(req[r])
ListsInv == \A r \in Requests : ListsOK(req[r])
OutrankedInv == \A r \in Requests : Outranked(req[r])
ReadInv == \A r \in Requests : ReadOK(req[r])

--------------------------------------------------------------------------------
(* Types, and what each step of a request changes.                         *)

LEMMA NoRequestType == NoRequest \in Request
BY SearchAssumption DEF NoRequest, Request, Unseen, Rows

LEMMA BeginSearchStep ==
    ASSUME TypeOK, NEW r \in Requests, BeginSearch(r)
    PROVE  /\ \A s \in Requests \ {r} : req'[s] = req[s]
           /\ req'[r] \in Request
           /\ req'[r].kind = "search" /\ req'[r].at = "query" /\ req'[r].age = 0 /\ req'[r].pass = 0
           /\ req'[r].pin = [f \in Files |-> Unseen] /\ req'[r].asked = [f \in Files |-> 0]
           /\ req'[r].known = {} /\ req'[r].excluded = {}
<1>1. req'[r] = [NoRequest EXCEPT !.kind = "search", !.at = "query"]
    BY DEF BeginSearch, TypeOK
<1>2. \A s \in Requests \ {r} : req'[s] = req[s]
    BY DEF BeginSearch, TypeOK
<1>3. req'[r] \in Request
    BY <1>1, NoRequestType DEF Request
<1> QED
    BY <1>1, <1>2, <1>3 DEF NoRequest

LEMMA QueryStep ==
    ASSUME TypeOK, PlacedInv, NEW r \in Requests, QueryNamespace(r)
    PROVE  /\ \A s \in Requests \ {r} : req'[s] = req[s]
           /\ req'[r] \in Request
           /\ req[r].at = "query" /\ req'[r].at = "lookup"
           /\ req'[r].kind = req[r].kind /\ req'[r].age = req[r].age
           /\ req'[r].pin = req[r].pin /\ req'[r].known = req[r].known
           /\ req'[r].excluded = req[r].excluded
           /\ req'[r].sets = [k \in Rankings |-> Best(k, NotExcluded(req[r]))]
           /\ req'[r].asked = [f \in Files |-> Hoped(req[r], f)]
<1> DEFINE q == req[r]
           S == [k \in Rankings |-> Best(k, NotExcluded(q))]
           A == [f \in Files |-> Hoped(q, f)]
<1>1. q \in Request /\ q.at = "query" /\ q.pass \in 0..MaxPasses /\ q.pass + 1 \in 0..MaxPasses
    BY SearchAssumption DEF TypeOK, PlacedInv, Placed, QueryNamespace, Request
<1>2. S \in [Rankings -> SUBSET Rows]
    BY DEF Best, NotExcluded, TypeOK
<1>3. A \in [Files -> 0..MaxVersion]
    BY SearchAssumption DEF TypeOK, Request, Hoped, Visible, Unseen
<1>4. req'[r] = [q EXCEPT !.at = "lookup", !.pass = @ + 1, !.sets = S, !.asked = A]
    BY DEF QueryNamespace, Step, TypeOK
<1>5. \A s \in Requests \ {r} : req'[s] = req[s]
    BY DEF QueryNamespace, Step, TypeOK
<1>6. /\ req'[r] \in Request
      /\ req'[r].at = "lookup" /\ req'[r].kind = q.kind /\ req'[r].age = q.age
      /\ req'[r].pin = q.pin /\ req'[r].known = q.known /\ req'[r].excluded = q.excluded
      /\ req'[r].sets = S /\ req'[r].asked = A
    <2> HIDE DEF S, A, q
    <2> QED
        BY ZenonT(60), <1>1, <1>2, <1>3, <1>4 DEF Request
<1> QED
    BY <1>1, <1>5, <1>6

LEMMA PublicationsStep ==
    ASSUME TypeOK, NEW r \in Requests, CandidatePublications(r)
    PROVE  LET unseen == {f \in Files : req[r].pin[f] = Unseen
                                          /\ \E row \in Candidates(req[r]) : row[1] = f}
           IN /\ \A s \in Requests \ {r} : req'[s] = req[s]
              /\ req'[r] \in Request
              /\ req[r].at = "lookup" /\ req'[r].at = "validate"
              /\ req'[r].kind = req[r].kind /\ req'[r].age = req[r].age
              /\ req'[r].known = req[r].known /\ req'[r].excluded = req[r].excluded
              /\ req'[r].sets = req[r].sets /\ req'[r].asked = req[r].asked
              /\ req'[r].pin = [f \in Files |-> IF f \in unseen THEN Visible(f) ELSE req[r].pin[f]]
<1> DEFINE q == req[r]
           unseen == {f \in Files : q.pin[f] = Unseen /\ \E row \in Candidates(q) : row[1] = f}
           P == [f \in Files |-> IF f \in unseen THEN Visible(f) ELSE q.pin[f]]
<1>1. q \in Request /\ q.at = "lookup"
    BY DEF TypeOK, CandidatePublications
<1>2. P \in [Files -> Unseen..MaxVersion]
    BY SearchAssumption, <1>1 DEF TypeOK, Request, Visible, Unseen
<1>3. req'[r] = [q EXCEPT !.at = "validate", !.pin = P]
    BY DEF CandidatePublications, Step, TypeOK
<1>4. \A s \in Requests \ {r} : req'[s] = req[s]
    BY DEF CandidatePublications, Step, TypeOK
<1>5. /\ req'[r] \in Request
      /\ req'[r].at = "validate" /\ req'[r].kind = q.kind /\ req'[r].age = q.age
      /\ req'[r].pin = P /\ req'[r].known = q.known /\ req'[r].excluded = q.excluded
      /\ req'[r].sets = q.sets /\ req'[r].asked = q.asked
    <2> HIDE DEF P, q
    <2> QED
        BY <1>1, <1>2, <1>3 DEF Request
<1> QED
    BY <1>1, <1>4, <1>5

LEMMA CandidatesType ==
    ASSUME NEW q \in Request
    PROVE  Candidates(q) \subseteq Rows
BY DEF Candidates, Request

LEMMA ValidateStep ==
    ASSUME TypeOK, NEW r \in Requests, Validate(r)
    PROVE  /\ \A s \in Requests \ {r} : req'[s] = req[s]
           /\ req'[r] \in Request
           /\ req[r].at = "validate"
           /\ req'[r].kind = req[r].kind /\ req'[r].age = req[r].age
           /\ req'[r].pass = req[r].pass
           /\ req'[r].pin = req[r].pin /\ req'[r].known = Members(req[r])
           /\ req'[r].excluded = req[r].excluded \cup Rejected(req[r])
           /\ req'[r].sets = req[r].sets /\ req'[r].asked = req[r].asked
           /\ \/ Rejected(req[r]) = {} /\ req'[r].at = "answer"
              \/ req'[r].at = "query" /\ req[r].pass < MaxPasses
<1> DEFINE q == req[r]
           M == Members(q)
           E == q.excluded \cup Rejected(q)
           a == IF Rejected(q) = {} THEN "answer" ELSE "query"
<1>1. q \in Request /\ q.at = "validate"
    BY DEF TypeOK, Validate
<1>2. M \in SUBSET Rows /\ E \in SUBSET Rows
    <2>1. q.known \subseteq Rows /\ q.excluded \subseteq Rows
        BY <1>1 DEF Request
    <2> QED
        BY <1>1, <2>1, CandidatesType DEF Members, Rejected
<1>3. req'[r] = [q EXCEPT !.known = M, !.excluded = E, !.at = a]
    BY DEF Validate, Step, TypeOK
<1>4. \A s \in Requests \ {r} : req'[s] = req[s]
    BY DEF Validate, Step, TypeOK
<1>5. a \in {"answer", "query"}
    OBVIOUS
<1>6. /\ req'[r] \in Request
      /\ req'[r].at = a /\ req'[r].kind = q.kind /\ req'[r].age = q.age /\ req'[r].pass = q.pass
      /\ req'[r].pin = q.pin /\ req'[r].known = M /\ req'[r].excluded = E
      /\ req'[r].sets = q.sets /\ req'[r].asked = q.asked
    <2> HIDE DEF M, E, a, q
    <2> QED
        BY <1>1, <1>2, <1>3, <1>5 DEF Request
<1>7. a = "query" => q.pass < MaxPasses
    BY DEF Validate
<1> QED
    BY <1>1, <1>4, <1>6, <1>7

LEMMA BeginReadStep ==
    ASSUME TypeOK, NEW r \in Requests, NEW f \in Files, BeginRead(r, f)
    PROVE  /\ \A s \in Requests \ {r} : req'[s] = req[s]
           /\ req'[r] \in Request
           /\ req'[r].kind = "read" /\ req'[r].at = "list" /\ req'[r].age = 0
           /\ req'[r].pin = [[g \in Files |-> Unseen] EXCEPT ![f] = Visible(f)]
           /\ req'[r].asked = [g \in Files |-> 0]
           /\ req'[r].known = {} /\ req'[r].excluded = {}
           /\ req'[r].cursor = 0 /\ req'[r].page = {} /\ req'[r].got = {}
<1> DEFINE P == [[g \in Files |-> Unseen] EXCEPT ![f] = Visible(f)]
<1>1. req'[r] = Snapshot(f)
    BY DEF BeginRead, TypeOK
<1>2. \A s \in Requests \ {r} : req'[s] = req[s]
    BY DEF BeginRead, TypeOK
<1>3. P \in [Files -> Unseen..MaxVersion]
    BY SearchAssumption DEF TypeOK, Visible, Unseen
<1> DEFINE N == NoRequest
<1>4. /\ N \in Request /\ N.age = 0 /\ N.asked = [g \in Files |-> 0]
      /\ N.pin = [g \in Files |-> Unseen] /\ N.known = {} /\ N.excluded = {}
      /\ N.cursor = 0 /\ N.page = {} /\ N.got = {}
    BY NoRequestType DEF NoRequest
<1>5. req'[r] = [N EXCEPT !.kind = "read", !.at = "list", !.pin[f] = Visible(f)]
    BY <1>1 DEF Snapshot
<1>6. /\ req'[r].kind = "read" /\ req'[r].at = "list" /\ req'[r].pin = P
      /\ req'[r].age = N.age /\ req'[r].asked = N.asked
      /\ req'[r].known = N.known /\ req'[r].excluded = N.excluded
      /\ req'[r].cursor = N.cursor /\ req'[r].page = N.page /\ req'[r].got = N.got
      /\ req'[r] \in Request
    <2> HIDE DEF N
    <2>1. [N EXCEPT !.kind = "read", !.at = "list", !.pin[f] = Visible(f)]
            = [N EXCEPT !.kind = "read", !.at = "list", !.pin = P]
        BY <1>4 DEF Request
    <2>2. req'[r] = [N EXCEPT !.kind = "read", !.at = "list", !.pin = P]
        BY <1>5, <2>1
    <2>3. N \in Request
        BY <1>4
    <2> HIDE DEF P
    <2> QED
        BY ZenonT(60), <1>3, <2>2, <2>3 DEF Request
<1> QED
    BY <1>2, <1>4, <1>6

LEMMA RowsOfRows ==
    ASSUME TypeOK, NEW f \in Files, NEW v \in 0..MaxVersion
    PROVE  /\ RowsOf(f, v) \subseteq Rows
           /\ RowsOf(f, 0) = {}
           /\ \A row \in RowsOf(f, v) : row[1] = f /\ v > 0 /\ row[2] \in members[f][v] /\ row[2] \in Versions
           /\ v > 0 => \A n \in members[f][v] : <<f, n>> \in RowsOf(f, v)
           /\ v > 0 => \A row \in Rows : row[1] = f /\ row[2] \in members[f][v] => row \in RowsOf(f, v)
<1>1. v > 0 => v \in Versions /\ members[f][v] \subseteq Versions
    BY SearchAssumption DEF TypeOK, Versions
<1>2. RowsOf(f, 0) = {}
    BY DEF RowsOf
<1>3. v > 0 => RowsOf(f, v) = {<<f, n>> : n \in members[f][v]}
    BY DEF RowsOf
<1>4. CASE v = 0
    BY <1>2, <1>4 DEF Rows
<1>5. CASE v > 0
    BY <1>1, <1>2, <1>3, <1>5 DEF Rows
<1> QED
    BY <1>4, <1>5, SearchAssumption

LEMMA ReadPin ==
    ASSUME TypeOK, ReadInv, NEW r \in Requests, req[r].kind = "read"
    PROVE  LET f == Pinned(req[r])
           IN /\ f \in Files /\ req[r].pin[f] > 0 /\ \A g \in Files : g # f => req[r].pin[g] = Unseen
              /\ req[r].pin[f] \in Versions
              /\ req[r].at = "page" => ~Legacy(f, req[r].pin[f])
              /\ req[r].got \cup req[r].page \subseteq RowsOf(f, req[r].pin[f])
              /\ Undisturbed(req[r], f) => PagesOK(req[r], f)
<1> DEFINE q == req[r]
<1>1. PICK f \in Files : /\ q.pin[f] > 0 /\ \A g \in Files : g # f => q.pin[g] = Unseen
                         /\ q.at = "page" => ~Legacy(f, q.pin[f])
                         /\ q.got \cup q.page \subseteq RowsOf(f, q.pin[f])
                         /\ Undisturbed(q, f) => PagesOK(q, f)
    BY DEF ReadInv, ReadOK
<1>2. q.pin[f] \in Unseen..MaxVersion
    BY DEF TypeOK, Request
<1>3. q.pin[f] # Unseen
    BY <1>1, <1>2 DEF Unseen
<1>4. Pinned(q) \in Files /\ q.pin[Pinned(q)] # Unseen
    BY <1>3 DEF Pinned
<1>5. Pinned(q) = f
    BY <1>1, <1>4
<1>6. q.pin[f] \in Versions
    BY <1>1, <1>2, SearchAssumption DEF Versions, Unseen
<1> QED
    BY <1>1, <1>5, <1>6

LEMMA ListStep ==
    ASSUME TypeOK, PlacedInv, ReadInv, NEW r \in Requests, ListSegments(r)
    PROVE  LET f == Pinned(req[r])
               after == {row \in RowsOf(f, req[r].pin[f]) \ retired : row[2] > req[r].cursor}
           IN /\ \A s \in Requests \ {r} : req'[s] = req[s]
              /\ req'[r] \in Request
              /\ req[r].at = "list" /\ req[r].kind = "read"
              /\ req'[r].kind = req[r].kind /\ req'[r].age = req[r].age
              /\ req'[r].known = req[r].known /\ req'[r].excluded = req[r].excluded
              /\ req'[r].sets = req[r].sets /\ req'[r].asked = req[r].asked
              /\ req'[r].pin = req[r].pin /\ req'[r].got = req[r].got
              /\ ~Legacy(f, req[r].pin[f])
              /\ req'[r].cursor >= req[r].cursor
              /\ req'[r].page = {row \in after : row[2] <= req'[r].cursor}
              /\ \/ Cardinality(req'[r].page) = PageSize
                 \/ Cardinality(req'[r].page) < PageSize /\ req'[r].page = after
              /\ req'[r].at = IF req'[r].page = {} THEN "answer" ELSE "page"
<1> DEFINE q == req[r]
           f == Pinned(q)
           after == {row \in RowsOf(f, q.pin[f]) \ retired : row[2] > q.cursor}
           pg(last) == {row \in after : row[2] <= last}
<1>1. q \in Request /\ q.at = "list" /\ q.kind = "read" /\ ~Legacy(f, q.pin[f])
    BY DEF TypeOK, ListSegments, PlacedInv, Placed
<1>2. f \in Files /\ q.pin[f] \in Versions
    BY <1>1, ReadPin
<1>3. q.cursor \in 0..MaxVersion
    BY <1>1 DEF Request
<1>4. after \subseteq Rows /\ \A row \in after : row[2] \in 0..MaxVersion /\ row[2] > q.cursor
    <2>1. q.pin[f] \in 0..MaxVersion
        BY <1>2, SearchAssumption DEF Versions
    <2>2. RowsOf(f, q.pin[f]) \subseteq Rows /\ \A row \in RowsOf(f, q.pin[f]) : row[2] \in Versions
        BY <1>2, <2>1, RowsOfRows
    <2> QED
        BY <2>2, SearchAssumption DEF Versions
<1>5. PICK last \in {row[2] : row \in after} \cup {q.cursor} :
          /\ \/ Cardinality(pg(last)) = PageSize
             \/ Cardinality(pg(last)) < PageSize /\ pg(last) = after
          /\ Step(r, [q EXCEPT !.page = pg(last), !.cursor = last,
                               !.at = IF pg(last) = {} THEN "answer" ELSE "page"])
    BY DEF ListSegments
<1>6. last \in 0..MaxVersion /\ last >= q.cursor
    BY <1>3, <1>4, <1>5, SearchAssumption
<1> DEFINE P == pg(last)
           a == IF P = {} THEN "answer" ELSE "page"
<1>7. P \in SUBSET Rows /\ a \in {"answer", "page"}
    BY <1>4
<1>8. req'[r] = [q EXCEPT !.page = P, !.cursor = last, !.at = a]
    BY <1>5 DEF Step, TypeOK
<1>9. \A s \in Requests \ {r} : req'[s] = req[s]
    BY <1>5 DEF Step, TypeOK
<1>10. /\ req'[r] \in Request
       /\ req'[r].at = a /\ req'[r].kind = q.kind /\ req'[r].age = q.age
       /\ req'[r].pin = q.pin /\ req'[r].known = q.known /\ req'[r].excluded = q.excluded
       /\ req'[r].sets = q.sets /\ req'[r].asked = q.asked
       /\ req'[r].cursor = last /\ req'[r].page = P /\ req'[r].got = q.got
    <2> HIDE DEF P, a, q
    <2> QED
        BY ZenonT(60), <1>1, <1>6, <1>7, <1>8 DEF Request
<1>11. /\ \/ Cardinality(P) = PageSize
          \/ Cardinality(P) < PageSize /\ P = after
       /\ P = {row \in after : row[2] <= last}
    BY <1>5
<1> HIDE DEF after, P
<1> QED
    BY <1>1, <1>6, <1>9, <1>10, <1>11 DEF after, a

LEMMA PageStep ==
    ASSUME TypeOK, PlacedInv, NEW r \in Requests, ReadPage(r)
    PROVE  /\ \A s \in Requests \ {r} : req'[s] = req[s]
           /\ req'[r] \in Request
           /\ req[r].at = "page" /\ req[r].kind = "read"
           /\ req'[r].kind = req[r].kind /\ req'[r].age = req[r].age
           /\ req'[r].known = req[r].known /\ req'[r].excluded = req[r].excluded
           /\ req'[r].sets = req[r].sets /\ req'[r].asked = req[r].asked
           /\ req'[r].pin = req[r].pin /\ req'[r].cursor = req[r].cursor
           /\ req'[r].got = req[r].got \cup (req[r].page \cap rows) /\ req'[r].page = {}
           /\ req'[r].at = IF Cardinality(req[r].page) < PageSize THEN "answer" ELSE "list"
<1> DEFINE q == req[r]
           G == q.got \cup (q.page \cap rows)
           a == IF Cardinality(q.page) < PageSize THEN "answer" ELSE "list"
<1>1. q \in Request /\ q.at = "page" /\ q.kind = "read"
    BY DEF TypeOK, ReadPage, PlacedInv, Placed
<1>2. G \in SUBSET Rows /\ a \in {"answer", "list"} /\ {} \in SUBSET Rows
    BY <1>1 DEF Request, TypeOK
<1>3. req'[r] = [q EXCEPT !.got = G, !.page = {}, !.at = a]
    BY DEF ReadPage, Step, TypeOK
<1>4. \A s \in Requests \ {r} : req'[s] = req[s]
    BY DEF ReadPage, Step, TypeOK
<1>5. /\ req'[r] \in Request
      /\ req'[r].at = a /\ req'[r].kind = q.kind /\ req'[r].age = q.age
      /\ req'[r].pin = q.pin /\ req'[r].known = q.known /\ req'[r].excluded = q.excluded
      /\ req'[r].sets = q.sets /\ req'[r].asked = q.asked
      /\ req'[r].cursor = q.cursor /\ req'[r].got = G /\ req'[r].page = {}
    <2> HIDE DEF G, a, q
    <2> QED
        BY <1>1, <1>2, <1>3 DEF Request
<1> QED
    BY <1>1, <1>4, <1>5

LEMMA LegacyStep ==
    ASSUME TypeOK, PlacedInv, NEW r \in Requests, ReadLegacy(r)
    PROVE  /\ \A s \in Requests \ {r} : req'[s] = req[s]
           /\ req'[r] \in Request
           /\ req[r].at = "list" /\ req[r].kind = "read" /\ req'[r].at = "answer"
           /\ req'[r].kind = req[r].kind /\ req'[r].age = req[r].age
           /\ req'[r].known = req[r].known /\ req'[r].excluded = req[r].excluded
           /\ req'[r].sets = req[r].sets /\ req'[r].asked = req[r].asked
           /\ req'[r].got \subseteq {<<Pinned(req[r]), 1>>} /\ req'[r].page = req[r].page
           /\ req'[r].pin = req[r].pin /\ Legacy(Pinned(req[r]), req[r].pin[Pinned(req[r])])
<1> DEFINE q == req[r]
           G == {<<Pinned(q), 1>>} \cap rows
<1>1. q \in Request /\ q.at = "list" /\ q.kind = "read" /\ Legacy(Pinned(q), q.pin[Pinned(q)])
    BY DEF TypeOK, ReadLegacy, PlacedInv, Placed
<1>2. G \in SUBSET Rows
    BY DEF TypeOK
<1>3. req'[r] = [q EXCEPT !.got = G, !.at = "answer"]
    BY DEF ReadLegacy, Step, TypeOK
<1>4. \A s \in Requests \ {r} : req'[s] = req[s]
    BY DEF ReadLegacy, Step, TypeOK
<1>5. /\ req'[r] \in Request
      /\ req'[r].at = "answer" /\ req'[r].kind = q.kind /\ req'[r].age = q.age
      /\ req'[r].pin = q.pin /\ req'[r].known = q.known /\ req'[r].excluded = q.excluded
      /\ req'[r].sets = q.sets /\ req'[r].asked = q.asked
      /\ req'[r].got = G /\ req'[r].page = q.page
    <2> HIDE DEF G, q
    <2> QED
        BY <1>1, <1>2, <1>3 DEF Request
<1> QED
    BY <1>1, <1>4, <1>5

LEMMA EndStep ==
    ASSUME TypeOK, NEW r \in Requests, End(r)
    PROVE  /\ \A s \in Requests \ {r} : req'[s] = req[s]
           /\ req'[r] \in Request
           /\ req'[r].kind = "none" /\ req'[r].at = "idle"
           /\ req'[r].pin = [f \in Files |-> Unseen] /\ req'[r].asked = [f \in Files |-> 0]
           /\ req'[r].known = {} /\ req'[r].excluded = {}
           /\ lease' \in [Requests -> 0..LeaseTime]
           /\ \A s \in Requests \ {r} : lease'[s] = lease[s]
           /\ lease'[r] \in {lease[r], LeaseTime}
<1>1. req'[r] = NoRequest /\ \A s \in Requests \ {r} : req'[s] = req[s]
    BY DEF End, TypeOK
<1>2. PICK left \in {lease[r], LeaseTime} : lease' = [lease EXCEPT ![r] = left]
    BY DEF End
<1>3. lease[r] \in 0..LeaseTime /\ LeaseTime \in 0..LeaseTime
    BY SearchAssumption DEF TypeOK
<1>4. lease' \in [Requests -> 0..LeaseTime] /\ lease'[r] = left /\ \A s \in Requests \ {r} : lease'[s] = lease[s]
    BY <1>2, <1>3 DEF TypeOK
<1> QED
    BY <1>1, <1>2, <1>4, NoRequestType DEF NoRequest

LEMMA TickStep ==
    ASSUME TypeOK, Tick, NEW r \in Requests
    PROVE  /\ req'[r] \in Request
           /\ req'[r].kind = req[r].kind /\ req'[r].at = req[r].at /\ req'[r].pass = req[r].pass
           /\ req'[r].pin = req[r].pin /\ req'[r].asked = req[r].asked
           /\ req'[r].sets = req[r].sets /\ req'[r].known = req[r].known
           /\ req'[r].excluded = req[r].excluded /\ req'[r].cursor = req[r].cursor
           /\ req'[r].page = req[r].page /\ req'[r].got = req[r].got
           /\ req[r].kind # "none" => req'[r].age = req[r].age + 1
<1> DEFINE q == req[r]
<1>1. q \in Request /\ q.age \in 0..Deadline
    BY DEF TypeOK, Request
<1>2. CASE Running(r)
    <2>1. q.age < Deadline /\ req'[r] = [q EXCEPT !.age = @ + 1]
        BY <1>2 DEF Tick
    <2>2. q.age + 1 \in 0..Deadline
        BY <1>1, <2>1, SearchAssumption
    <2>3. /\ req'[r] \in Request
          /\ req'[r].kind = q.kind /\ req'[r].at = q.at /\ req'[r].pass = q.pass
          /\ req'[r].pin = q.pin /\ req'[r].asked = q.asked
          /\ req'[r].sets = q.sets /\ req'[r].known = q.known
          /\ req'[r].excluded = q.excluded /\ req'[r].cursor = q.cursor
          /\ req'[r].page = q.page /\ req'[r].got = q.got /\ req'[r].age = q.age + 1
        <3> HIDE DEF q
        <3> QED
            BY <1>1, <2>1, <2>2 DEF Request
    <2> QED
        BY <2>3
<1>3. CASE ~Running(r)
    BY <1>1, <1>3 DEF Tick, Running
<1> QED
    BY <1>2, <1>3

\* The request type follows from what happens to each request.
LEMMA RequestsType ==
    ASSUME TypeOK, NEW r \in Requests, NEW next, req' = [req EXCEPT ![r] = next],
           req'[r] \in Request
    PROVE  req' \in [Requests -> Request]
BY DEF TypeOK

LEMMA TypeInit == Init => TypeOK
<1> SUFFICES ASSUME Init
             PROVE  TypeOK
    OBVIOUS
<1>1. 1 \in Versions /\ 1 \in 0..MaxVersion /\ Grace \in 0..Grace /\ LeaseTime \in 0..LeaseTime
    BY SearchAssumption DEF Versions
<1>2. members \in [Files -> [Versions -> SUBSET Versions]]
    BY <1>1 DEF Init
<1>3. rows \in SUBSET Rows /\ retired \in SUBSET Rows
    BY <1>1 DEF Init, Rows
<1> QED
    BY <1>1, <1>2, <1>3, NoRequestType DEF Init, TypeOK

LEMMA WorkersType ==
    ASSUME TypeOK, Workers
    PROVE  TypeOK'
<1>1. ASSUME NEW f \in Files, NEW del \in BOOLEAN, Capture(f, del) PROVE TypeOK'
    <2>1. captured[f] \in Versions /\ captured[f] + 1 \in Versions /\ 0 \in 0..Grace
        BY <1>1, SearchAssumption DEF TypeOK, Versions, Capture
    <2>2. tombs' \in [Files -> SUBSET Versions]
        BY <1>1, <2>1 DEF TypeOK, Capture
    <2> QED
        BY <1>1, <2>1, <2>2 DEF TypeOK, Capture
<1>2. ASSUME NEW f \in Files, NEW append \in BOOLEAN, IndexRows(f, append) PROVE TypeOK'
    <2> DEFINE v == captured[f]
               kept == IF append THEN members[f][v - 1] ELSE {}
    <2>1. v \in Versions /\ v > 1 /\ v - 1 \in Versions
        BY <1>2, SearchAssumption DEF TypeOK, Versions, IndexRows
    <2>2. kept \cup {v} \in SUBSET Versions
        BY <2>1 DEF TypeOK
    <2>3. members' = [members EXCEPT ![f][v] = kept \cup {v}] /\ rows' = rows \cup {<<f, v>>}
          /\ UNCHANGED <<captured, indexed, tombs, idle, retired, deleting, lease, req>>
        BY <1>2 DEF IndexRows
    <2>4. <<f, v>> \in Rows
        BY <2>1 DEF Rows
    <2> HIDE DEF kept, v
    <2>5. members' \in [Files -> [Versions -> SUBSET Versions]]
        BY <2>1, <2>2, <2>3 DEF TypeOK
    <2> QED
        BY <2>3, <2>4, <2>5 DEF TypeOK
<1>3. ASSUME NEW f \in Files, Publish(f) PROVE TypeOK'
    <2>1. captured[f] \in 0..MaxVersion /\ 0 \in 0..Grace
        BY SearchAssumption DEF TypeOK, Versions
    <2> QED
        BY <1>3, <2>1 DEF TypeOK, Publish
<1>4. ASSUME NEW f \in Files, SweepLegacy(f) PROVE TypeOK'
    BY <1>4 DEF TypeOK, SweepLegacy, catalog
<1>5. ASSUME NEW row \in Rows, RetireSegment(row) PROVE TypeOK'
    BY <1>5 DEF TypeOK, RetireSegment, catalog
<1>6. ASSUME NEW row \in Rows, SweepSegment(row) PROVE TypeOK'
    BY <1>6 DEF TypeOK, SweepSegment, catalog
<1>7. ASSUME NEW row \in Rows, SweepRoot(row) PROVE TypeOK'
    BY <1>7 DEF TypeOK, SweepRoot, catalog
<1>8. CASE DeleteRoot
    BY <1>8 DEF TypeOK, DeleteRoot, catalog
<1>9. ASSUME NEW row \in Rows, EraseRow(row) PROVE TypeOK'
    BY <1>9 DEF TypeOK, EraseRow, catalog
<1> QED
    BY <1>1, <1>2, <1>3, <1>4, <1>5, <1>6, <1>7, <1>8, <1>9 DEF Workers

LEMMA TickType ==
    ASSUME TypeOK, Tick
    PROVE  TypeOK'
<1>1. \A r \in Requests : req'[r] \in Request
    BY TickStep
<1>2. req' \in [Requests -> Request]
    BY <1>1 DEF Tick
<1>3. \A r \in Requests : lease[r] < LeaseTime => lease[r] + 1 \in 0..LeaseTime
    BY SearchAssumption DEF TypeOK
<1>4. \A f \in Files : idle[f] < Grace => idle[f] + 1 \in 0..Grace
    BY SearchAssumption DEF TypeOK
<1>5. lease' \in [Requests -> 0..LeaseTime] /\ idle' \in [Files -> 0..Grace]
    BY <1>3, <1>4, SearchAssumption DEF Tick
<1> QED
    BY <1>2, <1>5 DEF Tick, TypeOK

LEMMA ServeType ==
    ASSUME TypeOK, PlacedInv, ReadInv, NEW r \in Requests, Serve(r)
    PROVE  TypeOK'
<1>1. CASE BeginSearch(r)
    <2>1. req' \in [Requests -> Request]
        BY <1>1, BeginSearchStep, RequestsType DEF BeginSearch
    <2>2. 0 \in 0..LeaseTime
        BY SearchAssumption
    <2> QED
        BY <1>1, <2>1, <2>2 DEF TypeOK, BeginSearch, catalog
<1>2. CASE QueryNamespace(r)
    <2>1. req' \in [Requests -> Request]
        BY <1>2, QueryStep, RequestsType DEF QueryNamespace, Step
    <2> QED
        BY <1>2, <2>1 DEF TypeOK, QueryNamespace, catalog
<1>3. CASE CandidatePublications(r)
    <2>1. req'[r] \in Request
        BY <1>3, PublicationsStep
    <2>2. req' \in [Requests -> Request]
        BY <1>3, <2>1, RequestsType DEF CandidatePublications, Step
    <2> QED
        BY <1>3, <2>2 DEF TypeOK, CandidatePublications, catalog
<1>4. CASE Validate(r)
    <2>1. req' \in [Requests -> Request]
        BY <1>4, ValidateStep, RequestsType DEF Validate, Step
    <2> QED
        BY <1>4, <2>1 DEF TypeOK, Validate, catalog
<1>5. ASSUME NEW f \in Files, BeginRead(r, f) PROVE TypeOK'
    <2>1. req' \in [Requests -> Request]
        BY <1>5, BeginReadStep, RequestsType DEF BeginRead
    <2> QED
        BY <1>5, <2>1 DEF TypeOK, BeginRead, catalog
<1>6. CASE ListSegments(r)
    <2>1. req'[r] \in Request
        BY <1>6, ListStep
    <2>2. UNCHANGED <<catalog, rows, retired, deleting, lease>> /\ \E next : req' = [req EXCEPT ![r] = next]
        BY <1>6 DEF ListSegments, Step
    <2>3. req' \in [Requests -> Request]
        BY <2>1, <2>2, RequestsType
    <2> QED
        BY <2>2, <2>3 DEF TypeOK, catalog
<1>7. CASE ReadPage(r)
    <2>1. req' \in [Requests -> Request]
        BY <1>7, PageStep, RequestsType DEF ReadPage, Step
    <2> QED
        BY <1>7, <2>1 DEF TypeOK, ReadPage, catalog
<1>8. CASE ReadLegacy(r)
    <2>1. req' \in [Requests -> Request]
        BY <1>8, LegacyStep, RequestsType DEF ReadLegacy, Step
    <2> QED
        BY <1>8, <2>1 DEF TypeOK, ReadLegacy, catalog
<1>9. CASE End(r)
    <2>1. req' \in [Requests -> Request]
        BY <1>9, EndStep, RequestsType DEF End
    <2>2. lease' \in [Requests -> 0..LeaseTime]
        BY <1>9, EndStep
    <2> QED
        BY <1>9, <2>1, <2>2 DEF TypeOK, End, catalog
<1> QED
    BY <1>1, <1>2, <1>3, <1>4, <1>5, <1>6, <1>7, <1>8, <1>9 DEF Serve

--------------------------------------------------------------------------------
(* The catalog and the index.                                              *)

\* Steps of requests and of the clock leave the catalog and the index alone.
LEMMA ServeFrame ==
    ASSUME NEW r \in Requests, Serve(r)
    PROVE  /\ captured' = captured /\ indexed' = indexed /\ tombs' = tombs
           /\ members' = members /\ idle' = idle
           /\ rows' = rows /\ retired' = retired /\ deleting' = deleting
<1>1. \A f \in Files : BeginRead(r, f) => UNCHANGED <<catalog, rows, retired, deleting>>
    BY DEF BeginRead
<1>2. BeginSearch(r) \/ QueryNamespace(r) \/ CandidatePublications(r) \/ Validate(r)
        \/ ListSegments(r) \/ ReadPage(r) \/ ReadLegacy(r) \/ End(r)
      => UNCHANGED <<catalog, rows, retired, deleting>>
    BY DEF BeginSearch, QueryNamespace, CandidatePublications, Validate, ListSegments,
           ReadPage, ReadLegacy, End
<1> QED
    BY <1>1, <1>2 DEF Serve, catalog

LEMMA CatalogInductive ==
    ASSUME TypeOK, CatalogOK, [Next]_vars
    PROVE  CatalogOK'
<1>1. ASSUME NEW f \in Files, NEW del \in BOOLEAN, Capture(f, del) PROVE CatalogOK'
    <2>1. captured'[f] = captured[f] + 1 /\ \A g \in Files : g # f => captured'[g] = captured[g]
        BY <1>1 DEF Capture, TypeOK
    <2>2. \A g \in Files : g # f => tombs'[g] = tombs[g]
        BY <1>1 DEF Capture, TypeOK
    <2>3. \A g \in Files : captured[g] \in Int /\ indexed[g] \in Int
        BY SearchAssumption DEF TypeOK, Versions
    <2>4. \A v \in Versions : v \in Int
        BY DEF Versions
    <2>5. members' = members /\ indexed' = indexed
        BY <1>1 DEF Capture
    <2>6. \A g \in Files : indexed[g] >= 1 /\ indexed[g] <= captured'[g]
                            /\ (indexed[g] = captured'[g] => g # f)
        BY <2>1, <2>3 DEF CatalogOK
    <2>7. \A g \in Files : \A v \in Versions : members[g][v] # {} => v <= captured'[g]
        BY <2>1, <2>3, <2>4 DEF CatalogOK
    <2> QED
        BY <2>1, <2>2, <2>5, <2>6, <2>7 DEF CatalogOK, Deleted
<1>2. ASSUME NEW f \in Files, NEW append \in BOOLEAN, IndexRows(f, append) PROVE CatalogOK'
    <2> DEFINE v == captured[f]
               kept == IF append THEN members[f][v - 1] ELSE {}
    <2>1. v \in Versions /\ v > 1 /\ v - 1 \in Versions /\ v \in Int
        BY <1>2, SearchAssumption DEF TypeOK, Versions, IndexRows
    <2>2. members' = [members EXCEPT ![f][v] = kept \cup {v}]
          /\ UNCHANGED <<captured, indexed, tombs>>
        BY <1>2 DEF IndexRows
    <2>3. \A n \in kept \cup {v} : n <= v
        <3>1. \A n \in members[f][v - 1] : n \in Int /\ n <= v - 1
            BY <2>1 DEF CatalogOK, TypeOK, Versions
        <3> QED
            BY <2>1, <3>1
    <2>4. captured' = captured /\ indexed' = indexed /\ tombs' = tombs
        BY <2>2
    <2> HIDE DEF kept, v
    <2>5. members'[f][v] = kept \cup {v}
          /\ \A g \in Files, w \in Versions : (g # f \/ w # v) => members'[g][w] = members[g][w]
        BY <2>1, <2>2 DEF TypeOK
    <2>6. \A g \in Files : members'[g][1] = {1}
        <3>1. 1 \in Versions /\ 1 # v
            BY <2>1, SearchAssumption DEF Versions
        <3> QED
            BY <2>5, <3>1 DEF CatalogOK
    <2>7. captured[f] = v
        BY DEF v
    <2>8. \A g \in Files, w \in Versions :
             (\A n \in members'[g][w] : n <= w) /\ (members'[g][w] # {} => w <= captured[g])
        BY <2>1, <2>3, <2>5, <2>7 DEF CatalogOK
    <2>9. \A g \in Files : indexed[g] = captured[g] /\ ~Deleted(g) => members'[g][captured[g]] # {}
        <3>1. \A g \in Files : captured[g] \in Versions
            BY DEF TypeOK
        <3> QED
            BY <2>5, <2>7, <3>1 DEF CatalogOK
    <2> QED
        BY <2>4, <2>6, <2>8, <2>9 DEF CatalogOK, Deleted
<1>3. ASSUME NEW f \in Files, Publish(f) PROVE CatalogOK'
    <2>1. /\ indexed'[f] = captured[f] /\ \A g \in Files : g # f => indexed'[g] = indexed[g]
          /\ captured' = captured /\ tombs' = tombs /\ members' = members
          /\ Deleted(f) \/ members[f][captured[f]] # {}
        BY <1>3 DEF Publish, TypeOK
    <2>2. captured[f] \in Int /\ captured[f] >= 1
        BY SearchAssumption DEF TypeOK, Versions
    <2> QED
        BY <2>1, <2>2 DEF CatalogOK, Deleted
<1>4. ASSUME UNCHANGED <<captured, indexed, tombs, members>> PROVE CatalogOK'
    BY <1>4 DEF CatalogOK, Deleted
<1>5. ASSUME NEW r \in Requests, Serve(r) PROVE CatalogOK'
    BY <1>4, <1>5, ServeFrame
<1>6. CASE Tick
    BY <1>4, <1>6 DEF Tick
<1>7. CASE Workers
    <2>1. ASSUME NEW f \in Files, SweepLegacy(f) PROVE CatalogOK'
        BY <1>4, <2>1 DEF SweepLegacy, catalog
    <2>2. ASSUME NEW row \in Rows, EraseRow(row) \/ RetireSegment(row) \/ SweepSegment(row) \/ SweepRoot(row)
          PROVE  CatalogOK'
        BY <1>4, <2>2 DEF EraseRow, RetireSegment, SweepSegment, SweepRoot, catalog
    <2>3. CASE DeleteRoot
        BY <1>4, <2>3 DEF DeleteRoot, catalog
    <2> QED
        BY <1>1, <1>2, <1>3, <1>7, <2>1, <2>2, <2>3 DEF Workers
<1>8. CASE UNCHANGED vars
    BY <1>4, <1>8 DEF vars, catalog
<1> QED
    BY <1>5, <1>6, <1>7, <1>8 DEF Next

\* What no step undoes: the published version only advances, a deletion stays one, and
\* the segments of a version that is or was published stay what they are.
Monotone ==
    /\ deleting => deleting'
    /\ \A f \in Files : indexed[f] <= indexed'[f] /\ tombs[f] \subseteq tombs'[f]
    /\ \A f \in Files, v \in Versions : v <= indexed[f] => members'[f][v] = members[f][v]

LEMMA IndexRowsStep ==
    ASSUME TypeOK, CatalogOK, NEW f \in Files, NEW append \in BOOLEAN, IndexRows(f, append)
    PROVE  /\ captured[f] \in Versions /\ captured[f] > 1 /\ captured[f] - 1 \in Versions
           /\ indexed[f] < captured[f] /\ members[f][captured[f]] = {} /\ ~deleting
           /\ captured[f] \notin tombs[f]
           /\ \A g \in Files, w \in Versions :
                 (g # f \/ w # captured[f]) => members'[g][w] = members[g][w]
           /\ \/ members'[f][captured[f]] = {captured[f]}
              \/ /\ members'[f][captured[f]] = members[f][captured[f] - 1] \cup {captured[f]}
                 /\ indexed[f] = captured[f] - 1 /\ ~Legacy(f, captured[f] - 1)
           /\ rows' = rows \cup {<<f, captured[f]>>}
           /\ captured' = captured /\ indexed' = indexed /\ tombs' = tombs /\ idle' = idle
           /\ retired' = retired /\ deleting' = deleting /\ lease' = lease /\ req' = req
<1> DEFINE v == captured[f]
           kept == IF append THEN members[f][v - 1] ELSE {}
<1>1. v \in Versions /\ v > 1 /\ v - 1 \in Versions /\ v \in Int
    BY SearchAssumption DEF TypeOK, Versions, IndexRows
<1>2. /\ members' = [members EXCEPT ![f][v] = kept \cup {v}] /\ rows' = rows \cup {<<f, v>>}
      /\ ~deleting /\ ~Deleted(f) /\ members[f][v] = {}
      /\ append => indexed[f] = v - 1 /\ ~Legacy(f, v - 1)
      /\ UNCHANGED <<captured, indexed, tombs, idle, retired, deleting, lease, req>>
    BY DEF IndexRows
<1>3. indexed[f] < v
    <2>1. indexed[f] <= v /\ indexed[f] # v
        BY <1>2 DEF CatalogOK
    <2>2. indexed[f] \in Int
        BY DEF TypeOK
    <2> QED
        BY <1>1, <2>1, <2>2
<1>4. members'[f][v] = kept \cup {v}
      /\ \A g \in Files, w \in Versions : (g # f \/ w # v) => members'[g][w] = members[g][w]
    <2> HIDE DEF kept, v
    <2> QED
        BY <1>1, <1>2 DEF TypeOK
<1> QED
    BY <1>1, <1>2, <1>3, <1>4 DEF Deleted

LEMMA MonotoneStep ==
    ASSUME TypeOK, CatalogOK, [Next]_vars
    PROVE  Monotone
<1>0. \A f \in Files : indexed[f] \in Int /\ captured[f] \in Int
    BY DEF TypeOK, Versions
<1>1. ASSUME NEW f \in Files, NEW del \in BOOLEAN, Capture(f, del) PROVE Monotone
    <2>1. \A g \in Files : tombs[g] \subseteq tombs'[g]
        BY <1>1 DEF Capture, TypeOK
    <2> QED
        BY <1>0, <1>1, <2>1 DEF Capture, Monotone
<1>2. ASSUME NEW f \in Files, NEW append \in BOOLEAN, IndexRows(f, append) PROVE Monotone
    BY <1>0, <1>2, IndexRowsStep DEF Monotone
<1>3. ASSUME NEW f \in Files, Publish(f) PROVE Monotone
    <2>1. /\ \A g \in Files : indexed'[g] = IF g = f THEN captured[f] ELSE indexed[g]
          /\ indexed[f] < captured[f] /\ members' = members /\ deleting' = deleting /\ tombs' = tombs
        BY <1>3 DEF Publish, TypeOK
    <2> QED
        BY <1>0, <2>1 DEF Monotone
<1>4. ASSUME members' = members, indexed' = indexed, tombs' = tombs, deleting => deleting' PROVE Monotone
    BY <1>0, <1>4 DEF Monotone
<1>5. ASSUME NEW r \in Requests, Serve(r) PROVE Monotone
    BY <1>4, <1>5, ServeFrame
<1>6. CASE Tick
    BY <1>4, <1>6 DEF Tick
<1>7. CASE Workers
    <2>1. ASSUME NEW f \in Files, SweepLegacy(f) PROVE Monotone
        BY <1>4, <2>1 DEF SweepLegacy, catalog
    <2>2. ASSUME NEW row \in Rows, EraseRow(row) \/ RetireSegment(row) \/ SweepSegment(row) \/ SweepRoot(row)
          PROVE  Monotone
        BY <1>4, <2>2 DEF EraseRow, RetireSegment, SweepSegment, SweepRoot, catalog
    <2>3. CASE DeleteRoot
        BY <1>4, <2>3 DEF DeleteRoot, catalog
    <2> QED
        BY <1>1, <1>2, <1>3, <1>7, <2>1, <2>2, <2>3 DEF Workers
<1>8. CASE UNCHANGED vars
    BY <1>4, <1>8 DEF vars, catalog
<1> QED
    BY <1>5, <1>6, <1>7, <1>8 DEF Next

LEMMA RetireStep ==
    ASSUME TypeOK, NEW row \in Rows, RetireSegment(row)
    PROVE  /\ row[1] \in Files /\ row[2] \in Versions /\ row = <<row[1], row[2]>>
           /\ \E v \in Versions : row[2] \in members[row[1]][v]
           /\ row[2] \notin members[row[1]][indexed[row[1]]]
           /\ row[2] \notin members[row[1]][captured[row[1]]]
           /\ idle[row[1]] >= Grace
           /\ retired' = retired \cup {row} /\ rows' = rows
           /\ captured' = captured /\ indexed' = indexed /\ tombs' = tombs
           /\ members' = members /\ idle' = idle
           /\ deleting' = deleting /\ lease' = lease /\ req' = req
<1>1. row[1] \in Files /\ row[2] \in Versions /\ row = <<row[1], row[2]>>
    BY DEF Rows
<1>2. row \in Unreferenced(row[1]) /\ idle[row[1]] >= Grace /\ retired' = retired \cup {row}
      /\ UNCHANGED <<catalog, rows, deleting, lease, req>>
    BY DEF RetireSegment
<1>3. PICK n \in (UNION {members[row[1]][v] : v \in Versions})
                    \ (members[row[1]][indexed[row[1]]] \cup members[row[1]][captured[row[1]]]) :
          row = <<row[1], n>>
    BY <1>2 DEF Unreferenced
<1>4. n = row[2]
    BY <1>3
<1> QED
    BY <1>1, <1>2, <1>3, <1>4 DEF catalog

LEMMA TombsInductive ==
    ASSUME TypeOK, CatalogOK, TombsOK, [Next]_vars
    PROVE  TombsOK'
<1>0. /\ \A v \in Versions : v \in Int
      /\ \A f \in Files : captured[f] \in Versions /\ captured[f] \in Int /\ tombs[f] \subseteq Versions
    <2>1. \A v \in Versions : v \in Int
        BY DEF Versions
    <2> QED
        BY <2>1 DEF TypeOK
<1>1. ASSUME NEW f \in Files, NEW del \in BOOLEAN, Capture(f, del) PROVE TombsOK'
    <2>1. /\ captured'[f] = captured[f] + 1 /\ \A g \in Files : g # f => captured'[g] = captured[g]
          /\ members' = members
        BY <1>1 DEF Capture, TypeOK
    <2>2. \A g \in Files : \A w \in tombs'[g] : w \in tombs[g] \/ (g = f /\ w = captured[f] + 1)
        BY <1>1 DEF Capture, TypeOK
    <2> SUFFICES ASSUME NEW g \in Files, NEW w \in tombs'[g]
                 PROVE  /\ w <= captured'[g]
                        /\ \A v \in Versions : w <= v => \A n \in members[g][v] : w < n
        BY <2>1 DEF TombsOK
    <2>3. CASE w \in tombs[g]
        <3>1. w <= captured[g] /\ w \in Int
            BY <1>0, <2>3 DEF TombsOK
        <3>2. w <= captured'[g]
            BY <1>0, <2>1, <3>1
        <3> QED
            BY <2>3, <3>2 DEF TombsOK
    <2>4. CASE g = f /\ w = captured[f] + 1
        <3>1. \A v \in Versions : w <= v => members[f][v] = {}
            BY <1>0, <2>4 DEF CatalogOK
        <3> QED
            BY <1>0, <2>1, <2>4, <3>1
    <2> QED
        BY <2>2, <2>3, <2>4
<1>2. ASSUME NEW f \in Files, NEW append \in BOOLEAN, IndexRows(f, append) PROVE TombsOK'
    <2>1. /\ captured[f] \in Versions /\ captured[f] - 1 \in Versions /\ captured[f] \notin tombs[f]
          /\ \A g \in Files, v \in Versions : (g # f \/ v # captured[f]) => members'[g][v] = members[g][v]
          /\ \A n \in members'[f][captured[f]] : n = captured[f] \/ n \in members[f][captured[f] - 1]
          /\ captured' = captured /\ tombs' = tombs
        BY <1>2, IndexRowsStep
    <2> SUFFICES ASSUME NEW g \in Files, NEW w \in tombs[g], NEW v \in Versions, w <= v,
                        NEW n \in members'[g][v]
                 PROVE  w < n
        BY <2>1 DEF TombsOK
    <2>2. CASE g # f \/ v # captured[f]
        BY <2>1, <2>2 DEF TombsOK
    <2>3. CASE g = f /\ v = captured[f]
        <3>1. w \in Int /\ w # v /\ v \in Int
            BY <1>0, <2>1, <2>3
        <3>2. w < v /\ w <= v - 1
            BY <3>1
        <3>3. n = v \/ n \in members[f][v - 1]
            BY <2>1, <2>3
        <3> QED
            BY <2>1, <2>3, <3>2, <3>3 DEF TombsOK
    <2> QED
        BY <2>2, <2>3
<1>3. ASSUME UNCHANGED <<captured, tombs, members>> PROVE TombsOK'
    BY <1>3 DEF TombsOK
<1>4. ASSUME NEW r \in Requests, Serve(r) PROVE TombsOK'
    BY <1>3, <1>4, ServeFrame
<1>5. CASE Tick \/ UNCHANGED vars
    BY <1>3, <1>5 DEF Tick, vars, catalog
<1>6. ASSUME NEW f \in Files, Publish(f) \/ SweepLegacy(f) PROVE TombsOK'
    BY <1>3, <1>6 DEF Publish, SweepLegacy, catalog
<1>7. ASSUME NEW row \in Rows, EraseRow(row) \/ RetireSegment(row) \/ SweepSegment(row) \/ SweepRoot(row)
      PROVE  TombsOK'
    BY <1>3, <1>7 DEF EraseRow, RetireSegment, SweepSegment, SweepRoot, catalog
<1>8. CASE DeleteRoot
    BY <1>3, <1>8 DEF DeleteRoot, catalog
<1> QED
    BY <1>1, <1>2, <1>4, <1>5, <1>6, <1>7, <1>8 DEF Next, Workers

\* The worker of a deletion spares the versions captured after it.
LEMMA EraseSpares ==
    ASSUME TypeOK, TombsOK, NEW f \in Files, NEW v \in Versions, ~DeletedSince(f, v),
           NEW row \in Rows, EraseRow(row)
    PROVE  \A n \in members[f][v] : <<f, n>> # row
<1> SUFFICES ASSUME NEW n \in members[f][v], row = <<f, n>> PROVE FALSE
    OBVIOUS
<1>1. PICK w \in tombs[f] : n <= w
    BY DEF EraseRow
<1>2. w \in Int /\ n \in Int /\ v \in Int
    BY DEF TypeOK, Versions
<1>3. w <= v
    BY <1>2 DEF DeletedSince
<1>4. w < n
    BY <1>3 DEF TombsOK
<1> QED
    BY <1>1, <1>2, <1>4

LEMMA IndexInductive ==
    ASSUME TypeOK, CatalogOK, TombsOK, IndexOK, [Next]_vars
    PROVE  IndexOK'
<1>0. \A f \in Files : captured[f] \in Versions /\ captured[f] \in Int /\ indexed[f] \in Int
    BY DEF TypeOK, Versions
<1>01. \A f \in Files : indexed[f] \in Versions
    BY <1>0, SearchAssumption DEF CatalogOK, TypeOK, Versions
<1>02. \A row \in retired : row[1] \in Files /\ row[2] \in Versions
    BY DEF TypeOK, Rows
<1>03. Monotone
    BY MonotoneStep
<1>1. ASSUME NEW f \in Files, NEW del \in BOOLEAN, Capture(f, del) PROVE IndexOK'
    <2>1. /\ captured'[f] = captured[f] + 1 /\ \A g \in Files : g # f => captured'[g] = captured[g]
          /\ members' = members /\ indexed' = indexed /\ rows' = rows /\ retired' = retired
          /\ deleting' = deleting /\ captured[f] < MaxVersion
        BY <1>1 DEF Capture, TypeOK
    <2>2. captured[f] + 1 \in Versions /\ ~(captured[f] + 1 <= captured[f])
        BY <1>0, <2>1, SearchAssumption DEF Versions
    <2>3. members[f][captured[f] + 1] = {}
        BY <2>2 DEF CatalogOK
    <2>4. ASSUME NEW g \in Files, ~deleting PROVE Present(g, indexed[g])' /\ Present(g, captured[g])'
        <3>1. Present(g, indexed[g]) /\ Present(g, captured[g]) /\ tombs[g] \subseteq tombs'[g]
            BY <1>03, <2>4 DEF IndexOK, Monotone
        <3>2. Present(g, indexed[g])'
            BY <2>1, <3>1 DEF Present, DeletedSince
        <3>3. CASE g = f
            BY <2>1, <2>3, <3>2, <3>3 DEF Present
        <3>4. CASE g # f
            BY <2>1, <3>1, <3>2, <3>4 DEF Present, DeletedSince
        <3> QED
            BY <3>3, <3>4
    <2> QED
        BY <2>1, <2>4 DEF IndexOK
<1>2. ASSUME NEW f \in Files, NEW append \in BOOLEAN, IndexRows(f, append) PROVE IndexOK'
    <2> DEFINE v == captured[f]
    <2>1. /\ v \in Versions /\ v > 1 /\ v - 1 \in Versions
          /\ indexed[f] < v /\ members[f][v] = {} /\ ~deleting /\ v \notin tombs[f]
          /\ \A g \in Files, w \in Versions : (g # f \/ w # v) => members'[g][w] = members[g][w]
          /\ \/ members'[f][v] = {v}
             \/ /\ members'[f][v] = members[f][v - 1] \cup {v}
                /\ indexed[f] = v - 1 /\ ~Legacy(f, v - 1)
          /\ rows' = rows \cup {<<f, v>>}
          /\ captured' = captured /\ indexed' = indexed /\ tombs' = tombs
          /\ retired' = retired /\ deleting' = deleting
        BY <1>2, IndexRowsStep
    <2>2. \A row \in retired' : \E w \in Versions : row[2] \in members'[row[1]][w]
        <3> SUFFICES ASSUME NEW row \in retired
                     PROVE  \E w \in Versions : row[2] \in members'[row[1]][w]
            BY <2>1
        <3>1. PICK w \in Versions : row[2] \in members[row[1]][w]
            BY DEF IndexOK
        <3>2. row[1] # f \/ w # v
            BY <2>1, <3>1
        <3> QED
            BY <1>02, <2>1, <3>1, <3>2
    <2>3. <<f, v>> \notin retired
        <3> SUFFICES ASSUME <<f, v>> \in retired PROVE FALSE
            OBVIOUS
        <3>1. PICK w \in Versions : v \in members[f][w]
            BY DEF IndexOK
        <3>2. v <= w /\ w <= v /\ w \in Int
            BY <3>1 DEF CatalogOK, Versions
        <3>3. w = v
            BY <1>0, <3>2
        <3> QED
            BY <2>1, <3>1, <3>3
    <2>4. \A g \in LegacyFiles : \A w \in Versions : w > 1 => 1 \notin members'[g][w]
        <3> SUFFICES ASSUME NEW g \in LegacyFiles, NEW w \in Versions, w > 1
                     PROVE  1 \notin members'[g][w]
            OBVIOUS
        <3>1. g \in Files
            BY SearchAssumption
        <3>2. CASE g # f \/ w # v
            BY <2>1, <3>1, <3>2 DEF IndexOK
        <3>3. CASE g = f /\ w = v
            <4>1. CASE members'[f][v] = {v}
                BY <2>1, <3>3, <4>1 DEF Versions
            <4>2. CASE members'[f][v] = members[f][v - 1] \cup {v} /\ ~Legacy(f, v - 1)
                <5>1. v - 1 # 1
                    BY <3>3, <4>2 DEF Legacy
                <5>2. v - 1 > 1 /\ v # 1
                    BY <1>0, <2>1, <5>1
                <5>3. 1 \notin members[f][v - 1]
                    BY <2>1, <3>3, <5>2 DEF IndexOK
                <5> QED
                    BY <3>3, <4>2, <5>2, <5>3
            <4> QED
                BY <2>1, <4>1, <4>2
        <3> QED
            BY <3>2, <3>3
    <2>5. ASSUME NEW g \in Files
          PROVE  Present(g, indexed[g])' /\ Present(g, captured[g])'
        <3>1. Present(g, indexed[g]) /\ Present(g, captured[g])
            BY <2>1 DEF IndexOK
        <3>2. g # f \/ indexed[g] # v
            BY <1>0, <2>1
        <3>3. members'[g][indexed[g]] = members[g][indexed[g]]
            BY <1>01, <2>1, <3>2
        <3>4. Present(g, indexed[g])'
            BY <2>1, <3>1, <3>3 DEF Present, DeletedSince
        <3>5. CASE g # f
            BY <1>0, <2>1, <3>1, <3>4, <3>5 DEF Present, DeletedSince
        <3>6. CASE g = f
            <4>1. members'[f][v] = {v} \/ (members'[f][v] = members[f][indexed[f]] \cup {v} /\ indexed[f] = v - 1)
                BY <2>1
            <4>2. indexed[f] = v - 1 => ~DeletedSince(f, indexed[f])
                BY <1>0, <2>1 DEF TombsOK, DeletedSince, TypeOK, Versions
            <4>3. \A n \in members'[f][v] : n = v \/ (n \in members[f][indexed[f]] /\ indexed[f] = v - 1)
                BY <4>1
            <4>4. \A n \in members'[f][v] : <<f, n>> \in rows' /\ <<f, n>> \notin retired'
                BY <2>1, <2>3, <3>1, <3>6, <4>2, <4>3 DEF Present
            <4> QED
                BY <2>1, <3>4, <3>6, <4>4 DEF Present
        <3> QED
            BY <3>5, <3>6
    <2> QED
        BY <2>2, <2>4, <2>5 DEF IndexOK
<1>3. ASSUME NEW f \in Files, Publish(f) PROVE IndexOK'
    <2>1. /\ indexed'[f] = captured[f] /\ \A g \in Files : g # f => indexed'[g] = indexed[g]
          /\ captured' = captured /\ members' = members /\ rows' = rows /\ retired' = retired
          /\ deleting' = deleting /\ tombs' = tombs
        BY <1>3 DEF Publish, TypeOK
    <2> QED
        BY <2>1 DEF IndexOK, Present, DeletedSince
<1>4. ASSUME members' = members, indexed' = indexed, captured' = captured, tombs' = tombs,
             retired' = retired, deleting => deleting', ~deleting' => rows' = rows
      PROVE  IndexOK'
    BY <1>4 DEF IndexOK, Present, DeletedSince
<1>5. ASSUME NEW r \in Requests, Serve(r) PROVE IndexOK'
    BY <1>4, <1>5, ServeFrame
<1>6. CASE Tick
    BY <1>4, <1>6 DEF Tick
<1>7. ASSUME NEW f \in Files, SweepLegacy(f) PROVE IndexOK'
    <2>1. /\ f \in LegacyFiles /\ indexed[f] > 1 /\ rows' = rows \ {<<f, 1>>}
          /\ captured' = captured /\ indexed' = indexed /\ members' = members
          /\ retired' = retired /\ deleting' = deleting /\ tombs' = tombs
        BY <1>7 DEF SweepLegacy, Legacy, catalog
    <2>2. captured[f] > 1
        BY <1>0, <2>1 DEF CatalogOK
    <2>3. 1 \notin members[f][indexed[f]] /\ 1 \notin members[f][captured[f]]
        BY <1>0, <1>01, <2>1, <2>2 DEF IndexOK
    <2> QED
        BY <2>1, <2>3 DEF IndexOK, Present, DeletedSince
<1>8. ASSUME NEW row \in Rows, RetireSegment(row) PROVE IndexOK'
    BY <1>8, RetireStep DEF IndexOK, Present, DeletedSince
<1>9. ASSUME NEW row \in Rows, SweepSegment(row) PROVE IndexOK'
    BY <1>9 DEF SweepSegment, IndexOK, Present, DeletedSince, catalog
<1>10. ASSUME NEW row \in Rows, SweepRoot(row) PROVE IndexOK'
    BY <1>4, <1>10 DEF SweepRoot, catalog
<1>11. CASE DeleteRoot
    BY <1>4, <1>11 DEF DeleteRoot, catalog
<1>12. ASSUME NEW row \in Rows, EraseRow(row) PROVE IndexOK'
    <2>1. /\ rows' = rows \ {row} /\ captured' = captured /\ indexed' = indexed /\ members' = members
          /\ tombs' = tombs /\ retired' = retired /\ deleting' = deleting
        BY <1>12 DEF EraseRow, catalog
    <2>2. \A f \in Files, v \in Versions : ~DeletedSince(f, v) => \A n \in members[f][v] : <<f, n>> # row
        BY <1>12, EraseSpares
    <2> QED
        BY <1>0, <1>01, <2>1, <2>2 DEF IndexOK, Present, DeletedSince
<1>13. CASE UNCHANGED vars
    BY <1>4, <1>13 DEF vars, catalog
<1> QED
    BY <1>1, <1>2, <1>3, <1>5, <1>6, <1>7, <1>8, <1>9, <1>10, <1>11, <1>12, <1>13 DEF Next, Workers

--------------------------------------------------------------------------------
(* Where the requests are, and the publications they pin.                  *)

LEMMA ServeOthers ==
    ASSUME TypeOK, PlacedInv, ReadInv, NEW r \in Requests, Serve(r)
    PROVE  \A s \in Requests \ {r} : req'[s] = req[s]
<1>1. CASE CandidatePublications(r)
    BY <1>1, PublicationsStep
<1>2. CASE ListSegments(r)
    BY <1>2, ListStep
<1> QED
    BY ZenonT(60), <1>1, <1>2, BeginSearchStep, QueryStep, ValidateStep, BeginReadStep, PageStep,
       LegacyStep, EndStep DEF Serve

\* Requests do not notice the workers.
LEMMA WorkersRequests ==
    ASSUME Workers \/ UNCHANGED vars
    PROVE  req' = req /\ lease' = lease
BY DEF Workers, Capture, IndexRows, Publish, SweepLegacy, EraseRow, RetireSegment,
       SweepSegment, SweepRoot, DeleteRoot, vars

LEMMA PlacedInductive ==
    ASSUME TypeOK, PlacedInv, ReadInv, [Next]_vars
    PROVE  PlacedInv'
<1>1. CASE Workers \/ UNCHANGED vars
    BY <1>1, WorkersRequests DEF PlacedInv, Placed
<1>2. CASE Tick
    BY <1>2, TickStep DEF PlacedInv, Placed
<1>3. ASSUME NEW r \in Requests, Serve(r) PROVE PlacedInv'
    <2> SUFFICES Placed(req[r])'
        BY <1>3, ServeOthers DEF PlacedInv, Placed
    <2>1. CASE BeginSearch(r)
        BY <2>1, BeginSearchStep, SearchAssumption DEF Placed
    <2>2. CASE QueryNamespace(r)
        BY <2>2, QueryStep DEF Placed, PlacedInv
    <2>3. CASE CandidatePublications(r)
        <3>1. req[r].at = "lookup" /\ req'[r].at = "validate" /\ req'[r].kind = req[r].kind
            BY <2>3, PublicationsStep
        <3> QED
            BY <3>1 DEF Placed, PlacedInv
    <2>4. CASE Validate(r)
        BY <2>4, ValidateStep DEF Placed, PlacedInv
    <2>5. ASSUME NEW f \in Files, BeginRead(r, f) PROVE Placed(req[r])'
        BY <2>5, BeginReadStep DEF Placed
    <2>6. CASE ListSegments(r)
        <3>1. req[r].kind = "read" /\ req'[r].kind = "read" /\ req'[r].at \in {"answer", "page"}
            BY <2>6, ListStep
        <3> QED
            BY <3>1 DEF Placed
    <2>7. CASE ReadPage(r)
        <3>1. req[r].kind = "read" /\ req'[r].kind = "read" /\ req'[r].at \in {"answer", "list"}
            BY <2>7, PageStep
        <3> QED
            BY <3>1 DEF Placed
    <2>8. CASE ReadLegacy(r)
        BY <2>8, LegacyStep DEF Placed
    <2>9. CASE End(r)
        BY <2>9, EndStep DEF Placed
    <2> QED
        BY <1>3, <2>1, <2>2, <2>3, <2>4, <2>5, <2>6, <2>7, <2>8, <2>9 DEF Serve
<1> QED
    BY <1>1, <1>2, <1>3 DEF Next

\* A request that keeps its pins keeps them in order, when the catalog stays.
LEMMA PinKept ==
    ASSUME PinInv, NEW r \in Requests, req'[r].pin = req[r].pin, req'[r].age = req[r].age,
           indexed' = indexed, tombs' = tombs, idle' = idle, members' = members, rows' = rows,
           retired' = retired, deleting' = deleting
    PROVE  PinOK(req[r])'
BY DEF PinInv, PinOK, Present, DeletedSince

LEMMA PinTypes ==
    ASSUME TypeOK, NEW r \in Requests, NEW f \in Files
    PROVE  /\ req[r].pin \in [Files -> Unseen..MaxVersion]
           /\ req[r].pin[f] \in Int /\ (req[r].pin[f] > 0 => req[r].pin[f] \in Versions)
           /\ req[r].age \in 0..Deadline
           /\ req[r].asked \in [Files -> 0..MaxVersion] /\ req[r].asked[f] \in Int
           /\ (req[r].asked[f] > 0 => req[r].asked[f] \in Versions)
           /\ indexed[f] \in Int /\ captured[f] \in Int /\ captured[f] \in Versions
           /\ idle[f] \in 0..Grace
           /\ req[r].sets \in [Rankings -> SUBSET Rows]
           /\ req[r].known \subseteq Rows /\ req[r].excluded \subseteq Rows
           /\ req[r].page \subseteq Rows /\ req[r].got \subseteq Rows
           /\ req[r].cursor \in 0..MaxVersion
<1>1. req[r] \in Request
    BY DEF TypeOK
<1>2. /\ req[r].pin \in [Files -> Unseen..MaxVersion] /\ req[r].asked \in [Files -> 0..MaxVersion]
      /\ req[r].age \in 0..Deadline /\ req[r].sets \in [Rankings -> SUBSET Rows]
      /\ req[r].known \subseteq Rows /\ req[r].excluded \subseteq Rows
      /\ req[r].page \subseteq Rows /\ req[r].got \subseteq Rows
      /\ req[r].cursor \in 0..MaxVersion
    BY <1>1 DEF Request
<1>3. indexed[f] \in Int /\ captured[f] \in Int /\ captured[f] \in Versions /\ idle[f] \in 0..Grace
    BY DEF TypeOK, Versions
<1>4. /\ req[r].pin[f] \in Int /\ (req[r].pin[f] > 0 => req[r].pin[f] \in Versions)
      /\ req[r].asked[f] \in Int /\ (req[r].asked[f] > 0 => req[r].asked[f] \in Versions)
    BY <1>2, SearchAssumption DEF Versions, Unseen
<1> QED
    BY <1>2, <1>3, <1>4

\* What is visible can be pinned.
LEMMA PinVisible ==
    ASSUME TypeOK, CatalogOK, IndexOK, NEW f \in Files, Visible(f) > 0
    PROVE  /\ Visible(f) = indexed[f]
           /\ ~deleting => Present(f, indexed[f])
BY DEF Visible, IndexOK

LEMMA PinWorkers ==
    ASSUME TypeOK, CatalogOK, TombsOK, IndexOK, PinInv, Workers, Monotone
    PROVE  PinInv'
<1> SUFFICES ASSUME NEW r \in Requests, NEW g \in Files, req'[r].pin[g] > 0
             PROVE  /\ req'[r].pin[g] <= indexed'[g]
                    /\ req'[r].pin[g] # indexed'[g] => idle'[g] <= req'[r].age
                    /\ ~deleting' /\ ~Legacy(g, req'[r].pin[g])
                          => Present(g, req[r].pin[g])'
    BY DEF PinInv, PinOK, Legacy
<1> DEFINE p == req[r].pin[g]
<1>0. req' = req
    BY WorkersRequests
<1>1. /\ p > 0 /\ p <= indexed[g] /\ (p # indexed[g] => idle[g] <= req[r].age)
      /\ ~deleting /\ ~Legacy(g, p) => Present(g, p)
    BY <1>0 DEF PinInv, PinOK
<1>2. p \in Versions /\ p \in Int /\ indexed[g] \in Int /\ captured[g] \in Int /\ captured[g] \in Versions
      /\ req[r].age \in Int /\ req[r].age >= 0 /\ req[r].age <= Deadline
      /\ idle[g] \in Int
    BY <1>1, PinTypes, SearchAssumption
<1>3. ASSUME NEW f \in Files, NEW del \in BOOLEAN, Capture(f, del)
      PROVE  /\ p <= indexed'[g] /\ (p # indexed'[g] => idle'[g] <= req[r].age)
             /\ ~deleting' /\ ~Legacy(g, p) => Present(g, req[r].pin[g])'
    <2>1. /\ idle'[g] = idle[g] \/ idle'[g] = 0
          /\ indexed' = indexed /\ members' = members /\ rows' = rows /\ retired' = retired
          /\ deleting' = deleting
        BY <1>3 DEF Capture, TypeOK
    <2>2. tombs[g] \subseteq tombs'[g]
        BY DEF Monotone
    <2> QED
        BY <1>0, <1>1, <1>2, <2>1, <2>2 DEF Present, DeletedSince
<1>4. ASSUME NEW f \in Files, NEW append \in BOOLEAN, IndexRows(f, append)
      PROVE  /\ p <= indexed'[g] /\ (p # indexed'[g] => idle'[g] <= req[r].age)
             /\ ~deleting' /\ ~Legacy(g, p) => Present(g, req[r].pin[g])'
    <2>1. /\ \A w \in Versions : (g # f \/ w # captured[f]) => members'[g][w] = members[g][w]
          /\ indexed[f] < captured[f] /\ rows \subseteq rows' /\ retired' = retired
          /\ indexed' = indexed /\ tombs' = tombs /\ idle' = idle /\ deleting' = deleting
        BY <1>4, IndexRowsStep
    <2>2. g # f \/ p # captured[f]
        BY <1>1, <1>2, <2>1
    <2>3. members'[g][p] = members[g][p]
        BY <1>2, <2>1, <2>2
    <2>4. members'[g][req'[r].pin[g]] = members[g][p]
        BY <1>0, <2>3
    <2> QED
        BY <1>0, <1>1, <2>1, <2>4 DEF Present, DeletedSince
<1>5. ASSUME NEW f \in Files, Publish(f)
      PROVE  /\ p <= indexed'[g] /\ (p # indexed'[g] => idle'[g] <= req[r].age)
             /\ ~deleting' /\ ~Legacy(g, p) => Present(g, req[r].pin[g])'
    <2>1. /\ \/ idle'[g] = idle[g] /\ indexed'[g] = indexed[g]
             \/ idle'[g] = 0 /\ indexed'[g] = captured[g]
          /\ members' = members /\ rows' = rows /\ retired' = retired /\ deleting' = deleting
          /\ tombs' = tombs
        BY <1>5 DEF Publish, TypeOK
    <2>2. indexed[g] <= captured[g]
        BY DEF CatalogOK
    <2> QED
        BY <1>0, <1>1, <1>2, <2>1, <2>2 DEF Present, DeletedSince
<1>6. ASSUME NEW row \in Rows, RetireSegment(row)
      PROVE  /\ p <= indexed'[g] /\ (p # indexed'[g] => idle'[g] <= req[r].age)
             /\ ~deleting' /\ ~Legacy(g, p) => Present(g, req[r].pin[g])'
    <2>1. /\ row = <<row[1], row[2]>> /\ row[2] \notin members[row[1]][indexed[row[1]]]
          /\ idle[row[1]] >= Grace
          /\ retired' = retired \cup {row} /\ rows' = rows
          /\ indexed' = indexed /\ members' = members /\ idle' = idle /\ deleting' = deleting
          /\ tombs' = tombs
        BY <1>6, RetireStep
    <2>2. row[1] = g => p = indexed[g]
        BY <1>1, <1>2, <2>1, SearchAssumption
    <2>3. \A n \in members[g][p] : <<g, n>> # row
        BY <2>1, <2>2
    <2> QED
        BY <1>0, <1>1, <2>1, <2>3 DEF Present, DeletedSince
<1>7. ASSUME NEW row \in Rows, SweepSegment(row)
      PROVE  /\ p <= indexed'[g] /\ (p # indexed'[g] => idle'[g] <= req[r].age)
             /\ ~deleting' /\ ~Legacy(g, p) => Present(g, req[r].pin[g])'
    BY <1>0, <1>1, <1>7 DEF SweepSegment, Present, DeletedSince, catalog
<1>8. ASSUME NEW f \in Files, SweepLegacy(f)
      PROVE  /\ p <= indexed'[g] /\ (p # indexed'[g] => idle'[g] <= req[r].age)
             /\ ~deleting' /\ ~Legacy(g, p) => Present(g, req[r].pin[g])'
    <2>1. /\ f \in LegacyFiles /\ rows' = rows \ {<<f, 1>>}
          /\ indexed' = indexed /\ members' = members /\ idle' = idle
          /\ retired' = retired /\ deleting' = deleting /\ tombs' = tombs
        BY <1>8 DEF SweepLegacy, Legacy, catalog
    <2>2. g = f /\ ~Legacy(g, p) => p > 1
        BY <1>1, <1>2, <2>1 DEF Legacy
    <2>3. g = f /\ ~Legacy(g, p) => 1 \notin members[g][p]
        BY <1>2, <2>1, <2>2 DEF IndexOK
    <2> QED
        BY <1>0, <1>1, <2>1, <2>3 DEF Present, DeletedSince
<1>9. ASSUME (\E row \in Rows : SweepRoot(row)) \/ DeleteRoot
      PROVE  /\ p <= indexed'[g] /\ (p # indexed'[g] => idle'[g] <= req[r].age)
             /\ ~deleting' /\ ~Legacy(g, p) => Present(g, req[r].pin[g])'
    BY <1>1, <1>9 DEF SweepRoot, DeleteRoot, catalog
<1>10. ASSUME NEW row \in Rows, EraseRow(row)
      PROVE  /\ p <= indexed'[g] /\ (p # indexed'[g] => idle'[g] <= req[r].age)
             /\ ~deleting' /\ ~Legacy(g, p) => Present(g, req[r].pin[g])'
    <2>1. /\ rows' = rows \ {row} /\ indexed' = indexed /\ members' = members /\ idle' = idle
          /\ tombs' = tombs /\ retired' = retired /\ deleting' = deleting
        BY <1>10 DEF EraseRow, catalog
    <2>2. ~DeletedSince(g, p) => \A n \in members[g][p] : <<g, n>> # row
        BY <1>2, <1>10, EraseSpares
    <2> QED
        BY <1>0, <1>1, <2>1, <2>2 DEF Present, DeletedSince
<1>11. /\ p <= indexed'[g] /\ (p # indexed'[g] => idle'[g] <= req[r].age)
       /\ ~deleting' /\ ~Legacy(g, p) => Present(g, req[r].pin[g])'
    BY <1>3, <1>4, <1>5, <1>6, <1>7, <1>8, <1>9, <1>10 DEF Workers
<1> QED
    BY <1>0, <1>11

LEMMA PinTick ==
    ASSUME TypeOK, PlacedInv, PinInv, Tick
    PROVE  PinInv'
<1> SUFFICES ASSUME NEW r \in Requests, NEW g \in Files, req'[r].pin[g] > 0
             PROVE  /\ req'[r].pin[g] <= indexed'[g]
                    /\ req'[r].pin[g] # indexed'[g] => idle'[g] <= req'[r].age
                    /\ ~deleting' /\ ~Legacy(g, req'[r].pin[g])
                          => Present(g, req[r].pin[g])'
    BY DEF PinInv, PinOK, Legacy
<1>1. req'[r].pin = req[r].pin
    BY TickStep
<1>2. req[r].kind # "none"
    BY <1>1 DEF PlacedInv, Placed, Unseen
<1>3. req'[r].age = req[r].age + 1
    BY <1>2, TickStep
<1>4. /\ req[r].pin[g] > 0 /\ req[r].pin[g] <= indexed[g]
      /\ req[r].pin[g] # indexed[g] => idle[g] <= req[r].age
      /\ ~deleting /\ ~Legacy(g, req[r].pin[g]) => Present(g, req[r].pin[g])
    BY <1>1 DEF PinInv, PinOK
<1>5. idle[g] \in 0..Grace /\ req[r].age \in 0..Deadline
    BY PinTypes
<1>6. /\ idle'[g] = IF idle[g] < Grace THEN idle[g] + 1 ELSE Grace
      /\ indexed' = indexed /\ members' = members /\ rows' = rows /\ retired' = retired
      /\ deleting' = deleting /\ tombs' = tombs
    BY DEF Tick
<1>7. idle[g] <= req[r].age => idle'[g] <= req[r].age + 1
    BY <1>5, <1>6, SearchAssumption
<1> QED
    BY <1>1, <1>3, <1>4, <1>6, <1>7 DEF Present, DeletedSince

LEMMA PinServe ==
    ASSUME TypeOK, CatalogOK, IndexOK, PlacedInv, ReadInv, PinInv, NEW r \in Requests, Serve(r)
    PROVE  PinInv'
<1>0. /\ indexed' = indexed /\ tombs' = tombs /\ members' = members /\ idle' = idle
      /\ rows' = rows /\ retired' = retired /\ deleting' = deleting
    BY ServeFrame
<1> SUFFICES PinOK(req[r])'
    BY <1>0, ServeOthers, PinKept DEF PinInv
<1>1. CASE BeginSearch(r) \/ End(r)
    <2>1. req'[r].pin = [f \in Files |-> Unseen]
        BY <1>1, BeginSearchStep, EndStep
    <2> QED
        BY <2>1 DEF PinOK, Unseen
<1>2. CASE CandidatePublications(r)
    <2> DEFINE unseen == {f \in Files : req[r].pin[f] = Unseen
                                          /\ \E row \in Candidates(req[r]) : row[1] = f}
    <2>1. req'[r].pin = [f \in Files |-> IF f \in unseen THEN Visible(f) ELSE req[r].pin[f]]
          /\ req'[r].age = req[r].age
        BY <1>2, PublicationsStep
    <2> HIDE DEF unseen
    <2>2. \A f \in Files : Visible(f) > 0 =>
              Visible(f) = indexed[f] /\ (~deleting => Present(f, indexed[f]))
        BY PinVisible
    <2>3. ASSUME NEW f \in Files, req'[r].pin[f] > 0
          PROVE  /\ req'[r].pin[f] <= indexed[f]
                 /\ req'[r].pin[f] # indexed[f] => idle[f] <= req[r].age
                 /\ ~deleting /\ ~Legacy(f, req'[r].pin[f]) => Present(f, req'[r].pin[f])
        <3>1. indexed[f] <= indexed[f]
            BY PinTypes
        <3>2. CASE f \in unseen
            BY <2>1, <2>2, <2>3, <3>1, <3>2
        <3>3. CASE f \notin unseen
            BY <2>1, <2>3, <3>3 DEF PinInv, PinOK
        <3> QED
            BY <3>2, <3>3
    <2> QED
        BY <1>0, <2>1, <2>3 DEF PinOK, Present, DeletedSince, Legacy
<1>3. ASSUME NEW f \in Files, BeginRead(r, f) PROVE PinOK(req[r])'
    <2>0. req'[r].pin = [[g \in Files |-> Unseen] EXCEPT ![f] = Visible(f)]
        BY <1>3, BeginReadStep
    <2>1. /\ req'[r].pin[f] = Visible(f) /\ \A g \in Files : g # f => req'[r].pin[g] = Unseen
          /\ Visible(f) > 0
        BY <1>3, <2>0 DEF BeginRead
    <2>2. Visible(f) = indexed[f] /\ (~deleting => Present(f, indexed[f])) /\ indexed[f] \in Int
        BY <2>1, PinVisible, PinTypes
    <2> QED
        BY <1>0, <2>1, <2>2 DEF PinOK, Present, DeletedSince, Legacy, Unseen
<1>4. CASE QueryNamespace(r) \/ Validate(r) \/ ReadPage(r) \/ ReadLegacy(r)
    <2>1. req'[r].pin = req[r].pin /\ req'[r].age = req[r].age
        BY <1>4, QueryStep, ValidateStep, PageStep, LegacyStep
    <2> QED
        BY <1>0, <2>1, PinKept
<1>5. CASE ListSegments(r)
    <2>1. req'[r].pin = req[r].pin /\ req'[r].age = req[r].age
        BY <1>5, ListStep
    <2> QED
        BY <1>0, <2>1, PinKept
<1> QED
    BY <1>1, <1>2, <1>3, <1>4, <1>5 DEF Serve

--------------------------------------------------------------------------------
(* The ranked lists of a search.                                           *)

LEMMA RowsFinite == \A S \in SUBSET Rows : IsFiniteSet(S) /\ Cardinality(S) \in Nat
<1>1. IsFiniteSet(Versions)
    BY FS_Interval, SearchAssumption DEF Versions
<1>2. IsFiniteSet(Rows)
    BY <1>1, FS_Product, SearchAssumption DEF Rows
<1> QED
    BY <1>2, FS_Subset, FS_CardinalityType

\* A row of a set that is not among its best is preceded by Limit of the best.
LEMMA BestOutranks ==
    ASSUME NEW k \in Rankings, NEW S \in SUBSET Rows, NEW row \in S, row \notin Best(k, S)
    PROVE  Cardinality({x \in Best(k, S) : Rank[k][x] < Rank[k][row]}) >= Limit
<1> DEFINE B(z) == {y \in S : Rank[k][y] < Rank[k][z]}
           c(z) == Cardinality(B(z))
           T == {z \in S : ~(c(z) < Limit)}
           C == {c(z) : z \in T}
<1>1. \A z \in S : Rank[k][z] \in Int
    BY SearchAssumption DEF Rows
<1>2. \A z \in S : IsFiniteSet(B(z)) /\ c(z) \in Nat
    <2>1. \A z \in S : B(z) \in SUBSET Rows
        OBVIOUS
    <2> HIDE DEF B
    <2> QED
        BY <2>1, RowsFinite
<1>3. Best(k, S) = {z \in S : c(z) < Limit}
    BY DEF Best
<1>4. row \in T
    BY <1>3
<1>5. C \subseteq Nat /\ C # {}
    <2> HIDE DEF c
    <2> QED
        BY <1>2, <1>4
<1>6. PICK m \in C : \A n \in C : ~(<<n, m>> \in OpToRel(<, Nat))
    <2> HIDE DEF C
    <2> QED
        BY <1>5, NatLessThanWellFounded, WFMin
<1>7. PICK z \in T : m = c(z)
    BY <1>6
<1>8. \A y \in T : ~(c(y) < c(z))
    <2> HIDE DEF c
    <2>1. \A y \in T : c(y) \in C /\ c(y) \in Nat /\ c(z) \in Nat
        BY <1>2, <1>7
    <2> QED
        BY <1>6, <1>7, <2>1 DEF OpToRel
<1>9. \A y \in B(z) : y \in Best(k, S)
    <2> SUFFICES ASSUME NEW y \in B(z)
                 PROVE  y \in Best(k, S)
        OBVIOUS
    <2>1. y \in S /\ z \in S /\ Rank[k][y] < Rank[k][z]
        BY <1>7
    <2>2. B(y) \subseteq B(z) /\ y \notin B(y)
        BY <1>1, <2>1
    <2>3. IsFiniteSet(B(z)) /\ c(y) \in Nat /\ c(z) \in Nat
        BY <1>2, <2>1
    <2>4. c(y) <= c(z) /\ (c(z) = c(y) => B(z) = B(y))
        <3> HIDE DEF B
        <3> QED
            BY <2>2, <2>3, FS_Subset
    <2>5. c(y) # c(z)
        BY <2>2, <2>4
    <2>6. c(y) < c(z)
        <3> HIDE DEF c
        <3> QED
            BY <2>3, <2>4, <2>5
    <2>7. y \notin T
        BY <1>8, <2>6
    <2> QED
        BY <1>3, <2>1, <2>7
<1>10. ~(Rank[k][row] < Rank[k][z])
    BY <1>9
<1> DEFINE D == {x \in Best(k, S) : Rank[k][x] < Rank[k][row]}
<1>11. B(z) \subseteq D
    <2>1. \A y \in B(z) : Rank[k][y] < Rank[k][row]
        BY <1>1, <1>7, <1>10
    <2> QED
        BY <1>9, <2>1
<1>12. IsFiniteSet(D) /\ Cardinality(D) \in Nat
    <2>1. D \in SUBSET Rows
        BY <1>3
    <2> HIDE DEF D
    <2> QED
        BY <2>1, RowsFinite
<1>13. c(z) <= Cardinality(D)
    <2> HIDE DEF B, D
    <2> QED
        BY <1>11, <1>12, FS_Subset
<1>14. c(z) \in Nat /\ ~(c(z) < Limit)
    BY <1>2, <1>7
<1> HIDE DEF c
<1>15. Cardinality(D) >= Limit
    BY <1>12, <1>13, <1>14, SearchAssumption
<1> QED
    BY <1>15

\* The segments of a pinned publication, and of one asked for, stay what they are.
LEMMA PinSame ==
    ASSUME TypeOK, PinInv, Monotone, NEW r \in Requests, NEW f \in Files, req[r].pin[f] > 0
    PROVE  members'[f][req[r].pin[f]] = members[f][req[r].pin[f]]
<1>1. req[r].pin[f] \in Versions /\ req[r].pin[f] <= indexed[f]
    BY PinTypes DEF PinInv, PinOK
<1> QED
    BY <1>1 DEF Monotone

LEMMA AskedSame ==
    ASSUME TypeOK, OutrankedInv, Monotone, NEW r \in Requests, NEW f \in Files, req[r].asked[f] > 0
    PROVE  members'[f][req[r].asked[f]] = members[f][req[r].asked[f]]
<1>1. req[r].asked[f] \in Versions /\ req[r].asked[f] <= indexed[f]
    BY PinTypes DEF OutrankedInv, Outranked
<1> QED
    BY <1>1 DEF Monotone

LEMMA ListsRows ==
    ASSUME TypeOK, NEW r \in Requests
    PROVE  \A row \in req[r].known \cup req[r].excluded \cup Candidates(req[r]) : row \in Rows /\ row[1] \in Files
<1>1. req[r].known \subseteq Rows /\ req[r].excluded \subseteq Rows
    BY DEF TypeOK, Request
<1>2. Candidates(req[r]) \subseteq Rows
    BY CandidatesType DEF TypeOK
<1> QED
    BY <1>1, <1>2 DEF Rows

LEMMA ListsKept ==
    ASSUME TypeOK, PinInv, ListsInv, Monotone, NEW r \in Requests,
           req'[r].pin = req[r].pin, req'[r].sets = req[r].sets,
           req'[r].known = req[r].known, req'[r].excluded = req[r].excluded,
           req'[r].at \in {req[r].at, "lookup"} \/ req[r].kind = "read", req'[r].kind = req[r].kind,
           req'[r].at # "validate" \/ req[r].at = "validate"
    PROVE  ListsOK(req[r])'
<1>1. \A row \in Rows : OfPin(req[r], row)' <=> OfPin(req[r], row)
    BY PinSame DEF OfPin, Rows
<1>2. Candidates(req[r])' = Candidates(req[r])
    BY DEF Candidates
<1>3. deleting => deleting'
    BY DEF Monotone
<1>4. ListsOK(req[r])
    BY DEF ListsInv
<1>5. \A row \in req'[r].known : OfPin(req[r], row)'
    BY <1>1, <1>4, ListsRows DEF ListsOK
<1>6. \A row \in req'[r].excluded : /\ req'[r].pin[row[1]] # Unseen
                                    /\ ~deleting' /\ ~Legacy(row[1], req'[r].pin[row[1]])
                                          => ~OfPin(req[r], row)'
    BY <1>1, <1>3, <1>4, ListsRows DEF ListsOK
<1>7. req'[r].at = "validate" => \A row \in Candidates(req[r])' : req'[r].pin[row[1]] # Unseen
    BY <1>2, <1>4 DEF ListsOK
<1>8. req'[r].kind = "search" /\ req'[r].at = "answer" => \A row \in Candidates(req[r])' : OfPin(req[r], row)'
    BY <1>1, <1>2, <1>4, ListsRows DEF ListsOK
<1> QED
    BY <1>5, <1>6, <1>7, <1>8 DEF ListsOK, Legacy

LEMMA ListsInductive ==
    ASSUME TypeOK, CatalogOK, IndexOK, PlacedInv, ReadInv, PinInv, ListsInv, [Next]_vars
    PROVE  ListsInv'
<1>0. Monotone
    BY MonotoneStep
<1>1. CASE Workers \/ UNCHANGED vars
    BY <1>0, <1>1, WorkersRequests, ListsKept DEF ListsInv
<1>2. CASE Tick
    <2> SUFFICES ASSUME NEW r \in Requests PROVE ListsOK(req[r])'
        BY DEF ListsInv
    <2> QED
        BY <1>0, <1>2, TickStep, ListsKept
<1>3. ASSUME NEW r \in Requests, Serve(r) PROVE ListsInv'
    <2> SUFFICES ListsOK(req[r])'
        BY <1>0, <1>3, ServeOthers, ListsKept DEF ListsInv
    <2>0. members' = members /\ deleting' = deleting /\ rows' = rows /\ retired' = retired
        BY <1>3, ServeFrame
    <2>01. ListsOK(req[r])
        BY DEF ListsInv
    <2>1. CASE BeginSearch(r) \/ End(r) \/ \E f \in Files : BeginRead(r, f)
        <3>1. /\ req'[r].known = {} /\ req'[r].excluded = {}
              /\ req'[r].at \in {"query", "idle", "list"}
            BY <2>1, BeginSearchStep, EndStep, BeginReadStep
        <3> QED
            BY <3>1 DEF ListsOK
    <2>2. CASE QueryNamespace(r)
        <3>1. /\ req'[r].pin = req[r].pin /\ req'[r].known = req[r].known
              /\ req'[r].excluded = req[r].excluded /\ req'[r].at = "lookup"
            BY <2>2, QueryStep
        <3> QED
            BY <2>0, <2>01, <3>1 DEF ListsOK, OfPin, Legacy
    <2>3. CASE CandidatePublications(r)
        <3> DEFINE unseen == {f \in Files : req[r].pin[f] = Unseen
                                              /\ \E row \in Candidates(req[r]) : row[1] = f}
        <3>1. /\ req'[r].known = req[r].known /\ req'[r].excluded = req[r].excluded
              /\ req'[r].sets = req[r].sets /\ req'[r].at = "validate"
              /\ req'[r].pin = [f \in Files |-> IF f \in unseen THEN Visible(f) ELSE req[r].pin[f]]
            BY <2>3, PublicationsStep
        <3>2. Candidates(req[r])' = Candidates(req[r])
            BY <3>1 DEF Candidates
        <3>3. \A f \in Files : req[r].pin[f] # Unseen => req'[r].pin[f] = req[r].pin[f]
            BY <3>1
        <3>4. \A f \in Files : Visible(f) # Unseen
            BY DEF Visible, TypeOK, Unseen
        <3>5. \A row \in Candidates(req[r]) : req'[r].pin[row[1]] # Unseen
            BY <3>1, <3>4, ListsRows
        <3>6. \A row \in req[r].known : req'[r].pin[row[1]] = req[r].pin[row[1]]
            BY <2>01, <3>3, ListsRows DEF ListsOK, OfPin, Unseen
        <3>7. \A row \in req[r].excluded : req'[r].pin[row[1]] = req[r].pin[row[1]]
            BY <2>01, <3>3, ListsRows DEF ListsOK
        <3> QED
            BY <2>0, <2>01, <3>1, <3>2, <3>5, <3>6, <3>7 DEF ListsOK, OfPin, Legacy
    <2>4. CASE Validate(r)
        <3>1. /\ req[r].at = "validate" /\ req'[r].pin = req[r].pin /\ req'[r].known = Members(req[r])
              /\ req'[r].excluded = req[r].excluded \cup Rejected(req[r])
              /\ req'[r].sets = req[r].sets
              /\ \/ Rejected(req[r]) = {} /\ req'[r].at = "answer"
                 \/ req'[r].at = "query" /\ req[r].pass < MaxPasses
            BY <2>4, ValidateStep
        <3>2. Candidates(req[r])' = Candidates(req[r])
            BY <3>1 DEF Candidates
        <3>3. \A row \in Rows : OfPin(req[r], row)' <=> OfPin(req[r], row)
            BY <2>0, <3>1 DEF OfPin
        <3>4. \A row \in Candidates(req[r]) : row[1] \in Files /\ row \in Rows /\ req[r].pin[row[1]] # Unseen
            BY <2>01, <3>1, ListsRows DEF ListsOK
        <3>5. \A row \in Members(req[r]) : row \in Rows /\ OfPin(req[r], row)
            <4> SUFFICES ASSUME NEW row \in Members(req[r]), row \notin req[r].known
                         PROVE  row \in Rows /\ OfPin(req[r], row)
                BY <2>01, ListsRows DEF ListsOK
            <4>1. row \in Candidates(req[r]) /\ req[r].pin[row[1]] > 0
                  /\ row \in RowsOf(row[1], req[r].pin[row[1]])
                BY DEF Members
            <4>2. row[1] \in Files /\ req[r].pin[row[1]] \in Versions /\ row \in Rows
                BY <3>4, <4>1, PinTypes
            <4>3. req[r].pin[row[1]] \in 0..MaxVersion
                BY <4>2, SearchAssumption DEF Versions
            <4>4. row[2] \in members[row[1]][req[r].pin[row[1]]]
                BY <4>1, <4>2, <4>3, RowsOfRows
            <4> QED
                BY <4>1, <4>2, <4>4 DEF OfPin
        <3>6. ASSUME NEW row \in Candidates(req[r]), ~deleting, ~Legacy(row[1], req[r].pin[row[1]]),
                     OfPin(req[r], row)
              PROVE  row \notin Rejected(req[r])
            <4>1. row \in Rows /\ row[1] \in Files /\ row = <<row[1], row[2]>>
                BY <3>4 DEF Rows
            <4>2. req[r].pin[row[1]] > 0 /\ row[2] \in members[row[1]][req[r].pin[row[1]]]
                BY <3>6 DEF OfPin
            <4>3. req[r].pin[row[1]] \in 0..MaxVersion
                BY <4>1, <4>2, PinTypes, SearchAssumption DEF Versions
            <4>4. row \in RowsOf(row[1], req[r].pin[row[1]])
                BY <4>1, <4>2, <4>3, RowsOfRows
            <4>5. row \notin retired
                BY <3>6, <4>1, <4>2 DEF PinInv, PinOK, Present
            <4> QED
                BY <3>6, <4>2, <4>4, <4>5 DEF Rejected, Members
        <3>7. \A row \in Rejected(req[r]) : row \in Candidates(req[r])
            BY DEF Rejected
        <3>8. Rejected(req[r]) = {} => \A row \in Candidates(req[r]) : OfPin(req[r], row)
            <4> SUFFICES ASSUME NEW row \in Candidates(req[r]), row \notin Rejected(req[r]),
                                row \notin Members(req[r])
                         PROVE  OfPin(req[r], row)
                BY <3>5
            <4>1. req[r].pin[row[1]] = row[2] /\ row[1] \in LegacyFiles /\ row[2] = 1
                BY DEF Rejected, Legacy
            <4>2. members[row[1]][1] = {1}
                BY <3>4 DEF CatalogOK
            <4> QED
                BY <4>1, <4>2 DEF OfPin
        <3>9. \A row \in req'[r].known : OfPin(req[r], row)'
            BY <3>1, <3>3, <3>5
        <3>10. \A row \in req'[r].excluded : /\ req'[r].pin[row[1]] # Unseen
                                             /\ ~deleting' /\ ~Legacy(row[1], req'[r].pin[row[1]])
                                                   => ~OfPin(req[r], row)'
            <4> SUFFICES ASSUME NEW row \in req[r].excluded \cup Rejected(req[r])
                         PROVE  /\ req[r].pin[row[1]] # Unseen
                                /\ ~deleting /\ ~Legacy(row[1], req[r].pin[row[1]]) => ~OfPin(req[r], row)
                <5>1. \A row \in req[r].excluded \cup Rejected(req[r]) : row \in Rows
                    BY <3>4, <3>7, ListsRows
                <5> QED
                    BY <2>0, <3>1, <3>3, <5>1
            <4>1. CASE row \in req[r].excluded
                BY <2>01, <4>1 DEF ListsOK
            <4>2. CASE row \in Rejected(req[r])
                BY <3>4, <3>6, <3>7, <4>2
            <4> QED
                BY <4>1, <4>2
        <3>11. req'[r].at = "answer" => \A row \in Candidates(req[r])' : OfPin(req[r], row)'
            BY <3>1, <3>2, <3>3, <3>4, <3>8
        <3> QED
            BY <3>1, <3>9, <3>10, <3>11 DEF ListsOK, Legacy
    <2>5. CASE ReadPage(r) \/ ReadLegacy(r)
        <3>1. /\ req[r].kind = "read" /\ req'[r].kind = "read" /\ req'[r].at \in {"list", "answer"}
              /\ req'[r].pin = req[r].pin /\ req'[r].sets = req[r].sets
              /\ req'[r].known = req[r].known /\ req'[r].excluded = req[r].excluded
            BY <2>5, PageStep, LegacyStep
        <3> QED
            BY <1>0, <3>1, ListsKept
    <2>6. CASE ListSegments(r)
        <3>1. /\ req[r].kind = "read" /\ req'[r].kind = "read" /\ req'[r].at \in {"page", "answer"}
              /\ req'[r].pin = req[r].pin /\ req'[r].sets = req[r].sets
              /\ req'[r].known = req[r].known /\ req'[r].excluded = req[r].excluded
            BY <2>6, ListStep
        <3> QED
            BY <1>0, <3>1, ListsKept
    <2> QED
        BY <1>3, <2>1, <2>2, <2>3, <2>4, <2>5, <2>6 DEF Serve
<1> QED
    BY <1>1, <1>2, <1>3 DEF Next

LEMMA OutrankedKept ==
    ASSUME TypeOK, TypeOK', OutrankedInv, Monotone, NEW r \in Requests,
           req'[r].asked = req[r].asked, req'[r].sets = req[r].sets, req'[r].kind = req[r].kind,
           \/ req[r].kind # "search"
           \/ req'[r].at = req[r].at
           \/ req[r].at \in {"lookup", "validate", "answer"}
    PROVE  Outranked(req[r])'
<1>1. Outranked(req[r])
    BY DEF OutrankedInv
<1>2. \A f \in Files : req'[r].asked[f] <= indexed'[f]
    <2>1. \A f \in Files : req[r].asked[f] \in Int /\ indexed[f] \in Int /\ indexed'[f] \in Int
        BY PinTypes DEF TypeOK
    <2> QED
        BY <1>1, <2>1 DEF Outranked, Monotone
<1>3. deleting => deleting'
    BY DEF Monotone
<1>4. \A f \in Files : req[r].asked[f] > 0 => members'[f][req[r].asked[f]] = members[f][req[r].asked[f]]
    BY AskedSame
<1>5. req'[r].at \in {"lookup", "validate", "answer"} /\ req'[r].kind = "search"
        => req[r].at \in {"lookup", "validate", "answer"}
    OBVIOUS
<1>6. ASSUME req'[r].at \in {"lookup", "validate", "answer"}, req'[r].kind = "search", ~deleting',
             NEW k \in Rankings, NEW f \in Files, req'[r].asked[f] > 0, ~Legacy(f, req'[r].asked[f]),
             NEW n \in members'[f][req'[r].asked[f]]
      PROVE  <<f, n>> \in req'[r].sets[k] \/ Cardinality(Better(req'[r].sets, k, <<f, n>>)) >= Limit
    <2>1. n \in members[f][req[r].asked[f]]
        BY <1>4, <1>6
    <2> QED
        BY <1>1, <1>3, <1>5, <1>6, <2>1 DEF Outranked
<1> QED
    BY <1>2, <1>6 DEF Outranked, Legacy, Better

LEMMA OutrankedInductive ==
    ASSUME TypeOK, TypeOK', CatalogOK, IndexOK, PlacedInv, ReadInv, PinInv, ListsInv, OutrankedInv,
           [Next]_vars
    PROVE  OutrankedInv'
<1>0. Monotone
    BY MonotoneStep
<1>1. CASE Workers \/ UNCHANGED vars
    BY <1>0, <1>1, WorkersRequests, OutrankedKept DEF OutrankedInv
<1>2. CASE Tick
    <2> SUFFICES ASSUME NEW r \in Requests PROVE Outranked(req[r])'
        BY DEF OutrankedInv
    <2> QED
        BY <1>0, <1>2, TickStep, OutrankedKept
<1>3. ASSUME NEW r \in Requests, Serve(r) PROVE OutrankedInv'
    <2> SUFFICES Outranked(req[r])'
        BY <1>0, <1>3, ServeOthers, OutrankedKept DEF OutrankedInv
    <2>0. members' = members /\ indexed' = indexed /\ deleting' = deleting
        BY <1>3, ServeFrame
    <2>1. CASE BeginSearch(r) \/ End(r) \/ \E f \in Files : BeginRead(r, f)
        <3>1. req'[r].asked = [f \in Files |-> 0] /\ req'[r].at \in {"query", "idle", "list"}
            BY <2>1, BeginSearchStep, EndStep, BeginReadStep
        <3>2. \A f \in Files : 0 <= indexed[f]
            BY DEF TypeOK
        <3> QED
            BY <2>0, <3>1, <3>2 DEF Outranked
    <2>2. CASE QueryNamespace(r)
        <3> DEFINE q == req[r]
                   S == NotExcluded(q)
        <3>1. /\ req'[r].sets = [k \in Rankings |-> Best(k, S)]
              /\ req'[r].asked = [f \in Files |-> Hoped(q, f)]
            BY <2>2, QueryStep
        <3>2. \A f \in Files : LET v == IF q.pin[f] = Unseen THEN Visible(f) ELSE q.pin[f]
                               IN req'[r].asked[f] = IF DeletedSince(f, v) THEN 0 ELSE v
            BY <3>1 DEF Hoped
        <3>3. \A f \in Files : /\ q.pin[f] \in Unseen..MaxVersion /\ indexed[f] \in Int /\ indexed[f] >= 1
                               /\ q.pin[f] > 0 => q.pin[f] <= indexed[f]
                               /\ Visible(f) \in {0, indexed[f]}
            BY PinTypes DEF PinInv, PinOK, CatalogOK, Visible
        <3>4. \A f \in Files : req'[r].asked[f] <= indexed'[f]
            <4> HIDE DEF q
            <4> QED
                BY <2>0, <3>2, <3>3 DEF Unseen
        <3>5. ASSUME NEW k \in Rankings, NEW f \in Files, ~deleting, req'[r].asked[f] > 0,
                     ~Legacy(f, req'[r].asked[f]), NEW n \in members[f][req'[r].asked[f]]
              PROVE  \/ <<f, n>> \in req'[r].sets[k]
                     \/ Cardinality(Better(req'[r].sets, k, <<f, n>>)) >= Limit
            <4> DEFINE a == req'[r].asked[f]
            <4>1. <<f, n>> \in rows
                <5>1. CASE q.pin[f] = Unseen
                    <6>1. a = indexed[f] /\ ~DeletedSince(f, indexed[f])
                        BY <3>2, <3>3, <3>5, <5>1
                    <6> QED
                        BY <3>5, <6>1 DEF IndexOK, Present
                <5>2. CASE q.pin[f] # Unseen
                    <6>1. a = q.pin[f] /\ ~DeletedSince(f, q.pin[f])
                        BY <3>2, <3>5, <5>2
                    <6> QED
                        BY <3>5, <6>1 DEF PinInv, PinOK, Present
                <5> QED
                    BY <5>1, <5>2
            <4>2. <<f, n>> \notin q.excluded
                <5> SUFFICES ASSUME <<f, n>> \in q.excluded PROVE FALSE
                    OBVIOUS
                <5>1. /\ q.pin[f] # Unseen
                      /\ ~deleting /\ ~Legacy(f, q.pin[f]) => ~OfPin(q, <<f, n>>)
                    BY DEF ListsInv, ListsOK
                <5>2. a = q.pin[f]
                    BY <3>2, <3>5, <5>1
                <5> QED
                    BY <3>5, <5>1, <5>2 DEF OfPin
            <4>3. <<f, n>> \in S /\ S \in SUBSET Rows
                BY <4>1, <4>2 DEF NotExcluded, TypeOK
            <4>4. req'[r].sets[k] = Best(k, S)
                BY <3>1
            <4>5. Better(req'[r].sets, k, <<f, n>>) = {x \in Best(k, S) : Rank[k][x] < Rank[k][<<f, n>>]}
                BY <4>4 DEF Better
            <4> HIDE DEF S
            <4> QED
                BY <4>3, <4>4, <4>5, BestOutranks
        <3> QED
            BY <2>0, <3>4, <3>5 DEF Outranked, Legacy, Better
    <2>3. CASE CandidatePublications(r)
        <3>1. /\ req[r].at = "lookup" /\ req'[r].kind = req[r].kind
              /\ req'[r].sets = req[r].sets /\ req'[r].asked = req[r].asked
            BY <2>3, PublicationsStep
        <3> QED
            BY <1>0, <3>1, OutrankedKept
    <2>4. CASE Validate(r)
        BY <1>0, <2>4, ValidateStep, OutrankedKept
    <2>5. CASE ReadPage(r) \/ ReadLegacy(r)
        <3>1. /\ req[r].kind = "read" /\ req'[r].kind = "read"
              /\ req'[r].sets = req[r].sets /\ req'[r].asked = req[r].asked
            BY <2>5, PageStep, LegacyStep
        <3> QED
            BY <1>0, <3>1, OutrankedKept
    <2>6. CASE ListSegments(r)
        <3>1. /\ req[r].kind = "read" /\ req'[r].kind = "read"
              /\ req'[r].sets = req[r].sets /\ req'[r].asked = req[r].asked
            BY <2>6, ListStep
        <3> QED
            BY <1>0, <3>1, OutrankedKept
    <2> QED
        BY <1>3, <2>1, <2>2, <2>3, <2>4, <2>5, <2>6 DEF Serve
<1> QED
    BY <1>1, <1>2, <1>3 DEF Next

--------------------------------------------------------------------------------
(* The pages of a read.                                                    *)

LEMMA ReadKept ==
    ASSUME TypeOK, PinInv, ReadInv, Monotone, NEW r \in Requests,
           req'[r].kind = req[r].kind, req'[r].at = req[r].at, req'[r].pin = req[r].pin,
           req'[r].cursor = req[r].cursor, req'[r].page = req[r].page, req'[r].got = req[r].got
    PROVE  ReadOK(req[r])'
<1> SUFFICES ASSUME req[r].kind = "read" PROVE ReadOK(req[r])'
    BY DEF ReadOK
<1>1. PICK f \in Files : /\ req[r].pin[f] > 0 /\ \A g \in Files : g # f => req[r].pin[g] = Unseen
                         /\ req[r].at = "page" => ~Legacy(f, req[r].pin[f])
                         /\ req[r].got \cup req[r].page \subseteq RowsOf(f, req[r].pin[f])
                         /\ Undisturbed(req[r], f) => PagesOK(req[r], f)
    BY DEF ReadInv, ReadOK
<1>2. members'[f][req'[r].pin[f]] = members[f][req[r].pin[f]]
    BY <1>1, PinSame
<1>3. PagesOK(req[r], f) => PagesOK(req[r], f)'
    BY <1>2 DEF PagesOK
<1>4. Undisturbed(req[r], f)' => Undisturbed(req[r], f)
    BY DEF Monotone, Undisturbed, DeletedSince, Legacy
<1>5. RowsOf(f, req[r].pin[f])' = RowsOf(f, req[r].pin[f])
    BY <1>2 DEF RowsOf
<1> QED
    BY <1>1, <1>3, <1>4, <1>5 DEF ReadOK, Legacy

\* A page of rows is a page of segments.
LEMMA RowsAfter ==
    ASSUME NEW f, NEW S, NEW a
    PROVE  {row \in {<<f, n>> : n \in S} : row[2] > a} = {<<f, n>> : n \in {m \in S : m > a}}
OBVIOUS

LEMMA RowsUntil ==
    ASSUME NEW f, NEW S, NEW a, NEW b
    PROVE  {row \in {<<f, n>> : n \in {m \in S : m > a}} : row[2] <= b}
             = {<<f, n>> : n \in {m \in S : m > a /\ m <= b}}
OBVIOUS

LEMMA PageAdds ==
    ASSUME NEW f, NEW S, \A n \in S : n \in Int, NEW a \in Int, NEW b \in Int, b >= a
    PROVE  UpTo(f, S, a) \cup {<<f, n>> : n \in {m \in S : m > a /\ m <= b}} = UpTo(f, S, b)
BY DEF UpTo

LEMMA ReadInductive ==
    ASSUME TypeOK, CatalogOK, TombsOK, IndexOK, PlacedInv, ReadInv, PinInv, [Next]_vars
    PROVE  ReadInv'
<1>0. Monotone
    BY MonotoneStep
<1>1. CASE Workers \/ UNCHANGED vars
    BY <1>0, <1>1, WorkersRequests, ReadKept DEF ReadInv
<1>2. CASE Tick
    <2> SUFFICES ASSUME NEW r \in Requests PROVE ReadOK(req[r])'
        BY DEF ReadInv
    <2> QED
        BY <1>0, <1>2, TickStep, ReadKept
<1>3. ASSUME NEW r \in Requests, Serve(r) PROVE ReadInv'
    <2> SUFFICES ReadOK(req[r])'
        BY <1>0, <1>3, ServeOthers, ReadKept DEF ReadInv
    <2>0. members' = members /\ deleting' = deleting /\ tombs' = tombs /\ rows' = rows /\ retired' = retired
        BY <1>3, ServeFrame
    <2>1. CASE BeginSearch(r) \/ End(r) \/ QueryNamespace(r) \/ Validate(r)
        <3>1. req'[r].kind # "read"
            BY <2>1, BeginSearchStep, EndStep, QueryStep, ValidateStep DEF PlacedInv, Placed
        <3> QED
            BY <3>1 DEF ReadOK
    <2>2. CASE CandidatePublications(r)
        <3>1. req[r].at = "lookup" /\ req'[r].kind = req[r].kind
            BY <2>2, PublicationsStep
        <3> QED
            BY <3>1 DEF ReadOK, PlacedInv, Placed
    <2>3. ASSUME NEW f \in Files, BeginRead(r, f) PROVE ReadOK(req[r])'
        <3>1. /\ req'[r].at = "list" /\ req'[r].cursor = 0 /\ req'[r].got = {} /\ req'[r].page = {}
              /\ req'[r].pin = [[g \in Files |-> Unseen] EXCEPT ![f] = Visible(f)]
            BY <2>3, BeginReadStep
        <3>2. Visible(f) > 0
            BY <2>3 DEF BeginRead
        <3>3. req'[r].pin[f] = Visible(f) /\ \A g \in Files : g # f => req'[r].pin[g] = Unseen
            BY <3>1
        <3>4. Visible(f) \in Versions
            BY <3>2, SearchAssumption DEF Visible, TypeOK, Versions
        <3>5. \A n \in members[f][Visible(f)] : ~(n <= 0)
            <4>1. members[f][Visible(f)] \subseteq Versions
                BY <3>4 DEF TypeOK
            <4> QED
                BY <4>1 DEF Versions
        <3>6. UpTo(f, members[f][Visible(f)], 0) = {}
            BY <3>5 DEF UpTo
        <3>7. UpTo(f, members'[f][req'[r].pin[f]], req'[r].cursor) = {}
            BY <2>0, <3>1, <3>3, <3>6
        <3>8. PagesOK(req[r], f)'
            BY <3>1, <3>7 DEF PagesOK
        <3>9. req'[r].got \cup req'[r].page \subseteq RowsOf(f, req[r].pin[f])'
            BY <3>1
        <3> QED
            BY <3>1, <3>2, <3>3, <3>8, <3>9 DEF ReadOK
    <2>4. ASSUME req[r].kind = "read"
          PROVE  \E f \in Files :
                    /\ f = Pinned(req[r]) /\ req[r].pin[f] > 0 /\ req[r].pin[f] \in Versions
                    /\ \A g \in Files : g # f => req[r].pin[g] = Unseen
                    /\ req[r].at = "page" => ~Legacy(f, req[r].pin[f])
                    /\ req[r].got \cup req[r].page \subseteq RowsOf(f, req[r].pin[f])
                    /\ ~deleting /\ ~Legacy(f, req[r].pin[f]) => Present(f, req[r].pin[f])
                    /\ Undisturbed(req[r], f) => PagesOK(req[r], f)
                    /\ members[f][req[r].pin[f]] \subseteq Versions
                    /\ RowsOf(f, req[r].pin[f]) = {<<f, n>> : n \in members[f][req[r].pin[f]]}
        <3>1. LET f == Pinned(req[r])
              IN /\ f \in Files /\ req[r].pin[f] > 0 /\ \A g \in Files : g # f => req[r].pin[g] = Unseen
                 /\ req[r].pin[f] \in Versions
                 /\ req[r].at = "page" => ~Legacy(f, req[r].pin[f])
                 /\ req[r].got \cup req[r].page \subseteq RowsOf(f, req[r].pin[f])
                 /\ Undisturbed(req[r], f) => PagesOK(req[r], f)
            BY <2>4, ReadPin
        <3>2. PICK f \in Files : f = Pinned(req[r])
            BY <3>1
        <3>3. /\ req[r].pin[f] > 0 /\ \A g \in Files : g # f => req[r].pin[g] = Unseen
              /\ req[r].pin[f] \in Versions
              /\ req[r].at = "page" => ~Legacy(f, req[r].pin[f])
              /\ req[r].got \cup req[r].page \subseteq RowsOf(f, req[r].pin[f])
              /\ Undisturbed(req[r], f) => PagesOK(req[r], f)
            BY <3>1, <3>2
        <3>4. ~deleting /\ ~Legacy(f, req[r].pin[f]) => Present(f, req[r].pin[f])
            BY <3>3 DEF PinInv, PinOK
        <3>5. members[f][req[r].pin[f]] \subseteq Versions
            BY <3>3 DEF TypeOK
        <3>6. RowsOf(f, req[r].pin[f]) = {<<f, n>> : n \in members[f][req[r].pin[f]]}
            BY <3>3 DEF RowsOf
        <3> QED
            BY <3>2, <3>3, <3>4, <3>5, <3>6
    <2>5. CASE ListSegments(r)
        <3>0. req[r].kind = "read"
            BY <2>5, ListStep
        <3>1. PICK f \in Files :
                 /\ f = Pinned(req[r]) /\ req[r].pin[f] > 0 /\ req[r].pin[f] \in Versions
                 /\ \A g \in Files : g # f => req[r].pin[g] = Unseen
                 /\ req[r].at = "page" => ~Legacy(f, req[r].pin[f])
                 /\ req[r].got \cup req[r].page \subseteq RowsOf(f, req[r].pin[f])
                 /\ ~deleting /\ ~Legacy(f, req[r].pin[f]) => Present(f, req[r].pin[f])
                 /\ Undisturbed(req[r], f) => PagesOK(req[r], f)
                 /\ members[f][req[r].pin[f]] \subseteq Versions
                 /\ RowsOf(f, req[r].pin[f]) = {<<f, n>> : n \in members[f][req[r].pin[f]]}
            BY <2>4, <3>0
        <3> DEFINE S == members[f][req[r].pin[f]]
                   after == {row \in RowsOf(f, req[r].pin[f]) \ retired : row[2] > req[r].cursor}
        <3>2. /\ req[r].at = "list" /\ req'[r].kind = "read"
              /\ req'[r].pin = req[r].pin /\ req'[r].got = req[r].got
              /\ ~Legacy(f, req[r].pin[f])
              /\ req'[r].cursor >= req[r].cursor
              /\ req'[r].page = {row \in after : row[2] <= req'[r].cursor}
              /\ \/ Cardinality(req'[r].page) = PageSize
                 \/ Cardinality(req'[r].page) < PageSize /\ req'[r].page = after
              /\ req'[r].at = IF req'[r].page = {} THEN "answer" ELSE "page"
            BY <2>5, <3>1, ListStep
        <3>3. req[r].cursor \in Int /\ req'[r].cursor \in Int
            <4>1. req'[r] \in Request
                BY <2>5, ListStep
            <4> QED
                BY <4>1, PinTypes, SearchAssumption DEF Request
        <3>4. \A n \in S : n \in Int
            BY <3>1 DEF Versions
        <3>5. ASSUME Undisturbed(req[r], f) PROVE PagesOK(req[r], f)'
            <4>1. req[r].got = UpTo(f, S, req[r].cursor) /\ \A n \in S : <<f, n>> \notin retired
                BY <3>1, <3>2, <3>5 DEF PagesOK, Undisturbed, Present
            <4>2. after = {<<f, n>> : n \in {m \in S : m > req[r].cursor}}
                <5> HIDE DEF S
                <5>1. RowsOf(f, req[r].pin[f]) = {<<f, n>> : n \in S}
                    BY <3>1 DEF RowsOf, S
                <5>2. RowsOf(f, req[r].pin[f]) \ retired = {<<f, n>> : n \in S}
                    BY <4>1, <5>1
                <5> QED
                    BY <5>2, RowsAfter
            <4>3. req'[r].page = {<<f, n>> : n \in {m \in S : m > req[r].cursor /\ m <= req'[r].cursor}}
                <5> HIDE DEF S, after
                <5> QED
                    BY <3>2, <4>2, RowsUntil
            <4> HIDE DEF after
            <4>4. req'[r].got \cup req'[r].page = UpTo(f, S, req'[r].cursor)
                <5> HIDE DEF S
                <5>1. req'[r].got \cup req'[r].page
                        = UpTo(f, S, req[r].cursor)
                            \cup {<<f, n>> : n \in {m \in S : m > req[r].cursor /\ m <= req'[r].cursor}}
                    BY <3>2, <4>1, <4>3
                <5>2. req'[r].cursor >= req[r].cursor
                    BY <3>2
                <5> QED
                    BY <3>3, <3>4, <5>1, <5>2, PageAdds
            <4>5. req'[r].page = after => UpTo(f, S, req'[r].cursor) = AllRows(f, S)
                <5>1. UpTo(f, S, req[r].cursor) \cup after = AllRows(f, S)
                    BY <3>3, <3>4, <4>2 DEF UpTo, AllRows
                <5> QED
                    BY <3>2, <4>1, <4>4, <5>1
            <4>6. Cardinality(req'[r].page) < PageSize => req'[r].page = after
                BY <3>2, SearchAssumption
            <4>7. req'[r].page = {} => req'[r].got = AllRows(f, S)
                <5>1. req'[r].page = {} => Cardinality(req'[r].page) < PageSize
                    BY FS_EmptySet, SearchAssumption
                <5> QED
                    BY <4>4, <4>5, <4>6, <5>1
            <4>8. S = members'[f][req'[r].pin[f]]
                BY <2>0, <3>2
            <4> HIDE DEF S
            <4> QED
                BY <3>2, <4>4, <4>5, <4>6, <4>7, <4>8 DEF PagesOK
        <3>6. req'[r].got \cup req'[r].page \subseteq RowsOf(f, req[r].pin[f])
            BY <3>1, <3>2
        <3>7. RowsOf(f, req[r].pin[f])' = RowsOf(f, req[r].pin[f]) /\ (Undisturbed(req[r], f)' => Undisturbed(req[r], f))
            BY <2>0, <3>2 DEF RowsOf, Undisturbed, DeletedSince, Legacy
        <3> QED
            BY <2>0, <3>1, <3>2, <3>5, <3>6, <3>7 DEF ReadOK, Legacy
    <2>6. CASE ReadPage(r)
        <3>0. /\ req[r].at = "page" /\ req[r].kind = "read" /\ req'[r].kind = "read"
              /\ req'[r].pin = req[r].pin /\ req'[r].cursor = req[r].cursor
              /\ req'[r].got = req[r].got \cup (req[r].page \cap rows) /\ req'[r].page = {}
              /\ req'[r].at = IF Cardinality(req[r].page) < PageSize THEN "answer" ELSE "list"
            BY <2>6, PageStep
        <3>1. PICK f \in Files :
                 /\ req[r].pin[f] > 0
                 /\ \A g \in Files : g # f => req[r].pin[g] = Unseen
                 /\ req[r].got \cup req[r].page \subseteq RowsOf(f, req[r].pin[f])
                 /\ ~deleting /\ ~Legacy(f, req[r].pin[f]) => Present(f, req[r].pin[f])
                 /\ Undisturbed(req[r], f) => PagesOK(req[r], f)
            BY <2>4, <3>0
        <3> DEFINE S == members[f][req[r].pin[f]]
        <3>2. ASSUME Undisturbed(req[r], f) PROVE PagesOK(req[r], f)'
            <4>1. /\ req[r].got \cup req[r].page = UpTo(f, S, req[r].cursor)
                  /\ Cardinality(req[r].page) < PageSize => UpTo(f, S, req[r].cursor) = AllRows(f, S)
                  /\ \A n \in S : <<f, n>> \in rows
                BY <3>0, <3>1, <3>2 DEF PagesOK, Undisturbed, Present
            <4>2. UpTo(f, S, req[r].cursor) \subseteq rows
                BY <4>1 DEF UpTo
            <4>3. req'[r].got = UpTo(f, S, req[r].cursor)
                BY <3>0, <4>1, <4>2
            <4>4. S = members'[f][req'[r].pin[f]]
                BY <2>0, <3>0
            <4> HIDE DEF S
            <4> QED
                BY <3>0, <4>1, <4>3, <4>4 DEF PagesOK
        <3>3. req'[r].got \cup req'[r].page \subseteq RowsOf(f, req[r].pin[f])
            BY <3>0, <3>1
        <3>4. RowsOf(f, req[r].pin[f])' = RowsOf(f, req[r].pin[f]) /\ (Undisturbed(req[r], f)' => Undisturbed(req[r], f))
            BY <2>0, <3>0 DEF RowsOf, Undisturbed, DeletedSince, Legacy
        <3> QED
            BY <2>0, <3>0, <3>1, <3>2, <3>3, <3>4 DEF ReadOK, Legacy
    <2>7. CASE ReadLegacy(r)
        <3>0. /\ req[r].kind = "read" /\ req'[r].at = "answer" /\ req'[r].pin = req[r].pin
              /\ Legacy(Pinned(req[r]), req[r].pin[Pinned(req[r])])
              /\ req'[r].got \subseteq {<<Pinned(req[r]), 1>>} /\ req'[r].page = req[r].page
            BY <2>7, LegacyStep
        <3>1. PICK f \in Files :
                 /\ f = Pinned(req[r]) /\ req[r].pin[f] > 0
                 /\ \A g \in Files : g # f => req[r].pin[g] = Unseen
                 /\ req[r].got \cup req[r].page \subseteq RowsOf(f, req[r].pin[f])
                 /\ RowsOf(f, req[r].pin[f]) = {<<f, n>> : n \in members[f][req[r].pin[f]]}
            BY <2>4, <3>0
        <3>2. f \in LegacyFiles /\ req[r].pin[f] = 1
            BY <3>0, <3>1 DEF Legacy
        <3>3. RowsOf(f, req[r].pin[f]) = {<<f, 1>>}
            BY <3>1, <3>2 DEF CatalogOK
        <3>4. req'[r].got \cup req'[r].page \subseteq RowsOf(f, req[r].pin[f])
            BY <3>0, <3>1, <3>3
        <3>5. RowsOf(f, req[r].pin[f])' = RowsOf(f, req[r].pin[f])
            BY <2>0, <3>0 DEF RowsOf
        <3>6. ~Undisturbed(req[r], f)'
            BY <3>0, <3>2 DEF Undisturbed, Legacy
        <3> QED
            BY <3>0, <3>1, <3>4, <3>5, <3>6 DEF ReadOK
    <2> QED
        BY <1>3, <2>1, <2>2, <2>3, <2>5, <2>6, <2>7 DEF Serve
<1> QED
    BY <1>1, <1>2, <1>3 DEF Next

--------------------------------------------------------------------------------
(* The capacity of the searches.                                           *)

LEMMA ActiveType ==
    ASSUME NEW Q \in SUBSET Requests
    PROVE  /\ IsFiniteSet({q \in Q : lease[q] < LeaseTime}) /\ Active(Q) \in Nat
           /\ IsFiniteSet({q \in Q : lease'[q] < LeaseTime}) /\ Active(Q)' \in Nat
<1>1. \A T \in SUBSET Requests : IsFiniteSet(T) /\ Cardinality(T) \in Nat
    BY SearchAssumption, FS_Subset, FS_CardinalityType
<1>2. {q \in Q : lease[q] < LeaseTime} \in SUBSET Requests /\ {q \in Q : lease'[q] < LeaseTime} \in SUBSET Requests
    OBVIOUS
<1> QED
    BY <1>1, <1>2 DEF Active

LEMMA ActiveShrinks ==
    ASSUME NEW Q \in SUBSET Requests, \A q \in Q : lease'[q] < LeaseTime => lease[q] < LeaseTime
    PROVE  Active(Q)' <= Active(Q)
<1>1. {q \in Q : lease'[q] < LeaseTime} \subseteq {q \in Q : lease[q] < LeaseTime}
    OBVIOUS
<1> QED
    BY <1>1, ActiveType, FS_Subset DEF Active

LEMMA ActiveGrows ==
    ASSUME NEW Q \in SUBSET Requests, NEW r \in Requests,
           \A q \in Q : q # r => lease'[q] = lease[q]
    PROVE  Active(Q)' <= Active(Q) + 1
<1> DEFINE A == {q \in Q : lease[q] < LeaseTime}
           B == {q \in Q : lease'[q] < LeaseTime}
<1>1. IsFiniteSet(A) /\ Cardinality(A) \in Nat /\ IsFiniteSet(B) /\ Cardinality(B) \in Nat
    BY ActiveType DEF Active
<1>2. B \subseteq A \cup {r}
    OBVIOUS
<1>3. Active(Q) = Cardinality(A) /\ Active(Q)' = Cardinality(B)
    BY DEF Active
<1> HIDE DEF A, B
<1>4. IsFiniteSet(A \cup {r}) /\ Cardinality(A \cup {r}) <= Cardinality(A) + 1
    <2>1. IsFiniteSet(A \cup {r})
          /\ Cardinality(A \cup {r}) = IF r \in A THEN Cardinality(A) ELSE Cardinality(A) + 1
        BY <1>1, FS_AddElement
    <2> QED
        BY <1>1, <2>1
<1>5. Cardinality(B) <= Cardinality(A \cup {r}) /\ Cardinality(A \cup {r}) \in Nat
    BY <1>2, <1>4, FS_Subset, FS_CardinalityType
<1> QED
    BY <1>1, <1>3, <1>4, <1>5

LEMMA LeaseShrinks ==
    ASSUME TypeOK, LeaseOK,
           \A q \in Requests : lease'[q] < LeaseTime => lease[q] < LeaseTime,
           \A r \in Requests : req'[r].kind = "search" => lease'[r] = req'[r].age
    PROVE  LeaseOK'
<1>1. Active(Requests)' <= Active(Requests) /\ Active(Requests) \in Nat /\ Active(Requests)' \in Nat
    BY ActiveShrinks, ActiveType
<1>2. \A t \in Tenants : LET Q == {q \in Requests : TenantOf[q] = t}
                         IN Active(Q)' <= Active(Q) /\ Active(Q) \in Nat /\ Active(Q)' \in Nat
    BY ActiveShrinks, ActiveType
<1>3. Active(Requests)' <= GlobalLimit
    BY <1>1, SearchAssumption DEF LeaseOK
<1>4. \A t \in Tenants : Active({q \in Requests : TenantOf[q] = t})' <= TenantLimit
    <2> SUFFICES ASSUME NEW t \in Tenants
                 PROVE  Active({q \in Requests : TenantOf[q] = t})' <= TenantLimit
        OBVIOUS
    <2>1. Active({q \in Requests : TenantOf[q] = t}) <= TenantLimit
        BY DEF LeaseOK
    <2> QED
        BY <1>2, <2>1, SearchAssumption
<1> QED
    BY <1>3, <1>4 DEF LeaseOK, Searching

LEMMA LeaseInductive ==
    ASSUME TypeOK, TypeOK', PlacedInv, ReadInv, LeaseOK, [Next]_vars
    PROVE  LeaseOK'
<1>0. \A r \in Requests : /\ lease[r] \in Int /\ lease'[r] \in Int /\ req[r].age \in 0..Deadline
                          /\ req[r].kind = "search" => lease[r] = req[r].age
    BY PinTypes DEF TypeOK, LeaseOK, Searching, Request
<1>1. CASE Workers \/ UNCHANGED vars
    BY <1>0, <1>1, WorkersRequests, LeaseShrinks
<1>2. CASE Tick
    <2>1. \A r \in Requests : lease'[r] = IF lease[r] < LeaseTime THEN lease[r] + 1 ELSE LeaseTime
        BY <1>2 DEF Tick
    <2>2. \A q \in Requests : lease'[q] < LeaseTime => lease[q] < LeaseTime
        BY <1>0, <2>1, SearchAssumption
    <2>3. ASSUME NEW r \in Requests, req'[r].kind = "search" PROVE lease'[r] = req'[r].age
        <3>1. req[r].kind = "search" /\ req'[r].age = req[r].age + 1
            BY <1>2, <2>3, TickStep
        <3>2. lease[r] = req[r].age /\ req[r].age < LeaseTime
            BY <1>0, <3>1, SearchAssumption
        <3> QED
            BY <2>1, <3>1, <3>2
    <2> QED
        BY <2>2, <2>3, LeaseShrinks
<1>3. ASSUME NEW r \in Requests, Serve(r) PROVE LeaseOK'
    <2>0. \A s \in Requests \ {r} : req'[s] = req[s]
        BY <1>3, ServeOthers
    <2>1. CASE BeginSearch(r)
        <3>1. req'[r].kind = "search" /\ req'[r].age = 0
            BY <2>1, BeginSearchStep
        <3>2. /\ lease'[r] = 0 /\ \A s \in Requests \ {r} : lease'[s] = lease[s]
              /\ RoomFor(TenantOf[r])
            BY <2>1 DEF BeginSearch, TypeOK
        <3>3. Active(Requests)' <= Active(Requests) + 1 /\ Active(Requests) \in Nat /\ Active(Requests)' \in Nat
            <4>1. Requests \in SUBSET Requests /\ \A q \in Requests : q # r => lease'[q] = lease[q]
                BY <3>2
            <4>2. Active(Requests) \in Nat /\ Active(Requests)' \in Nat
                BY <4>1, ActiveType
            <4> QED
                BY <4>1, <4>2, ActiveGrows
        <3>4. Active(Requests)' <= GlobalLimit
            BY <3>2, <3>3, SearchAssumption DEF RoomFor
        <3>5. ASSUME NEW t \in Tenants
              PROVE  Active({q \in Requests : TenantOf[q] = t})' <= TenantLimit
            <4> DEFINE Q == {q \in Requests : TenantOf[q] = t}
            <4>0. Q \in SUBSET Requests /\ TenantLimit \in Int
                BY SearchAssumption
            <4>1. Active(Q) <= TenantLimit
                BY DEF LeaseOK
            <4>2. CASE TenantOf[r] = t
                <5>1. Active(Q) + 1 <= TenantLimit
                    BY <3>2, <4>2 DEF RoomFor
                <5>2. \A q \in Q : q # r => lease'[q] = lease[q]
                    BY <3>2
                <5> HIDE DEF Q
                <5>3. Active(Q)' <= Active(Q) + 1 /\ Active(Q) \in Nat /\ Active(Q)' \in Nat
                    BY <4>0, <5>2, ActiveGrows, ActiveType
                <5> QED
                    BY <4>0, <5>1, <5>3 DEF Q
            <4>3. CASE TenantOf[r] # t
                <5>1. \A q \in Q : lease'[q] = lease[q]
                    BY <3>2, <4>3
                <5> HIDE DEF Q
                <5>2. Active(Q)' <= Active(Q) /\ Active(Q) \in Nat /\ Active(Q)' \in Nat
                    BY <4>0, <5>1, ActiveShrinks, ActiveType
                <5> QED
                    BY <4>0, <4>1, <5>2 DEF Q
            <4> QED
                BY <4>2, <4>3
        <3> QED
            BY <1>0, <2>0, <3>1, <3>2, <3>4, <3>5 DEF LeaseOK, Searching
    <2>2. CASE End(r)
        <3>1. /\ req'[r].kind = "none" /\ \A s \in Requests \ {r} : lease'[s] = lease[s]
              /\ lease'[r] \in {lease[r], LeaseTime}
            BY <2>2, EndStep
        <3>2. \A q \in Requests : lease'[q] < LeaseTime => lease[q] < LeaseTime
            BY <1>0, <3>1, SearchAssumption
        <3> QED
            BY <1>0, <2>0, <3>1, <3>2, LeaseShrinks
    <2>3. ASSUME lease' = lease, req'[r].kind = "search" => req[r].kind = "search" /\ req'[r].age = req[r].age
          PROVE  LeaseOK'
        BY <1>0, <2>0, <2>3, LeaseShrinks
    <2>4. CASE QueryNamespace(r)
        BY <2>3, <2>4, QueryStep DEF QueryNamespace
    <2>5. CASE CandidatePublications(r)
        <3>1. req'[r].kind = req[r].kind /\ req'[r].age = req[r].age
            BY <2>5, PublicationsStep
        <3> QED
            BY <2>3, <2>5, <3>1 DEF CandidatePublications
    <2>6. CASE Validate(r)
        <3>1. req'[r].kind = req[r].kind /\ req'[r].age = req[r].age
            BY <2>6, ValidateStep
        <3> QED
            BY <2>3, <2>6, <3>1 DEF Validate
    <2>7. ASSUME NEW f \in Files, BeginRead(r, f) PROVE LeaseOK'
        <3>1. req'[r].kind = "read"
            BY <2>7, BeginReadStep
        <3> QED
            BY <2>3, <2>7, <3>1 DEF BeginRead
    <2>8. CASE ListSegments(r)
        <3>1. req'[r].kind = req[r].kind /\ req'[r].age = req[r].age
            BY <2>8, ListStep
        <3> QED
            BY <2>3, <2>8, <3>1 DEF ListSegments
    <2>9. CASE ReadPage(r)
        <3>1. req'[r].kind = req[r].kind /\ req'[r].age = req[r].age
            BY <2>9, PageStep
        <3> QED
            BY <2>3, <2>9, <3>1 DEF ReadPage
    <2>10. CASE ReadLegacy(r)
        <3>1. req'[r].kind = req[r].kind /\ req'[r].age = req[r].age
            BY <2>10, LegacyStep
        <3> QED
            BY <2>3, <2>10, <3>1 DEF ReadLegacy
    <2> QED
        BY <1>3, <2>1, <2>2, <2>4, <2>5, <2>6, <2>7, <2>8, <2>9, <2>10 DEF Serve
<1> QED
    BY <1>1, <1>2, <1>3 DEF Next

--------------------------------------------------------------------------------
(* The theorems.                                                           *)

\* The inductive invariant.
SearchInv ==
    /\ TypeOK /\ CatalogOK /\ TombsOK /\ IndexOK
    /\ PlacedInv /\ PinInv /\ ListsInv /\ OutrankedInv /\ ReadInv /\ LeaseOK

LEMMA SearchInvInit == Init => SearchInv
<1> SUFFICES ASSUME Init PROVE SearchInv
    OBVIOUS
<1>1. TypeOK
    BY TypeInit
<1>2. 1 \in Versions /\ \A v \in Versions : v \in Int /\ v >= 1
    BY SearchAssumption DEF Versions
<1>3. \A f \in Files : /\ members[f][1] = {1} /\ indexed[f] = 1 /\ captured[f] = 1
                       /\ \A v \in Versions : v # 1 => members[f][v] = {}
    BY <1>2 DEF Init
<1>4. CatalogOK
    BY <1>2, <1>3 DEF CatalogOK
<1>10. TombsOK
    BY DEF Init, TombsOK
<1>5. IndexOK
    <2>1. (\A f \in Files : <<f, 1>> \in rows) /\ retired = {}
        BY DEF Init
    <2>3. \A f \in Files : Present(f, indexed[f]) /\ Present(f, captured[f])
        BY <1>3, <2>1 DEF Present
    <2>2. LegacyFiles \subseteq Files
        BY SearchAssumption
    <2> QED
        BY <1>2, <1>3, <2>1, <2>2, <2>3 DEF IndexOK
<1>6. \A r \in Requests : /\ req[r].kind = "none" /\ req[r].at = "idle"
                          /\ req[r].pin = [f \in Files |-> Unseen] /\ req[r].asked = [f \in Files |-> 0]
                          /\ req[r].known = {} /\ req[r].excluded = {}
    BY DEF Init, NoRequest
<1>7. PlacedInv /\ PinInv
    BY <1>6 DEF PlacedInv, Placed, PinInv, PinOK, Unseen
<1>8. ListsInv /\ OutrankedInv /\ ReadInv
    BY <1>3, <1>6 DEF ListsInv, ListsOK, OutrankedInv, Outranked, ReadInv, ReadOK
<1>9. LeaseOK
    <2>1. \A Q \in SUBSET Requests : {q \in Q : lease[q] < LeaseTime} = {}
        BY SearchAssumption DEF Init
    <2>2. \A Q \in SUBSET Requests : Active(Q) = 0
        BY <2>1, FS_EmptySet DEF Active
    <2>3. \A t \in Tenants : Active({q \in Requests : TenantOf[q] = t}) = 0
        BY <2>2
    <2> QED
        BY <1>6, <2>2, <2>3, SearchAssumption DEF LeaseOK, Searching
<1> QED
    BY <1>1, <1>4, <1>5, <1>7, <1>8, <1>9, <1>10 DEF SearchInv

LEMMA SearchInvStep == SearchInv /\ [Next]_vars => SearchInv'
<1> SUFFICES ASSUME SearchInv, [Next]_vars PROVE SearchInv'
    OBVIOUS
<1> USE DEF SearchInv
<1>1. TypeOK'
    <2>1. CASE UNCHANGED vars
        BY <2>1 DEF TypeOK, vars, catalog
    <2> QED
        BY <2>1, WorkersType, TickType, ServeType DEF Next
<1>2. CatalogOK' /\ TombsOK' /\ IndexOK' /\ PlacedInv' /\ ReadInv' /\ ListsInv'
    BY CatalogInductive, TombsInductive, IndexInductive, PlacedInductive, ReadInductive, ListsInductive
<1>3. PinInv'
    <2>1. CASE UNCHANGED vars
        BY <2>1, PinKept DEF vars, catalog, PinInv
    <2> QED
        BY <2>1, MonotoneStep, PinWorkers, PinTick, PinServe DEF Next
<1>4. OutrankedInv' /\ LeaseOK'
    BY <1>1, OutrankedInductive, LeaseInductive
<1> QED
    BY <1>1, <1>2, <1>3, <1>4

\* Every request, reservation and catalog entry keeps its type: in particular a
\* search never makes more than maxPublicationSearchPasses passes.
THEOREM TypeCorrect == Spec => []TypeOK
<1>1. SearchInv => TypeOK
    BY DEF SearchInv
<1> QED
    BY <1>1, SearchInvInit, SearchInvStep, PTL DEF Spec

\* A search answers with exactly the best published rows, whatever the workers
\* publish, retire, sweep and erase while it asks the index, where only a deletion
\* that was captured before it asked hides a row (queryPublishedRows).
THEOREM SearchExact == Spec => []SearchIsExact
<1>1. SearchInv => SearchIsExact
    <2> SUFFICES ASSUME SearchInv, NEW r \in Requests, req[r].kind = "search", req[r].at = "answer",
                        NEW k \in Rankings
                 PROVE  /\ \A row \in req[r].sets[k] :
                              req[r].pin[row[1]] > 0 /\ row[2] \in members[row[1]][req[r].pin[row[1]]]
                        /\ \A f \in Files : ~deleting /\ ~Legacy(f, req[r].asked[f]) =>
                              \A row \in RowsOf(f, req[r].asked[f]) \ req[r].sets[k] :
                                  Cardinality({x \in req[r].sets[k] : Rank[k][x] < Rank[k][row]}) >= Limit
        BY DEF SearchIsExact
    <2>1. \A row \in req[r].sets[k] : row \in Candidates(req[r])
        BY DEF Candidates
    <2>2. \A row \in Candidates(req[r]) : OfPin(req[r], row)
        BY DEF SearchInv, ListsInv, ListsOK
    <2>3. ASSUME NEW f \in Files, ~deleting, ~Legacy(f, req[r].asked[f]),
                 NEW row \in RowsOf(f, req[r].asked[f]) \ req[r].sets[k]
          PROVE  Cardinality({x \in req[r].sets[k] : Rank[k][x] < Rank[k][row]}) >= Limit
        <3>0. TypeOK /\ Outranked(req[r])
            BY DEF SearchInv, OutrankedInv
        <3>1. req[r].asked[f] \in 0..MaxVersion
            BY <3>0, PinTypes
        <3>2. row[1] = f /\ req[r].asked[f] > 0 /\ row[2] \in members[f][req[r].asked[f]] /\ row \in Rows
            BY <3>0, <3>1, <2>3, RowsOfRows
        <3>3. row = <<f, row[2]>>
            BY <3>2 DEF Rows
        <3>4. <<f, row[2]>> \in req[r].sets[k] \/ Cardinality(Better(req[r].sets, k, <<f, row[2]>>)) >= Limit
            BY <2>3, <3>0, <3>2 DEF Outranked
        <3> QED
            BY <2>3, <3>3, <3>4 DEF Better
    <2> QED
        BY <2>1, <2>2, <2>3 DEF OfPin
<1> QED
    BY <1>1, SearchInvInit, SearchInvStep, PTL DEF Spec

\* A read answers with rows of the publication it pinned and no other, and with all
\* of them unless the file was deleted since, however many pages it takes and
\* whatever replaces the file meanwhile (readSegmentRows).
THEOREM ReadWhole == Spec => []ReadIsWhole
<1>1. SearchInv => ReadIsWhole
    <2> SUFFICES ASSUME SearchInv, NEW r \in Requests, req[r].kind = "read", req[r].at = "answer"
                 PROVE  /\ req[r].got \subseteq RowsOf(Pinned(req[r]), req[r].pin[Pinned(req[r])])
                        /\ Undisturbed(req[r], Pinned(req[r]))
                              => req[r].got = RowsOf(Pinned(req[r]), req[r].pin[Pinned(req[r])])
        BY DEF ReadIsWhole, Undisturbed
    <2>1. PICK f \in Files : f = Pinned(req[r])
        BY ReadPin DEF SearchInv
    <2>2. /\ req[r].pin[f] > 0 /\ req[r].got \cup req[r].page \subseteq RowsOf(f, req[r].pin[f])
          /\ Undisturbed(req[r], f) => PagesOK(req[r], f)
        BY <2>1, ReadPin DEF SearchInv
    <2>3. Undisturbed(req[r], f) => req[r].got = AllRows(f, members[f][req[r].pin[f]])
        BY <2>2 DEF PagesOK
    <2>4. AllRows(f, members[f][req[r].pin[f]]) = RowsOf(f, req[r].pin[f])
        BY <2>2 DEF AllRows, RowsOf
    <2> QED
        BY <2>1, <2>2, <2>3, <2>4
<1> QED
    BY <1>1, SearchInvInit, SearchInvStep, PTL DEF Spec

\* The searches in progress never exceed the capacity, in total or of a tenant,
\* although reservations outlive their searches and expire (admitSearch).
THEOREM SearchesFit == Spec => []SearchesFitCapacity
<1>1. SearchInv => SearchesFitCapacity
    <2> SUFFICES ASSUME SearchInv PROVE SearchesFitCapacity
        OBVIOUS
    <2>1. \A r \in Requests : Searching(r) => lease[r] < LeaseTime
        BY PinTypes, SearchAssumption DEF SearchInv, LeaseOK, Searching, TypeOK, Request
    <2>2. ASSUME NEW Q \in SUBSET Requests
          PROVE  Cardinality({r \in Q : Searching(r)}) <= Active(Q) /\ Active(Q) \in Nat
                 /\ Cardinality({r \in Q : Searching(r)}) \in Nat
        <3>1. {r \in Q : Searching(r)} \subseteq {q \in Q : lease[q] < LeaseTime}
            BY <2>1
        <3> QED
            BY <3>1, ActiveType, FS_Subset, FS_CardinalityType DEF Active
    <2>3. /\ Cardinality({r \in Requests : Searching(r)}) <= Active(Requests)
          /\ Active(Requests) \in Nat /\ Cardinality({r \in Requests : Searching(r)}) \in Nat
        BY <2>2
    <2>4. Cardinality({r \in Requests : Searching(r)}) <= GlobalLimit
        BY <2>3, SearchAssumption DEF SearchInv, LeaseOK
    <2>5. ASSUME NEW t \in Tenants
          PROVE  Cardinality({r \in Requests : Searching(r) /\ TenantOf[r] = t}) <= TenantLimit
        <3> DEFINE Q == {q \in Requests : TenantOf[q] = t}
        <3>1. {r \in Requests : Searching(r) /\ TenantOf[r] = t} = {r \in Q : Searching(r)}
            OBVIOUS
        <3>2. Active(Q) <= TenantLimit
            BY DEF SearchInv, LeaseOK
        <3>3. /\ Cardinality({r \in Q : Searching(r)}) <= Active(Q) /\ Active(Q) \in Nat
              /\ Cardinality({r \in Q : Searching(r)}) \in Nat
            BY <2>2
        <3>4. Cardinality({r \in Q : Searching(r)}) <= TenantLimit
            <4> HIDE DEF Q
            <4> QED
                BY <3>2, <3>3, SearchAssumption
        <3> QED
            BY <3>1, <3>4
    <2> QED
        BY <2>4, <2>5 DEF SearchesFitCapacity
<1> QED
    BY <1>1, SearchInvInit, SearchInvStep, PTL DEF Spec
===============================================================================

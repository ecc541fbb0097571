------------------------ MODULE CatalogFollowProofs ------------------------
(***************************************************************************)
(* Proofs about the catalog feed and its follower, for every number of      *)
(* files, page and batch size, deny rule, policy and fault:                 *)
(*   TypeCorrect         every state is well typed;                         *)
(*   FeedSkipsNothing    CacheCatchesUp;                                    *)
(*   ProofsAreLocal      ProofIsLocal;                                      *)
(*   ChangesAreRemembered   NoChangeIsLost.                                 *)
(* The first part counts: InOrder lists a finite set once, which makes the  *)
(* lists of outbox rows what their sets are.  FollowInv is the inductive    *)
(* invariant; its parts are about the data a client holds, the feed, the    *)
(* sequence numbers, the running sync and the hints.                        *)
(***************************************************************************)
EXTENDS CatalogFollow, FiniteSetTheorems, FunctionTheorems, SequenceTheorems, TLAPS

(* Finite sets of numbers, by rank.                                        *)

Upto(S, i) == {j \in S : j <= i}

LEMMA RankFacts ==
    ASSUME NEW S \in SUBSET Int, IsFiniteSet(S), NEW i \in S
    PROVE  /\ IsFiniteSet(Upto(S, i)) /\ Cardinality(Upto(S, i)) \in 1..Cardinality(S)
           /\ Cardinality(Upto(S, i)) = Cardinality(S) => \A j \in S : j <= i
           /\ Cardinality(Upto(S, i)) = 1 => \A j \in S : i <= j
<1>1. Upto(S, i) \in SUBSET S /\ i \in Upto(S, i) /\ i \in Int
    BY DEF Upto
<1>2. IsFiniteSet(Upto(S, i)) /\ Cardinality(Upto(S, i)) <= Cardinality(S)
      /\ (Cardinality(S) = Cardinality(Upto(S, i)) => S = Upto(S, i))
    BY <1>1, FS_Subset
<1>3. Cardinality(Upto(S, i)) \in Nat /\ Cardinality(S) \in Nat
    BY <1>2, FS_CardinalityType
<1>4. Cardinality(Upto(S, i)) # 0
    BY <1>1, <1>2, FS_EmptySet
<1>5. ASSUME Cardinality(Upto(S, i)) = 1, NEW j \in S
      PROVE  i <= j
  <2>1. PICK x : Upto(S, i) = {x}
      BY <1>2, <1>5, FS_Singleton
  <2>2. Upto(S, i) = {i}
      BY <1>1, <2>1
  <2> QED
      BY <1>1, <2>2 DEF Upto
<1> QED
    BY <1>1, <1>2, <1>3, <1>4, <1>5 DEF Upto

LEMMA RankGrows ==
    ASSUME NEW S \in SUBSET Int, IsFiniteSet(S), NEW i \in S, NEW j \in S, i < j
    PROVE  Cardinality(Upto(S, i)) < Cardinality(Upto(S, j))
<1>1. j <= j /\ ~(j <= i) /\ \A k \in S : k <= i => k <= j
  <2>1. i \in Int /\ j \in Int /\ \A k \in S : k \in Int
      OBVIOUS
  <2> QED
      BY <2>1
<1>2. Upto(S, i) \in SUBSET Upto(S, j) /\ j \in Upto(S, j) /\ j \notin Upto(S, i)
    BY <1>1, Zenon DEF Upto
<1>3. IsFiniteSet(Upto(S, j)) /\ Cardinality(Upto(S, j)) \in Nat
    BY RankFacts, FS_CardinalityType
<1>4. IsFiniteSet(Upto(S, i)) /\ Cardinality(Upto(S, i)) \in Nat
    BY RankFacts, FS_CardinalityType
<1>5. Cardinality(Upto(S, i)) <= Cardinality(Upto(S, j))
      /\ (Cardinality(Upto(S, j)) = Cardinality(Upto(S, i)) => Upto(S, j) = Upto(S, i))
    BY <1>2, <1>3, FS_Subset
<1>6. Cardinality(Upto(S, j)) # Cardinality(Upto(S, i))
    BY <1>2, <1>5
<1> DEFINE m == Cardinality(Upto(S, i))
           n == Cardinality(Upto(S, j))
<1>7. m \in Nat /\ n \in Nat /\ m <= n /\ m # n
    BY <1>3, <1>4, <1>5, <1>6
<1> HIDE DEF m, n
<1>8. m < n
    BY <1>7
<1> QED
    BY <1>8 DEF m, n

\* Every rank is somebody's, and nobody shares one.
LEMMA RankTaken ==
    ASSUME NEW S \in SUBSET Int, IsFiniteSet(S), NEW n \in 1..Cardinality(S)
    PROVE  \E i \in S : Cardinality(Upto(S, i)) = n
<1> DEFINE rank == [i \in S |-> Cardinality(Upto(S, i))]
<1>1. Cardinality(S) \in Nat
    BY FS_CardinalityType
<1>2. rank \in [S -> 1..Cardinality(S)]
    BY RankFacts
<1>3. ASSUME NEW i \in S, NEW j \in S, rank[i] = rank[j]
      PROVE  i = j
  <2>1. ~(i < j)
      BY <1>3, RankGrows, RankFacts
  <2>2. ~(j < i)
      BY <1>3, RankGrows, RankFacts
  <2> QED
      BY <2>1, <2>2
<1>4. rank \in Injection(S, 1..Cardinality(S))
    BY <1>2, <1>3, Fun_IsInj
<1>5. IsFiniteSet(1..Cardinality(S)) /\ Cardinality(1..Cardinality(S)) = Cardinality(S)
    BY <1>1, FS_Interval
<1>6. \A t \in 1..Cardinality(S) : \E i \in S : rank[i] = t
  <2> HIDE DEF rank
  <2>1. rank \in Surjection(S, 1..Cardinality(S))
      BY <1>4, <1>5, FS_Injection
  <2> QED
      BY <2>1, Fun_SurjectionProperties
<1> QED
    BY <1>6

LEMMA InOrderLists ==
    ASSUME NEW S \in SUBSET Int, IsFiniteSet(S)
    PROVE  /\ Cardinality(S) \in Nat
           /\ \A n \in 1..Cardinality(S) : InOrder(S)[n] \in S
           /\ \A i \in S : \E n \in 1..Cardinality(S) : InOrder(S)[n] = i
<1>1. Cardinality(S) \in Nat
    BY FS_CardinalityType
<1>2. ASSUME NEW n \in 1..Cardinality(S)
      PROVE  InOrder(S)[n] \in S /\ Cardinality(Upto(S, InOrder(S)[n])) = n
    BY RankTaken DEF InOrder, Upto
<1>3. ASSUME NEW i \in S
      PROVE  \E n \in 1..Cardinality(S) : InOrder(S)[n] = i
  <2> DEFINE n == Cardinality(Upto(S, i))
  <2>1. n \in 1..Cardinality(S)
      BY RankFacts
  <2> DEFINE j == InOrder(S)[n]
  <2>2. j \in S /\ Cardinality(Upto(S, j)) = n
      BY <1>2, <2>1
  <2>3. n \in Nat /\ i \in Int /\ j \in Int
    <3>1. i \in Int /\ j \in Int
        BY <2>2
    <3> HIDE DEF n
    <3> QED
        BY <1>1, <2>1, <3>1
  <2>a. Cardinality(Upto(S, i)) = n
      OBVIOUS
  <2> HIDE DEF j, n
  <2>4. ~(i < j) /\ ~(j < i)
    <3>1. i < j => n < n
        BY <2>a, <2>2, RankGrows
    <3>2. j < i => n < n
        BY <2>a, <2>2, RankGrows
    <3> QED
        BY <2>3, <3>1, <3>2
  <2>5. i = j
      BY <2>3, <2>4
  <2>6. \E m \in 1..Cardinality(S) : j = InOrder(S)[m]
      BY <2>1 DEF j
  <2> QED
      BY <2>5, <2>6
<1> QED
    BY <1>1, <1>2, <1>3

\* A finite set of numbers that is not empty has a least and a greatest one.
LEMMA LeastAndGreatest ==
    ASSUME NEW S \in SUBSET Int, IsFiniteSet(S), S # {}
    PROVE  /\ \E i \in S : \A j \in S : i <= j
           /\ \E i \in S : \A j \in S : j <= i
<1>1. Cardinality(S) \in Nat /\ Cardinality(S) # 0
    BY FS_CardinalityType, FS_EmptySet
<1>2. PICK i \in S : Cardinality(Upto(S, i)) = 1
    BY <1>1, RankTaken
<1>3. PICK j \in S : Cardinality(Upto(S, j)) = Cardinality(S)
    BY <1>1, RankTaken
<1> QED
    BY <1>2, <1>3, RankFacts

--------------------------------------------------------------------------------
(* Types.                                                                   *)

OutboxRow == [file: Files, content: Content, done: BOOLEAN]
Watches == {"none", "new", "watched"}

LEMMA Bounds ==
    /\ NumFiles \in Nat /\ PageLimit \in Nat \ {0} /\ OutboxBatch \in Nat \ {0} /\ MaxMarks \in Nat
    /\ MaxSameFailures \in Nat /\ MaxEdits \in Nat \ {0} /\ MaxOther \in Nat /\ MaxFaults \in Nat
    /\ InDir \subseteq Files /\ Hidden \subseteq Files /\ Deniable \subseteq Files /\ Shared \subseteq Files
    /\ Selections \subseteq SUBSET Files
BY CatalogFollowAssumption

LEMMA Tokens ==
    /\ Foreign \in Content /\ 0 \in Content /\ 1 \in Content /\ 1 \in 0..MaxEdits
    /\ 0..MaxEdits \subseteq Content /\ Foreign \notin 0..MaxEdits
BY Bounds DEF Content, Foreign

LEMMA FilesFinite ==
    /\ IsFiniteSet(Files) /\ Files \subseteq Nat \ {0} /\ Dir \notin Files /\ Files \subseteq Int
    /\ \A S \in SUBSET Files : IsFiniteSet(S) /\ Cardinality(S) \in Nat
<1>1. IsFiniteSet(Files) /\ Files \subseteq Nat \ {0} /\ Dir \notin Files /\ Files \subseteq Int
    BY Bounds, FS_Interval DEF Files, Dir
<1>2. ASSUME NEW S \in SUBSET Files PROVE IsFiniteSet(S)
    BY <1>1, FS_Subset
<1> QED
    BY <1>1, <1>2, FS_CardinalityType

LEMMA RowsList ==
    ASSUME NEW new \in SUBSET Files
    PROVE  /\ Rows(new) \in Seq(OutboxRow) /\ DOMAIN Rows(new) = 1..Cardinality(new)
           /\ \A n \in DOMAIN Rows(new) : Rows(new)[n].done
           /\ \A f \in new : \E n \in DOMAIN Rows(new) : Rows(new)[n].file = f /\ Rows(new)[n].done
           /\ \A n \in DOMAIN Rows(new) : Rows(new)[n].file \in new
<1>1. new \in SUBSET Int /\ IsFiniteSet(new)
    BY FilesFinite
<1>2. /\ Cardinality(new) \in Nat
      /\ \A n \in 1..Cardinality(new) : InOrder(new)[n] \in new
      /\ \A i \in new : \E n \in 1..Cardinality(new) : InOrder(new)[n] = i
    BY <1>1, InOrderLists
<1>3. \A f \in Files : Row(f) \in OutboxRow /\ Row(f).file = f /\ Row(f).done
    BY Tokens DEF Row, OutboxRow
<1>4. \A n \in 1..Cardinality(new) : Rows(new)[n] = Row(InOrder(new)[n])
    BY DEF Rows
<1>5. Rows(new) \in [1..Cardinality(new) -> OutboxRow]
    BY <1>2, <1>3 DEF Rows
<1>6. Rows(new) \in Seq(OutboxRow) /\ DOMAIN Rows(new) = 1..Cardinality(new)
    BY <1>2, <1>5, SeqDef
<1>7. \A n \in 1..Cardinality(new) :
        /\ Rows(new)[n].done /\ Rows(new)[n].file = InOrder(new)[n] /\ InOrder(new)[n] \in new
    BY <1>2, <1>3, <1>4
<1> QED
    BY <1>2, <1>6, <1>7

\* The outbox grows at its end.
LEMMA OutboxGrows ==
    ASSUME outbox \in Seq(OutboxRow), NEW more \in Seq(OutboxRow), outbox' = outbox \o more
    PROVE  /\ outbox' \in Seq(OutboxRow)
           /\ \A i \in DOMAIN outbox : i \in DOMAIN outbox' /\ outbox'[i] = outbox[i]
           /\ \A n \in DOMAIN more : \E i \in DOMAIN outbox' : outbox'[i] = more[n]
           /\ \A i \in DOMAIN outbox' : i \in DOMAIN outbox \/ \E n \in DOMAIN more : outbox'[i] = more[n]
<1>1. /\ outbox' \in Seq(OutboxRow) /\ Len(outbox') = Len(outbox) + Len(more)
      /\ Len(outbox) \in Nat /\ Len(more) \in Nat
      /\ DOMAIN outbox = 1..Len(outbox) /\ DOMAIN more = 1..Len(more) /\ DOMAIN outbox' = 1..Len(outbox')
      /\ \A i \in 1..(Len(outbox) + Len(more)) :
            outbox'[i] = IF i <= Len(outbox) THEN outbox[i] ELSE more[i - Len(outbox)]
    BY ConcatProperties, LenProperties
<1>2. ASSUME NEW n \in DOMAIN more
      PROVE  \E i \in DOMAIN outbox' : outbox'[i] = more[n]
  <2>1. /\ Len(outbox) + n \in 1..(Len(outbox) + Len(more)) /\ ~(Len(outbox) + n <= Len(outbox))
        /\ (Len(outbox) + n) - Len(outbox) = n
      BY <1>1
  <2> QED
      BY <1>1, <2>1
<1>3. ASSUME NEW i \in DOMAIN outbox', i \notin DOMAIN outbox
      PROVE  \E n \in DOMAIN more : outbox'[i] = more[n]
  <2>1. i - Len(outbox) \in DOMAIN more /\ ~(i <= Len(outbox))
      BY <1>1, <1>3
  <2> QED
      BY <1>1, <2>1
<1> QED
    BY <1>1, <1>2, <1>3

\* What is left in the outbox is what no batch took.
LEMMA RemainingList ==
    ASSUME outbox \in Seq(OutboxRow)
    PROVE  /\ Remaining \in Seq(OutboxRow)
           /\ \A i \in DOMAIN outbox \ Consumed : \E n \in DOMAIN Remaining : Remaining[n] = outbox[i]
           /\ \A n \in DOMAIN Remaining : \E i \in DOMAIN outbox \ Consumed : Remaining[n] = outbox[i]
<1> DEFINE kept == DOMAIN outbox \ Consumed
<1>1. Len(outbox) \in Nat /\ DOMAIN outbox = 1..Len(outbox) /\ \A i \in DOMAIN outbox : outbox[i] \in OutboxRow
    BY LenProperties, ElementOfSeq
<1>2. IsFiniteSet(DOMAIN outbox) /\ DOMAIN outbox \subseteq Int
    BY <1>1, FS_Interval
<1>3. kept \in SUBSET Int /\ IsFiniteSet(kept)
    BY <1>2, FS_Subset
<1>4. /\ Cardinality(kept) \in Nat
      /\ \A n \in 1..Cardinality(kept) : InOrder(kept)[n] \in kept
      /\ \A i \in kept : \E n \in 1..Cardinality(kept) : InOrder(kept)[n] = i
    BY <1>3, InOrderLists
<1>5. DOMAIN InOrder(kept) = 1..Cardinality(kept)
    BY DEF InOrder
<1>6. Remaining = [n \in 1..Cardinality(kept) |-> outbox[InOrder(kept)[n]]]
    BY <1>5 DEF Remaining
<1> HIDE DEF kept
<1>7. kept \subseteq DOMAIN outbox
    BY DEF kept
<1>8. Remaining \in [1..Cardinality(kept) -> OutboxRow]
    BY <1>1, <1>4, <1>6, <1>7
<1>9. Remaining \in Seq(OutboxRow) /\ DOMAIN Remaining = 1..Cardinality(kept)
    BY <1>4, <1>8, SeqDef
<1>10. \A n \in DOMAIN Remaining : Remaining[n] = outbox[InOrder(kept)[n]]
    BY <1>6, <1>9
<1>11. \A i \in kept : \E n \in DOMAIN Remaining : Remaining[n] = outbox[i]
    BY <1>4, <1>9, <1>10
<1>12. \A n \in DOMAIN Remaining : \E i \in kept : Remaining[n] = outbox[i]
    BY <1>4, <1>9, <1>10
<1> QED
    BY <1>9, <1>11, <1>12 DEF kept

LEMMA EachTyped ==
    Each(0) \in [Files -> Content] /\ Each(0) \in [Files -> Nat] /\ \A f \in Files : Each(0)[f] = 0
BY Tokens DEF Each

LEMMA OffFacts ==
    /\ Off \in Run
    /\ Off.pc = "off" /\ Off.fresh = FALSE /\ Off.plan = {} /\ Off.scope = {} /\ Off.verified = {}
    /\ Off.changed = {} /\ Off.daemon = FALSE /\ Off.select = {} /\ Off.seen = Each(0) /\ Off.dirty = {}
    /\ Off.reset = FALSE /\ Off.more = FALSE
BY EachTyped DEF Run, Off

LEMMA StoppedFacts ==
    /\ Stopped \in Follow /\ Stopped.on = FALSE /\ Stopped.events = {} /\ Stopped.installing = FALSE
    /\ Stopped.full = FALSE /\ Stopped.paths = {}
BY DEF Stopped, Follow, Keys

LEMMA NoJournalFacts ==
    /\ NoJournal \in Journal /\ NoJournal.files = {} /\ NoJournal.dirty = {}
    /\ NoJournal.content = Each(0) /\ NoJournal.accepted = Each(0)
BY EachTyped DEF NoJournal, Journal

LEMMA NoneFetched ==
    /\ NoCursor \in Cursor /\ NoCursor.rev = 0 /\ NoCursor.set = FALSE /\ NoCursor.access = {}
    /\ Each(NotFetched) \in [Files -> Fetched]
    /\ \A f \in Files : /\ Each(NotFetched)[f].seq = 0 /\ Each(NotFetched)[f].content = 0
                        /\ Each(NotFetched)[f].proved = FALSE
BY Tokens DEF Cursor, Fetched, NoCursor, NotFetched, Each

\* A mark adds its paths, unless everything is marked.
LEMMA MarkFacts ==
    ASSUME NEW state \in Follow, NEW full \in BOOLEAN, NEW paths \in SUBSET Paths
    PROVE  /\ Mark(state, full, paths) \in Follow /\ Mark(state, full, paths).on = state.on
           /\ Mark(state, full, paths).events = state.events
           /\ Mark(state, full, paths).installing = state.installing
           /\ full \/ state.full => Mark(state, full, paths).full
           /\ ~Mark(state, full, paths).full => Mark(state, full, paths).paths = state.paths \cup paths
<1> DEFINE all == state.paths \cup paths
           overflow == full \/ state.full \/ Cardinality(all) > MaxMarks
           m == [state EXCEPT !.full = overflow, !.paths = IF overflow THEN {} ELSE all, !.due = TRUE]
<1>1. Mark(state, full, paths) = m
    BY DEF Mark, Noticed
<1>2. all \in SUBSET Paths /\ overflow \in BOOLEAN /\ (full \/ state.full => overflow)
    BY DEF Follow
<1> HIDE DEF all, overflow
<1>3. /\ m \in Follow /\ m.on = state.on /\ m.events = state.events /\ m.installing = state.installing
      /\ m.full = overflow /\ m.paths = IF overflow THEN {} ELSE all
    BY <1>2, ZenonT(60) DEF Follow
<1> HIDE DEF m
<1> QED
    BY <1>1, <1>2, <1>3 DEF all

LEMMA MarkAll ==
    ASSUME NEW state \in Follow
    PROVE  /\ Mark(state, TRUE, {}) \in Follow /\ Mark(state, TRUE, {}).on = state.on
           /\ Mark(state, TRUE, {}).events = state.events /\ Mark(state, TRUE, {}).full
<1> DEFINE full == TRUE
<1>1. full \in BOOLEAN /\ full /\ {} \in SUBSET Paths
    OBVIOUS
<1> HIDE DEF full
<1>2. /\ Mark(state, full, {}) \in Follow /\ Mark(state, full, {}).on = state.on
      /\ Mark(state, full, {}).events = state.events /\ Mark(state, full, {}).full
    BY <1>1, MarkFacts
<1> QED
    BY <1>2 DEF full

LEMMA MarkSome ==
    ASSUME NEW state \in Follow, NEW paths \in SUBSET Paths
    PROVE  /\ Mark(state, FALSE, paths) \in Follow /\ Mark(state, FALSE, paths).on = state.on
           /\ Mark(state, FALSE, paths).events = state.events
           /\ Mark(state, FALSE, paths).installing = state.installing
           /\ state.full => Mark(state, FALSE, paths).full
           /\ ~Mark(state, FALSE, paths).full => Mark(state, FALSE, paths).paths = state.paths \cup paths
<1> DEFINE full == FALSE
<1>1. full \in BOOLEAN
    OBVIOUS
<1> HIDE DEF full
<1>2. /\ Mark(state, full, paths) \in Follow /\ Mark(state, full, paths).on = state.on
      /\ Mark(state, full, paths).events = state.events
      /\ Mark(state, full, paths).installing = state.installing
      /\ state.full => Mark(state, full, paths).full
      /\ ~Mark(state, full, paths).full => Mark(state, full, paths).paths = state.paths \cup paths
    BY <1>1, MarkFacts
<1> QED
    BY <1>2 DEF full

\* The loop after a failed sync: the daemon ends, or keeps what it was about to do.
LEMMA FailedFacts ==
    ASSUME NEW state \in Follow, NEW watches \in Watches, NEW key \in Keys, NEW full \in BOOLEAN,
           NEW paths \in SUBSET Paths, follow \in Follow, dir \in Watches, Failed(state, watches, key, full, paths)
    PROVE  /\ follow' \in Follow /\ dir' \in Watches
           /\ \/ follow' = Stopped /\ dir' = Unwatched
              \/ /\ dir' = watches /\ follow'.on = state.on /\ follow'.events = state.events
                 /\ follow'.installing = state.installing
                 /\ full \/ state.full => follow'.full
                 /\ ~follow'.full => follow'.paths = state.paths \cup paths
<1>1. CASE follow' = Stopped /\ dir' = Unwatched
    BY <1>1, StoppedFacts DEF Unwatched, Watches
<1>2. CASE /\ follow' = [Retried(state, full, paths) EXCEPT !.key = key, !.same = SameCount(key)]
           /\ dir' = watches
  <2> DEFINE m == Mark(state, full, paths)
             n == SameCount(key)
  <2>1. /\ m \in Follow /\ m.on = state.on /\ m.events = state.events /\ m.installing = state.installing
        /\ full \/ state.full => m.full
        /\ ~m.full => m.paths = state.paths \cup paths
      BY MarkFacts
  <2>2. n \in Nat
      BY DEF SameCount, Follow
  <2>3. follow' = [m EXCEPT !.key = key, !.same = n]
      BY <1>2 DEF Retried
  <2> HIDE DEF m, n
  <2>4. /\ follow' \in Follow /\ follow'.on = m.on /\ follow'.events = m.events
        /\ follow'.installing = m.installing /\ follow'.full = m.full /\ follow'.paths = m.paths
      BY <2>1, <2>2, <2>3, ZenonT(60) DEF Follow
  <2> QED
      BY <1>2, <2>1, <2>4
<1> QED
    BY <1>1, <1>2 DEF Failed

LEMMA KeyFacts ==
    {"busy", "network", "conflict", "vanished", "forbidden", "stale proof", "reset"} \subseteq Keys
BY DEF Keys

\* The end of a failed sync.
LEMMA FailFacts ==
    ASSUME run \in Run, follow \in Follow, dir \in Watches, NEW key \in Keys, Fail(key)
    PROVE  /\ run' = Off /\ follow' \in Follow /\ dir' \in Watches
           /\ \/ follow' = Stopped /\ dir' = Unwatched
              \/ /\ dir' = dir /\ follow'.on = follow.on /\ follow'.events = follow.events
                 /\ follow'.installing = follow.installing
                 /\ follow.full => follow'.full
                 /\ ~follow'.full => follow.paths \subseteq follow'.paths
                 /\ run.daemon /\ run.full => follow'.full
                 /\ run.daemon /\ ~follow'.full => run.paths \subseteq follow'.paths
<1>1. run' = Off /\ run.daemon \in BOOLEAN /\ run.full \in BOOLEAN /\ run.paths \in SUBSET Paths
    BY DEF Fail, Run
<1>2. CASE run.daemon
  <2>1. Failed(follow, dir, key, run.full, run.paths)
      BY <1>2 DEF Fail
  <2> QED
      BY <1>1, <2>1, FailedFacts
<1>3. CASE ~run.daemon
    BY <1>1, <1>3 DEF Fail
<1> QED
    BY <1>1, <1>2, <1>3

LEMMA BeginFacts ==
    ASSUME NEW daemon \in BOOLEAN, NEW select \in SUBSET Files, NEW full \in BOOLEAN,
           NEW paths \in SUBSET Paths, policy \in {0, 1},
           run' = [Off EXCEPT !.pc = IF jour.files = {} THEN "refresh" ELSE "register", !.daemon = daemon,
                              !.select = select, !.full = full, !.paths = paths, !.policy = policy]
    PROVE  /\ run' \in Run /\ run'.pc = (IF jour.files = {} THEN "refresh" ELSE "register")
           /\ run'.daemon = daemon /\ run'.select = select /\ run'.full = full /\ run'.paths = paths
           /\ run'.policy = policy /\ run'.fresh = FALSE /\ run'.reset = FALSE /\ run'.changed = {}
           /\ run'.plan = {} /\ run'.scope = {} /\ run'.verified = {} /\ run'.seen = Each(0)
<1> DEFINE pc == IF jour.files = {} THEN "refresh" ELSE "register"
<1>1. pc \in {"refresh", "register"}
    OBVIOUS
<1>2. run' = [Off EXCEPT !.pc = pc, !.daemon = daemon, !.select = select, !.full = full,
                       !.paths = paths, !.policy = policy]
    OBVIOUS
<1> HIDE DEF pc
<1>3. /\ run' \in Run /\ run'.pc = pc
      /\ run'.daemon = daemon /\ run'.select = select /\ run'.full = full /\ run'.paths = paths
      /\ run'.policy = policy
    BY <1>1, <1>2, OffFacts, ZenonT(60) DEF Run
<1>4. /\ run'.fresh = Off.fresh /\ run'.reset = Off.reset /\ run'.changed = Off.changed
      /\ run'.plan = Off.plan /\ run'.scope = Off.scope /\ run'.verified = Off.verified
      /\ run'.seen = Off.seen
    BY <1>2, OffFacts, ZenonT(60) DEF Run
<1> QED
    BY <1>3, <1>4, OffFacts DEF pc

--------------------------------------------------------------------------------
(* The outbox and the revisions.                                            *)

\* The files of committed rows, and whether a row is not committed yet.
Queued == {outbox[i].file : i \in Committed}
Open == \E i \in DOMAIN outbox : ~outbox[i].done

LEMMA QueuedFiles ==
    ASSUME outbox \in Seq(OutboxRow)
    PROVE  /\ Committed \subseteq DOMAIN outbox /\ Queued \in SUBSET Files /\ ChangedFiles \in SUBSET Queued
           /\ \A f \in Files : InOutbox(f) <=> f \in Queued
<1>1. Committed \subseteq DOMAIN outbox /\ Consumed \subseteq Committed
    BY DEF Committed, Consumed
<1>2. \A i \in DOMAIN outbox : outbox[i].file \in Files
  <2>1. \A i \in DOMAIN outbox : outbox[i] \in OutboxRow
      BY ElementOfSeq, LenProperties
  <2>2. \A row \in OutboxRow : row.file \in Files
      BY DEF OutboxRow
  <2> QED
      BY <2>1, <2>2
<1>3. Queued \in SUBSET Files /\ ChangedFiles \in SUBSET Queued
    BY <1>1, <1>2 DEF Queued, ChangedFiles
<1>4. \A f \in Files : InOutbox(f) <=> f \in Queued
    BY DEF Queued, InOutbox
<1> QED
    BY <1>1, <1>3, <1>4

\* Rows at the end add their files, and are committed.
LEMMA QueueGrows ==
    ASSUME outbox \in Seq(OutboxRow), NEW new \in SUBSET Files, outbox' = outbox \o Rows(new)
    PROVE  /\ outbox' \in Seq(OutboxRow) /\ Queued' = Queued \cup new /\ (Open => Open')
<1>1. /\ Rows(new) \in Seq(OutboxRow)
      /\ \A n \in DOMAIN Rows(new) : Rows(new)[n].done
      /\ \A f \in new : \E n \in DOMAIN Rows(new) : Rows(new)[n].file = f /\ Rows(new)[n].done
      /\ \A n \in DOMAIN Rows(new) : Rows(new)[n].file \in new
    BY RowsList
<1> DEFINE more == Rows(new)
<1> HIDE DEF more
<1>2. /\ outbox' \in Seq(OutboxRow)
      /\ \A i \in DOMAIN outbox : i \in DOMAIN outbox' /\ outbox'[i] = outbox[i]
      /\ \A n \in DOMAIN more : \E i \in DOMAIN outbox' : outbox'[i] = more[n]
      /\ \A i \in DOMAIN outbox' : i \in DOMAIN outbox \/ \E n \in DOMAIN more : outbox'[i] = more[n]
    BY <1>1, OutboxGrows DEF more
<1>3. /\ \A f \in new : \E n \in DOMAIN more : more[n].file = f /\ more[n].done
      /\ \A n \in DOMAIN more : more[n].file \in new /\ more[n].done
    BY <1>1 DEF more
<1>4. ASSUME NEW f \in Queued' PROVE f \in Queued \cup new
  <2>1. PICK i \in DOMAIN outbox' : outbox'[i].done /\ f = outbox'[i].file
      BY <1>4 DEF Queued, Committed
  <2>2. CASE i \in DOMAIN outbox
      BY <1>2, <2>1, <2>2 DEF Queued, Committed
  <2>3. CASE i \notin DOMAIN outbox
      BY <1>2, <1>3, <2>1, <2>3
  <2> QED
      BY <2>2, <2>3
<1>5. ASSUME NEW f \in Queued PROVE f \in Queued'
  <2>1. PICK i \in DOMAIN outbox : outbox[i].done /\ f = outbox[i].file
      BY <1>5 DEF Queued, Committed
  <2> QED
      BY <1>2, <2>1 DEF Queued, Committed
<1>6. ASSUME NEW f \in new PROVE f \in Queued'
  <2>1. PICK n \in DOMAIN more : more[n].file = f /\ more[n].done
      BY <1>3
  <2>2. PICK i \in DOMAIN outbox' : outbox'[i] = more[n]
      BY <1>2
  <2> QED
      BY <2>1, <2>2 DEF Queued, Committed
<1>7. Queued' = Queued \cup new
    BY <1>4, <1>5, <1>6
<1>8. Open => Open'
    BY <1>2 DEF Open
<1> QED
    BY <1>2, <1>7, <1>8

\* A batch moves files from the queue to revisions after every earlier one.
LEMMA AdvanceFacts ==
    ASSUME outbox \in Seq(OutboxRow), rev \in Nat, chg \in [Files -> 0..rev], AdvanceCatalogChanges
    PROVE  /\ outbox' \in Seq(OutboxRow) /\ rev' \in Nat /\ rev <= rev' /\ chg' \in [Files -> 0..rev']
           /\ ChangedFiles \in SUBSET Files
           /\ \A f \in ChangedFiles : chg'[f] > rev
           /\ \A f \in Files \ ChangedFiles : chg'[f] = chg[f]
           /\ Queued' \subseteq Queued /\ Queued \subseteq Queued' \cup ChangedFiles
           /\ Open => Open'
           /\ ~(\E i \in DOMAIN outbox' : outbox'[i].done) => Queued' = {}
<1>1. /\ Committed \subseteq DOMAIN outbox /\ Queued \in SUBSET Files /\ ChangedFiles \in SUBSET Queued
      /\ Consumed \subseteq Committed
    BY QueuedFiles DEF Consumed
<1>2. ChangedFiles \in SUBSET Files /\ IsFiniteSet(ChangedFiles) /\ Cardinality(ChangedFiles) \in Nat
      /\ ChangedFiles \in SUBSET Int
    BY <1>1, FilesFinite
<1>3. /\ outbox' = Remaining /\ rev' = rev + Cardinality(ChangedFiles)
      /\ \A f \in Files : chg'[f] = Revision(f)
      /\ chg' = [f \in Files |-> Revision(f)]
    BY DEF AdvanceCatalogChanges
<1>4. ASSUME NEW f \in ChangedFiles
      PROVE  chg'[f] \in (rev + 1)..rev'
  <2>1. Ordinal(f) \in 1..Cardinality(ChangedFiles)
    <3>1. Cardinality(Upto(ChangedFiles, f)) \in 1..Cardinality(ChangedFiles)
        BY <1>2, RankFacts
    <3> QED
        BY <3>1 DEF Upto, Ordinal
  <2>2. chg'[f] = rev + Ordinal(f)
      BY <1>2, <1>3 DEF Revision
  <2> DEFINE c == Cardinality(ChangedFiles)
             o == Ordinal(f)
  <2>3. c \in Nat /\ o \in 1..c /\ chg'[f] = rev + o /\ rev' = rev + c
      BY <1>2, <1>3, <2>1, <2>2
  <2> HIDE DEF c, o
  <2> QED
      BY <2>3
<1>5. ASSUME NEW f \in Files \ ChangedFiles
      PROVE  chg'[f] = chg[f]
    BY <1>3, <1>5 DEF Revision
<1>6. rev' \in Nat /\ rev <= rev'
  <2> DEFINE c == Cardinality(ChangedFiles)
  <2>1. c \in Nat /\ rev' = rev + c
      BY <1>2, <1>3
  <2> HIDE DEF c
  <2> QED
      BY <2>1
<1>7. \A f \in Files : chg'[f] \in 0..rev'
  <2> TAKE f \in Files
  <2>1. CASE f \in ChangedFiles
      BY <1>4, <1>6, <2>1
  <2>2. CASE f \notin ChangedFiles
    <3>1. chg'[f] = chg[f] /\ chg[f] \in 0..rev
        BY <1>5, <2>2
    <3> QED
        BY <1>6, <3>1
  <2> QED
      BY <2>1, <2>2
<1>8. chg' \in [Files -> 0..rev']
    BY <1>3, <1>7
<1>9. \A f \in ChangedFiles : chg'[f] > rev
  <2> TAKE f \in ChangedFiles
  <2>1. chg'[f] \in (rev + 1)..rev'
      BY <1>4
  <2> QED
      BY <1>6, <2>1
<1>10. /\ outbox' \in Seq(OutboxRow)
       /\ \A i \in DOMAIN outbox \ Consumed : \E n \in DOMAIN outbox' : outbox'[n] = outbox[i]
       /\ \A n \in DOMAIN outbox' : \E i \in DOMAIN outbox \ Consumed : outbox'[n] = outbox[i]
    BY <1>3, RemainingList
<1>11. ASSUME NEW f \in Queued' PROVE f \in Queued
  <2>1. PICK n \in DOMAIN outbox' : outbox'[n].done /\ f = outbox'[n].file
      BY <1>11 DEF Queued, Committed
  <2>2. PICK i \in DOMAIN outbox : outbox'[n] = outbox[i]
      BY <1>10
  <2> QED
      BY <2>1, <2>2 DEF Queued, Committed
<1>12. ASSUME NEW f \in Queued, f \notin ChangedFiles PROVE f \in Queued'
  <2>1. PICK i \in Committed : f = outbox[i].file
      BY <1>12 DEF Queued
  <2>2. i \in DOMAIN outbox \ Consumed /\ outbox[i].done
      BY <1>12, <2>1 DEF ChangedFiles, Committed
  <2>3. PICK n \in DOMAIN outbox' : outbox'[n] = outbox[i]
      BY <1>10, <2>2
  <2> QED
      BY <2>1, <2>2, <2>3 DEF Queued, Committed
<1>13. Open => Open'
  <2> SUFFICES ASSUME Open PROVE Open'
      OBVIOUS
  <2>1. PICK i \in DOMAIN outbox : ~outbox[i].done
      BY DEF Open
  <2>2. i \notin Consumed
      BY <1>1, <2>1 DEF Committed
  <2>3. PICK n \in DOMAIN outbox' : outbox'[n] = outbox[i]
      BY <1>10, <2>1, <2>2
  <2> QED
      BY <2>1, <2>3 DEF Open
<1>14. ~(\E i \in DOMAIN outbox' : outbox'[i].done) => Queued' = {}
    BY DEF Queued, Committed
<1>15. Queued' \subseteq Queued /\ Queued \subseteq Queued' \cup ChangedFiles
    BY <1>11, <1>12
<1> QED
    BY <1>2, <1>5, <1>6, <1>8, <1>9, <1>10, <1>13, <1>14, <1>15

--------------------------------------------------------------------------------
(* Type correctness: one lemma per action, or per group of actions.         *)

LEMMA TypeFacts ==
    TypeOK <=>
    /\ disk \in [Files -> Content] /\ dir \in Watches /\ follow \in Follow /\ run \in Run
    /\ head \in [Files -> Version] /\ proof \in [Files -> Version]
    /\ tx \in Files \cup {0} /\ outbox \in Seq(OutboxRow)
    /\ rev \in Nat /\ chg \in [Files -> 0..rev]
    /\ denied \in SUBSET Deniable /\ policy \in {0, 1}
    /\ cat \in [Files -> Fetched] /\ cursor \in Cursor /\ pend \in SUBSET Files /\ stamp \in {0, 1, 2}
    /\ lhead \in [Files -> LocalHead] /\ jour \in Journal
    /\ skipped \in SUBSET Files /\ edits \in 0..MaxEdits /\ others \in 0..MaxOther /\ faults \in 0..MaxFaults
BY DEF TypeOK, Watches, OutboxRow

LEMMA InitTypes == Init => TypeOK
<1> SUFFICES ASSUME Init PROVE TypeOK
    OBVIOUS
<1>1. disk \in [Files -> Content]
    BY Tokens DEF Init
<1>2. dir \in Watches /\ follow \in Follow /\ run \in Run
    BY StoppedFacts, OffFacts DEF Init, Watches
<1>3. NoVersion \in Version
    BY Tokens DEF NoVersion, Version
<1>4. head \in [Files -> Version] /\ proof \in [Files -> Version]
    BY <1>3 DEF Init, Each
<1>5. tx \in Files \cup {0} /\ outbox \in Seq(OutboxRow)
    BY EmptySeq DEF Init
<1>6. rev \in Nat /\ chg \in [Files -> 0..rev] /\ denied \in SUBSET Deniable /\ policy \in {0, 1}
    BY DEF Init, Each
<1>7. cat \in [Files -> Fetched] /\ cursor \in Cursor /\ pend \in SUBSET Files /\ stamp \in {0, 1, 2}
    BY NoneFetched DEF Init
<1>8. [seq |-> 0, content |-> 0, dirty |-> FALSE] \in LocalHead
    BY Tokens DEF LocalHead
<1>9. lhead \in [Files -> LocalHead] /\ jour \in Journal
    BY <1>8, NoJournalFacts DEF Init, Each
<1>10. skipped \in SUBSET Files /\ edits \in 0..MaxEdits /\ others \in 0..MaxOther /\ faults \in 0..MaxFaults
    BY Bounds DEF Init
<1> QED
    BY <1>1, <1>2, <1>4, <1>5, <1>6, <1>7, <1>9, <1>10, TypeFacts

LEMMA FaultTypes ==
    ASSUME TypeOK, Fault
    PROVE  edits' \in 0..MaxEdits /\ others' \in 0..MaxOther /\ faults' \in 0..MaxFaults
BY Bounds DEF TypeOK, Fault

\* The files, the catalog's other actors and the fetched hints of the loop.
LEMMA EditTypes ==
    ASSUME TypeOK, NEW f \in Files, NEW content \in {0, edits + 1}, Edit(f, content)
    PROVE  TypeOK'
<1>1. edits + 1 \in 0..MaxEdits /\ edits' \in 0..MaxEdits /\ content \in Content
  <2>1. edits < MaxEdits /\ edits' = edits + 1
      BY DEF Edit
  <2>2. edits \in Nat /\ MaxEdits \in Nat
      BY Bounds, TypeFacts
  <2>3. edits + 1 \in 0..MaxEdits /\ 0 \in 0..MaxEdits
      BY <2>1, <2>2
  <2> QED
      BY <2>1, <2>3, Tokens
<1>2. disk' \in [Files -> Content]
    BY <1>1, TypeFacts DEF Edit
<1> DEFINE more == IF Watched(f) THEN follow.events \cup {f} ELSE follow.events
<1>3. more \in SUBSET Paths /\ follow' = [follow EXCEPT !.events = more]
    BY TypeFacts DEF Edit, Follow, Paths
<1> HIDE DEF more
<1>4. follow' \in Follow
    BY <1>3, TypeFacts DEF Follow
<1> QED
    BY <1>1, <1>2, <1>4 DEF TypeOK, Watches, OutboxRow, Edit, catalog, cached, captures

LEMMA MakeDirTypes ==
    ASSUME TypeOK, MakeDir
    PROVE  TypeOK'
<1> DEFINE more == IF follow.on THEN follow.events \cup {Dir} ELSE follow.events
<1>1. more \in SUBSET Paths /\ follow' = [follow EXCEPT !.events = more]
    BY TypeFacts DEF MakeDir, Follow, Paths
<1> HIDE DEF more
<1>2. follow' \in Follow
    BY <1>1, TypeFacts DEF Follow
<1> QED
    BY <1>2 DEF TypeOK, OutboxRow, MakeDir, catalog, cached, captures, bounds, Watches

LEMMA OtherBeginTypes ==
    ASSUME TypeOK, NEW f \in Shared, OtherBegin(f)
    PROVE  TypeOK'
<1>1. f \in Files /\ others' \in 0..MaxOther /\ tx' \in Files \cup {0}
    BY Bounds, TypeFacts DEF OtherBegin
<1>2. PICK content \in {Foreign, disk[f]} \ {head[f].content} :
        outbox' = Append(outbox, [file |-> f, content |-> content, done |-> FALSE])
    BY DEF OtherBegin
<1>3. content \in Content
    BY <1>1, <1>2, Tokens, TypeFacts
<1>4. outbox' \in Seq(OutboxRow)
  <2>1. [file |-> f, content |-> content, done |-> FALSE] \in OutboxRow
      BY <1>1, <1>3 DEF OutboxRow
  <2> QED
      BY <1>2, <2>1, AppendProperties, TypeFacts
<1> QED
    BY <1>1, <1>4 DEF TypeOK, Watches, OutboxRow, OtherBegin, local, cached, captures

\* The row of the open transaction becomes a committed one.
LEMMA CommitFacts ==
    ASSUME TypeOK, Open, OtherCommit
    PROVE  /\ tx \in Files /\ tx' = 0
           /\ outbox' \in Seq(OutboxRow) /\ Queued' = Queued \cup {tx}
           /\ \E content \in Content :
                head' = [head EXCEPT ![tx] = [seq |-> head[tx].seq + 1, content |-> content]]
<1> DEFINE i == CHOOSE i \in DOMAIN outbox : ~outbox[i].done
<1>1. i \in DOMAIN outbox /\ ~outbox[i].done
    BY DEF Open
<1> HIDE DEF i
<1>2. /\ tx \in Files /\ tx' = 0
      /\ head' = [head EXCEPT ![tx] = [seq |-> head[tx].seq + 1, content |-> outbox[i].content]]
      /\ outbox' = [outbox EXCEPT ![i] = Row(tx)]
    BY TypeFacts DEF OtherCommit, i
<1>3. outbox[i] \in OutboxRow
    BY <1>1, TypeFacts, ElementOfSeq, LenProperties
<1>4. outbox[i].content \in Content
    BY <1>3 DEF OutboxRow
<1>5. Row(tx) \in OutboxRow /\ Row(tx).file = tx /\ Row(tx).done
    BY <1>2, Tokens DEF Row, OutboxRow
<1>6. outbox' \in Seq(OutboxRow) /\ DOMAIN outbox' = DOMAIN outbox
    BY <1>1, <1>2, <1>5, TypeFacts, ExceptSeq
<1>7. /\ outbox'[i] = Row(tx) /\ \A j \in DOMAIN outbox : j # i => outbox'[j] = outbox[j]
    BY <1>1, <1>2, TypeFacts
<1>8. Queued' = Queued \cup {tx}
  <2>1. ASSUME NEW f \in Queued' PROVE f \in Queued \cup {tx}
    <3>1. PICK j \in DOMAIN outbox' : outbox'[j].done /\ f = outbox'[j].file
        BY <2>1 DEF Queued, Committed
    <3> QED
        BY <1>5, <1>6, <1>7, <3>1 DEF Queued, Committed
  <2>2. ASSUME NEW f \in Queued PROVE f \in Queued'
    <3>1. PICK j \in DOMAIN outbox : outbox[j].done /\ f = outbox[j].file
        BY <2>2 DEF Queued, Committed
    <3> QED
        BY <1>1, <1>6, <1>7, <3>1 DEF Queued, Committed
  <2>3. tx \in Queued'
      BY <1>1, <1>5, <1>6, <1>7 DEF Queued, Committed
  <2> QED
      BY <2>1, <2>2, <2>3
<1> QED
    BY <1>2, <1>4, <1>6, <1>8

LEMMA OtherCommitTypes ==
    ASSUME TypeOK, Open, OtherCommit
    PROVE  TypeOK'
<1>1. PICK content \in Content :
        head' = [head EXCEPT ![tx] = [seq |-> head[tx].seq + 1, content |-> content]]
    BY CommitFacts
<1>2. tx \in Files /\ tx' = 0 /\ outbox' \in Seq(OutboxRow)
    BY CommitFacts
<1>3. [seq |-> head[tx].seq + 1, content |-> content] \in Version
    BY <1>2, TypeFacts DEF Version
<1>4. head' \in [Files -> Version]
    BY <1>1, <1>2, <1>3, TypeFacts
<1> QED
    BY <1>2, <1>4 DEF TypeOK, Watches, OutboxRow, OtherCommit, local, cached, captures, bounds

LEMMA PlainTypes ==
    ASSUME TypeOK, SetAccess \/ SetPolicy
    PROVE  TypeOK'
<1>1. edits' \in 0..MaxEdits /\ others' \in 0..MaxOther /\ faults' \in 0..MaxFaults
    BY FaultTypes DEF SetAccess, SetPolicy
<1>2. denied' \in SUBSET Deniable /\ policy' \in {0, 1}
    BY TypeFacts DEF SetAccess, SetPolicy
<1> QED
    BY <1>1, <1>2 DEF TypeOK, Watches, OutboxRow, SetAccess, SetPolicy, local, cached, captures

LEMMA OtherReaderTypes ==
    ASSUME TypeOK, OtherReader
    PROVE  TypeOK'
<1>1. edits' \in 0..MaxEdits /\ others' \in 0..MaxOther /\ faults' \in 0..MaxFaults
    BY FaultTypes DEF OtherReader
<1>2. outbox' \in Seq(OutboxRow) /\ rev' \in Nat /\ chg' \in [Files -> 0..rev']
    BY AdvanceFacts, TypeFacts DEF OtherReader
<1> QED
    BY <1>1, <1>2 DEF TypeOK, Watches, OutboxRow, OtherReader, local, cached, captures

\* All hints of the event loop but the one for everything.
Hints == follow.events \cup follow.paths \cup (IF follow.installing THEN {Dir} ELSE {})
DirNoted == follow.on /\ dir = "new" => Dir \in follow.events \/ follow.full

LEMMA FollowFields ==
    ASSUME NEW state \in Follow
    PROVE  /\ state.events \in SUBSET Paths /\ state.paths \in SUBSET Paths
           /\ state.on \in BOOLEAN /\ state.full \in BOOLEAN /\ state.installing \in BOOLEAN
BY DEF Follow

LEMMA LocalTypes ==
    ASSUME TypeOK, follow' \in Follow, dir' \in Watches, UNCHANGED <<disk, run, catalog, cached, captures, bounds>>
    PROVE  TypeOK'
BY DEF TypeOK, Watches, OutboxRow, catalog, cached, captures, bounds

LEMMA LocalFaultTypes ==
    ASSUME TypeOK, follow' \in Follow, dir' \in Watches, UNCHANGED <<disk, run, catalog, cached, captures>>, Fault
    PROVE  TypeOK'
<1>1. edits' \in 0..MaxEdits /\ others' \in 0..MaxOther /\ faults' \in 0..MaxFaults
    BY FaultTypes
<1> QED
    BY <1>1 DEF TypeOK, Watches, OutboxRow, catalog, cached, captures

\* An event becomes a hint, a pending installation or a hint for everything.
LEMMA ObserveFacts ==
    ASSUME TypeOK, DirNoted, NEW p \in Paths, Observe(p)
    PROVE  /\ TypeOK' /\ DirNoted' /\ UNCHANGED <<disk, run, catalog, cached, captures>>
           /\ follow'.on = follow.on /\ (follow.full => follow'.full)
           /\ ~follow'.full => Hints \subseteq Hints'
<1> DEFINE seen == [follow EXCEPT !.events = follow.events \ {p}]
<1>1. /\ follow \in Follow /\ dir \in Watches /\ {p} \in SUBSET Paths
      /\ p \in follow.events /\ ~follow.installing
    BY TypeFacts DEF Observe
<1>2. /\ seen \in Follow /\ seen.events = follow.events \ {p} /\ seen.on = follow.on
      /\ seen.installing = follow.installing /\ seen.full = follow.full /\ seen.paths = follow.paths
    BY <1>1, ZenonT(60) DEF Follow
<1>3. \/ p # Dir /\ follow' = Mark(seen, FALSE, {p}) /\ UNCHANGED <<dir, bounds>>
      \/ p = Dir /\ dir' = "watched" /\ follow' = [seen EXCEPT !.installing = TRUE] /\ UNCHANGED bounds
      \/ p = Dir /\ follow' = Mark(seen, TRUE, {}) /\ Fault /\ UNCHANGED dir
    BY DEF Observe
<1>4. UNCHANGED <<disk, run, catalog, cached, captures>>
    BY DEF Observe
<1> HIDE DEF seen
<1>5. CASE p # Dir /\ follow' = Mark(seen, FALSE, {p}) /\ UNCHANGED <<dir, bounds>>
  <2>1. /\ follow' \in Follow /\ follow'.on = seen.on /\ follow'.events = seen.events
        /\ follow'.installing = seen.installing
        /\ seen.full => follow'.full
        /\ ~follow'.full => follow'.paths = seen.paths \cup {p}
      BY <1>1, <1>2, <1>5, MarkSome
  <2>2. TypeOK'
      BY <1>1, <1>4, <1>5, <2>1, LocalTypes
  <2>3. ~follow'.full => Hints \subseteq Hints'
      BY <1>2, <2>1 DEF Hints
  <2>4. DirNoted'
      BY <1>1, <1>2, <1>5, <2>1 DEF DirNoted
  <2> QED
      BY <1>2, <1>4, <2>1, <2>2, <2>3, <2>4
<1>6. CASE p = Dir /\ dir' = "watched" /\ follow' = [seen EXCEPT !.installing = TRUE] /\ UNCHANGED bounds
  <2>1. /\ follow' \in Follow /\ follow'.on = seen.on /\ follow'.events = seen.events
        /\ follow'.installing = TRUE /\ follow'.full = seen.full /\ follow'.paths = seen.paths
      BY <1>2, <1>6, ZenonT(60) DEF Follow
  <2>2. dir' \in Watches
      BY <1>6 DEF Watches
  <2>3. TypeOK'
      BY <1>4, <1>6, <2>1, <2>2, LocalTypes
  <2>4. Hints \subseteq Hints'
      BY <1>2, <1>6, <2>1 DEF Hints
  <2>5. DirNoted'
      BY <1>6 DEF DirNoted
  <2> QED
      BY <1>2, <1>4, <2>1, <2>3, <2>4, <2>5
<1>7. CASE p = Dir /\ follow' = Mark(seen, TRUE, {}) /\ Fault /\ UNCHANGED dir
  <2>1. follow' \in Follow /\ follow'.on = seen.on /\ follow'.full
      BY <1>2, <1>7, MarkAll
  <2>2. TypeOK'
      BY <1>1, <1>4, <1>7, <2>1, LocalFaultTypes
  <2>3. DirNoted'
      BY <2>1 DEF DirNoted
  <2> QED
      BY <1>2, <1>4, <2>1, <2>2, <2>3
<1> QED
    BY <1>3, <1>5, <1>6, <1>7

LEMMA ObserveInstalledFacts ==
    ASSUME TypeOK, DirNoted, ObserveInstalled
    PROVE  /\ TypeOK' /\ DirNoted' /\ UNCHANGED <<disk, run, catalog, cached, captures>>
           /\ follow'.on = follow.on /\ (follow.full => follow'.full)
           /\ ~follow'.full => Hints \subseteq Hints'
<1> DEFINE m == Mark(follow, FALSE, {Dir})
<1>1. follow \in Follow /\ follow.installing /\ dir \in Watches /\ {Dir} \in SUBSET Paths
    BY TypeFacts DEF ObserveInstalled, Paths
<1>2. /\ m \in Follow /\ m.on = follow.on /\ m.events = follow.events
      /\ follow.full => m.full
      /\ ~m.full => m.paths = follow.paths \cup {Dir}
    BY <1>1, MarkSome
<1>3. follow' = [m EXCEPT !.installing = FALSE] /\ UNCHANGED <<local, run, catalog, cached, captures, bounds>>
    BY DEF ObserveInstalled
<1> HIDE DEF m
<1>4. /\ follow' \in Follow /\ follow'.on = m.on /\ follow'.events = m.events
      /\ follow'.installing = FALSE /\ follow'.full = m.full /\ follow'.paths = m.paths
    BY <1>2, <1>3, ZenonT(60) DEF Follow
<1>5. UNCHANGED <<disk, dir, run, catalog, cached, captures, bounds>>
    BY <1>3 DEF local
<1>6. TypeOK'
    BY <1>1, <1>4, <1>5, LocalTypes
<1>7. ~follow'.full => Hints \subseteq Hints'
    BY <1>2, <1>4 DEF Hints
<1>8. DirNoted'
    BY <1>2, <1>4, <1>5 DEF DirNoted
<1> QED
    BY <1>2, <1>4, <1>5, <1>6, <1>7, <1>8

LEMMA WatcherErrorFacts ==
    ASSUME TypeOK, WatcherError
    PROVE  /\ TypeOK' /\ UNCHANGED <<disk, dir, run, catalog, cached, captures>>
           /\ follow'.on = follow.on /\ follow'.full
<1> DEFINE m == Mark(follow, TRUE, {})
<1>1. follow \in Follow /\ dir \in Watches /\ Fault
    BY TypeFacts DEF WatcherError
<1>2. m \in Follow /\ m.on = follow.on /\ m.full
    BY <1>1, MarkAll
<1>3. follow' = [m EXCEPT !.events = {}] /\ UNCHANGED <<local, run, catalog, cached, captures>>
    BY DEF WatcherError
<1> HIDE DEF m
<1>4. follow' \in Follow /\ follow'.on = m.on /\ follow'.full = m.full
    BY <1>2, <1>3, ZenonT(60) DEF Follow
<1>5. UNCHANGED <<disk, dir, run, catalog, cached, captures>>
    BY <1>3 DEF local
<1>6. TypeOK'
    BY <1>1, <1>4, <1>5, LocalFaultTypes
<1> QED
    BY <1>2, <1>4, <1>5, <1>6

LEMMA TickFacts ==
    ASSUME TypeOK, NEW full \in BOOLEAN, Tick(full)
    PROVE  /\ TypeOK' /\ UNCHANGED <<disk, dir, run, catalog, cached, captures>>
           /\ follow'.on = follow.on /\ (follow.full => follow'.full) /\ follow'.events = follow.events
           /\ ~follow'.full => Hints \subseteq Hints'
<1>1. follow \in Follow /\ dir \in Watches /\ follow' = Mark(follow, full, {}) /\ {} \in SUBSET Paths
    BY TypeFacts DEF Tick
<1>2. /\ follow' \in Follow /\ follow'.on = follow.on /\ follow'.events = follow.events
      /\ follow'.installing = follow.installing /\ (follow.full => follow'.full)
      /\ ~follow'.full => follow'.paths = follow.paths \cup {}
  <2>1. /\ Mark(follow, full, {}) \in Follow /\ Mark(follow, full, {}).on = follow.on
        /\ Mark(follow, full, {}).events = follow.events
        /\ Mark(follow, full, {}).installing = follow.installing
        /\ full \/ follow.full => Mark(follow, full, {}).full
        /\ ~Mark(follow, full, {}).full => Mark(follow, full, {}).paths = follow.paths \cup {}
      BY <1>1, MarkFacts
  <2> QED
      BY <1>1, <2>1, Zenon
<1>3. UNCHANGED <<disk, dir, run, catalog, cached, captures, bounds>>
    BY DEF Tick, local
<1>4. TypeOK'
    BY <1>1, <1>2, <1>3, LocalTypes
<1>5. ~follow'.full => Hints \subseteq Hints'
    BY <1>2 DEF Hints
<1> QED
    BY <1>2, <1>3, <1>4, <1>5

LEMMA StartFollowFacts ==
    ASSUME TypeOK, StartFollow
    PROVE  /\ TypeOK' /\ UNCHANGED <<disk, run, catalog, cached, captures>>
           /\ ~follow.on /\ follow'.on /\ follow'.full
<1> DEFINE m == Mark(Stopped, TRUE, {})
<1>1. m \in Follow /\ m.full
    BY StoppedFacts, MarkAll
<1>2. follow' = [m EXCEPT !.on = TRUE, !.due = TRUE] /\ dir' = Repaired /\ ~follow.on
      /\ UNCHANGED <<disk, run, catalog, cached, captures, bounds>>
    BY DEF StartFollow
<1> HIDE DEF m
<1>3. follow' \in Follow /\ follow'.on /\ follow'.full
    BY <1>1, <1>2, ZenonT(60) DEF Follow
<1>4. dir' \in Watches
    BY <1>2, TypeFacts DEF Repaired, Watches
<1>5. TypeOK'
    BY <1>2, <1>3, <1>4, LocalTypes
<1> QED
    BY <1>2, <1>3, <1>5

\* What a sync takes with it from its start, and the end of one that fails.
SameSync ==
    /\ run'.daemon = run.daemon /\ run'.select = run.select /\ run'.full = run.full
    /\ run'.paths = run.paths /\ run'.policy = run.policy

Ended ==
    /\ run' = Off /\ follow' \in Follow /\ dir' \in Watches
    /\ \/ follow' = Stopped /\ dir' = Unwatched
       \/ /\ dir' = dir /\ follow'.on = follow.on /\ follow'.events = follow.events
          /\ follow'.installing = follow.installing
          /\ follow.full => follow'.full
          /\ ~follow'.full => follow.paths \subseteq follow'.paths
          /\ run.daemon /\ run.full => follow'.full
          /\ run.daemon /\ ~follow'.full => run.paths \subseteq follow'.paths
EndStep == Ended /\ UNCHANGED <<disk, catalog, cached, captures>>

LEMMA EndTypes ==
    ASSUME TypeOK, EndStep,
           edits' \in 0..MaxEdits /\ others' \in 0..MaxOther /\ faults' \in 0..MaxFaults
    PROVE  TypeOK'
<1>1. run' \in Run /\ follow' \in Follow /\ dir' \in Watches
    BY OffFacts DEF EndStep, Ended
<1> QED
    BY <1>1 DEF TypeOK, EndStep, Watches, OutboxRow, catalog, cached, captures

LEMMA FailEnds ==
    ASSUME TypeOK, NEW key \in Keys, Fail(key)
    PROVE  Ended
BY FailFacts, TypeFacts DEF Ended

LEMMA LoseRequestFacts ==
    ASSUME TypeOK, LoseRequest
    PROVE  TypeOK' /\ EndStep
<1>1. Ended /\ UNCHANGED <<disk, catalog, cached, captures>>
    BY FailEnds, KeyFacts DEF LoseRequest
<1>2. edits' \in 0..MaxEdits /\ others' \in 0..MaxOther /\ faults' \in 0..MaxFaults
    BY FaultTypes DEF LoseRequest
<1> QED
    BY <1>1, <1>2, EndTypes DEF EndStep

LEMMA CrashFacts ==
    ASSUME TypeOK, Crash
    PROVE  /\ TypeOK' /\ UNCHANGED <<disk, catalog, cached, captures>>
           /\ \/ run' = Off /\ ~run.daemon /\ UNCHANGED <<follow, dir>>
              \/ follow' = Stopped /\ run' = IF run.daemon THEN Off ELSE run
<1>1. edits' \in 0..MaxEdits /\ others' \in 0..MaxOther /\ faults' \in 0..MaxFaults
    BY FaultTypes DEF Crash
<1>2. UNCHANGED <<disk, catalog, cached, captures>>
    BY DEF Crash
<1>3. \/ run' = Off /\ ~run.daemon /\ UNCHANGED <<follow, dir>>
      \/ follow' = Stopped /\ dir' = Unwatched /\ run' = IF run.daemon THEN Off ELSE run
    BY DEF Crash
<1>4. run' \in Run /\ follow' \in Follow /\ dir' \in Watches
    BY <1>3, OffFacts, StoppedFacts, TypeFacts DEF Unwatched, Watches
<1> QED
    BY <1>1, <1>2, <1>3, <1>4 DEF TypeOK, Watches, OutboxRow, catalog, cached, captures

LEMMA UserSyncFacts ==
    ASSUME TypeOK, NEW select \in Selections, UserSync(select)
    PROVE  /\ TypeOK' /\ UNCHANGED <<local, follow, catalog, cached, captures>>
           /\ run.pc = "off" /\ run'.pc = (IF jour.files = {} THEN "refresh" ELSE "register")
           /\ ~run'.daemon /\ run'.full /\ run'.policy = policy /\ run'.fresh = FALSE
           /\ run'.reset = FALSE /\ run'.changed = {}
           /\ run'.plan = {} /\ run'.scope = {} /\ run'.verified = {} /\ run'.seen = Each(0)
<1> DEFINE daemon == FALSE
           full == TRUE
<1>1. /\ daemon \in BOOLEAN /\ full \in BOOLEAN /\ {} \in SUBSET Paths /\ select \in SUBSET Files
      /\ run' = [Off EXCEPT !.pc = IF jour.files = {} THEN "refresh" ELSE "register", !.daemon = daemon,
                            !.select = select, !.full = full, !.paths = {}, !.policy = policy]
      /\ policy \in {0, 1}
    BY Bounds, TypeFacts DEF UserSync, Begin
<1> HIDE DEF daemon, full
<1>2. /\ run' \in Run /\ run'.pc = (IF jour.files = {} THEN "refresh" ELSE "register")
      /\ run'.daemon = daemon /\ run'.full = full
      /\ run'.policy = policy /\ run'.fresh = FALSE /\ run'.reset = FALSE /\ run'.changed = {}
      /\ run'.plan = {} /\ run'.scope = {} /\ run'.verified = {} /\ run'.seen = Each(0)
    BY <1>1, BeginFacts, ZenonT(150)
<1>3. /\ edits' \in 0..MaxEdits /\ others' \in 0..MaxOther /\ faults' \in 0..MaxFaults
      /\ UNCHANGED <<local, follow, catalog, cached, captures>> /\ run.pc = "off"
    BY FaultTypes DEF UserSync
<1>4. TypeOK'
    BY <1>2, <1>3 DEF TypeOK, Watches, OutboxRow, local, catalog, cached, captures
<1> QED
    BY <1>2, <1>3, <1>4 DEF daemon, full

\* The timer fires: a sync takes the hints, or finds another one at work.
LEMMA FireFacts ==
    ASSUME TypeOK, Fire
    PROVE  /\ TypeOK' /\ follow.on /\ UNCHANGED <<disk, catalog, cached, captures>>
           /\ \/ /\ run.pc = "off" /\ run'.pc = (IF jour.files = {} THEN "refresh" ELSE "register")
                 /\ dir' = (IF follow.full THEN Repaired ELSE dir)
                 /\ follow'.on = follow.on /\ follow'.events = follow.events
                 /\ follow'.installing = follow.installing
                 /\ run'.daemon /\ run'.select = Files
                 /\ run'.full = follow.full /\ run'.paths = follow.paths
                 /\ run'.policy = policy /\ run'.fresh = FALSE /\ run'.reset = FALSE /\ run'.changed = {}
                 /\ run'.plan = {} /\ run'.scope = {} /\ run'.verified = {} /\ run'.seen = Each(0)
              \/ /\ run' = run /\ dir' = (IF follow.full THEN Repaired ELSE dir)
                 /\ follow'.on = follow.on /\ follow'.events = follow.events
                 /\ follow'.installing = follow.installing
                 /\ follow.full => follow'.full
                 /\ ~follow'.full => follow'.paths = follow.paths
              \/ run' = run /\ follow' = Stopped
<1> DEFINE taken == [follow EXCEPT !.due = FALSE, !.full = FALSE, !.paths = {}]
           watches == IF follow.full THEN Repaired ELSE dir
<1>1. /\ follow \in Follow /\ run \in Run /\ dir \in Watches /\ watches \in Watches
      /\ follow.full \in BOOLEAN /\ follow.paths \in SUBSET Paths /\ policy \in {0, 1} /\ follow.on
    BY TypeFacts, FollowFields DEF Fire, Looping, Repaired, Watches
<1>2. /\ taken \in Follow /\ taken.on = follow.on /\ taken.events = follow.events
      /\ taken.installing = follow.installing /\ taken.full = FALSE /\ taken.paths = {}
    BY <1>1, ZenonT(60) DEF Follow
<1>3. UNCHANGED <<disk, catalog, cached, captures, bounds>>
    BY DEF Fire
<1>4. \/ /\ run.pc = "off" /\ follow' = taken /\ dir' = watches
         /\ Begin(TRUE, Files, follow.full, follow.paths)
      \/ /\ run.pc # "off" /\ Failed(taken, watches, "busy", follow.full, follow.paths) /\ UNCHANGED run
    BY DEF Fire
<1> HIDE DEF taken, watches
<1>5. CASE /\ run.pc = "off" /\ follow' = taken /\ dir' = watches
           /\ Begin(TRUE, Files, follow.full, follow.paths)
  <2> DEFINE daemon == TRUE
  <2>1. /\ daemon \in BOOLEAN /\ Files \in SUBSET Files
        /\ run' = [Off EXCEPT !.pc = IF jour.files = {} THEN "refresh" ELSE "register", !.daemon = daemon,
                              !.select = Files, !.full = follow.full, !.paths = follow.paths,
                              !.policy = policy]
      BY <1>5 DEF Begin
  <2> DEFINE pc == IF jour.files = {} THEN "refresh" ELSE "register"
             full == follow.full
             paths == follow.paths
  <2>9. /\ pc \in {"refresh", "register"} /\ full \in BOOLEAN /\ paths \in SUBSET Paths
        /\ daemon \in BOOLEAN /\ Files \in SUBSET Files /\ policy \in {0, 1}
      BY <1>1, <2>1
  <2>10. run' = [Off EXCEPT !.pc = pc, !.daemon = daemon, !.select = Files, !.full = full,
                        !.paths = paths, !.policy = policy]
      BY <2>1
  <2> HIDE DEF daemon, pc, full, paths
  <2>11. /\ run' \in Run /\ run'.pc = pc
         /\ run'.daemon = daemon /\ run'.select = Files /\ run'.full = full /\ run'.paths = paths
         /\ run'.policy = policy
      BY <2>9, <2>10, OffFacts, ZenonT(60) DEF Run
  <2>12. /\ run'.fresh = Off.fresh /\ run'.reset = Off.reset /\ run'.changed = Off.changed
         /\ run'.plan = Off.plan /\ run'.scope = Off.scope /\ run'.verified = Off.verified
         /\ run'.seen = Off.seen
      BY <2>10, OffFacts, ZenonT(60) DEF Run
  <2>2. /\ run' \in Run /\ run'.pc = (IF jour.files = {} THEN "refresh" ELSE "register")
        /\ run'.daemon = daemon /\ run'.select = Files /\ run'.full = follow.full
        /\ run'.paths = follow.paths
        /\ run'.policy = policy /\ run'.fresh = FALSE /\ run'.reset = FALSE /\ run'.changed = {}
        /\ run'.plan = {} /\ run'.scope = {} /\ run'.verified = {} /\ run'.seen = Each(0)
      BY <2>11, <2>12, OffFacts DEF pc, full, paths
  <2>3. TypeOK'
      BY <1>1, <1>2, <1>3, <1>5, <2>2
      DEF TypeOK, Watches, OutboxRow, catalog, cached, captures, bounds
  <2>4. dir' = (IF follow.full THEN Repaired ELSE dir)
      BY <1>5 DEF watches
  <2>5. run'.daemon
      BY <2>2 DEF daemon
  <2>6. follow'.on = follow.on /\ follow'.events = follow.events /\ follow'.installing = follow.installing
      BY <1>2, <1>5
  <2> QED
      BY <1>1, <1>3, <1>5, <2>2, <2>3, <2>4, <2>5, <2>6
<1>6. CASE /\ run.pc # "off" /\ Failed(taken, watches, "busy", follow.full, follow.paths) /\ UNCHANGED run
  <2>1. /\ follow' \in Follow /\ dir' \in Watches
        /\ \/ follow' = Stopped /\ dir' = Unwatched
           \/ /\ dir' = watches /\ follow'.on = taken.on /\ follow'.events = taken.events
              /\ follow'.installing = taken.installing
              /\ follow.full \/ taken.full => follow'.full
              /\ ~follow'.full => follow'.paths = taken.paths \cup follow.paths
    <3> DEFINE m == Mark(taken, follow.full, follow.paths)
               n == SameCount("busy")
    <3>1. /\ m \in Follow /\ m.on = taken.on /\ m.events = taken.events /\ m.installing = taken.installing
          /\ follow.full \/ taken.full => m.full
          /\ ~m.full => m.paths = taken.paths \cup follow.paths
      <4> DEFINE full == follow.full
                 paths == follow.paths
      <4>1. full \in BOOLEAN /\ paths \in SUBSET Paths /\ taken \in Follow
          BY <1>1, <1>2
      <4> HIDE DEF full, paths
      <4>2. /\ Mark(taken, full, paths) \in Follow /\ Mark(taken, full, paths).on = taken.on
            /\ Mark(taken, full, paths).events = taken.events
            /\ Mark(taken, full, paths).installing = taken.installing
            /\ full \/ taken.full => Mark(taken, full, paths).full
            /\ ~Mark(taken, full, paths).full => Mark(taken, full, paths).paths = taken.paths \cup paths
          BY <4>1, MarkFacts
      <4> QED
          BY <4>2 DEF full, paths
    <3>2. n \in Nat
        BY <1>1 DEF SameCount, Follow
    <3>3. \/ follow' = Stopped /\ dir' = Unwatched
          \/ follow' = [m EXCEPT !.key = "busy", !.same = n] /\ dir' = watches
        BY <1>6 DEF Failed, Retried
    <3> HIDE DEF m, n
    <3>4. CASE follow' = Stopped /\ dir' = Unwatched
        BY <1>1, <3>4, StoppedFacts DEF Unwatched, Watches
    <3>5. CASE follow' = [m EXCEPT !.key = "busy", !.same = n] /\ dir' = watches
      <4>1. "busy" \in Keys
          BY KeyFacts
      <4>2. /\ follow' \in Follow /\ follow'.on = m.on /\ follow'.events = m.events
            /\ follow'.installing = m.installing /\ follow'.full = m.full /\ follow'.paths = m.paths
          BY <3>1, <3>2, <3>5, <4>1, ZenonT(60) DEF Follow
      <4> QED
          BY <1>1, <3>1, <3>5, <4>2
    <3> QED
        BY <3>3, <3>4, <3>5
  <2>2. TypeOK'
      BY <1>1, <1>3, <1>6, <2>1
      DEF TypeOK, Watches, OutboxRow, catalog, cached, captures, bounds
  <2>3. CASE follow' = Stopped
      BY <1>1, <1>3, <1>6, <2>2, <2>3
  <2>4. CASE /\ dir' = watches /\ follow'.on = taken.on /\ follow'.events = taken.events
             /\ follow'.installing = taken.installing
             /\ follow.full \/ taken.full => follow'.full
             /\ ~follow'.full => follow'.paths = taken.paths \cup follow.paths
    <3>1. taken.paths \cup follow.paths = follow.paths
        BY <1>2
    <3>2. dir' = (IF follow.full THEN Repaired ELSE dir)
        BY <2>4 DEF watches
    <3> QED
        BY <1>1, <1>2, <1>3, <1>6, <2>2, <2>4, <3>1, <3>2
  <2> QED
      BY <2>1, <2>3, <2>4
<1> QED
    BY <1>4, <1>5, <1>6

New == {f \in jour.files : jour.accepted[f] = 0}

LEMMA RunFields ==
    ASSUME run \in Run
    PROVE  /\ run.select \in SUBSET Files /\ run.paths \in SUBSET Paths /\ run.policy \in {0, 1}
           /\ run.changed \in SUBSET Files /\ run.access \in SUBSET Files /\ run.rev \in Nat
           /\ run.scope \in SUBSET Files /\ run.verified \in SUBSET Files /\ run.plan \in SUBSET Files
           /\ run.seen \in [Files -> Content] /\ run.dirty \in SUBSET Files
           /\ run.full \in BOOLEAN /\ run.daemon \in BOOLEAN /\ run.reset \in BOOLEAN /\ run.fresh \in BOOLEAN
           /\ run.more \in BOOLEAN
BY DEF Run

LEMMA JourFields ==
    ASSUME jour \in Journal
    PROVE  /\ jour.files \in SUBSET Files /\ jour.prev \in [Files -> Nat] /\ jour.content \in [Files -> Content]
           /\ jour.dirty \in SUBSET Files /\ jour.accepted \in [Files -> Nat] /\ jour.policy \in {0, 1}
BY DEF Journal

Registered ==
    /\ run.pc = "register"
    /\ run'.pc = "proofs" /\ SameSync
    /\ run'.reset = run.reset /\ run'.changed = run.changed /\ run'.fresh = run.fresh
    /\ run'.scope = run.scope /\ run'.verified = run.verified /\ run'.plan = run.plan
    /\ run'.seen = run.seen /\ run'.dirty = run.dirty
    /\ Queued' = Queued \cup New /\ (Open => Open')
    /\ \A f \in New : head'[f].seq = head[f].seq + 1 /\ head'[f].content = jour.content[f]
    /\ \A f \in Files \ New : head'[f] = head[f]
    /\ jour'.files = jour.files /\ jour'.content = jour.content /\ jour'.dirty = jour.dirty
    /\ jour'.policy = jour.policy
    /\ \A f \in New : jour'.accepted[f] = head'[f].seq
    /\ \A f \in Files \ New : jour'.accepted[f] = jour.accepted[f]
    /\ UNCHANGED <<disk, dir, follow, proof, tx, rev, chg, denied, policy, cached, lhead, skipped>>

LEMMA RegisterFacts ==
    ASSUME TypeOK, Register
    PROVE  TypeOK' /\ (EndStep \/ Registered)
<1>1. /\ run \in Run /\ jour \in Journal /\ head \in [Files -> Version] /\ outbox \in Seq(OutboxRow)
      /\ run.pc = "register"
    BY TypeFacts DEF Register
<1>2. /\ jour.files \in SUBSET Files /\ jour.content \in [Files -> Content]
      /\ jour.accepted \in [Files -> Nat] /\ New \in SUBSET Files
    BY <1>1, JourFields DEF New
<1>3. \/ (Fail("forbidden") \/ Fail("conflict")) /\ UNCHANGED <<disk, catalog, cached, captures, bounds>>
      \/ /\ head' = [f \in Files |-> IF f \in New
                       THEN [seq |-> head[f].seq + 1, content |-> jour.content[f]] ELSE head[f]]
         /\ outbox' = outbox \o Rows(New)
         /\ jour' = [jour EXCEPT !.accepted =
                        [f \in Files |-> IF f \in New THEN head'[f].seq ELSE jour.accepted[f]]]
         /\ run' = [run EXCEPT !.pc = "proofs"]
         /\ UNCHANGED <<disk, dir, follow, proof, tx, rev, chg, denied, policy, cached, lhead, skipped, bounds>>
    BY DEF Register, New
<1>4. CASE (Fail("forbidden") \/ Fail("conflict")) /\ UNCHANGED <<disk, catalog, cached, captures, bounds>>
  <2>1. EndStep
      BY <1>4, FailEnds, KeyFacts DEF EndStep
  <2>2. TypeOK'
      BY <1>4, <2>1, EndTypes, TypeFacts DEF bounds
  <2> QED
      BY <1>1, <2>1, <2>2
<1>5. CASE /\ head' = [f \in Files |-> IF f \in New
                         THEN [seq |-> head[f].seq + 1, content |-> jour.content[f]] ELSE head[f]]
           /\ outbox' = outbox \o Rows(New)
           /\ jour' = [jour EXCEPT !.accepted =
                          [f \in Files |-> IF f \in New THEN head'[f].seq ELSE jour.accepted[f]]]
           /\ run' = [run EXCEPT !.pc = "proofs"]
           /\ UNCHANGED <<disk, dir, follow, proof, tx, rev, chg, denied, policy, cached, lhead, skipped, bounds>>
  <2>1. /\ head' \in [Files -> Version]
        /\ \A f \in New : head'[f].seq = head[f].seq + 1 /\ head'[f].content = jour.content[f]
        /\ \A f \in Files \ New : head'[f] = head[f]
    <3>1. \A f \in Files : [seq |-> head[f].seq + 1, content |-> jour.content[f]] \in Version
        BY <1>1, <1>2 DEF Version
    <3> QED
        BY <1>1, <1>2, <1>5, <3>1
  <2>2. outbox' \in Seq(OutboxRow) /\ Queued' = Queued \cup New /\ (Open => Open')
      BY <1>1, <1>2, <1>5, QueueGrows
  <2> DEFINE acc == [f \in Files |-> IF f \in New THEN head'[f].seq ELSE jour.accepted[f]]
  <2>3. acc \in [Files -> Nat]
    <3>1. \A f \in Files : head'[f].seq \in Nat
        BY <2>1 DEF Version
    <3> QED
        BY <1>2, <3>1
  <2>4. /\ \A f \in New : acc[f] = head'[f].seq
        /\ \A f \in Files \ New : acc[f] = jour.accepted[f]
      BY <1>2
  <2>5. jour' = [jour EXCEPT !.accepted = acc]
      BY <1>5
  <2> HIDE DEF acc
  <2>6. /\ jour' \in Journal /\ jour'.accepted = acc
        /\ jour'.files = jour.files /\ jour'.content = jour.content /\ jour'.dirty = jour.dirty
        /\ jour'.policy = jour.policy
      BY <1>1, <2>3, <2>5, ZenonT(60) DEF Journal
  <2>7. run' \in Run /\ run'.pc = "proofs" /\ SameSync
      BY <1>1, <1>5, ZenonT(60) DEF Run, SameSync
  <2>8. /\ run'.reset = run.reset /\ run'.changed = run.changed /\ run'.fresh = run.fresh
        /\ run'.scope = run.scope /\ run'.verified = run.verified /\ run'.plan = run.plan
        /\ run'.seen = run.seen /\ run'.dirty = run.dirty
      BY <1>1, <1>5, ZenonT(60) DEF Run
  <2>9. TypeOK'
      BY <1>5, <2>1, <2>2, <2>6, <2>7 DEF TypeOK, Watches, OutboxRow, cached, bounds
  <2> QED
      BY <1>1, <1>5, <2>1, <2>2, <2>4, <2>6, <2>7, <2>8, <2>9 DEF Registered
<1> QED
    BY <1>3, <1>4, <1>5

\* Prove, for files and versions given in full.
LEMMA ProveFacts ==
    ASSUME TypeOK, NEW new \in SUBSET Files, NEW version \in [Files -> Version],
           proof' = [f \in Files |-> IF f \in new THEN version[f] ELSE proof[f]],
           outbox' = outbox \o Rows(new)
    PROVE  /\ proof' \in [Files -> Version]
           /\ \A f \in new : proof'[f] = version[f]
           /\ \A f \in Files \ new : proof'[f] = proof[f]
           /\ outbox' \in Seq(OutboxRow) /\ Queued' = Queued \cup new /\ (Open => Open')
<1>1. /\ proof' \in [Files -> Version]
      /\ \A f \in new : proof'[f] = version[f]
      /\ \A f \in Files \ new : proof'[f] = proof[f]
    BY TypeFacts
<1>2. outbox' \in Seq(OutboxRow) /\ Queued' = Queued \cup new /\ (Open => Open')
    BY QueueGrows, TypeFacts
<1> QED
    BY <1>1, <1>2

Recorded ==
    /\ run.pc = "proofs" /\ run'.pc = (IF run.fresh THEN "finish" ELSE "refresh") /\ SameSync
    /\ run'.reset = run.reset /\ run'.changed = run.changed /\ run'.fresh = run.fresh
    /\ run'.scope = run.scope /\ run'.verified = run.verified /\ run'.plan = run.plan
    /\ run'.seen = run.seen /\ run'.dirty = run.dirty \cup jour.dirty
    /\ \E new \in SUBSET jour.files :
          /\ Queued' = Queued \cup new /\ (Open => Open')
          /\ \A f \in new : proof'[f].seq = jour.accepted[f] /\ proof'[f].content = jour.content[f]
          /\ \A f \in Files \ new : proof'[f] = proof[f]
    /\ \A f \in Files :
          IF f \in jour.files /\ lhead[f].seq < jour.accepted[f]
          THEN /\ lhead'[f].seq = jour.accepted[f] /\ lhead'[f].content = jour.content[f]
               /\ lhead'[f].dirty = (f \in jour.dirty)
          ELSE lhead'[f] = lhead[f]
    /\ jour' = NoJournal
    /\ skipped' = skipped \cup {f \in jour.files : OtherwiseIgnored(f, jour.policy)}
    /\ UNCHANGED <<disk, dir, follow, head, tx, rev, chg, denied, policy, cached>>

LEMMA RecordCapturedProofsFacts ==
    ASSUME TypeOK, RecordCapturedProofs
    PROVE  TypeOK' /\ Recorded
<1>1. run \in Run /\ jour \in Journal /\ lhead \in [Files -> LocalHead] /\ run.pc = "proofs"
    BY TypeFacts DEF RecordCapturedProofs
<1>2. /\ jour.files \in SUBSET Files /\ jour.content \in [Files -> Content] /\ jour.dirty \in SUBSET Files
      /\ jour.accepted \in [Files -> Nat]
    BY <1>1, JourFields
<1> DEFINE version == [f \in Files |-> [seq |-> jour.accepted[f], content |-> jour.content[f]]]
           new == {f \in jour.files : proof[f].seq < version[f].seq}
           more == run.dirty \cup jour.dirty
           pc == IF run.fresh THEN "finish" ELSE "refresh"
           receipts == [f \in Files |-> IF f \in jour.files /\ lhead[f].seq < jour.accepted[f]
                          THEN [seq |-> jour.accepted[f], content |-> jour.content[f], dirty |-> f \in jour.dirty]
                          ELSE lhead[f]]
<1>3. /\ proof' = [f \in Files |-> IF f \in new THEN version[f] ELSE proof[f]]
      /\ outbox' = outbox \o Rows(new)
    BY DEF RecordCapturedProofs, Prove
<1>4. /\ lhead' = receipts /\ jour' = NoJournal
      /\ skipped' = skipped \cup {f \in jour.files : OtherwiseIgnored(f, jour.policy)}
      /\ run' = [run EXCEPT !.pc = pc, !.dirty = more]
      /\ UNCHANGED <<local, follow, head, tx, rev, chg, denied, policy, cached, bounds>>
    BY DEF RecordCapturedProofs
<1>5. /\ version \in [Files -> Version] /\ new \in SUBSET Files /\ new \in SUBSET jour.files
      /\ \A f \in Files : version[f].seq = jour.accepted[f] /\ version[f].content = jour.content[f]
    BY <1>2 DEF Version
<1>6. more \in SUBSET Files /\ pc \in {"finish", "refresh"}
    BY <1>1, <1>2, RunFields
<1>7. receipts \in [Files -> LocalHead]
  <2>1. \A f \in Files : [seq |-> jour.accepted[f], content |-> jour.content[f], dirty |-> f \in jour.dirty]
                          \in LocalHead
    <3> TAKE f \in Files
    <3> DEFINE dirty == f \in jour.dirty
    <3>1. jour.accepted[f] \in Nat /\ jour.content[f] \in Content /\ dirty \in BOOLEAN
        BY <1>2
    <3> HIDE DEF dirty
    <3>2. [seq |-> jour.accepted[f], content |-> jour.content[f], dirty |-> dirty] \in LocalHead
        BY <3>1 DEF LocalHead
    <3> QED
        BY <3>2 DEF dirty
  <2> QED
      BY <1>1, <2>1
<1>8. \A f \in Files :
         IF f \in jour.files /\ lhead[f].seq < jour.accepted[f]
         THEN /\ lhead'[f].seq = jour.accepted[f] /\ lhead'[f].content = jour.content[f]
              /\ lhead'[f].dirty = (f \in jour.dirty)
         ELSE lhead'[f] = lhead[f]
    BY <1>4
<1> HIDE DEF version, new, more, pc, receipts
<1>9. /\ proof' \in [Files -> Version] /\ outbox' \in Seq(OutboxRow)
      /\ Queued' = Queued \cup new /\ (Open => Open')
      /\ \A f \in new : proof'[f] = version[f]
      /\ \A f \in Files \ new : proof'[f] = proof[f]
    BY <1>3, <1>5, ProveFacts
<1>10. /\ Queued' = Queued \cup new /\ (Open => Open')
       /\ \A f \in new : proof'[f].seq = jour.accepted[f] /\ proof'[f].content = jour.content[f]
       /\ \A f \in Files \ new : proof'[f] = proof[f]
    BY <1>2, <1>5, <1>9
<1>11. run' \in Run /\ run'.pc = pc /\ SameSync
    BY <1>1, <1>4, <1>6, ZenonT(60) DEF Run, SameSync
<1>12. /\ run'.reset = run.reset /\ run'.changed = run.changed /\ run'.fresh = run.fresh
       /\ run'.scope = run.scope /\ run'.verified = run.verified /\ run'.plan = run.plan
       /\ run'.seen = run.seen /\ run'.dirty = more
    BY <1>1, <1>4, <1>6, ZenonT(60) DEF Run
<1>13. skipped' \in SUBSET Files /\ lhead' \in [Files -> LocalHead] /\ jour' \in Journal
    BY <1>2, <1>4, <1>7, NoJournalFacts, TypeFacts
<1>14. TypeOK'
    BY <1>4, <1>9, <1>11, <1>13 DEF TypeOK, Watches, OutboxRow, local, cached, bounds
<1>15. UNCHANGED <<disk, dir, follow, head, tx, rev, chg, denied, policy, cached>>
    BY <1>4 DEF local
<1>16. run'.pc = (IF run.fresh THEN "finish" ELSE "refresh") /\ run'.dirty = run.dirty \cup jour.dirty
    BY <1>11, <1>12 DEF pc, more
<1> QED
    BY <1>1, <1>4, <1>5, <1>8, <1>10, <1>11, <1>12, <1>14, <1>15, <1>16 DEF Recorded

StartedOver ==
    /\ run.pc = "refresh" /\ cursor.set
    /\ run'.pc = "refresh" /\ SameSync /\ run'.reset /\ run'.changed = {}
    /\ run'.fresh = run.fresh /\ run'.scope = run.scope /\ run'.verified = run.verified
    /\ run'.plan = run.plan /\ run'.seen = run.seen
    /\ cat' = Each(NotFetched) /\ cursor' = NoCursor /\ pend' = {}
    /\ skipped' = skipped \cup cursor.access
    /\ UNCHANGED <<disk, dir, follow, catalog, stamp, lhead, jour>>

LEMMA CatalogResetFacts ==
    ASSUME TypeOK, CatalogReset
    PROVE  TypeOK' /\ (EndStep \/ StartedOver)
<1>1. run \in Run /\ run.pc = "refresh" /\ cursor.set /\ cursor \in Cursor
    BY TypeFacts DEF CatalogReset
<1>2. \/ Fail("reset") /\ UNCHANGED <<disk, catalog, cached, captures, bounds>>
      \/ /\ cat' = Each(NotFetched) /\ cursor' = NoCursor /\ pend' = {}
         /\ run' = [run EXCEPT !.reset = TRUE, !.changed = {}]
         /\ skipped' = skipped \cup cursor.access
         /\ UNCHANGED <<disk, dir, follow, catalog, stamp, lhead, jour, bounds>>
    BY DEF CatalogReset, cached, captures
<1>3. CASE Fail("reset") /\ UNCHANGED <<disk, catalog, cached, captures, bounds>>
  <2>1. EndStep
      BY <1>3, FailEnds, KeyFacts DEF EndStep
  <2>2. TypeOK'
      BY <1>3, <2>1, EndTypes, TypeFacts DEF bounds
  <2> QED
      BY <1>1, <2>1, <2>2
<1>4. CASE /\ cat' = Each(NotFetched) /\ cursor' = NoCursor /\ pend' = {}
           /\ run' = [run EXCEPT !.reset = TRUE, !.changed = {}]
           /\ skipped' = skipped \cup cursor.access
           /\ UNCHANGED <<disk, dir, follow, catalog, stamp, lhead, jour, bounds>>
  <2>1. run' \in Run /\ run'.pc = run.pc /\ SameSync /\ run'.reset /\ run'.changed = {}
      BY <1>1, <1>4, ZenonT(60) DEF Run, SameSync
  <2>2. /\ run'.fresh = run.fresh /\ run'.scope = run.scope /\ run'.verified = run.verified
        /\ run'.plan = run.plan /\ run'.seen = run.seen
      BY <1>1, <1>4, ZenonT(60) DEF Run
  <2>3. skipped' \in SUBSET Files
      BY <1>1, <1>4, TypeFacts DEF Cursor
  <2>4. TypeOK'
      BY <1>4, <2>1, <2>3, NoneFetched DEF TypeOK, Watches, OutboxRow, catalog, bounds
  <2> QED
      BY <1>1, <1>4, <2>1, <2>2, <2>4 DEF StartedOver
<1> QED
    BY <1>2, <1>3, <1>4

Requested ==
    /\ run.pc = "refresh" /\ (cursor.set => cursor.access = denied)
    /\ AdvanceCatalogChanges
    /\ run'.pc = "page" /\ SameSync /\ run'.access = denied /\ run'.rev = rev'
    /\ run'.more = (\E i \in DOMAIN outbox' : outbox'[i].done) /\ run'.changed = run.changed \cup pend
    /\ run'.reset = run.reset /\ run'.fresh = run.fresh /\ run'.scope = run.scope
    /\ run'.verified = run.verified /\ run'.plan = run.plan /\ run'.seen = run.seen
    /\ UNCHANGED <<disk, dir, follow, head, proof, tx, denied, policy, cached, captures>>

LEMMA CatalogRequestFacts ==
    ASSUME TypeOK, CatalogRequest
    PROVE  TypeOK' /\ Requested
<1> DEFINE more == \E i \in DOMAIN outbox' : outbox'[i].done
           changed == run.changed \cup pend
<1>1. /\ run \in Run /\ run.pc = "refresh" /\ (cursor.set => cursor.access = denied)
      /\ AdvanceCatalogChanges
    BY TypeFacts DEF CatalogRequest
<1>2. /\ run' = [run EXCEPT !.pc = "page", !.access = denied, !.rev = rev', !.more = more, !.changed = changed]
      /\ UNCHANGED <<disk, dir, follow, head, proof, tx, denied, policy, cached, captures, bounds>>
    BY DEF CatalogRequest, local
<1>3. more \in BOOLEAN /\ changed \in SUBSET Files /\ denied \in SUBSET Files
    BY <1>1, RunFields, Bounds, TypeFacts
<1>4. outbox' \in Seq(OutboxRow) /\ rev' \in Nat /\ chg' \in [Files -> 0..rev']
    BY <1>1, AdvanceFacts, TypeFacts
<1> HIDE DEF more, changed
<1>5. /\ run' \in Run /\ run'.pc = "page" /\ SameSync /\ run'.access = denied /\ run'.rev = rev'
      /\ run'.more = more /\ run'.changed = changed
    BY <1>1, <1>2, <1>3, <1>4, ZenonT(60) DEF Run, SameSync
<1>6. /\ run'.reset = run.reset /\ run'.fresh = run.fresh /\ run'.scope = run.scope
      /\ run'.verified = run.verified /\ run'.plan = run.plan /\ run'.seen = run.seen
    BY <1>1, <1>2, ZenonT(60) DEF Run
<1>7. TypeOK'
    BY <1>2, <1>4, <1>5 DEF TypeOK, Watches, OutboxRow, cached, captures, bounds
<1> QED
    BY <1>1, <1>2, <1>5, <1>6, <1>7 DEF more, changed, Requested

\* A page ends before every change of its range that it leaves out.
LEMMA PageFacts ==
    ASSUME TypeOK
    PROVE  /\ InRange \in SUBSET Files /\ Page \in SUBSET InRange
           /\ PageCursor \in Nat /\ PageCursor <= run.rev
           /\ \A f \in InRange \ Page : PageCursor < chg[f]
<1>1. run.rev \in Nat /\ rev \in Nat /\ chg \in [Files -> 0..rev] /\ \A f \in Files : chg[f] \in Nat
    BY RunFields, TypeFacts
<1>2. InRange \in SUBSET Files /\ Page \in SUBSET InRange /\ \A f \in InRange : chg[f] <= run.rev
    BY DEF InRange, Page
<1>3. CASE Page = InRange
    BY <1>1, <1>2, <1>3 DEF PageCursor
<1>4. CASE Page # InRange
  <2> DEFINE Before(f) == {g \in InRange : chg[g] < chg[f]}
  <2>1. \A f \in InRange : IsFiniteSet(Before(f)) /\ Cardinality(Before(f)) \in Nat
      BY <1>2, FilesFinite
  <2>2. \A f \in InRange : f \in Page <=> Cardinality(Before(f)) < PageLimit
      BY DEF Page
  <2>3. \A f \in Files : chg[f] \in Int
      BY <1>1
  <2>4. PICK least \in InRange : \A f \in InRange : chg[least] <= chg[f]
    <3> DEFINE S == {chg[f] : f \in InRange}
    <3>1. S \in SUBSET Int /\ S # {}
        BY <1>2, <1>4, <2>3
    <3>2. IsFiniteSet(S)
      <4>1. S \in SUBSET (0..rev) /\ IsFiniteSet(0..rev)
          BY <1>1, <1>2, FS_Interval
      <4> QED
          BY <4>1, FS_Subset
    <3>3. PICK i \in S : \A j \in S : i <= j
        BY <3>1, <3>2, LeastAndGreatest
    <3> QED
        BY <3>3
  <2>5. least \in Page
    <3>1. Before(least) = {}
        BY <1>1, <1>2, <2>4
    <3>2. Cardinality(Before(least)) = 0
        BY <3>1, FS_EmptySet
    <3> QED
        BY <2>2, <2>4, <3>2, Bounds
  <2>6. \E last \in Page : \A f \in Page : chg[f] <= chg[last]
    <3> DEFINE S == {chg[f] : f \in Page}
    <3>1. S \in SUBSET Int /\ S # {}
        BY <1>2, <2>3, <2>5
    <3>2. IsFiniteSet(S)
      <4>1. S \in SUBSET (0..rev) /\ IsFiniteSet(0..rev)
          BY <1>1, <1>2, FS_Interval
      <4> QED
          BY <4>1, FS_Subset
    <3>3. PICK i \in S : \A j \in S : j <= i
        BY <3>1, <3>2, LeastAndGreatest
    <3> QED
        BY <3>3
  <2> DEFINE last == CHOOSE f \in Page : \A g \in Page : chg[g] <= chg[f]
  <2>7. last \in Page /\ \A f \in Page : chg[f] <= chg[last]
      BY <2>6
  <2>8. PageCursor = chg[last]
      BY <1>4 DEF PageCursor
  <2> HIDE DEF last
  <2>9. PageCursor \in Nat /\ PageCursor <= run.rev
      BY <1>1, <1>2, <2>7, <2>8
  <2>10. ASSUME NEW f \in InRange \ Page
         PROVE  chg[last] < chg[f]
    <3>1. SUFFICES ASSUME ~(chg[last] < chg[f]) PROVE FALSE
        OBVIOUS
    <3>2. chg[f] \in Nat /\ chg[last] \in Nat /\ chg[f] <= chg[last]
        BY <1>1, <1>2, <2>7, <2>10, <3>1
    <3>3. Before(f) \subseteq Before(last)
        BY <1>1, <1>2, <3>2
    <3> DEFINE m == Cardinality(Before(f))
               n == Cardinality(Before(last))
    <3>4. m <= n
        BY <1>2, <2>1, <2>7, <3>3, FS_Subset
    <3>5. n < PageLimit /\ ~(m < PageLimit) /\ m \in Nat /\ n \in Nat
        BY <1>2, <2>1, <2>2, <2>7, <2>10
    <3> HIDE DEF m, n
    <3> QED
        BY <3>4, <3>5, Bounds
  <2> QED
      BY <1>2, <2>8, <2>9, <2>10
<1> QED
    BY <1>3, <1>4

Paged ==
    /\ run.pc = "page"
    /\ run'.pc = (IF run.more \/ Page # InRange THEN "refresh" ELSE "scan") /\ SameSync
    /\ run'.changed = run.changed \cup (Page \ run.access) /\ run'.reset = run.reset
    /\ run'.fresh = run.fresh
    /\ run'.scope = run.scope /\ run'.verified = run.verified /\ run'.plan = run.plan
    /\ run'.seen = run.seen
    /\ pend' = pend \cup (Page \ run.access)
    /\ cursor'.set /\ cursor'.access = run.access /\ cursor'.rev = PageCursor
    /\ \A f \in Page \ run.access : cat'[f] = Current(f)
    /\ \A f \in Files \ (Page \ run.access) : cat'[f] = cat[f]
    /\ UNCHANGED <<disk, dir, follow, catalog, stamp, captures>>

LEMMA CatalogPageFacts ==
    ASSUME TypeOK, CatalogPage
    PROVE  TypeOK' /\ Paged
<1> DEFINE page == Page \ run.access
           pc == IF run.more \/ Page # InRange THEN "refresh" ELSE "scan"
           changed == run.changed \cup page
<1>1. /\ run \in Run /\ run.pc = "page"
      /\ cat' = [f \in Files |-> IF f \in page THEN Current(f) ELSE cat[f]]
      /\ pend' = pend \cup page
      /\ cursor' = [set |-> TRUE, access |-> run.access, rev |-> PageCursor]
      /\ run' = [run EXCEPT !.changed = changed, !.pc = pc, !.access = {}, !.rev = 0, !.more = FALSE]
      /\ UNCHANGED <<disk, dir, follow, catalog, stamp, captures, bounds>>
    BY TypeFacts DEF CatalogPage, Kept, local
<1>2. /\ page \in SUBSET Files /\ pc \in {"refresh", "scan"} /\ changed \in SUBSET Files
      /\ run.access \in SUBSET Files /\ PageCursor \in Nat
    BY <1>1, RunFields, PageFacts
<1> HIDE DEF page, pc, changed
<1>3. cat' \in [Files -> Fetched]
  <2>1. \A f \in Files : head[f].seq \in Nat /\ head[f].content \in Content
      BY TypeFacts DEF Version
  <2>2. \A f \in Files : Current(f) \in Fetched
    <3> TAKE f \in Files
    <3> DEFINE proved == proof[f] = head[f]
    <3>1. proved \in BOOLEAN /\ head[f].seq \in Nat /\ head[f].content \in Content
        BY <2>1
    <3> HIDE DEF proved
    <3>2. [seq |-> head[f].seq, content |-> head[f].content, proved |-> proved] \in Fetched
        BY <3>1 DEF Fetched
    <3> QED
        BY <3>2 DEF Current, proved
  <2> QED
      BY <1>1, <2>2, TypeFacts
<1>4. cursor' \in Cursor /\ cursor'.set /\ cursor'.access = run.access /\ cursor'.rev = PageCursor
    BY <1>1, <1>2, ZenonT(60) DEF Cursor
<1>5. run' \in Run /\ run'.pc = pc /\ SameSync /\ run'.changed = changed
  <2>1. 0 \in Nat /\ {} \in SUBSET Files /\ FALSE \in BOOLEAN
      OBVIOUS
  <2> QED
      BY <1>1, <1>2, <2>1, ZenonT(60) DEF Run, SameSync
<1>6. /\ run'.reset = run.reset /\ run'.fresh = run.fresh /\ run'.scope = run.scope
      /\ run'.verified = run.verified /\ run'.plan = run.plan /\ run'.seen = run.seen
    BY <1>1, ZenonT(60) DEF Run
<1>7. pend' \in SUBSET Files
    BY <1>1, <1>2, TypeFacts
<1>8. TypeOK'
    BY <1>1, <1>3, <1>4, <1>5, <1>7 DEF TypeOK, Watches, OutboxRow, catalog, captures, bounds
<1>9. \A f \in Files : IF f \in page THEN cat'[f] = Current(f) ELSE cat'[f] = cat[f]
    BY <1>1
<1>10. /\ \A f \in Page \ run.access : cat'[f] = Current(f)
       /\ \A f \in Files \ (Page \ run.access) : cat'[f] = cat[f]
    BY <1>2, <1>9 DEF page
<1> QED
    BY <1>1, <1>4, <1>5, <1>6, <1>8, <1>10 DEF page, pc, changed, Paged

LEMMA BelowFiles ==
    /\ \A X \in SUBSET Paths : Below(X) \in SUBSET Files
    /\ \A X \in SUBSET Paths, Y \in SUBSET Paths : X \subseteq Y => Below(X) \subseteq Below(Y)
    /\ \A X \in SUBSET Paths : X \cap Files \subseteq Below(X) /\ (Dir \in X => InDir \subseteq Below(X))
    /\ \A X \in SUBSET Paths : \A f \in Below(X) : f \in X \/ (Dir \in X /\ f \in InDir)
BY Bounds DEF Below, Paths

(* The discovery of a sync, named after the local definitions of Scan.     *)
ScanFull == run.full \/ run.reset \/ PolicyChanged
ScanScope == IF ScanFull THEN Files ELSE Below(run.paths \cup {f \in run.changed : Unclean(f)})
ScanCandidates == {f \in ScanScope \cap run.select : Visible(f, run.policy) # 0 /\ ~Cached(f)}
ScanVerified == {f \in ScanCandidates : Verified(f)}
ScanRemoved == {f \in ScanScope \cap run.select : cat[f].content # 0 /\ Visible(f, run.policy) = 0}

Discovered ==
    /\ run.pc = "scan"
    /\ run'.pc = (IF ScanVerified # {} THEN "prove"
                  ELSE IF ScanCandidates \cup ScanRemoved # {} THEN "spool" ELSE "finish")
    /\ SameSync /\ run'.reset = run.reset /\ run'.changed = run.changed /\ run'.fresh = run.fresh
    /\ run'.scope = ScanScope /\ run'.verified = ScanVerified
    /\ run'.plan = (ScanCandidates \ ScanVerified) \cup ScanRemoved
    /\ \A f \in Files : run'.seen[f] = IF f \in ScanCandidates \ ScanVerified THEN disk[f] ELSE 0
    /\ UNCHANGED <<disk, dir, follow, catalog, cached, captures>>

LEMMA ScanFacts ==
    ASSUME TypeOK, Scan
    PROVE  TypeOK' /\ Discovered
<1> DEFINE pc == IF ScanVerified # {} THEN "prove"
                 ELSE IF ScanCandidates \cup ScanRemoved # {} THEN "spool" ELSE "finish"
           plan == (ScanCandidates \ ScanVerified) \cup ScanRemoved
           seen == [f \in Files |-> IF f \in ScanCandidates \ ScanVerified THEN disk[f] ELSE 0]
<1>1. /\ run \in Run /\ run.pc = "scan" /\ run.select \in SUBSET Files /\ run.paths \in SUBSET Paths
      /\ run.changed \in SUBSET Files /\ disk \in [Files -> Content]
    BY RunFields, TypeFacts DEF Scan
<1>2. /\ run' = [run EXCEPT !.pc = pc, !.scope = ScanScope, !.verified = ScanVerified, !.plan = plan, !.seen = seen]
      /\ UNCHANGED <<disk, dir, follow, catalog, cached, captures, bounds>>
    BY DEF Scan, ScanFull, ScanScope, ScanCandidates, ScanVerified, ScanRemoved, local
<1>3. ScanScope \in SUBSET Files
  <2>1. run.paths \cup {f \in run.changed : Unclean(f)} \in SUBSET Paths
      BY <1>1 DEF Paths
  <2> QED
      BY <2>1, BelowFiles DEF ScanScope
<1>4. /\ ScanCandidates \in SUBSET (ScanScope \cap run.select) /\ ScanVerified \in SUBSET ScanCandidates
      /\ ScanRemoved \in SUBSET (ScanScope \cap run.select)
    BY DEF ScanCandidates, ScanVerified, ScanRemoved
<1>5. /\ pc \in {"prove", "spool", "finish"} /\ plan \in SUBSET Files /\ seen \in [Files -> Content]
      /\ ScanVerified \in SUBSET Files
    BY <1>1, <1>3, <1>4, Tokens
<1>6. \A f \in Files : seen[f] = IF f \in ScanCandidates \ ScanVerified THEN disk[f] ELSE 0
    OBVIOUS
<1> HIDE DEF pc, plan, seen
<1>7. /\ run' \in Run /\ run'.pc = pc /\ SameSync /\ run'.scope = ScanScope /\ run'.verified = ScanVerified
      /\ run'.plan = plan /\ run'.seen = seen
    BY <1>1, <1>2, <1>3, <1>5, ZenonT(60) DEF Run, SameSync
<1>8. run'.reset = run.reset /\ run'.changed = run.changed /\ run'.fresh = run.fresh
    BY <1>1, <1>2, ZenonT(60) DEF Run
<1>9. TypeOK'
    BY <1>2, <1>7 DEF TypeOK, Watches, OutboxRow, catalog, cached, captures, bounds
<1> QED
    BY <1>1, <1>2, <1>6, <1>7, <1>8, <1>9 DEF pc, plan, Discovered

Proved ==
    /\ run.pc = "prove"
    /\ run'.pc = (IF run.plan = {} THEN "finish" ELSE "spool") /\ SameSync
    /\ run'.reset = run.reset /\ run'.changed = run.changed /\ run'.fresh = run.fresh
    /\ run'.scope = run.scope /\ run'.verified = {} /\ run'.plan = run.plan /\ run'.seen = run.seen
    /\ \E new \in SUBSET run.verified :
          /\ Queued' = Queued \cup new /\ (Open => Open')
          /\ \A f \in new : /\ head[f].seq = cat[f].seq
                            /\ proof'[f].seq = cat[f].seq /\ proof'[f].content = cat[f].content
          /\ \A f \in Files \ new : proof'[f] = proof[f]
    /\ \A f \in Files :
          IF f \in run.verified /\ lhead[f].seq <= cat[f].seq
          THEN /\ lhead'[f].seq = cat[f].seq /\ lhead'[f].content = cat[f].content
               /\ lhead'[f].dirty = FALSE
          ELSE lhead'[f] = lhead[f]
    /\ skipped' = skipped \cup {f \in run.verified : OtherwiseIgnored(f, run.policy)}
    /\ UNCHANGED <<disk, dir, follow, head, tx, rev, chg, denied, policy, cached, jour>>

LEMMA BootstrapProofsFacts ==
    ASSUME TypeOK, BootstrapProofs
    PROVE  TypeOK' /\ (EndStep \/ Proved)
<1> DEFINE asked == {f \in run.verified : ~cat[f].proved}
           version == [f \in Files |-> [seq |-> cat[f].seq, content |-> cat[f].content]]
           new == {f \in asked : proof[f].seq < version[f].seq}
           pc == IF run.plan = {} THEN "finish" ELSE "spool"
           receipts == [f \in Files |-> IF f \in run.verified /\ lhead[f].seq <= cat[f].seq
                          THEN [seq |-> cat[f].seq, content |-> cat[f].content, dirty |-> FALSE]
                          ELSE lhead[f]]
<1>1. /\ run \in Run /\ run.pc = "prove" /\ run.verified \in SUBSET Files
      /\ lhead \in [Files -> LocalHead] /\ cat \in [Files -> Fetched]
    BY RunFields, TypeFacts DEF BootstrapProofs
<1>2. \/ Fail("stale proof") /\ UNCHANGED <<disk, catalog, cached, captures, bounds>>
      \/ /\ \A f \in asked : head[f].seq = cat[f].seq
         /\ proof' = [f \in Files |-> IF f \in new THEN version[f] ELSE proof[f]]
         /\ outbox' = outbox \o Rows(new)
         /\ lhead' = receipts
         /\ skipped' = skipped \cup {f \in run.verified : OtherwiseIgnored(f, run.policy)}
         /\ run' = [run EXCEPT !.pc = pc, !.verified = {}]
         /\ UNCHANGED <<disk, dir, follow, head, tx, rev, chg, denied, policy, cached, jour, bounds>>
    BY DEF BootstrapProofs, Prove, catalog, captures
<1>3. CASE Fail("stale proof") /\ UNCHANGED <<disk, catalog, cached, captures, bounds>>
  <2>1. EndStep
      BY <1>3, FailEnds, KeyFacts DEF EndStep
  <2>2. TypeOK'
      BY <1>3, <2>1, EndTypes, TypeFacts DEF bounds
  <2> QED
      BY <1>1, <2>1, <2>2
<1>4. CASE /\ \A f \in asked : head[f].seq = cat[f].seq
           /\ proof' = [f \in Files |-> IF f \in new THEN version[f] ELSE proof[f]]
           /\ outbox' = outbox \o Rows(new)
           /\ lhead' = receipts
           /\ skipped' = skipped \cup {f \in run.verified : OtherwiseIgnored(f, run.policy)}
           /\ run' = [run EXCEPT !.pc = pc, !.verified = {}]
           /\ UNCHANGED <<disk, dir, follow, head, tx, rev, chg, denied, policy, cached, jour, bounds>>
  <2>1. \A f \in Files : cat[f].seq \in Nat /\ cat[f].content \in Content
      BY <1>1 DEF Fetched
  <2>2. /\ version \in [Files -> Version] /\ new \in SUBSET Files /\ new \in SUBSET run.verified
        /\ \A f \in Files : version[f].seq = cat[f].seq /\ version[f].content = cat[f].content
        /\ \A f \in new : head[f].seq = cat[f].seq
      BY <1>1, <1>4, <2>1 DEF Version
  <2>3. receipts \in [Files -> LocalHead]
    <3>1. \A f \in Files : [seq |-> cat[f].seq, content |-> cat[f].content, dirty |-> FALSE] \in LocalHead
        BY <2>1 DEF LocalHead
    <3> QED
        BY <1>1, <3>1
  <2>4. \A f \in Files :
           IF f \in run.verified /\ lhead[f].seq <= cat[f].seq
           THEN lhead'[f].seq = cat[f].seq /\ lhead'[f].content = cat[f].content /\ lhead'[f].dirty = FALSE
           ELSE lhead'[f] = lhead[f]
      BY <1>4
  <2>5. pc \in {"finish", "spool"}
      OBVIOUS
  <2> HIDE DEF asked, version, new, pc, receipts
  <2>6. /\ proof' \in [Files -> Version] /\ outbox' \in Seq(OutboxRow)
        /\ Queued' = Queued \cup new /\ (Open => Open')
        /\ \A f \in new : proof'[f] = version[f]
        /\ \A f \in Files \ new : proof'[f] = proof[f]
      BY <1>4, <2>2, ProveFacts
  <2>7. run' \in Run /\ run'.pc = pc /\ SameSync /\ run'.verified = {}
      BY <1>1, <1>4, <2>5, ZenonT(60) DEF Run, SameSync
  <2>8. /\ run'.reset = run.reset /\ run'.changed = run.changed /\ run'.fresh = run.fresh
        /\ run'.scope = run.scope /\ run'.plan = run.plan /\ run'.seen = run.seen
      BY <1>1, <1>4, ZenonT(60) DEF Run
  <2>9. skipped' \in SUBSET Files /\ lhead' \in [Files -> LocalHead]
      BY <1>1, <1>4, <2>3, TypeFacts
  <2>10. TypeOK'
      BY <1>4, <2>6, <2>7, <2>9 DEF TypeOK, Watches, OutboxRow, cached, bounds
  <2>11. /\ Queued' = Queued \cup new /\ (Open => Open')
         /\ \A f \in new : /\ head[f].seq = cat[f].seq
                           /\ proof'[f].seq = cat[f].seq /\ proof'[f].content = cat[f].content
         /\ \A f \in Files \ new : proof'[f] = proof[f]
      BY <2>2, <2>6
  <2>12. run'.pc = (IF run.plan = {} THEN "finish" ELSE "spool")
      BY <2>7 DEF pc
  <2> QED
      BY <1>1, <1>4, <2>2, <2>4, <2>7, <2>8, <2>10, <2>11, <2>12 DEF Proved
<1> QED
    BY <1>2, <1>3, <1>4

Moved == {f \in run.plan : run.seen[f] # 0 /\ disk[f] # run.seen[f]}

Spooled ==
    /\ run.pc = "spool"
    /\ run'.pc = "register" /\ SameSync /\ run'.fresh
    /\ run'.reset = run.reset /\ run'.changed = run.changed
    /\ run'.scope = run.scope /\ run'.verified = run.verified /\ run'.plan = run.plan
    /\ run'.seen = Each(0)
    /\ \A f \in run.plan : run.seen[f] # 0 => disk[f] # 0
    /\ jour'.files = run.plan /\ jour'.accepted = Each(0) /\ jour'.policy = run.policy
    /\ jour'.dirty \in SUBSET Moved
    /\ \A f \in Files : jour'.content[f] =
          IF f \notin run.plan THEN 0
          ELSE IF f \in Moved \ jour'.dirty THEN disk[f] ELSE run.seen[f]
    /\ UNCHANGED <<disk, dir, follow, catalog, cached, lhead, skipped>>

LEMMA SpoolFacts ==
    ASSUME TypeOK, Spool
    PROVE  TypeOK' /\ (EndStep \/ Spooled)
<1>1. /\ run \in Run /\ run.pc = "spool" /\ run.plan \in SUBSET Files /\ run.seen \in [Files -> Content]
      /\ disk \in [Files -> Content] /\ cat \in [Files -> Fetched] /\ run.policy \in {0, 1}
    BY RunFields, TypeFacts DEF Spool
<1>2. CASE Fail("vanished") /\ UNCHANGED <<disk, catalog, cached, captures, bounds>>
  <2>1. EndStep
      BY <1>2, FailEnds, KeyFacts DEF EndStep
  <2>2. TypeOK'
      BY <1>2, <2>1, EndTypes, TypeFacts DEF bounds
  <2> QED
      BY <1>1, <2>1, <2>2
<1>3. ASSUME {f \in run.plan : run.seen[f] # 0 /\ disk[f] = 0} = {}, NEW dirty \in SUBSET Moved,
             jour' = [files |-> run.plan, prev |-> [f \in Files |-> cat[f].seq],
                      content |-> [f \in Files |-> IF f \notin run.plan THEN 0 ELSE
                                     IF f \in Moved \ dirty THEN disk[f] ELSE run.seen[f]],
                      dirty |-> dirty, accepted |-> Each(0), policy |-> run.policy],
             run' = [run EXCEPT !.pc = "register", !.fresh = TRUE, !.seen = Each(0)],
             UNCHANGED <<disk, dir, follow, catalog, cached, lhead, skipped, bounds>>
      PROVE  TypeOK' /\ Spooled
  <2> DEFINE prev == [f \in Files |-> cat[f].seq]
             content == [f \in Files |-> IF f \notin run.plan THEN 0 ELSE
                           IF f \in Moved \ dirty THEN disk[f] ELSE run.seen[f]]
  <2>1. prev \in [Files -> Nat]
    <3>1. \A f \in Files : cat[f].seq \in Nat
        BY <1>1 DEF Fetched
    <3> QED
        BY <3>1
  <2>2. content \in [Files -> Content] /\ dirty \in SUBSET Files
      BY <1>1, Tokens DEF Moved
  <2>3. \A f \in Files : content[f] =
           IF f \notin run.plan THEN 0 ELSE IF f \in Moved \ dirty THEN disk[f] ELSE run.seen[f]
      OBVIOUS
  <2>4. jour' = [files |-> run.plan, prev |-> prev, content |-> content, dirty |-> dirty,
                 accepted |-> Each(0), policy |-> run.policy]
      BY <1>3
  <2> HIDE DEF prev, content
  <2>5. jour' \in Journal
      BY <1>1, <2>1, <2>2, <2>4, EachTyped DEF Journal
  <2>6. /\ jour'.files = run.plan /\ jour'.accepted = Each(0) /\ jour'.policy = run.policy
        /\ jour'.dirty = dirty /\ jour'.content = content
      BY <2>4
  <2>7. run' \in Run /\ run'.pc = "register" /\ SameSync /\ run'.fresh /\ run'.seen = Each(0)
      BY <1>1, <1>3, EachTyped, ZenonT(60) DEF Run, SameSync
  <2>8. /\ run'.reset = run.reset /\ run'.changed = run.changed
        /\ run'.scope = run.scope /\ run'.verified = run.verified /\ run'.plan = run.plan
      BY <1>1, <1>3, ZenonT(60) DEF Run
  <2>9. TypeOK'
      BY <1>3, <2>5, <2>7 DEF TypeOK, Watches, OutboxRow, catalog, cached, bounds
  <2> QED
      BY <1>1, <1>3, <2>3, <2>6, <2>7, <2>8, <2>9 DEF Spooled
<1> QED
    BY <1>1, <1>2, <1>3 DEF Spool, Moved, captures

Finished ==
    /\ run.pc = "finish" /\ run' = Off
    /\ IF PolicyChanged \/ run.changed # {} THEN stamp' = run.policy /\ pend' = {}
       ELSE UNCHANGED <<stamp, pend>>
    /\ follow'.on = follow.on /\ follow'.events = follow.events
    /\ follow'.installing = follow.installing /\ (follow.full => follow'.full)
    /\ ~follow'.full => follow.paths \subseteq follow'.paths
    /\ skipped' = (skipped \ (run.scope \cap run.select)) \cup
                  ((IF PolicyChanged THEN Files ELSE run.changed) \ run.select)
    /\ UNCHANGED <<disk, dir, catalog, cat, cursor, lhead, jour>>

LEMMA FinishFacts ==
    ASSUME TypeOK, Finish
    PROVE  TypeOK' /\ Finished
<1> DEFINE calm == [follow EXCEPT !.key = "", !.same = 0]
<1>1. /\ run \in Run /\ run.pc = "finish" /\ follow \in Follow /\ run.dirty \in SUBSET Files
      /\ run.changed \in SUBSET Files /\ run.policy \in {0, 1} /\ run.dirty \in SUBSET Paths
    BY RunFields, TypeFacts DEF Finish, Paths
<1>2. /\ calm \in Follow /\ calm.on = follow.on /\ calm.events = follow.events
      /\ calm.installing = follow.installing /\ calm.full = follow.full /\ calm.paths = follow.paths
  <2>1. "" \in Keys /\ 0 \in Nat
      BY DEF Keys
  <2> QED
      BY <1>1, <2>1, ZenonT(60) DEF Follow
<1>3. /\ run' = Off
      /\ IF PolicyChanged \/ run.changed # {} THEN stamp' = run.policy /\ pend' = {}
         ELSE UNCHANGED <<stamp, pend>>
      /\ follow' = (IF ~run.daemon THEN follow
                    ELSE IF run.dirty = {} THEN calm ELSE Mark(calm, FALSE, run.dirty))
      /\ skipped' = (skipped \ (run.scope \cap run.select)) \cup
                    ((IF PolicyChanged THEN Files ELSE run.changed) \ run.select)
      /\ UNCHANGED <<disk, dir, catalog, cat, cursor, lhead, jour, bounds>>
    BY DEF Finish, Retried, local
<1> HIDE DEF calm
<1>4. /\ follow' \in Follow /\ follow'.on = follow.on /\ follow'.events = follow.events
      /\ follow'.installing = follow.installing /\ (follow.full => follow'.full)
      /\ ~follow'.full => follow.paths \subseteq follow'.paths
  <2>1. CASE follow' = follow
      BY <1>1, <2>1
  <2>2. CASE follow' = calm
      BY <1>2, <2>2
  <2>3. CASE follow' = Mark(calm, FALSE, run.dirty)
    <3>1. /\ Mark(calm, FALSE, run.dirty) \in Follow /\ Mark(calm, FALSE, run.dirty).on = calm.on
          /\ Mark(calm, FALSE, run.dirty).events = calm.events
          /\ Mark(calm, FALSE, run.dirty).installing = calm.installing
          /\ calm.full => Mark(calm, FALSE, run.dirty).full
          /\ ~Mark(calm, FALSE, run.dirty).full =>
               Mark(calm, FALSE, run.dirty).paths = calm.paths \cup run.dirty
        BY <1>1, <1>2, MarkSome
    <3> QED
        BY <1>2, <2>3, <3>1
  <2> QED
      BY <1>3, <2>1, <2>2, <2>3
<1>5. stamp' \in {0, 1, 2} /\ pend' \in SUBSET Files /\ skipped' \in SUBSET Files
    BY <1>1, <1>3, TypeFacts
<1>6. TypeOK'
    BY <1>3, <1>4, <1>5, OffFacts DEF TypeOK, Watches, OutboxRow, catalog, bounds
<1> QED
    BY <1>1, <1>3, <1>4, <1>6 DEF Finished

--------------------------------------------------------------------------------
(* What a step does, as far as the invariant can tell: the event loop goes  *)
(* on (Quiet), a sync ends without having finished (Gone) or starts (Begun), *)
(* a file changes (Edited), one of the other actors of the catalog acts, or  *)
(* a sync makes one of its steps.                                           *)

\* No hint is forgotten by a loop that goes on.
HintsKept == follow'.on => follow'.full \/ (follow.on /\ ~follow.full /\ Hints \subseteq Hints')

Quiet == UNCHANGED <<disk, run, catalog, cached, captures>> /\ HintsKept
Gone ==
    /\ run' = Off /\ UNCHANGED <<disk, catalog, cached, captures>> /\ HintsKept
    /\ follow'.on /\ run.daemon => follow'.full \/ (~run.full /\ run.paths \subseteq Hints')
Begun ==
    /\ run.pc = "off" /\ run'.pc = (IF jour.files = {} THEN "refresh" ELSE "register")
    /\ run'.policy = policy /\ run'.fresh = FALSE /\ run'.reset = FALSE /\ run'.changed = {}
    /\ run'.plan = {} /\ run'.scope = {} /\ run'.verified = {} /\ run'.seen = Each(0)
    /\ (run'.daemon => run'.select = Files) /\ (~run'.daemon => run'.full /\ UNCHANGED follow)
    /\ run'.daemon => run'.full \/ (~follow.full /\ Hints \subseteq Hints' \cup run'.paths)
    /\ run'.daemon => follow.on
    /\ UNCHANGED <<disk, catalog, cached, captures>>
Edited ==
    /\ HintsKept /\ UNCHANGED <<run, catalog, cached, captures>>
    /\ \E f \in Files :
          /\ disk'[f] \in 0..MaxEdits /\ \A g \in Files \ {f} : disk'[g] = disk[g]
          /\ follow'.on => follow'.full \/ f \in Below(Hints')
OtherBegan ==
    /\ Open' /\ Queued' = Queued
    /\ UNCHANGED <<disk, follow, run, head, proof, rev, chg, denied, policy, cached, captures>>
OtherCommitted ==
    /\ tx \in Files /\ tx' = 0 /\ Queued' = Queued \cup {tx}
    /\ head'[tx].seq = head[tx].seq + 1 /\ \A f \in Files \ {tx} : head'[f] = head[f]
    /\ UNCHANGED <<disk, follow, run, proof, rev, chg, denied, policy, cached, captures>>
AccessChanged ==
    UNCHANGED <<disk, follow, run, head, proof, tx, outbox, rev, chg, policy, cached, captures>>
PolicyChanges ==
    UNCHANGED <<disk, follow, run, head, proof, tx, outbox, rev, chg, denied, cached, captures>>
OtherRead ==
    /\ AdvanceCatalogChanges
    /\ UNCHANGED <<disk, follow, run, head, proof, tx, denied, policy, cached, captures>>

AnyStep ==
    \/ Quiet \/ Gone \/ Begun \/ Edited \/ OtherBegan \/ OtherCommitted \/ AccessChanged
    \/ PolicyChanges \/ OtherRead
    \/ Registered \/ Recorded \/ StartedOver \/ Requested \/ Paged \/ Discovered \/ Proved \/ Spooled
    \/ Finished

LEMMA FollowSame ==
    ASSUME TypeOK, DirNoted, UNCHANGED <<follow, dir>>
    PROVE  HintsKept /\ DirNoted'
BY DEF HintsKept, Hints, DirNoted, TypeOK, Follow

LEMMA EndsGone ==
    ASSUME TypeOK, DirNoted, EndStep
    PROVE  Gone /\ DirNoted'
<1>1. follow \in Follow /\ run \in Run
    BY TypeFacts
<1>2. CASE follow' = Stopped /\ dir' = Unwatched
    BY <1>2, StoppedFacts DEF EndStep, Ended, Gone, HintsKept, DirNoted
<1>3. CASE /\ dir' = dir /\ follow'.on = follow.on /\ follow'.events = follow.events
           /\ follow'.installing = follow.installing
           /\ follow.full => follow'.full
           /\ ~follow'.full => follow.paths \subseteq follow'.paths
           /\ run.daemon /\ run.full => follow'.full
           /\ run.daemon /\ ~follow'.full => run.paths \subseteq follow'.paths
  <2>1. ~follow'.full => Hints \subseteq Hints'
      BY <1>3 DEF Hints
  <2>2. HintsKept
      BY <1>3, <2>1 DEF HintsKept
  <2>3. run.daemon => follow'.full \/ (~run.full /\ run.paths \subseteq Hints')
      BY <1>3 DEF Hints
  <2>4. DirNoted'
      BY <1>3 DEF DirNoted
  <2> QED
      BY <2>2, <2>3, <2>4 DEF EndStep, Ended, Gone
<1> QED
    BY <1>2, <1>3 DEF EndStep, Ended

LEMMA EditedStep ==
    ASSUME TypeOK, DirNoted, NEW f \in Files, NEW content \in {0, edits + 1}, Edit(f, content)
    PROVE  TypeOK' /\ DirNoted' /\ Edited
<1>1. TypeOK'
    BY EditTypes
<1>2. /\ disk \in [Files -> Content] /\ follow \in Follow /\ dir \in Watches
      /\ disk' = [disk EXCEPT ![f] = content] /\ dir' = dir
      /\ UNCHANGED <<run, catalog, cached, captures>>
      /\ follow' = [follow EXCEPT !.events = IF Watched(f) THEN follow.events \cup {f} ELSE follow.events]
      /\ f \in InDir => dir # "none"
    BY TypeFacts DEF Edit
<1>3. content \in 0..MaxEdits
  <2>1. edits < MaxEdits
      BY DEF Edit
  <2>2. edits \in Nat /\ MaxEdits \in Nat
      BY Bounds, TypeFacts
  <2> QED
      BY <2>1, <2>2
<1> DEFINE more == IF Watched(f) THEN follow.events \cup {f} ELSE follow.events
<1>4. follow.events \subseteq more /\ (Watched(f) => f \in more) /\ more \in SUBSET Paths
    BY <1>2, FollowFields DEF Paths
<1>5. follow' = [follow EXCEPT !.events = more]
    BY <1>2
<1> HIDE DEF more
<1>6. /\ follow'.on = follow.on /\ follow'.events = more /\ follow'.installing = follow.installing
      /\ follow'.full = follow.full /\ follow'.paths = follow.paths
    BY <1>2, <1>5, ZenonT(60) DEF Follow
<1>7. Hints \subseteq Hints' /\ more \subseteq Hints'
    BY <1>4, <1>6 DEF Hints
<1>8. HintsKept
    BY <1>6, <1>7 DEF HintsKept
<1>9. DirNoted'
    BY <1>2, <1>4, <1>6 DEF DirNoted
<1>10. Hints' \in SUBSET Paths
    BY <1>1, FollowFields DEF TypeOK, Hints, Paths
<1>11. follow'.on => follow'.full \/ f \in Below(Hints')
  <2>1. CASE Watched(f)
      BY <1>4, <1>7, <1>10, <2>1, BelowFiles
  <2>2. CASE follow.on /\ ~Watched(f)
    <3>1. f \in InDir /\ dir = "new"
        BY <1>2, <2>2 DEF Watched, Watches
    <3>2. Dir \in follow.events \/ follow.full
        BY <2>2, <3>1 DEF DirNoted
    <3>3. Dir \in Hints' \/ follow'.full
        BY <1>4, <1>6, <1>7, <3>2
    <3> QED
        BY <1>10, <3>1, <3>3, BelowFiles
  <2> QED
      BY <1>6, <2>1, <2>2
<1>12. disk'[f] = content /\ \A g \in Files \ {f} : disk'[g] = disk[g]
    BY <1>2
<1> QED
    BY <1>1, <1>2, <1>3, <1>8, <1>9, <1>11, <1>12 DEF Edited

LEMMA FireStep ==
    ASSUME TypeOK, DirNoted, Fire
    PROVE  TypeOK' /\ DirNoted' /\ (Begun \/ Quiet)
<1>1. TypeOK' /\ follow.on /\ UNCHANGED <<disk, catalog, cached, captures>> /\ follow \in Follow
    BY FireFacts, TypeFacts
<1>2. follow.full \in BOOLEAN
    BY <1>1, FollowFields
<1>3. CASE run' = run /\ follow' = Stopped
    BY <1>1, <1>3, StoppedFacts DEF Quiet, HintsKept, DirNoted
<1>4. CASE /\ run' = run /\ dir' = (IF follow.full THEN Repaired ELSE dir)
           /\ follow'.on = follow.on /\ follow'.events = follow.events
           /\ follow'.installing = follow.installing
           /\ follow.full => follow'.full
           /\ ~follow'.full => follow'.paths = follow.paths
  <2>1. ~follow'.full => Hints \subseteq Hints'
      BY <1>4 DEF Hints
  <2>2. HintsKept
      BY <1>1, <1>4, <2>1 DEF HintsKept
  <2>3. DirNoted'
      BY <1>1, <1>4 DEF DirNoted
  <2> QED
      BY <1>1, <1>4, <2>2, <2>3 DEF Quiet
<1>5. CASE /\ run.pc = "off" /\ run'.pc = (IF jour.files = {} THEN "refresh" ELSE "register")
           /\ dir' = (IF follow.full THEN Repaired ELSE dir)
           /\ follow'.on = follow.on /\ follow'.events = follow.events
           /\ follow'.installing = follow.installing
           /\ run'.daemon /\ run'.select = Files
           /\ run'.full = follow.full /\ run'.paths = follow.paths
           /\ run'.policy = policy /\ run'.fresh = FALSE /\ run'.reset = FALSE /\ run'.changed = {}
           /\ run'.plan = {} /\ run'.scope = {} /\ run'.verified = {} /\ run'.seen = Each(0)
  <2>1. run'.full \/ (~follow.full /\ Hints \subseteq Hints' \cup run'.paths)
      BY <1>2, <1>5 DEF Hints
  <2>2. DirNoted'
    <3>1. follow.full => dir' # "new"
        BY <1>5 DEF Repaired
    <3> QED
        BY <1>1, <1>2, <1>5, <3>1 DEF DirNoted
  <2>3. Begun
      BY <1>1, <1>5, <2>1 DEF Begun
  <2> QED
      BY <1>1, <2>2, <2>3
<1> QED
    BY FireFacts, <1>3, <1>4, <1>5

LEMMA LoopSteps ==
    ASSUME TypeOK, DirNoted,
           \/ StartFollow \/ ObserveInstalled \/ WatcherError \/ MakeDir
           \/ \E p \in Paths : Observe(p)
           \/ \E full \in BOOLEAN : Tick(full)
    PROVE  TypeOK' /\ DirNoted' /\ Quiet
<1>0. follow \in Follow /\ follow.full \in BOOLEAN
    BY TypeFacts, FollowFields
<1>1. CASE StartFollow
    BY <1>1, StartFollowFacts DEF Quiet, HintsKept, DirNoted
<1>2. CASE ObserveInstalled
    BY <1>0, <1>2, ObserveInstalledFacts DEF Quiet, HintsKept
<1>3. CASE WatcherError
    BY <1>3, WatcherErrorFacts DEF Quiet, HintsKept, DirNoted
<1>4. CASE MakeDir
  <2>1. TypeOK'
      BY <1>4, MakeDirTypes
  <2> DEFINE more == IF follow.on THEN follow.events \cup {Dir} ELSE follow.events
  <2>2. /\ follow' = [follow EXCEPT !.events = more] /\ dir' = "new"
        /\ follow.events \subseteq more /\ (follow.on => Dir \in more)
        /\ UNCHANGED <<disk, run, catalog, cached, captures>>
      BY <1>4 DEF MakeDir
  <2> HIDE DEF more
  <2>3. /\ follow'.on = follow.on /\ follow'.events = more /\ follow'.installing = follow.installing
        /\ follow'.full = follow.full /\ follow'.paths = follow.paths
      BY <1>0, <2>2, ZenonT(60) DEF Follow
  <2>4. Hints \subseteq Hints'
      BY <2>2, <2>3 DEF Hints
  <2>5. HintsKept
      BY <2>3, <2>4 DEF HintsKept
  <2>6. DirNoted'
      BY <2>2, <2>3 DEF DirNoted
  <2> QED
      BY <2>1, <2>2, <2>5, <2>6 DEF Quiet
<1>5. ASSUME NEW p \in Paths, Observe(p)
      PROVE  TypeOK' /\ DirNoted' /\ Quiet
    BY <1>0, <1>5, ObserveFacts DEF Quiet, HintsKept
<1>6. ASSUME NEW full \in BOOLEAN, Tick(full)
      PROVE  TypeOK' /\ DirNoted' /\ Quiet
  <2>1. /\ TypeOK' /\ UNCHANGED <<disk, dir, run, catalog, cached, captures>>
        /\ follow'.on = follow.on /\ (follow.full => follow'.full) /\ follow'.events = follow.events
        /\ ~follow'.full => Hints \subseteq Hints'
      BY <1>6, TickFacts
  <2> QED
      BY <1>0, <2>1 DEF Quiet, HintsKept, DirNoted
<1> QED
    BY <1>1, <1>2, <1>3, <1>4, <1>5, <1>6

LEMMA OtherSteps ==
    ASSUME TypeOK, DirNoted, tx # 0 => Open,
           \/ SetAccess \/ SetPolicy \/ OtherCommit \/ OtherReader
           \/ \E f \in Shared : OtherBegin(f)
    PROVE  /\ TypeOK' /\ DirNoted'
           /\ OtherBegan \/ OtherCommitted \/ AccessChanged \/ PolicyChanges \/ OtherRead
<1>1. CASE SetAccess
  <2>1. AccessChanged /\ UNCHANGED <<follow, dir>>
      BY <1>1 DEF SetAccess, AccessChanged, local
  <2> QED
      BY <1>1, <2>1, PlainTypes, FollowSame
<1>2. CASE SetPolicy
  <2>1. PolicyChanges /\ UNCHANGED <<follow, dir>>
      BY <1>2 DEF SetPolicy, PolicyChanges, local
  <2> QED
      BY <1>2, <2>1, PlainTypes, FollowSame
<1>3. CASE OtherReader
  <2>1. OtherRead /\ UNCHANGED <<follow, dir>>
      BY <1>3 DEF OtherReader, OtherRead, local
  <2> QED
      BY <1>3, <2>1, OtherReaderTypes, FollowSame
<1>4. CASE OtherCommit
  <2>1. Open
      BY <1>4 DEF OtherCommit
  <2>2. PICK content \in Content :
          head' = [head EXCEPT ![tx] = [seq |-> head[tx].seq + 1, content |-> content]]
      BY <1>4, <2>1, CommitFacts
  <2>3. tx \in Files /\ tx' = 0 /\ Queued' = Queued \cup {tx}
      BY <1>4, <2>1, CommitFacts
  <2>4. head'[tx].seq = head[tx].seq + 1 /\ \A f \in Files \ {tx} : head'[f] = head[f]
      BY <2>2, <2>3, TypeFacts
  <2>5. UNCHANGED <<disk, dir, follow, run, proof, rev, chg, denied, policy, cached, captures>>
      BY <1>4 DEF OtherCommit, local
  <2>6. OtherCommitted
      BY <2>3, <2>4, <2>5 DEF OtherCommitted
  <2> QED
      BY <1>4, <2>1, <2>5, <2>6, OtherCommitTypes, FollowSame
<1>5. ASSUME NEW f \in Shared, OtherBegin(f)
      PROVE  TypeOK' /\ DirNoted' /\ OtherBegan
  <2>1. PICK content : outbox' = Append(outbox, [file |-> f, content |-> content, done |-> FALSE])
      BY <1>5 DEF OtherBegin
  <2> DEFINE row == [file |-> f, content |-> content, done |-> FALSE]
  <2>2. row.done = FALSE
      OBVIOUS
  <2>3. outbox' = Append(outbox, row)
      BY <2>1
  <2> HIDE DEF row
  <2>4. /\ Len(outbox) \in Nat /\ DOMAIN outbox = 1..Len(outbox) /\ DOMAIN outbox' = 1..(Len(outbox) + 1)
        /\ outbox'[Len(outbox) + 1] = row /\ \A i \in 1..Len(outbox) : outbox'[i] = outbox[i]
    <3>1. outbox \in Seq({outbox[i] : i \in 1..Len(outbox)} \cup {row})
      <4>1. outbox \in Seq(OutboxRow)
          BY TypeFacts
      <4>2. Len(outbox) \in Nat /\ outbox \in [1..Len(outbox) -> OutboxRow] /\ DOMAIN outbox = 1..Len(outbox)
          BY <4>1, LenProperties
      <4>3. outbox \in [1..Len(outbox) -> {outbox[i] : i \in 1..Len(outbox)} \cup {row}]
          BY <4>2
      <4> QED
          BY <4>2, <4>3, SeqDef
    <3> QED
        BY <2>3, <3>1, AppendProperties, LenProperties
  <2>5. Open'
      BY <2>2, <2>4 DEF Open
  <2>6. Committed' = Committed
      BY <2>2, <2>4 DEF Committed
  <2>7. Queued' = Queued
    <3>1. \A i \in Committed : outbox'[i] = outbox[i]
        BY <2>4 DEF Committed
    <3> QED
        BY <2>6, <3>1 DEF Queued
  <2>8. UNCHANGED <<disk, dir, follow, run, head, proof, rev, chg, denied, policy, cached, captures>>
      BY <1>5 DEF OtherBegin, local
  <2>9. OtherBegan
      BY <2>5, <2>7, <2>8 DEF OtherBegan
  <2> QED
      BY <1>5, <2>8, <2>9, OtherBeginTypes, FollowSame
<1> QED
    BY <1>1, <1>2, <1>3, <1>4, <1>5

LEMMA SyncSteps ==
    ASSUME TypeOK, DirNoted, Sync
    PROVE  TypeOK' /\ DirNoted' /\ AnyStep
<1>1. CASE Register
  <2>1. CASE EndStep
      BY <1>1, <2>1, RegisterFacts, EndsGone DEF AnyStep
  <2>2. CASE Registered
      BY <1>1, <2>2, RegisterFacts, FollowSame DEF AnyStep, Registered
  <2> QED
      BY <1>1, <2>1, <2>2, RegisterFacts
<1>2. CASE RecordCapturedProofs
  <2>1. TypeOK' /\ Recorded
      BY <1>2, RecordCapturedProofsFacts
  <2> QED
      BY <2>1, FollowSame DEF AnyStep, Recorded
<1>3. CASE CatalogReset
  <2>1. CASE EndStep
      BY <1>3, <2>1, CatalogResetFacts, EndsGone DEF AnyStep
  <2>2. CASE StartedOver
      BY <1>3, <2>2, CatalogResetFacts, FollowSame DEF AnyStep, StartedOver
  <2> QED
      BY <1>3, <2>1, <2>2, CatalogResetFacts
<1>4. CASE CatalogRequest
  <2>1. TypeOK' /\ Requested
      BY <1>4, CatalogRequestFacts
  <2> QED
      BY <2>1, FollowSame DEF AnyStep, Requested
<1>5. CASE CatalogPage
  <2>1. TypeOK' /\ Paged
      BY <1>5, CatalogPageFacts
  <2> QED
      BY <2>1, FollowSame DEF AnyStep, Paged
<1>6. CASE Scan
  <2>1. TypeOK' /\ Discovered
      BY <1>6, ScanFacts
  <2> QED
      BY <2>1, FollowSame DEF AnyStep, Discovered
<1>7. CASE BootstrapProofs
  <2>1. CASE EndStep
      BY <1>7, <2>1, BootstrapProofsFacts, EndsGone DEF AnyStep
  <2>2. CASE Proved
      BY <1>7, <2>2, BootstrapProofsFacts, FollowSame DEF AnyStep, Proved
  <2> QED
      BY <1>7, <2>1, <2>2, BootstrapProofsFacts
<1>8. CASE Spool
  <2>1. CASE EndStep
      BY <1>8, <2>1, SpoolFacts, EndsGone DEF AnyStep
  <2>2. CASE Spooled
      BY <1>8, <2>2, SpoolFacts, FollowSame DEF AnyStep, Spooled
  <2> QED
      BY <1>8, <2>1, <2>2, SpoolFacts
<1>9. CASE Finish
  <2>1. TypeOK' /\ Finished
      BY <1>9, FinishFacts
  <2>2. DirNoted'
      BY <2>1 DEF Finished, DirNoted
  <2> QED
      BY <2>1, <2>2 DEF AnyStep
<1> QED
    BY <1>1, <1>2, <1>3, <1>4, <1>5, <1>6, <1>7, <1>8, <1>9 DEF Sync

LEMMA Steps ==
    ASSUME TypeOK, DirNoted, tx # 0 => Open, [Next]_vars
    PROVE  TypeOK' /\ DirNoted' /\ AnyStep
<1>1. CASE UNCHANGED vars
  <2>1. UNCHANGED <<disk, dir, follow, run, catalog, cached, captures, bounds>>
      BY <1>1 DEF vars, local
  <2>2. TypeOK' /\ Quiet /\ DirNoted'
      BY <2>1, FollowSame, LocalTypes, TypeFacts DEF Quiet
  <2> QED
      BY <2>2 DEF AnyStep
<1>2. CASE Sync
    BY <1>2, SyncSteps
<1>3. CASE Observer \/ StartFollow \/ MakeDir \/ WatcherError \/ \E full \in BOOLEAN : Tick(full)
    BY <1>3, LoopSteps DEF Observer, AnyStep
<1>4. CASE Fire
    BY <1>4, FireStep DEF AnyStep
<1>5. CASE SetAccess \/ SetPolicy \/ OtherCommit \/ OtherReader \/ \E f \in Shared : OtherBegin(f)
    BY <1>5, OtherSteps DEF AnyStep
<1>6. CASE LoseRequest
    BY <1>6, LoseRequestFacts, EndsGone DEF AnyStep
<1>7. CASE Crash
  <2>1. /\ TypeOK' /\ UNCHANGED <<disk, catalog, cached, captures>>
        /\ \/ run' = Off /\ ~run.daemon /\ UNCHANGED <<follow, dir>>
           \/ follow' = Stopped /\ run' = IF run.daemon THEN Off ELSE run
      BY <1>7, CrashFacts
  <2>2. CASE run' = Off /\ ~run.daemon /\ UNCHANGED <<follow, dir>>
      BY <2>1, <2>2, FollowSame DEF AnyStep, Gone
  <2>3. CASE follow' = Stopped /\ run' = IF run.daemon THEN Off ELSE run
    <3>1. DirNoted' /\ HintsKept /\ ~follow'.on
        BY <2>3, StoppedFacts DEF DirNoted, HintsKept
    <3>2. Gone \/ Quiet
        BY <2>1, <2>3, <3>1 DEF Gone, Quiet
    <3> QED
        BY <2>1, <3>1, <3>2 DEF AnyStep
  <2> QED
      BY <2>1, <2>2, <2>3
<1>8. ASSUME NEW f \in Files, NEW content \in {0, edits + 1}, Edit(f, content)
      PROVE  TypeOK' /\ DirNoted' /\ AnyStep
    BY <1>8, EditedStep DEF AnyStep
<1>9. ASSUME NEW select \in Selections, UserSync(select)
      PROVE  TypeOK' /\ DirNoted' /\ AnyStep
  <2>1. UNCHANGED <<disk, dir, follow, catalog, cached, captures>>
      BY <1>9, UserSyncFacts DEF local
  <2>2. Begun
      BY <1>9, <2>1, UserSyncFacts DEF Begun
  <2> QED
      BY <1>9, <2>1, <2>2, UserSyncFacts, FollowSame DEF AnyStep
<1> QED
    BY <1>1, <1>2, <1>3, <1>4, <1>5, <1>6, <1>7, <1>8, <1>9 DEF Next, Daemon, Environment

--------------------------------------------------------------------------------
(* The invariant.                                                           *)

Local == 0..MaxEdits

\* The bytes this client holds, journals and proves are local ones.
DataOK ==
    /\ \A f \in Files : /\ disk[f] \in Local /\ jour.content[f] \in Local /\ run.seen[f] \in Local
                        /\ proof[f].content \in Local
    /\ run.pc = "prove" => \A f \in run.verified : cat[f].content \in Local

CatchesUp ==
    \A f \in Files \ cursor.access : cursor.set /\ head[f].seq # 0 /\ cat[f] # Current(f) =>
        chg[f] > cursor.rev \/ f \in Queued

\* The open transaction has its row, and the feed reaches every version: from the
\* queue, from a revision after the cursor, or in the cached catalog.
FeedOK ==
    /\ tx # 0 => Open
    /\ cursor.rev <= rev
    /\ \A f \in Files : head[f].seq # 0 => chg[f] > 0 \/ f \in Queued
    /\ ~cursor.set => cursor = NoCursor /\ cat = Each(NotFetched) /\ pend = {}
    /\ run.pc = "page" => run.rev <= rev /\ (cursor.set => cursor.access = run.access)
    /\ CatchesUp

\* Nobody is ahead of the catalog's head.
SeqOK ==
    /\ \A f \in Files : /\ cat[f].seq <= head[f].seq
                        /\ cat[f].seq = head[f].seq => cat[f].content = head[f].content
                        /\ lhead[f].seq <= head[f].seq
                        /\ head[f].seq = 0 => head[f].content = 0
    /\ \A f \in jour.files : /\ jour.accepted[f] <= head[f].seq
                             /\ jour.accepted[f] # 0 /\ jour.accepted[f] = head[f].seq =>
                                  head[f].content = jour.content[f]
    /\ \A f \in pend : cat[f].seq # 0 /\ f \notin cursor.access

\* The feed has given this sync what it knew when it asked.
Fetching == run.pc \in {"page", "scan"} \/ Scanned

RunOK ==
    /\ run.pc \in {"refresh", "page", "scan", "prove", "spool", "finish"} => jour.files = {}
    /\ run.daemon => run.select = Files
    /\ run.pc # "off" /\ ~run.daemon => run.full
    /\ run.pc # "off" => run.changed \subseteq pend
    /\ Fetching => pend \subseteq run.changed
    /\ run.fresh => run.pc \in {"register", "proofs", "finish"}

\* The plan of a sync: a part of what it looks at, and of what it was told to look at.
PlanOK ==
    /\ run.plan \subseteq run.scope \cap run.select
    /\ run.verified \subseteq (run.scope \cap run.select) \ run.plan
    /\ Scanned => /\ ScanFull => run.scope = Files
                  /\ Below(run.paths) \subseteq run.scope
                  /\ \A f \in run.changed \ run.scope : lhead[f].seq = cat[f].seq /\ ~lhead[f].dirty
    /\ run.pc \in {"prove", "spool"} => \A f \in run.plan : run.seen[f] # 0 => f \notin Ignored(run.policy)
    /\ run.fresh /\ run.pc \in {"register", "proofs"} => jour.files = run.plan /\ jour.policy = run.policy
    /\ run.fresh /\ run.pc = "register" => \A f \in run.plan : jour.accepted[f] = 0
    /\ run.fresh /\ run.pc \in {"proofs", "finish"} => \A f \in run.plan : cat[f].seq < head[f].seq
    /\ ~run.fresh /\ run.pc = "finish" => run.plan = {}

\* A file whose receipt is the head's: when the last page is asked for, its change has
\* a revision; when the files are looked at, the cached catalog shows it.
FreshOK ==
    \A f \in Files : head[f].seq # 0 /\ lhead[f].seq = head[f].seq =>
        /\ run.pc = "page" /\ ~run.more => f \notin Queued /\ chg[f] <= run.rev
        /\ run.pc = "scan" => f \in cursor.access \/ cat[f].seq = head[f].seq
        /\ Scanned => f \in run.plan \/ f \in cursor.access \/ cat[f].seq = head[f].seq

LEMMA SameSyncFacts ==
    ASSUME TypeOK
    PROVE  /\ \A f \in Files : /\ head[f].seq \in Nat /\ cat[f].seq \in Nat /\ lhead[f].seq \in Nat
                               /\ jour.accepted[f] \in Nat /\ chg[f] \in 0..rev /\ chg[f] \in Nat
           /\ rev \in Nat /\ cursor.rev \in Nat /\ run.rev \in Nat
           /\ jour.files \in SUBSET Files /\ cursor.access \in SUBSET Files
<1>1. /\ head \in [Files -> Version] /\ cat \in [Files -> Fetched] /\ lhead \in [Files -> LocalHead]
      /\ jour \in Journal /\ chg \in [Files -> 0..rev] /\ rev \in Nat /\ cursor \in Cursor /\ run \in Run
    BY TypeFacts
<1>2. \A f \in Files : head[f].seq \in Nat /\ cat[f].seq \in Nat /\ lhead[f].seq \in Nat
    BY <1>1 DEF Version, Fetched, LocalHead
<1>3. \A f \in Files : jour.accepted[f] \in Nat /\ chg[f] \in 0..rev /\ chg[f] \in Nat
    BY <1>1, JourFields
<1>4. cursor.rev \in Nat /\ cursor.access \in SUBSET Files
    BY <1>1 DEF Cursor
<1> QED
    BY <1>1, <1>2, <1>3, <1>4, RunFields, JourFields

LEMMA InitInv == Init => DataOK /\ FeedOK /\ SeqOK /\ RunOK /\ PlanOK /\ FreshOK
<1> SUFFICES ASSUME Init PROVE DataOK /\ FeedOK /\ SeqOK /\ RunOK /\ PlanOK /\ FreshOK
    OBVIOUS
<1>1. \A f \in Files : /\ head[f].seq = 0 /\ head[f].content = 0 /\ proof[f].content = 0
                       /\ lhead[f].seq = 0 /\ cat[f].seq = 0 /\ cat[f].content = 0
                       /\ disk[f] \in {0, 1}
    BY NoneFetched DEF Init, Each, NoVersion
<1>2. /\ run = Off /\ jour = NoJournal /\ tx = 0 /\ rev = 0 /\ cursor = NoCursor /\ pend = {}
      /\ cat = Each(NotFetched)
    BY DEF Init
<1>3. DataOK
  <2>1. 0 \in Local /\ 1 \in Local
      BY Bounds DEF Local
  <2> QED
      BY <1>1, <1>2, <2>1, OffFacts, NoJournalFacts, EachTyped DEF DataOK
<1>4. FeedOK
    BY <1>1, <1>2, NoneFetched, OffFacts DEF FeedOK, CatchesUp
<1>5. SeqOK
    BY <1>1, <1>2, NoJournalFacts DEF SeqOK
<1>6. ~Scanned /\ ~Fetching
    BY <1>2, OffFacts DEF Scanned, Fetching
<1>7. RunOK
    BY <1>2, <1>6, OffFacts DEF RunOK
<1>8. PlanOK
    BY <1>2, <1>6, OffFacts DEF PlanOK
<1>9. FreshOK
    BY <1>1 DEF FreshOK
<1> QED
    BY <1>3, <1>4, <1>5, <1>7, <1>8, <1>9

LEMMA DataStep ==
    ASSUME TypeOK, DataOK, AnyStep
    PROVE  DataOK'
<1> USE DEF DataOK
<1>0. 0 \in Local
    BY Bounds DEF Local
<1>1. CASE Quiet \/ OtherBegan \/ OtherCommitted \/ AccessChanged \/ PolicyChanges \/ OtherRead
    BY <1>1 DEF Quiet, OtherBegan, OtherCommitted, AccessChanged, PolicyChanges, OtherRead,
                catalog, cached, captures
<1>2. CASE Gone
    BY <1>0, <1>2, OffFacts, EachTyped DEF Gone, catalog, cached, captures
<1>3. CASE Begun
    BY <1>0, <1>3, EachTyped DEF Begun, catalog, cached, captures
<1>4. CASE Edited
    BY <1>4 DEF Edited, Local, catalog, cached, captures
<1>5. CASE Registered
    BY <1>5 DEF Registered, cached
<1>6. CASE Recorded
  <2>1. jour.files \in SUBSET Files /\ jour'.content = Each(0) /\ run'.pc # "prove" /\ run'.seen = run.seen
        /\ disk' = disk
      BY <1>6, JourFields, TypeFacts, NoJournalFacts DEF Recorded
  <2>2. \A f \in Files : proof'[f].content = proof[f].content \/ proof'[f].content = jour.content[f]
      BY <1>6, <2>1 DEF Recorded
  <2> QED
      BY <1>0, <2>1, <2>2, EachTyped
<1>7. CASE StartedOver \/ Requested \/ Paged
    BY <1>7 DEF StartedOver, Requested, Paged, catalog, cached, captures
<1>8. CASE Discovered
  <2>1. \A f \in run'.verified : disk[f] = cat[f].content /\ f \in Files
    <3>1. run'.verified = ScanVerified /\ run.select \in SUBSET Files
        BY <1>8, RunFields, TypeFacts DEF Discovered
    <3> QED
        BY <3>1 DEF ScanVerified, ScanCandidates, Verified
  <2>2. \A f \in Files : run'.seen[f] = disk[f] \/ run'.seen[f] = 0
      BY <1>8 DEF Discovered
  <2> QED
      BY <1>0, <1>8, <2>1, <2>2 DEF Discovered, catalog, cached, captures
<1>9. CASE Proved
  <2>1. run.pc = "prove" /\ run'.pc # "prove" /\ run'.seen = run.seen /\ UNCHANGED <<disk, jour, cat>>
      BY <1>9 DEF Proved, cached
  <2>2. \A f \in Files : \/ proof'[f].content = proof[f].content
                         \/ f \in run.verified /\ proof'[f].content = cat[f].content
      BY <1>9 DEF Proved
  <2> QED
      BY <2>1, <2>2
<1>10. CASE Spooled
  <2>1. /\ run'.pc # "prove" /\ run'.seen = Each(0) /\ UNCHANGED <<disk, proof>>
        /\ \A f \in Files : jour'.content[f] \in {0, disk[f], run.seen[f]}
      BY <1>10 DEF Spooled, catalog
  <2> QED
      BY <1>0, <2>1, EachTyped
<1>11. CASE Finished
    BY <1>0, <1>11, OffFacts, EachTyped DEF Finished, catalog
<1> QED
    BY <1>1, <1>2, <1>3, <1>4, <1>5, <1>6, <1>7, <1>8, <1>9, <1>10, <1>11 DEF AnyStep

\* When the current version, the revision and the queue of every file stay, so does
\* what the feed promises of the cached catalog.
LEMMA FeedSame ==
    ASSUME FeedOK, UNCHANGED <<head, proof, chg, rev, cat, cursor, pend>>, Queued \subseteq Queued',
           tx' # 0 => Open',
           run'.pc = "page" => run'.rev <= rev /\ (cursor.set => cursor.access = run'.access)
    PROVE  FeedOK'
<1>1. \A f \in Files : Current(f)' = Current(f)
    BY DEF Current
<1>2. CatchesUp'
    BY <1>1 DEF FeedOK, CatchesUp
<1> QED
    BY <1>2 DEF FeedOK

\* Revisions given out, to this sync or to another reader.
LEMMA FeedAdvances ==
    ASSUME TypeOK, FeedOK, AdvanceCatalogChanges, UNCHANGED <<head, proof, tx, cat, cursor, pend>>,
           run'.pc = "page" => run'.rev <= rev' /\ (cursor.set => cursor.access = run'.access)
    PROVE  FeedOK'
<1>1. /\ rev' \in Nat /\ rev <= rev' /\ ChangedFiles \in SUBSET Files
      /\ \A f \in ChangedFiles : chg'[f] > rev
      /\ \A f \in Files \ ChangedFiles : chg'[f] = chg[f]
      /\ Queued \subseteq Queued' \cup ChangedFiles
      /\ Open => Open'
      /\ chg' \in [Files -> 0..rev']
    BY AdvanceFacts, TypeFacts
<1>2. /\ rev \in Nat /\ cursor.rev \in Nat /\ cursor.rev <= rev
      /\ \A f \in Files : chg[f] \in Nat /\ chg'[f] \in Nat
    BY <1>1, SameSyncFacts DEF FeedOK
<1>3. \A f \in Files : Current(f)' = Current(f)
    BY DEF Current
<1>4. \A f \in Files : f \in ChangedFiles => chg'[f] > cursor.rev /\ chg'[f] > 0
    BY <1>1, <1>2
<1>5. CatchesUp'
    BY <1>1, <1>3, <1>4 DEF FeedOK, CatchesUp
<1>6. \A f \in Files : head'[f].seq # 0 => chg'[f] > 0 \/ f \in Queued'
    BY <1>1, <1>4 DEF FeedOK
<1>7. cursor'.rev <= rev'
    BY <1>1, <1>2
<1> QED
    BY <1>1, <1>5, <1>6, <1>7 DEF FeedOK

\* A step that changes heads or proofs puts their files into the queue.
LEMMA FeedQueued ==
    ASSUME FeedOK, UNCHANGED <<chg, rev, cat, cursor, pend>>, NEW new, Queued' = Queued \cup new,
           \A f \in Files \ new : head'[f] = head[f] /\ proof'[f] = proof[f],
           tx' # 0 => Open', run'.pc = "page" => run.pc = "page",
           run.pc = "page" => run'.rev = run.rev /\ run'.access = run.access
    PROVE  FeedOK'
<1>1. \A f \in Files \ new : Current(f)' = Current(f)
    BY DEF Current
<1>2. CatchesUp'
    BY <1>1 DEF FeedOK, CatchesUp
<1>3. \A f \in Files : head'[f].seq # 0 => chg'[f] > 0 \/ f \in Queued'
    BY DEF FeedOK
<1> QED
    BY <1>2, <1>3 DEF FeedOK

LEMMA FeedPaged ==
    ASSUME TypeOK, FeedOK, Paged
    PROVE  FeedOK'
<1>1. /\ run.pc = "page" /\ run'.pc # "page" /\ cursor'.set /\ cursor'.access = run.access
      /\ cursor'.rev = PageCursor
      /\ \A f \in Page \ run.access : cat'[f] = Current(f)
      /\ \A f \in Files \ (Page \ run.access) : cat'[f] = cat[f]
      /\ UNCHANGED <<head, proof, tx, outbox, rev, chg>>
    BY DEF Paged, catalog
<1>2. /\ InRange \in SUBSET Files /\ Page \in SUBSET InRange
      /\ PageCursor \in Nat /\ PageCursor <= run.rev
      /\ \A f \in InRange \ Page : PageCursor < chg[f]
    BY PageFacts
<1>3. Queued' = Queued /\ (Open => Open') /\ \A f \in Files : Current(f)' = Current(f)
    BY <1>1 DEF Queued, Committed, Open, Current
<1>4. /\ rev \in Nat /\ run.rev \in Nat /\ cursor.rev \in Nat /\ \A f \in Files : chg[f] \in Nat
      /\ run.rev <= rev
    BY <1>1, SameSyncFacts DEF FeedOK
<1>5. ASSUME NEW f \in Files \ cursor'.access, head[f].seq # 0, cat'[f] # Current(f)
      PROVE  chg[f] > PageCursor \/ f \in Queued
  <2>1. f \notin Page /\ cat'[f] = cat[f] /\ f \notin run.access
      BY <1>1, <1>5
  <2>2. CASE f \in InRange
      BY <1>2, <2>1, <2>2, <1>4
  <2>3. CASE chg[f] > run.rev
      BY <1>2, <1>4, <2>3
  <2>4. CASE chg[f] <= cursor.rev
    <3>1. CASE cursor.set
      <4>1. f \notin cursor.access
          BY <1>1, <2>1, <3>1 DEF FeedOK
      <4>2. chg[f] > cursor.rev \/ f \in Queued
          BY <1>5, <2>1, <3>1, <4>1 DEF FeedOK, CatchesUp
      <4> QED
          BY <1>4, <2>4, <4>2
    <3>2. CASE ~cursor.set
      <4>1. cursor.rev = 0
          BY <3>2, NoneFetched DEF FeedOK
      <4>2. ~(chg[f] > 0)
          BY <1>4, <2>4, <4>1
      <4> QED
          BY <1>5, <4>2 DEF FeedOK
    <3> QED
        BY <3>1, <3>2
  <2> QED
      BY <1>4, <1>5, <2>2, <2>3, <2>4 DEF InRange
<1>6. CatchesUp'
    BY <1>1, <1>3, <1>5 DEF CatchesUp
<1>7. cursor'.rev <= rev'
    BY <1>1, <1>2, <1>4
<1> QED
    BY <1>1, <1>3, <1>6, <1>7 DEF FeedOK

LEMMA FeedStep ==
    ASSUME TypeOK, FeedOK, AnyStep
    PROVE  FeedOK'
<1>0. outbox' = outbox => Queued' = Queued /\ (Open => Open')
    BY DEF Queued, Committed, Open
<1>1. CASE Quiet
    BY <1>0, <1>1, FeedSame DEF Quiet, FeedOK, catalog, cached
<1>2. CASE Gone
    BY <1>0, <1>2, FeedSame, OffFacts DEF Gone, FeedOK, catalog, cached
<1>3. CASE Begun
    BY <1>0, <1>3, FeedSame DEF Begun, FeedOK, catalog, cached
<1>4. CASE Edited
    BY <1>0, <1>4, FeedSame DEF Edited, FeedOK, catalog, cached
<1>5. CASE OtherBegan
    BY <1>5, FeedSame DEF OtherBegan, FeedOK, cached
<1>6. CASE OtherCommitted
  <2>1. \A f \in Files \ {tx} : head'[f] = head[f] /\ proof'[f] = proof[f]
      BY <1>6 DEF OtherCommitted
  <2>2. /\ UNCHANGED <<chg, rev, cat, cursor, pend, run>> /\ Queued' = Queued \cup {tx} /\ tx' = 0
      BY <1>6 DEF OtherCommitted, cached
  <2> QED
      BY <2>1, <2>2, FeedQueued
<1>7. CASE AccessChanged \/ PolicyChanges
    BY <1>0, <1>7, FeedSame DEF AccessChanged, PolicyChanges, FeedOK, cached
<1>8. CASE OtherRead
  <2>1. /\ AdvanceCatalogChanges /\ UNCHANGED <<head, proof, tx, cat, cursor, pend, run>>
      BY <1>8 DEF OtherRead, cached
  <2>2. rev' \in Nat /\ rev <= rev' /\ rev \in Nat /\ run.rev \in Nat
      BY <2>1, AdvanceFacts, SameSyncFacts, TypeFacts
  <2>3. run'.pc = "page" => run'.rev <= rev' /\ (cursor.set => cursor.access = run'.access)
      BY <2>1, <2>2 DEF FeedOK
  <2> QED
      BY <2>1, <2>3, FeedAdvances
<1>9. CASE Registered
  <2>1. /\ \A f \in Files \ New : head'[f] = head[f] /\ proof'[f] = proof[f]
        /\ Queued' = Queued \cup New /\ (tx' # 0 => Open')
        /\ run.pc # "page" /\ run'.pc # "page" /\ UNCHANGED <<chg, rev, cat, cursor, pend>>
      BY <1>9 DEF Registered, FeedOK, cached
  <2> QED
      BY <2>1, FeedQueued
<1>10. CASE Recorded
  <2>1. PICK new \in SUBSET jour.files :
           /\ Queued' = Queued \cup new /\ (Open => Open')
           /\ \A f \in Files \ new : proof'[f] = proof[f]
      BY <1>10 DEF Recorded
  <2>2. /\ \A f \in Files \ new : head'[f] = head[f] /\ proof'[f] = proof[f]
        /\ Queued' = Queued \cup new /\ (tx' # 0 => Open')
        /\ run.pc # "page" /\ run'.pc # "page" /\ UNCHANGED <<chg, rev, cat, cursor, pend>>
      BY <1>10, <2>1 DEF Recorded, FeedOK, cached
  <2> QED
      BY <2>2, FeedQueued
<1>11. CASE StartedOver
  <2>1. /\ cursor' = NoCursor /\ cat' = Each(NotFetched) /\ pend' = {} /\ run'.pc # "page"
        /\ UNCHANGED <<head, proof, tx, outbox, rev, chg>>
      BY <1>11 DEF StartedOver, catalog
  <2>2. cursor'.rev <= rev' /\ ~cursor'.set
      BY <2>1, NoneFetched, SameSyncFacts
  <2>3. CatchesUp'
      BY <2>2 DEF CatchesUp
  <2> QED
      BY <1>0, <2>1, <2>2, <2>3 DEF FeedOK
<1>12. CASE Requested
  <2>1. /\ AdvanceCatalogChanges /\ UNCHANGED <<head, proof, tx, cat, cursor, pend>>
        /\ run'.rev = rev' /\ run'.access = denied /\ (cursor.set => cursor.access = denied)
      BY <1>12 DEF Requested, cached
  <2>2. rev' \in Nat
      BY <2>1, AdvanceFacts, TypeFacts
  <2>3. run'.pc = "page" => run'.rev <= rev' /\ (cursor.set => cursor.access = run'.access)
      BY <2>1, <2>2
  <2> QED
      BY <2>1, <2>3, FeedAdvances
<1>13. CASE Paged
    BY <1>13, FeedPaged
<1>14. CASE Discovered
    BY <1>0, <1>14, FeedSame DEF Discovered, FeedOK, catalog, cached
<1>15. CASE Proved
  <2>1. PICK new \in SUBSET run.verified :
           /\ Queued' = Queued \cup new /\ (Open => Open')
           /\ \A f \in Files \ new : proof'[f] = proof[f]
      BY <1>15 DEF Proved
  <2>2. /\ \A f \in Files \ new : head'[f] = head[f] /\ proof'[f] = proof[f]
        /\ Queued' = Queued \cup new /\ (tx' # 0 => Open')
        /\ run.pc # "page" /\ run'.pc # "page" /\ UNCHANGED <<chg, rev, cat, cursor, pend>>
      BY <1>15, <2>1 DEF Proved, FeedOK, cached
  <2> QED
      BY <2>2, FeedQueued
<1>16. CASE Spooled
    BY <1>0, <1>16, FeedSame DEF Spooled, FeedOK, catalog, cached
<1>17. CASE Finished
  <2>1. /\ run'.pc # "page" /\ UNCHANGED <<head, proof, tx, outbox, rev, chg, cat, cursor>>
        /\ pend' = {} \/ pend' = pend
      BY <1>17, OffFacts DEF Finished, catalog
  <2>2. \A f \in Files : Current(f)' = Current(f)
      BY <2>1 DEF Current
  <2>3. CatchesUp'
      BY <1>0, <2>1, <2>2 DEF FeedOK, CatchesUp
  <2> QED
      BY <1>0, <2>1, <2>3 DEF FeedOK
<1> QED
    BY <1>1, <1>2, <1>3, <1>4, <1>5, <1>6, <1>7, <1>8, <1>9, <1>10, <1>11, <1>12, <1>13, <1>14,
       <1>15, <1>16, <1>17 DEF AnyStep

\* Heads only grow and the other numbers stay.
LEMMA SeqGrows ==
    ASSUME TypeOK, SeqOK, UNCHANGED <<cat, cursor, lhead, jour>>, pend' \subseteq pend,
           \A f \in Files : head'[f] = head[f] \/ head'[f].seq = head[f].seq + 1
    PROVE  SeqOK'
<1>1. /\ \A f \in Files : /\ head[f].seq \in Nat /\ cat[f].seq \in Nat /\ lhead[f].seq \in Nat
                          /\ jour.accepted[f] \in Nat
      /\ jour.files \in SUBSET Files
    BY SameSyncFacts
<1>2. \A f \in Files : /\ cat[f].seq <= head'[f].seq
                       /\ cat[f].seq = head'[f].seq => cat[f].content = head'[f].content
                       /\ lhead[f].seq <= head'[f].seq
                       /\ head'[f].seq = 0 => head'[f].content = 0
  <2> TAKE f \in Files
  <2>1. CASE head'[f] = head[f]
      BY <2>1 DEF SeqOK
  <2>2. CASE head'[f].seq = head[f].seq + 1
      BY <1>1, <2>2 DEF SeqOK
  <2> QED
      BY <2>1, <2>2
<1>3. \A f \in jour.files : /\ jour.accepted[f] <= head'[f].seq
                            /\ jour.accepted[f] # 0 /\ jour.accepted[f] = head'[f].seq =>
                                 head'[f].content = jour.content[f]
  <2> TAKE f \in jour.files
  <2>0. f \in Files
      BY <1>1
  <2>1. CASE head'[f] = head[f]
      BY <2>1 DEF SeqOK
  <2>2. CASE head'[f].seq = head[f].seq + 1
      BY <1>1, <2>0, <2>2 DEF SeqOK
  <2> QED
      BY <2>0, <2>1, <2>2
<1> QED
    BY <1>2, <1>3 DEF SeqOK

LEMMA SeqStep ==
    ASSUME TypeOK, FeedOK, SeqOK, AnyStep
    PROVE  SeqOK'
<1>0. /\ \A f \in Files : /\ head[f].seq \in Nat /\ cat[f].seq \in Nat /\ lhead[f].seq \in Nat
                          /\ jour.accepted[f] \in Nat
      /\ jour.files \in SUBSET Files /\ cursor.access \in SUBSET Files
    BY SameSyncFacts
<1>1. CASE Quiet \/ Gone \/ Begun \/ Edited
    BY <1>1, SeqGrows DEF Quiet, Gone, Begun, Edited, catalog, cached, captures
<1>2. CASE OtherBegan \/ AccessChanged \/ PolicyChanges \/ OtherRead
    BY <1>2, SeqGrows DEF OtherBegan, AccessChanged, PolicyChanges, OtherRead, cached, captures
<1>3. CASE OtherCommitted
    BY <1>3, SeqGrows DEF OtherCommitted, cached, captures
<1>4. CASE Registered
  <2>1. /\ \A f \in New : head'[f].seq = head[f].seq + 1 /\ head'[f].content = jour.content[f]
        /\ \A f \in Files \ New : head'[f] = head[f]
        /\ jour'.files = jour.files /\ jour'.content = jour.content
        /\ \A f \in New : jour'.accepted[f] = head'[f].seq
        /\ \A f \in Files \ New : jour'.accepted[f] = jour.accepted[f]
        /\ UNCHANGED <<cat, cursor, pend, lhead>> /\ New \in SUBSET Files
      BY <1>0, <1>4 DEF Registered, cached, New
  <2>2. \A f \in Files : /\ cat[f].seq <= head'[f].seq
                         /\ cat[f].seq = head'[f].seq => cat[f].content = head'[f].content
                         /\ lhead[f].seq <= head'[f].seq
                         /\ head'[f].seq = 0 => head'[f].content = 0
    <3> TAKE f \in Files
    <3>1. CASE f \in New
        BY <1>0, <2>1, <3>1 DEF SeqOK
    <3>2. CASE f \notin New
        BY <2>1, <3>2 DEF SeqOK
    <3> QED
        BY <3>1, <3>2
  <2>3. \A f \in jour.files : /\ jour'.accepted[f] <= head'[f].seq
                              /\ jour'.accepted[f] # 0 /\ jour'.accepted[f] = head'[f].seq =>
                                   head'[f].content = jour.content[f]
    <3> TAKE f \in jour.files
    <3>1. CASE f \in New
        BY <1>0, <2>1, <3>1
    <3>2. CASE f \notin New
        BY <1>0, <2>1, <3>2 DEF SeqOK
    <3> QED
        BY <3>1, <3>2
  <2> QED
      BY <2>1, <2>2, <2>3 DEF SeqOK
<1>5. CASE Recorded
  <2>1. /\ UNCHANGED <<head, cat, cursor, pend>> /\ jour'.files = {}
        /\ \A f \in Files : lhead'[f] = lhead[f] \/ (f \in jour.files /\ lhead'[f].seq = jour.accepted[f])
      BY <1>5, NoJournalFacts DEF Recorded, cached
  <2> QED
      BY <2>1 DEF SeqOK
<1>6. CASE StartedOver
  <2>1. /\ UNCHANGED <<head, lhead, jour>> /\ cat' = Each(NotFetched) /\ pend' = {}
      BY <1>6 DEF StartedOver, catalog
  <2>2. \A f \in Files : cat'[f].seq = 0 /\ cat'[f].content = 0 /\ 0 <= head[f].seq
      BY <1>0, <2>1, NoneFetched
  <2> QED
      BY <2>1, <2>2 DEF SeqOK
<1>7. CASE Requested
    BY <1>7, SeqGrows DEF Requested, cached, captures
<1>8. CASE Paged
  <2>1. /\ UNCHANGED <<head, lhead, jour>> /\ pend' = pend \cup (Page \ run.access)
        /\ cursor'.set /\ cursor'.access = run.access /\ run.pc = "page"
        /\ \A f \in Page \ run.access : cat'[f] = Current(f)
        /\ \A f \in Files \ (Page \ run.access) : cat'[f] = cat[f]
      BY <1>8 DEF Paged, catalog, captures
  <2>2. \A f \in Page \ run.access : cat'[f].seq = head[f].seq /\ cat'[f].content = head[f].content
    <3>1. \A f \in Files : Current(f).seq = head[f].seq /\ Current(f).content = head[f].content
        BY DEF Current
    <3>2. Page \in SUBSET Files
        BY PageFacts
    <3> QED
        BY <2>1, <3>1, <3>2
  <2>3. \A f \in Page : f \in Files /\ head[f].seq # 0
      BY DEF Page, InRange
  <2>4. \A f \in pend : f \in Files /\ f \notin run.access
      BY <2>1, TypeFacts DEF FeedOK, SeqOK
  <2>5. \A f \in Files : /\ cat'[f].seq <= head[f].seq
                         /\ cat'[f].seq = head[f].seq => cat'[f].content = head[f].content
      BY <1>0, <2>1, <2>2 DEF SeqOK
  <2>6. \A f \in pend' : cat'[f].seq # 0 /\ f \notin cursor'.access
    <3> TAKE f \in pend'
    <3>1. CASE f \in Page \ run.access
        BY <2>1, <2>2, <2>3, <3>1
    <3>2. CASE f \notin Page \ run.access
        BY <2>1, <2>4, <3>2 DEF SeqOK
    <3> QED
        BY <3>1, <3>2
  <2> QED
      BY <2>1, <2>5, <2>6 DEF SeqOK
<1>9. CASE Discovered
    BY <1>9, SeqGrows DEF Discovered, catalog, cached, captures
<1>10. CASE Proved
  <2>1. /\ UNCHANGED <<head, cat, cursor, pend, jour>>
        /\ \A f \in Files : lhead'[f] = lhead[f] \/ lhead'[f].seq = cat[f].seq
      BY <1>10 DEF Proved, cached
  <2> QED
      BY <2>1 DEF SeqOK
<1>11. CASE Spooled
  <2>1. /\ UNCHANGED <<head, cat, cursor, pend, lhead>> /\ jour'.accepted = Each(0) /\ jour'.files = run.plan
        /\ run.plan \in SUBSET Files
      BY <1>11, RunFields, TypeFacts DEF Spooled, catalog, cached
  <2>2. \A f \in jour'.files : jour'.accepted[f] = 0 /\ 0 <= head[f].seq
      BY <1>0, <2>1, EachTyped
  <2> QED
      BY <2>1, <2>2 DEF SeqOK
<1>12. CASE Finished
  <2>1. /\ UNCHANGED <<head, cat, cursor, lhead, jour>> /\ pend' \subseteq pend
      BY <1>12 DEF Finished, catalog
  <2> QED
      BY <2>1, SeqGrows
<1> QED
    BY <1>1, <1>2, <1>3, <1>4, <1>5, <1>6, <1>7, <1>8, <1>9, <1>10, <1>11, <1>12 DEF AnyStep

LEMMA RunStep ==
    ASSUME TypeOK, RunOK, AnyStep
    PROVE  RunOK'
<1>1. CASE Quiet \/ Edited
    BY <1>1 DEF Quiet, Edited, RunOK, Fetching, Scanned, cached, captures
<1>2. CASE OtherBegan \/ OtherCommitted \/ AccessChanged \/ PolicyChanges \/ OtherRead
    BY <1>2 DEF OtherBegan, OtherCommitted, AccessChanged, PolicyChanges, OtherRead, RunOK, Fetching,
                Scanned, cached, captures
<1>3. CASE Gone \/ Finished
    BY <1>3, OffFacts DEF Gone, Finished, RunOK, Fetching, Scanned
<1>4. CASE Begun
    BY <1>4 DEF Begun, RunOK, Fetching, Scanned, captures
<1>5. CASE Registered
    BY <1>5 DEF Registered, SameSync, RunOK, Fetching, Scanned, cached
<1>6. CASE Recorded
    BY <1>6, NoJournalFacts, RunFields, TypeFacts DEF Recorded, SameSync, RunOK, Fetching, Scanned, cached
<1>7. CASE StartedOver
    BY <1>7 DEF StartedOver, SameSync, RunOK, Fetching, Scanned
<1>8. CASE Requested
    BY <1>8 DEF Requested, SameSync, RunOK, Fetching, Scanned, cached, captures
<1>9. CASE Paged
    BY <1>9 DEF Paged, SameSync, RunOK, Fetching, Scanned, captures
<1>10. CASE Discovered
    BY <1>10 DEF Discovered, SameSync, RunOK, Fetching, Scanned, cached, captures
<1>11. CASE Proved
    BY <1>11 DEF Proved, SameSync, RunOK, Fetching, Scanned, cached
<1>12. CASE Spooled
    BY <1>12 DEF Spooled, SameSync, RunOK, Fetching, Scanned, cached
<1> QED
    BY <1>1, <1>2, <1>3, <1>4, <1>5, <1>6, <1>7, <1>8, <1>9, <1>10, <1>11, <1>12 DEF AnyStep

\* Steps that leave the sync, the receipts, the journal and the cached catalog alone.
LEMMA PlanSame ==
    ASSUME TypeOK, PlanOK, UNCHANGED <<run, lhead, cat, stamp, jour>>,
           \A f \in Files : head'[f].seq \in Nat /\ head'[f].seq >= head[f].seq
    PROVE  PlanOK'
<1>1. /\ \A f \in Files : head[f].seq \in Nat /\ cat[f].seq \in Nat
      /\ run.plan \in SUBSET Files
    BY SameSyncFacts, RunFields, TypeFacts
<1>2. \A f \in run.plan : cat[f].seq < head[f].seq => cat[f].seq < head'[f].seq
    BY <1>1
<1> QED
    BY <1>2 DEF PlanOK, Scanned, ScanFull, PolicyChanged

LEMMA PlanStep ==
    ASSUME TypeOK, TypeOK', SeqOK, RunOK, PlanOK, AnyStep
    PROVE  PlanOK'
<1>0. /\ \A f \in Files : /\ head[f].seq \in Nat /\ cat[f].seq \in Nat /\ lhead[f].seq \in Nat
                          /\ head'[f].seq \in Nat
      /\ run.plan \in SUBSET Files /\ run.verified \in SUBSET Files /\ run.changed \in SUBSET Files
      /\ run.scope \in SUBSET Files /\ run.select \in SUBSET Files
    BY SameSyncFacts, RunFields, TypeFacts DEF TypeOK, Version
<1>a. \A f \in Files : head'[f].seq \in Nat /\ (head'[f] = head[f] => head'[f].seq >= head[f].seq)
    BY <1>0
<1>1. CASE Quiet \/ Edited
    BY <1>1, <1>a, PlanSame DEF Quiet, Edited, catalog, cached, captures
<1>2. CASE OtherBegan \/ OtherCommitted \/ AccessChanged \/ PolicyChanges \/ OtherRead
  <2>1. \A f \in Files : head'[f] = head[f] \/ head'[f].seq = head[f].seq + 1
      BY <1>2 DEF OtherBegan, OtherCommitted, AccessChanged, PolicyChanges, OtherRead
  <2>2. \A f \in Files : head'[f].seq >= head[f].seq
      BY <1>0, <2>1
  <2>3. UNCHANGED <<run, lhead, cat, stamp, jour>>
      BY <1>2 DEF OtherBegan, OtherCommitted, AccessChanged, PolicyChanges, OtherRead, cached, captures
  <2> QED
      BY <1>0, <2>2, <2>3, PlanSame
<1>3. CASE Gone \/ Finished
  <2>1. run' = Off
      BY <1>3 DEF Gone, Finished
  <2> QED
      BY <2>1, OffFacts DEF PlanOK, Scanned
<1>4. CASE Begun
  <2>1. /\ run'.pc \in {"refresh", "register"} /\ run'.fresh = FALSE
        /\ run'.plan = {} /\ run'.scope = {} /\ run'.verified = {}
      BY <1>4 DEF Begun
  <2> QED
      BY <2>1 DEF PlanOK, Scanned
<1>5. CASE Registered
  <2>1. /\ run.pc = "register" /\ run'.pc = "proofs" /\ SameSync
        /\ run'.reset = run.reset /\ run'.changed = run.changed /\ run'.fresh = run.fresh
        /\ run'.scope = run.scope /\ run'.verified = run.verified /\ run'.plan = run.plan
        /\ jour'.files = jour.files /\ jour'.policy = jour.policy
        /\ UNCHANGED <<lhead, cat, stamp>>
      BY <1>5 DEF Registered, cached
  <2>2. run.fresh => \A f \in run.plan : cat[f].seq < head'[f].seq
    <3> SUFFICES ASSUME run.fresh, NEW f \in run.plan PROVE cat[f].seq < head'[f].seq
        OBVIOUS
    <3>1. f \in New /\ f \in Files
        BY <1>0, <2>1 DEF PlanOK, New
    <3>2. head'[f].seq = head[f].seq + 1
        BY <1>5, <3>1 DEF Registered
    <3> QED
        BY <1>0, <3>1, <3>2 DEF SeqOK
  <2> QED
      BY <2>1, <2>2 DEF PlanOK, Scanned, ScanFull, PolicyChanged, SameSync
<1>6. CASE Recorded
  <2>1. /\ run.pc = "proofs" /\ run'.pc = (IF run.fresh THEN "finish" ELSE "refresh") /\ SameSync
        /\ run'.reset = run.reset /\ run'.changed = run.changed /\ run'.fresh = run.fresh
        /\ run'.scope = run.scope /\ run'.verified = run.verified /\ run'.plan = run.plan
        /\ \A f \in Files \ jour.files : lhead'[f] = lhead[f]
        /\ UNCHANGED <<head, cat, stamp>>
      BY <1>6 DEF Recorded, cached
  <2>2. CASE run.fresh
    <3>1. \A f \in run.changed \ run.scope : lhead'[f] = lhead[f]
        BY <1>0, <2>1, <2>2 DEF PlanOK
    <3> QED
        BY <2>1, <2>2, <3>1 DEF PlanOK, Scanned, ScanFull, PolicyChanged, SameSync
  <2>3. CASE ~run.fresh
    <3>1. ~run'.fresh /\ run'.pc = "refresh" /\ run'.select = run.select
        BY <2>1, <2>3 DEF SameSync
    <3>2. ~Scanned'
        BY <3>1 DEF Scanned
    <3> QED
        BY <2>1, <3>1, <3>2 DEF PlanOK
  <2> QED
      BY <2>2, <2>3
<1>7. CASE StartedOver
  <2>1. /\ run.pc = "refresh" /\ run'.pc = "refresh" /\ SameSync /\ run'.fresh = run.fresh
        /\ run'.scope = run.scope /\ run'.verified = run.verified /\ run'.plan = run.plan
      BY <1>7 DEF StartedOver
  <2> QED
      BY <2>1 DEF PlanOK, RunOK, Scanned, SameSync
<1>8. CASE Requested
  <2>1. /\ run.pc = "refresh" /\ run'.pc = "page" /\ SameSync /\ run'.fresh = run.fresh
        /\ run'.scope = run.scope /\ run'.verified = run.verified /\ run'.plan = run.plan
      BY <1>8 DEF Requested
  <2> QED
      BY <2>1 DEF PlanOK, RunOK, Scanned, SameSync
<1>9. CASE Paged
  <2>1. /\ run.pc = "page" /\ run'.pc \in {"refresh", "scan"} /\ SameSync /\ run'.fresh = run.fresh
        /\ run'.scope = run.scope /\ run'.verified = run.verified /\ run'.plan = run.plan
      BY <1>9 DEF Paged
  <2> QED
      BY <2>1 DEF PlanOK, RunOK, Scanned, SameSync
<1>10. CASE Discovered
  <2>1. /\ run.pc = "scan" /\ SameSync /\ run'.reset = run.reset /\ run'.changed = run.changed
        /\ run'.fresh = run.fresh /\ run'.scope = ScanScope /\ run'.verified = ScanVerified
        /\ run'.pc = (IF ScanVerified # {} THEN "prove"
                      ELSE IF ScanCandidates \cup ScanRemoved # {} THEN "spool" ELSE "finish")
        /\ run'.plan = (ScanCandidates \ ScanVerified) \cup ScanRemoved
        /\ \A f \in Files : run'.seen[f] = IF f \in ScanCandidates \ ScanVerified THEN disk[f] ELSE 0
        /\ UNCHANGED <<lhead, cat, stamp, pend>>
      BY <1>10 DEF Discovered, cached, captures
  <2>2. ~run.fresh
      BY <2>1 DEF RunOK
  <2>3. /\ ScanCandidates \in SUBSET (ScanScope \cap run.select) /\ ScanVerified \in SUBSET ScanCandidates
        /\ ScanRemoved \in SUBSET (ScanScope \cap run.select) /\ ScanRemoved \cap ScanCandidates = {}
      BY DEF ScanCandidates, ScanVerified, ScanRemoved
  <2>4. /\ run'.plan \subseteq run'.scope \cap run'.select
        /\ run'.verified \subseteq (run'.scope \cap run'.select) \ run'.plan
      BY <2>1, <2>3 DEF SameSync
  <2>5. ScanFull' => run'.scope = Files
      BY <2>1 DEF ScanFull, ScanScope, PolicyChanged, SameSync
  <2>6. run.paths \in SUBSET Paths /\ {f \in run.changed : Unclean(f)} \in SUBSET Paths
      BY <1>0, RunFields, TypeFacts DEF Paths
  <2> DEFINE looked == run.paths \cup {f \in run.changed : Unclean(f)}
  <2>7. looked \in SUBSET Paths /\ run.paths \subseteq looked /\ {f \in run.changed : Unclean(f)} \subseteq looked
      BY <2>6
  <2>8. ScanScope = IF ScanFull THEN Files ELSE Below(looked)
      BY DEF ScanScope
  <2> HIDE DEF looked
  <2>9. Below(run'.paths) \subseteq run'.scope
    <3>1. Below(run.paths) \subseteq Below(looked) /\ Below(run.paths) \in SUBSET Files
        BY <2>6, <2>7, BelowFiles
    <3> QED
        BY <2>1, <2>8, <3>1 DEF SameSync
  <2>10. \A f \in run'.changed \ run'.scope : lhead'[f].seq = cat'[f].seq /\ ~lhead'[f].dirty
    <3> SUFFICES ASSUME NEW f \in run.changed, f \notin ScanScope
                 PROVE  lhead[f].seq = cat[f].seq /\ ~lhead[f].dirty
        BY <2>1
    <3>1. f \in Files /\ cat[f].seq # 0
        BY <1>0, <2>1 DEF RunOK, SeqOK
    <3>2. ~Unclean(f)
        BY <2>7, <2>8, <3>1, BelowFiles
    <3> QED
        BY <3>1, <3>2 DEF Unclean
  <2>11. \A f \in run'.plan : run'.seen[f] # 0 => f \notin Ignored(run.policy)
    <3> SUFFICES ASSUME NEW f \in run'.plan, run'.seen[f] # 0 PROVE f \notin Ignored(run.policy)
        OBVIOUS
    <3>1. f \in ScanCandidates
        BY <1>0, <2>1, <2>3
    <3> QED
        BY <3>1 DEF ScanCandidates, Visible
  <2>12. run'.pc = "finish" => run'.plan = {}
      BY <2>1
  <2>13. run'.policy = run.policy /\ ~run'.fresh
      BY <2>1, <2>2 DEF SameSync
  <2> QED
      BY <2>1, <2>4, <2>5, <2>9, <2>10, <2>11, <2>12, <2>13 DEF PlanOK
<1>11. CASE Proved
  <2>1. /\ run.pc = "prove" /\ run'.pc = (IF run.plan = {} THEN "finish" ELSE "spool") /\ SameSync
        /\ run'.reset = run.reset /\ run'.changed = run.changed /\ run'.fresh = run.fresh
        /\ run'.scope = run.scope /\ run'.verified = {} /\ run'.plan = run.plan /\ run'.seen = run.seen
        /\ \A f \in Files \ run.verified : lhead'[f] = lhead[f]
        /\ UNCHANGED <<head, cat, stamp, jour>>
      BY <1>11 DEF Proved, cached
  <2>2. ~run.fresh
      BY <2>1 DEF RunOK
  <2>3. \A f \in run.changed \ run.scope : lhead'[f] = lhead[f]
      BY <1>0, <2>1 DEF PlanOK
  <2> QED
      BY <2>1, <2>2, <2>3 DEF PlanOK, Scanned, ScanFull, PolicyChanged, SameSync
<1>12. CASE Spooled
  <2>1. /\ run.pc = "spool" /\ run'.pc = "register" /\ SameSync /\ run'.fresh
        /\ run'.reset = run.reset /\ run'.changed = run.changed
        /\ run'.scope = run.scope /\ run'.verified = run.verified /\ run'.plan = run.plan
        /\ jour'.files = run.plan /\ jour'.policy = run.policy
        /\ \A f \in run.plan : jour'.accepted[f] = 0
        /\ UNCHANGED <<cat, lhead, stamp>>
      BY <1>0, <1>12, EachTyped DEF Spooled, cached
  <2> QED
      BY <2>1 DEF PlanOK, Scanned, ScanFull, PolicyChanged, SameSync
<1> QED
    BY <1>1, <1>2, <1>3, <1>4, <1>5, <1>6, <1>7, <1>8, <1>9, <1>10, <1>11, <1>12 DEF AnyStep

LEMMA FreshSame ==
    ASSUME FreshOK, UNCHANGED <<run, head, lhead, cat, cursor, chg>>, Queued' \subseteq Queued
    PROVE  FreshOK'
BY DEF FreshOK, Scanned

LEMMA FreshStep ==
    ASSUME TypeOK, TypeOK', FeedOK, SeqOK, RunOK, PlanOK, FreshOK, AnyStep
    PROVE  FreshOK'
<1>0. /\ \A f \in Files : /\ head[f].seq \in Nat /\ cat[f].seq \in Nat /\ lhead[f].seq \in Nat
                          /\ chg[f] \in Nat /\ lhead[f].seq <= head[f].seq
      /\ run.plan \in SUBSET Files /\ run.verified \in SUBSET Files
      /\ run.rev \in Nat /\ cursor.rev \in Nat /\ rev \in Nat
      /\ outbox \in Seq(OutboxRow) /\ chg \in [Files -> 0..rev]
      /\ run.fresh \in BOOLEAN
    BY SameSyncFacts, RunFields, TypeFacts DEF SeqOK
<1>1. CASE Quiet \/ Edited \/ OtherBegan \/ AccessChanged \/ PolicyChanges
  <2>1. UNCHANGED <<run, head, lhead, cat, cursor, chg>> /\ Queued' = Queued
      BY <1>1 DEF Quiet, Edited, OtherBegan, AccessChanged, PolicyChanges, catalog, cached, captures,
                  Queued, Committed
  <2> QED
      BY <2>1, FreshSame
<1>2. CASE Gone \/ Finished \/ Begun
  <2>1. run'.pc \notin {"page", "scan", "prove", "spool", "finish"} /\ run'.fresh = FALSE
      BY <1>2, OffFacts DEF Gone, Finished, Begun
  <2> QED
      BY <2>1 DEF FreshOK, Scanned
<1>3. CASE OtherCommitted
  <2>1. /\ tx \in Files /\ head'[tx].seq = head[tx].seq + 1
        /\ \A f \in Files \ {tx} : head'[f] = head[f] /\ (f \in Queued' <=> f \in Queued)
        /\ UNCHANGED <<run, lhead, cat, cursor, chg>>
      BY <1>3 DEF OtherCommitted, cached, captures
  <2>2. lhead[tx].seq # head'[tx].seq
      BY <1>0, <2>1
  <2> QED
      BY <2>1, <2>2 DEF FreshOK, Scanned
<1>4. CASE OtherRead
  <2>1. /\ AdvanceCatalogChanges /\ UNCHANGED <<run, head, lhead, cat, cursor>>
      BY <1>4 DEF OtherRead, cached, captures
  <2>2. /\ Queued' \subseteq Queued /\ ChangedFiles \subseteq Queued
        /\ \A f \in Files \ ChangedFiles : chg'[f] = chg[f]
      BY <1>0, <2>1, AdvanceFacts, QueuedFiles
  <2>3. \A f \in Files : f \notin Queued => f \notin Queued' /\ chg'[f] = chg[f]
      BY <2>2
  <2> QED
      BY <2>1, <2>3 DEF FreshOK, Scanned
<1>5. CASE Registered
  <2>1. /\ run'.pc = "proofs" /\ run'.fresh = run.fresh /\ run'.plan = run.plan
        /\ UNCHANGED <<lhead, cat, cursor>>
        /\ \A f \in New : head'[f].seq = head[f].seq + 1
        /\ \A f \in Files \ New : head'[f] = head[f]
      BY <1>5 DEF Registered, cached
  <2>2. \A f \in Files : lhead[f].seq = head'[f].seq => head'[f] = head[f]
      BY <1>0, <2>1
  <2> QED
      BY <2>1, <2>2 DEF FreshOK, Scanned
<1>6. CASE Recorded
  <2>1. /\ run.pc = "proofs" /\ run'.pc = (IF run.fresh THEN "finish" ELSE "refresh")
        /\ run'.fresh = run.fresh /\ run'.plan = run.plan
        /\ UNCHANGED <<head, cat, cursor>>
        /\ \A f \in Files \ jour.files : lhead'[f] = lhead[f]
      BY <1>6 DEF Recorded, cached
  <2>2. CASE run.fresh
    <3>1. jour.files = run.plan
        BY <2>1, <2>2 DEF PlanOK
    <3> QED
        BY <2>1, <2>2, <3>1 DEF FreshOK, Scanned
  <2>3. CASE ~run.fresh
    <3>1. run'.pc = "refresh" /\ ~run'.fresh
        BY <2>1, <2>3
    <3> QED
        BY <3>1 DEF FreshOK, Scanned
  <2> QED
      BY <2>2, <2>3
<1>7. CASE StartedOver
  <2>1. run'.pc = "refresh" /\ ~run'.fresh
      BY <1>7 DEF StartedOver, RunOK
  <2> QED
      BY <2>1 DEF FreshOK, Scanned
<1>8. CASE Requested
  <2>1. /\ run'.pc = "page" /\ ~run'.fresh /\ run'.rev = rev' /\ AdvanceCatalogChanges
        /\ run'.more = (\E i \in DOMAIN outbox' : outbox'[i].done)
      BY <1>8 DEF Requested, RunOK
  <2>2. /\ chg' \in [Files -> 0..rev'] /\ rev' \in Nat
        /\ ~(\E i \in DOMAIN outbox' : outbox'[i].done) => Queued' = {}
      BY <1>0, <2>1, AdvanceFacts
  <2>3. \A f \in Files : chg'[f] <= run'.rev
      BY <2>1, <2>2
  <2>4. ~run'.more => Queued' = {}
      BY <2>1, <2>2
  <2>5. ~Scanned' /\ run'.pc # "scan"
      BY <2>1 DEF Scanned
  <2> QED
      BY <2>3, <2>4, <2>5 DEF FreshOK
<1>9. CASE Paged
  <2>1. /\ run.pc = "page" /\ run'.pc = (IF run.more \/ Page # InRange THEN "refresh" ELSE "scan")
        /\ ~run'.fresh /\ cursor'.access = run.access
        /\ \A f \in Page \ run.access : cat'[f] = Current(f)
        /\ \A f \in Files \ (Page \ run.access) : cat'[f] = cat[f]
        /\ UNCHANGED <<head, lhead>>
      BY <1>9 DEF Paged, RunOK, catalog, captures
  <2>2. ~Scanned' /\ run'.pc # "page"
      BY <2>1 DEF Scanned
  <2>3. ASSUME run'.pc = "scan", NEW f \in Files, head[f].seq # 0, lhead[f].seq = head[f].seq, f \notin run.access
        PROVE  cat'[f].seq = head[f].seq
    <3>1. ~run.more /\ Page = InRange
        BY <2>1, <2>3
    <3>2. f \notin Queued /\ chg[f] <= run.rev
        BY <2>1, <2>3, <3>1 DEF FreshOK
    <3>3. Current(f).seq = head[f].seq
        BY DEF Current
    <3>4. CASE f \in Page
        BY <2>1, <2>3, <3>3, <3>4
    <3>5. CASE f \notin InRange
      <4>1. chg[f] <= cursor.rev
          BY <1>0, <2>3, <3>2, <3>5 DEF InRange
      <4>2. cursor.set
        <5> SUFFICES ASSUME ~cursor.set PROVE FALSE
            OBVIOUS
        <5>1. cursor.rev = 0 /\ chg[f] > 0
            BY <2>3, <3>2 DEF FeedOK, NoCursor
        <5> QED
            BY <1>0, <4>1, <5>1
      <4>3. cursor.access = run.access
          BY <2>1, <4>2 DEF FeedOK
      <4>4. cat[f] = Current(f)
        <5>1. ~(chg[f] > cursor.rev)
            BY <1>0, <4>1
        <5> QED
            BY <2>3, <3>2, <4>2, <4>3, <5>1 DEF FeedOK, CatchesUp
      <4> QED
          BY <2>1, <3>3, <3>1, <3>5, <4>4
    <3> QED
        BY <3>1, <3>4, <3>5
  <2> QED
      BY <2>1, <2>2, <2>3 DEF FreshOK
<1>10. CASE Discovered
  <2>1. /\ run.pc = "scan" /\ run'.pc \in {"prove", "spool", "finish"}
        /\ UNCHANGED <<head, lhead, cat, cursor>>
      BY <1>10 DEF Discovered, catalog, cached, captures
  <2> QED
      BY <2>1 DEF FreshOK
<1>11. CASE Proved
  <2>1. /\ run.pc = "prove" /\ run'.pc \in {"spool", "finish"}
        /\ UNCHANGED <<head, cat, cursor>> /\ run'.plan = run.plan
        /\ \A f \in Files : lhead'[f].seq = cat[f].seq \/ lhead'[f] = lhead[f]
      BY <1>11 DEF Proved, cached
  <2>2. Scanned
      BY <2>1 DEF Scanned
  <2> QED
      BY <2>1, <2>2 DEF FreshOK
<1>12. CASE Spooled
  <2>1. /\ run.pc = "spool" /\ run'.pc = "register"
        /\ UNCHANGED <<head, cat, cursor, lhead>> /\ run'.plan = run.plan
      BY <1>12 DEF Spooled, cached, catalog
  <2>2. Scanned
      BY <2>1 DEF Scanned
  <2> QED
      BY <2>1, <2>2 DEF FreshOK
<1> QED
    BY <1>1, <1>2, <1>3, <1>4, <1>5, <1>6, <1>7, <1>8, <1>9, <1>10, <1>11, <1>12 DEF AnyStep

--------------------------------------------------------------------------------
(* What nobody has to be told about: a file whose difference to the catalog  *)
(* no event, hint, running sync, feed or policy reports.                     *)

Heard(f) == follow.full \/ f \in Below(Hints)

\* The next sync will not look at the file because of the catalog.
Settled(f) ==
    \/ cat[f].seq = head[f].seq /\ f \notin pend
    \/ /\ head[f].seq # 0 /\ lhead[f].seq = head[f].seq /\ ~lhead[f].dirty
       /\ f \notin cursor.access

Known(f) ==
    stamp # 2 /\ f \notin skipped /\ Settled(f) /\ head[f].content # Visible(f, stamp) =>
        Heard(f) \/ Taken(f)

\* The journal, what discovery passed over, what it took for removed, what it captured.
Journaled(f) ==
    f \in jour.files /\ f \notin jour.dirty /\ jour.content[f] # Visible(f, jour.policy) =>
        Heard(f) \/ (Taken(f) /\ ~run.fresh)
PassedOver(f) ==
    Scanned /\ f \in run.scope /\ f \in run.select /\ f \notin run.plan =>
        (cat[f].seq = head[f].seq /\ head[f].content # Visible(f, run.policy) => Heard(f))
TakenForRemoved(f) ==
    run.pc \in {"prove", "spool"} /\ f \in run.plan =>
        (run.seen[f] = 0 /\ Visible(f, run.policy) # 0 => Heard(f))
Captured(f) ==
    run.pc = "finish" /\ run.fresh /\ f \in run.plan =>
        (lhead[f].seq = head[f].seq /\ ~lhead[f].dirty /\ head[f].content # Visible(f, run.policy) =>
            Heard(f))

HintsOK ==
    follow.on => \A f \in Files : /\ Known(f) /\ Journaled(f) /\ PassedOver(f)
                                  /\ TakenForRemoved(f) /\ Captured(f)

\* A receipt is older than a registration its journal knows of.
JourOK ==
    /\ \A f \in jour.files : jour.accepted[f] # 0 => lhead[f].seq < jour.accepted[f]
    /\ run.pc = "proofs" => \A f \in jour.files : jour.accepted[f] # 0

LEMMA HintedHeard ==
    ASSUME TypeOK, NEW f \in Files
    PROVE  Hinted(f) <=> Heard(f)
<1>1. follow.events \in SUBSET Paths /\ follow.paths \in SUBSET Paths
    BY FollowFields, TypeFacts
<1>2. f # Dir
    BY DEF Files, Dir
<1>3. CASE follow.installing
  <2>1. f \in Below(Hints) <=> f \in follow.events \/ f \in follow.paths \/ f \in InDir
      BY <1>2, <1>3 DEF Hints, Below
  <2>2. Hinted(f) <=> follow.full \/ f \in follow.events \/ f \in follow.paths \/ f \in InDir
      BY <1>2, <1>3 DEF Hinted, Below
  <2> QED
      BY <2>1, <2>2 DEF Heard
<1>4. CASE ~follow.installing
  <2>1. Hints = follow.events \cup follow.paths
      BY <1>4 DEF Hints
  <2> QED
      BY <1>4, <2>1 DEF Hinted, Heard
<1> QED
    BY <1>3, <1>4

LEMMA HintsTyped ==
    ASSUME TypeOK
    PROVE  Hints \in SUBSET Paths /\ run.paths \in SUBSET Paths
BY FollowFields, RunFields, TypeFacts DEF Hints, Paths

LEMMA HeardKept ==
    ASSUME TypeOK, TypeOK', HintsKept, follow'.on, NEW f \in Files, Heard(f)
    PROVE  Heard(f)'
<1>1. CASE follow'.full
    BY <1>1 DEF Heard
<1>2. CASE ~follow'.full
  <2>1. ~follow.full /\ Hints \subseteq Hints' /\ f \in Below(Hints)
      BY <1>2 DEF HintsKept, Heard
  <2>2. Hints \in SUBSET Paths /\ Hints' \in SUBSET Paths
    <3>1. Hints \in SUBSET Paths
        BY HintsTyped
    <3>2. Hints' \in SUBSET Paths
        BY FollowFields DEF TypeOK, Hints, Paths
    <3> QED
        BY <3>1, <3>2
  <2>3. Below(Hints) \subseteq Below(Hints')
      BY <2>1, <2>2, BelowFiles
  <2> QED
      BY <2>1, <2>3 DEF Heard
<1> QED
    BY <1>1, <1>2

LEMMA SameHeard ==
    ASSUME UNCHANGED follow, NEW f \in Files
    PROVE  Heard(f)' <=> Heard(f)
BY DEF Heard, Hints

LEMMA SameTaken ==
    ASSUME SameSync, run.pc # "off", run'.pc # "off", NEW f \in Files
    PROVE  Taken(f)' <=> Taken(f)
BY DEF SameSync, Taken

LEMMA InitHints == Init => HintsOK /\ JourOK
<1> SUFFICES ASSUME Init PROVE HintsOK /\ JourOK
    OBVIOUS
<1>1. follow = Stopped /\ run = Off /\ jour = NoJournal
    BY DEF Init
<1> QED
    BY <1>1, StoppedFacts, OffFacts, NoJournalFacts DEF HintsOK, JourOK

LEMMA JourStep ==
    ASSUME TypeOK, SeqOK, RunOK, JourOK, AnyStep
    PROVE  JourOK'
<1>0. \A f \in Files : /\ head[f].seq \in Nat /\ lhead[f].seq \in Nat /\ jour.accepted[f] \in Nat
                       /\ lhead[f].seq <= head[f].seq
    BY SameSyncFacts DEF SeqOK
<1>1. jour.files \in SUBSET Files /\ run.plan \in SUBSET Files
    BY SameSyncFacts, RunFields, TypeFacts
<1>2. CASE \/ Quiet \/ Edited \/ OtherBegan \/ OtherCommitted \/ AccessChanged \/ PolicyChanges \/ OtherRead
           \/ Gone \/ Begun \/ StartedOver \/ Requested \/ Paged \/ Discovered \/ Finished
  <2>1. UNCHANGED <<lhead, jour>> /\ (run'.pc = "proofs" => run' = run)
      BY <1>2, OffFacts DEF Quiet, Edited, OtherBegan, OtherCommitted, AccessChanged, PolicyChanges, OtherRead,
         Gone, Begun, StartedOver, Requested, Paged, Discovered, Finished, captures
  <2> QED
      BY <2>1 DEF JourOK
<1>3. CASE Registered
  <2>1. /\ lhead' = lhead /\ jour'.files = jour.files
        /\ \A f \in New : jour'.accepted[f] = head[f].seq + 1
        /\ \A f \in Files \ New : jour'.accepted[f] = jour.accepted[f]
      BY <1>3 DEF Registered
  <2>2. \A f \in jour.files : jour'.accepted[f] # 0 /\ lhead[f].seq < jour'.accepted[f]
    <3> SUFFICES ASSUME NEW f \in jour.files
                 PROVE  jour'.accepted[f] # 0 /\ lhead[f].seq < jour'.accepted[f]
        OBVIOUS
    <3>1. CASE f \in New
        BY <1>0, <1>1, <2>1, <3>1
    <3>2. CASE f \notin New
        BY <1>0, <1>1, <2>1, <3>2 DEF New, JourOK
    <3> QED
        BY <3>1, <3>2
  <2> QED
      BY <2>1, <2>2 DEF JourOK
<1>4. CASE Recorded
  <2>1. jour'.files = {}
      BY <1>4, NoJournalFacts DEF Recorded
  <2> QED
      BY <2>1 DEF JourOK
<1>5. CASE Proved
  <2>1. jour' = jour /\ jour.files = {}
      BY <1>5 DEF Proved, RunOK
  <2> QED
      BY <2>1 DEF JourOK
<1>6. CASE Spooled
  <2>1. run'.pc = "register" /\ jour'.files = run.plan /\ jour'.accepted = Each(0)
      BY <1>6 DEF Spooled
  <2>2. \A f \in run.plan : jour'.accepted[f] = 0
      BY <1>1, <2>1, EachTyped
  <2> QED
      BY <2>1, <2>2 DEF JourOK
<1> QED
    BY <1>2, <1>3, <1>4, <1>5, <1>6 DEF AnyStep

\* A file that nothing is heard of after a step was not heard of before it either.
LEMMA Unheard ==
    ASSUME TypeOK, TypeOK', HintsOK, HintsKept, follow'.on, NEW f \in Files, ~Heard(f)'
    PROVE  /\ ~Heard(f) /\ ~follow'.full
           /\ Known(f) /\ Journaled(f) /\ PassedOver(f) /\ TakenForRemoved(f) /\ Captured(f)
<1>1. ~Heard(f)
    BY HeardKept
<1>2. ~follow'.full
    BY DEF Heard
<1>3. follow.on
    BY <1>2 DEF HintsKept
<1> QED
    BY <1>1, <1>2, <1>3 DEF HintsOK

LEMMA HintsFrom ==
    ASSUME follow'.on =>
             \A f \in Files : ~Heard(f)' => /\ Known(f)' /\ Journaled(f)' /\ PassedOver(f)'
                                            /\ TakenForRemoved(f)' /\ Captured(f)'
    PROVE  HintsOK'
BY DEF HintsOK, Known, Journaled, PassedOver, TakenForRemoved, Captured

LEMMA HintsSame ==
    ASSUME TypeOK, TypeOK', HintsOK, HintsKept,
           UNCHANGED <<disk, run, head, cat, cursor, pend, stamp, lhead, jour, skipped>>
    PROVE  HintsOK'
<1> SUFFICES ASSUME follow'.on, NEW f \in Files, ~Heard(f)'
             PROVE  /\ Known(f)' /\ Journaled(f)' /\ PassedOver(f)'
                    /\ TakenForRemoved(f)' /\ Captured(f)'
    BY HintsFrom
<1>1. /\ ~Heard(f)
      /\ Known(f) /\ Journaled(f) /\ PassedOver(f) /\ TakenForRemoved(f) /\ Captured(f)
    BY Unheard
<1> QED
    BY <1>1 DEF Known, Journaled, PassedOver, TakenForRemoved, Captured, Settled, Visible, Ignored, Taken,
                Scanned

LEMMA HintsGone ==
    ASSUME TypeOK, TypeOK', HintsOK, Gone
    PROVE  HintsOK'
<1> SUFFICES ASSUME follow'.on, NEW f \in Files, ~Heard(f)'
             PROVE  /\ Known(f)' /\ Journaled(f)' /\ PassedOver(f)'
                    /\ TakenForRemoved(f)' /\ Captured(f)'
    BY HintsFrom
<1>0. HintsKept
    BY DEF Gone
<1>1. ~Heard(f) /\ ~follow'.full /\ Known(f) /\ Journaled(f)
    BY <1>0, Unheard
<1>2. ~Taken(f)
  <2>1. SUFFICES ASSUME Taken(f) PROVE FALSE
      OBVIOUS
  <2>2. run.daemon /\ ~run.full /\ run.paths \subseteq Hints' /\ f \in Below(run.paths)
      BY <1>1, <2>1 DEF Gone, Taken
  <2>3. Hints' \in SUBSET Paths /\ run.paths \in SUBSET Paths
    <3>1. Hints' \in SUBSET Paths
        BY FollowFields DEF TypeOK, Hints, Paths
    <3> QED
        BY <3>1, HintsTyped
  <2>4. f \in Below(Hints')
      BY <2>2, <2>3, BelowFiles
  <2> QED
      BY <2>4 DEF Heard
<1>3. UNCHANGED <<disk, head, cat, cursor, pend, stamp, lhead, jour, skipped>>
    BY DEF Gone, catalog, cached, captures
<1>4. ~Scanned' /\ run'.pc = "off"
    BY OffFacts DEF Gone, Scanned
<1> QED
    BY <1>1, <1>2, <1>3, <1>4 DEF Known, Journaled, PassedOver, TakenForRemoved, Captured, Settled, Visible,
       Ignored

LEMMA HintsBegun ==
    ASSUME TypeOK, TypeOK', HintsOK, Begun
    PROVE  HintsOK'
<1> SUFFICES ASSUME follow'.on, NEW f \in Files, ~Heard(f)'
             PROVE  /\ Known(f)' /\ Journaled(f)' /\ PassedOver(f)'
                    /\ TakenForRemoved(f)' /\ Captured(f)'
    BY HintsFrom
<1>1. /\ run.pc = "off" /\ run'.pc \in {"refresh", "register"} /\ run'.fresh = FALSE
      /\ UNCHANGED <<disk, head, cat, cursor, pend, stamp, lhead, jour, skipped>>
    BY DEF Begun, catalog, cached, captures
<1>2. ~Scanned' /\ run'.pc # "off"
    BY <1>1 DEF Scanned
<1>3. follow.on
    BY DEF Begun
<1>4. Known(f) /\ Journaled(f) /\ ~Taken(f)
    BY <1>1, <1>3 DEF HintsOK, Taken
<1>5. Heard(f) => Taken(f)'
  <2> SUFFICES ASSUME Heard(f) PROVE Taken(f)'
      OBVIOUS
  <2>1. run'.daemon
    <3>1. CASE ~run'.daemon
        BY <3>1, SameHeard DEF Begun
    <3>2. run'.daemon \in BOOLEAN
        BY DEF TypeOK, Run
    <3> QED
        BY <3>1, <3>2
  <2>2. CASE run'.full
      BY <1>2, <2>1, <2>2 DEF Taken
  <2>3. CASE ~run'.full
    <3>1. Hints \subseteq Hints' \cup run'.paths /\ f \in Below(Hints)
        BY <2>1, <2>3 DEF Begun, Heard
    <3>2. Hints \in SUBSET Paths /\ Hints' \in SUBSET Paths /\ run'.paths \in SUBSET Paths
      <4>1. Hints' \in SUBSET Paths /\ run'.paths \in SUBSET Paths
          BY FollowFields DEF TypeOK, Hints, Paths, Run
      <4> QED
          BY <4>1, HintsTyped
    <3>3. f \in Below(Hints') \/ f \in Below(run'.paths)
        BY <3>1, <3>2, BelowFiles
    <3> QED
        BY <1>2, <2>1, <3>3 DEF Heard, Taken
  <2> QED
      BY <2>2, <2>3
<1> QED
    BY <1>1, <1>2, <1>4, <1>5 DEF Known, Journaled, PassedOver, TakenForRemoved, Captured, Settled, Visible,
       Ignored

LEMMA HintsEdited ==
    ASSUME TypeOK, TypeOK', HintsOK, Edited
    PROVE  HintsOK'
<1> SUFFICES ASSUME follow'.on, NEW f \in Files, ~Heard(f)'
             PROVE  /\ Known(f)' /\ Journaled(f)' /\ PassedOver(f)'
                    /\ TakenForRemoved(f)' /\ Captured(f)'
    BY HintsFrom
<1>1. HintsKept /\ UNCHANGED <<run, head, cat, cursor, pend, stamp, lhead, jour, skipped>>
    BY DEF Edited, catalog, cached, captures
<1>2. /\ ~Heard(f)
      /\ Known(f) /\ Journaled(f) /\ PassedOver(f) /\ TakenForRemoved(f) /\ Captured(f)
    BY <1>1, Unheard
<1>3. disk'[f] = disk[f]
    BY DEF Edited, Heard
<1> QED
    BY <1>1, <1>2, <1>3 DEF Known, Journaled, PassedOver, TakenForRemoved, Captured, Settled, Visible,
       Ignored, Taken, Scanned

LEMMA HintsCommitted ==
    ASSUME TypeOK, TypeOK', SeqOK, HintsOK, OtherCommitted
    PROVE  HintsOK'
<1> SUFFICES ASSUME follow'.on, NEW f \in Files, ~Heard(f)'
             PROVE  /\ Known(f)' /\ Journaled(f)' /\ PassedOver(f)'
                    /\ TakenForRemoved(f)' /\ Captured(f)'
    BY HintsFrom
<1>1. /\ UNCHANGED <<disk, follow, run, cat, cursor, pend, stamp, lhead, jour, skipped>>
      /\ tx \in Files /\ head'[tx].seq = head[tx].seq + 1 /\ \A g \in Files \ {tx} : head'[g] = head[g]
    BY DEF OtherCommitted, cached, captures
<1>2. HintsKept
    BY <1>1 DEF HintsKept, Hints
<1>3. /\ ~Heard(f)
      /\ Known(f) /\ Journaled(f) /\ PassedOver(f) /\ TakenForRemoved(f) /\ Captured(f)
    BY <1>2, Unheard
<1>4. CASE f # tx
  <2>1. head'[f] = head[f]
      BY <1>1, <1>4
  <2> QED
      BY <1>1, <1>3, <2>1 DEF Known, Journaled, PassedOver, TakenForRemoved, Captured, Settled, Visible,
         Ignored, Taken, Scanned
<1>5. CASE f = tx
  <2>1. cat[f].seq # head'[f].seq /\ lhead[f].seq # head'[f].seq
      BY <1>1, <1>5, SameSyncFacts DEF SeqOK
  <2> QED
      BY <1>1, <1>3, <2>1 DEF Known, Journaled, PassedOver, TakenForRemoved, Captured, Settled, Visible,
         Ignored, Taken, Scanned
<1> QED
    BY <1>4, <1>5

\* The steps of a sync tell the event loop nothing; its hints are the same.
LEMMA HintsRun ==
    ASSUME TypeOK, TypeOK', HintsOK, UNCHANGED follow,
           SameSync, run.pc # "off", run'.pc # "off",
           \A f \in Files :
              /\ ~Heard(f) /\ (Taken(f)' <=> Taken(f))
              /\ Known(f) /\ Journaled(f) /\ PassedOver(f) /\ TakenForRemoved(f) /\ Captured(f)
              => Known(f)' /\ Journaled(f)' /\ PassedOver(f)' /\ TakenForRemoved(f)' /\ Captured(f)'
    PROVE  HintsOK'
<1>1. HintsKept
    BY DEF HintsKept, Hints
<1> SUFFICES ASSUME follow'.on, NEW f \in Files, ~Heard(f)'
             PROVE  /\ Known(f)' /\ Journaled(f)' /\ PassedOver(f)'
                    /\ TakenForRemoved(f)' /\ Captured(f)'
    BY HintsFrom
<1>2. /\ ~Heard(f)
      /\ Known(f) /\ Journaled(f) /\ PassedOver(f) /\ TakenForRemoved(f) /\ Captured(f)
    BY <1>1, Unheard
<1>3. Taken(f)' <=> Taken(f)
    BY SameTaken
<1> QED
    BY <1>2, <1>3

LEMMA HintsRegistered ==
    ASSUME TypeOK, TypeOK', SeqOK, HintsOK, Registered
    PROVE  HintsOK'
<1>1. /\ run.pc = "register" /\ run'.pc = "proofs" /\ SameSync
      /\ run'.fresh = run.fresh /\ run'.scope = run.scope /\ run'.plan = run.plan
      /\ \A f \in New : head'[f].seq = head[f].seq + 1
      /\ \A f \in Files \ New : head'[f] = head[f]
      /\ jour'.files = jour.files /\ jour'.content = jour.content /\ jour'.dirty = jour.dirty
      /\ jour'.policy = jour.policy
      /\ UNCHANGED <<disk, follow, cat, cursor, pend, stamp, lhead, skipped>>
    BY DEF Registered, cached
<1>2. ASSUME NEW f \in Files,
             ~Heard(f) /\ (Taken(f)' <=> Taken(f)),
             Known(f), Journaled(f), PassedOver(f)
      PROVE  Known(f)' /\ Journaled(f)' /\ PassedOver(f)' /\ TakenForRemoved(f)' /\ Captured(f)'
  <2>1. TakenForRemoved(f)' /\ Captured(f)'
      BY <1>1 DEF TakenForRemoved, Captured
  <2>2. Journaled(f)'
      BY <1>1, <1>2 DEF Journaled, Visible, Ignored
  <2>3. CASE f \in New
    <3>1. cat[f].seq # head'[f].seq /\ lhead[f].seq # head'[f].seq
        BY <1>1, <2>3, SameSyncFacts DEF SeqOK
    <3> QED
        BY <1>1, <2>1, <2>2, <3>1 DEF Known, PassedOver, Settled
  <2>4. CASE f \notin New
    <3>1. head'[f] = head[f]
        BY <1>1, <2>4
    <3>2. Known(f)'
        BY <1>1, <1>2, <3>1 DEF Known, Settled, Visible, Ignored
    <3>3. PassedOver(f)'
        BY <1>1, <1>2, <3>1 DEF PassedOver, Scanned, Visible, Ignored, SameSync
    <3> QED
        BY <2>1, <2>2, <3>2, <3>3
  <2> QED
      BY <2>3, <2>4
<1> QED
    BY <1>1, <1>2, HintsRun

LEMMA HintsRecorded ==
    ASSUME TypeOK, TypeOK', SeqOK, JourOK, PlanOK, HintsOK, Recorded
    PROVE  HintsOK'
<1>1. /\ run.pc = "proofs" /\ run'.pc = (IF run.fresh THEN "finish" ELSE "refresh") /\ SameSync
      /\ run'.fresh = run.fresh /\ run'.scope = run.scope /\ run'.plan = run.plan
      /\ jour'.files = {}
      /\ skipped' = skipped \cup {f \in jour.files : OtherwiseIgnored(f, jour.policy)}
      /\ UNCHANGED <<disk, follow, head, cat, cursor, pend, stamp>>
    BY NoJournalFacts DEF Recorded, cached
<1>2. \A f \in Files :
         IF f \in jour.files
         THEN /\ lhead'[f].seq = jour.accepted[f] /\ lhead'[f].dirty = (f \in jour.dirty)
              /\ jour.accepted[f] # 0
              /\ jour.accepted[f] = head[f].seq => head[f].content = jour.content[f]
         ELSE lhead'[f] = lhead[f]
    BY <1>1 DEF Recorded, JourOK, SeqOK
<1>3. ASSUME NEW f \in Files,
             ~Heard(f) /\ (Taken(f)' <=> Taken(f)),
             Known(f), Journaled(f), PassedOver(f)
      PROVE  Known(f)' /\ Journaled(f)' /\ PassedOver(f)' /\ TakenForRemoved(f)' /\ Captured(f)'
  <2>1. Journaled(f)' /\ TakenForRemoved(f)'
      BY <1>1 DEF Journaled, TakenForRemoved
  <2>2. PassedOver(f)'
    <3>1. CASE run.fresh
        BY <1>1, <1>3, <3>1 DEF PassedOver, Scanned, Visible, Ignored, SameSync
    <3>2. CASE ~run.fresh
      <4>1. ~Scanned'
          BY <1>1, <3>2 DEF Scanned
      <4> QED
          BY <4>1 DEF PassedOver
    <3> QED
        BY <3>1, <3>2
  <2>3. CASE f \notin jour.files
    <3>1. lhead'[f] = lhead[f]
        BY <1>2, <2>3
    <3>2. Known(f)'
        BY <1>1, <1>3, <3>1 DEF Known, Settled, Visible, Ignored
    <3>3. Captured(f)'
        BY <1>1, <2>3 DEF Captured, PlanOK
    <3> QED
        BY <2>1, <2>2, <3>2, <3>3
  <2>4. CASE f \in jour.files
    <3>1. /\ lhead'[f].seq = jour.accepted[f] /\ lhead'[f].dirty = (f \in jour.dirty)
          /\ jour.accepted[f] # 0
          /\ jour.accepted[f] = head[f].seq => head[f].content = jour.content[f]
        BY <1>2, <2>4
    <3>2. ASSUME lhead'[f].seq = head[f].seq, ~lhead'[f].dirty, head[f].content # Visible(f, jour.policy)
          PROVE  Taken(f) /\ ~run.fresh
        BY <1>3, <2>4, <3>1, <3>2 DEF Journaled
    <3>3. Known(f)'
      <4> SUFFICES ASSUME stamp # 2, f \notin skipped', Settled(f)', head[f].content # Visible(f, stamp)
                   PROVE  Taken(f)
          BY <1>1, <1>3 DEF Known, Visible, Ignored
      <4>1. f \notin skipped /\ ~OtherwiseIgnored(f, jour.policy)
          BY <1>1, <2>4
      <4>2. Visible(f, stamp) = Visible(f, jour.policy)
          BY <4>1 DEF OtherwiseIgnored, Visible
      <4>3. CASE Settled(f)
          BY <1>3, <4>1, <4>3 DEF Known
      <4>4. CASE ~Settled(f)
        <5>1. lhead'[f].seq = head[f].seq /\ ~lhead'[f].dirty
            BY <1>1, <4>4 DEF Settled
        <5> QED
            BY <3>2, <4>2, <5>1
      <4> QED
          BY <4>3, <4>4
    <3>4. Captured(f)'
      <4>1. run.fresh => jour.policy = run.policy /\ run'.policy = run.policy
          BY <1>1 DEF PlanOK, SameSync
      <4> QED
          BY <1>1, <3>2, <4>1 DEF Captured, Visible, Ignored
    <3> QED
        BY <2>1, <2>2, <3>3, <3>4
  <2> QED
      BY <2>3, <2>4
<1> QED
    BY <1>1, <1>3, HintsRun

LEMMA HintsStartedOver ==
    ASSUME TypeOK, TypeOK', SeqOK, RunOK, HintsOK, StartedOver
    PROVE  HintsOK'
<1>1. /\ run.pc = "refresh" /\ run'.pc = "refresh" /\ SameSync /\ run'.fresh = run.fresh
      /\ cat' = Each(NotFetched) /\ pend' = {} /\ skipped' = skipped \cup cursor.access
      /\ UNCHANGED <<disk, follow, head, stamp, lhead, jour>>
    BY DEF StartedOver, catalog
<1>2. jour.files = {} /\ ~run.fresh
    BY <1>1 DEF RunOK
<1>3. ~Scanned'
    BY <1>1, <1>2 DEF Scanned
<1>4. ASSUME NEW f \in Files, ~Heard(f) /\ (Taken(f)' <=> Taken(f)), Known(f)
      PROVE  Known(f)' /\ Journaled(f)' /\ PassedOver(f)' /\ TakenForRemoved(f)' /\ Captured(f)'
  <2>1. Journaled(f)' /\ PassedOver(f)' /\ TakenForRemoved(f)' /\ Captured(f)'
      BY <1>1, <1>2, <1>3 DEF Journaled, PassedOver, TakenForRemoved, Captured
  <2>2. f \notin skipped' /\ Settled(f)' => f \notin skipped /\ Settled(f)
    <3> SUFFICES ASSUME f \notin skipped', Settled(f)' PROVE f \notin skipped /\ Settled(f)
        OBVIOUS
    <3>1. f \notin cursor.access /\ f \notin skipped
        BY <1>1
    <3>2. cat'[f].seq = 0
        BY <1>1, NoneFetched
    <3>3. CASE head[f].seq = 0
      <4>1. cat[f].seq = 0 /\ f \notin pend
          BY <3>3, SameSyncFacts DEF SeqOK
      <4> QED
          BY <3>1, <3>3, <4>1 DEF Settled
    <3>4. CASE head[f].seq # 0
        BY <1>1, <3>1, <3>2, <3>4 DEF Settled
    <3> QED
        BY <3>3, <3>4
  <2>3. Known(f)'
      BY <1>1, <1>4, <2>2 DEF Known, Visible, Ignored
  <2> QED
      BY <2>1, <2>3
<1> QED
    BY <1>1, <1>4, HintsRun

LEMMA HintsRequested ==
    ASSUME TypeOK, TypeOK', RunOK, HintsOK, Requested
    PROVE  HintsOK'
<1>1. /\ run.pc = "refresh" /\ run'.pc = "page" /\ SameSync /\ run'.fresh = run.fresh
      /\ UNCHANGED <<disk, follow, head, cat, cursor, pend, stamp, lhead, jour, skipped>>
    BY DEF Requested, cached, captures
<1>2. jour.files = {} /\ ~run.fresh
    BY <1>1 DEF RunOK
<1>3. ~Scanned'
    BY <1>1, <1>2 DEF Scanned
<1>4. ASSUME NEW f \in Files, ~Heard(f) /\ (Taken(f)' <=> Taken(f)), Known(f)
      PROVE  Known(f)' /\ Journaled(f)' /\ PassedOver(f)' /\ TakenForRemoved(f)' /\ Captured(f)'
  <2>1. Journaled(f)' /\ PassedOver(f)' /\ TakenForRemoved(f)' /\ Captured(f)'
      BY <1>1, <1>2, <1>3 DEF Journaled, PassedOver, TakenForRemoved, Captured
  <2>2. Known(f)'
      BY <1>1, <1>4 DEF Known, Settled, Visible, Ignored
  <2> QED
      BY <2>1, <2>2
<1> QED
    BY <1>1, <1>4, HintsRun

LEMMA HintsPaged ==
    ASSUME TypeOK, TypeOK', FeedOK, RunOK, HintsOK, Paged
    PROVE  HintsOK'
<1> DEFINE page == Page \ run.access
<1>1. /\ run.pc = "page" /\ run'.pc \in {"refresh", "scan"} /\ SameSync /\ run'.fresh = run.fresh
      /\ pend' = pend \cup page /\ cursor'.access = run.access
      /\ \A f \in Files \ page : cat'[f] = cat[f]
      /\ UNCHANGED <<disk, follow, head, stamp, lhead, jour, skipped>>
    BY DEF Paged, catalog, captures
<1> HIDE DEF page
<1>2. jour.files = {} /\ ~run.fresh
    BY <1>1 DEF RunOK
<1>3. ~Scanned'
    BY <1>1, <1>2 DEF Scanned
<1>4. cursor.access \subseteq run.access
    BY <1>1 DEF FeedOK, NoCursor
<1>5. ASSUME NEW f \in Files, ~Heard(f) /\ (Taken(f)' <=> Taken(f)), Known(f)
      PROVE  Known(f)' /\ Journaled(f)' /\ PassedOver(f)' /\ TakenForRemoved(f)' /\ Captured(f)'
  <2>1. Journaled(f)' /\ PassedOver(f)' /\ TakenForRemoved(f)' /\ Captured(f)'
      BY <1>1, <1>2, <1>3 DEF Journaled, PassedOver, TakenForRemoved, Captured
  <2>2. Settled(f)' => Settled(f)
      BY <1>1, <1>4 DEF Settled
  <2>3. Known(f)'
      BY <1>1, <1>5, <2>2 DEF Known, Visible, Ignored
  <2> QED
      BY <2>1, <2>3
<1> QED
    BY <1>1, <1>5, HintsRun

LEMMA HintsDiscovered ==
    ASSUME TypeOK, TypeOK', SeqOK, RunOK, HintsOK, Discovered
    PROVE  HintsOK'
<1>1. /\ run.pc = "scan" /\ run'.pc \in {"prove", "spool", "finish"}
      /\ SameSync /\ run'.fresh = run.fresh /\ run'.scope = ScanScope
      /\ run'.plan = (ScanCandidates \ ScanVerified) \cup ScanRemoved
      /\ \A f \in Files : run'.seen[f] = IF f \in ScanCandidates \ ScanVerified THEN disk[f] ELSE 0
      /\ UNCHANGED <<disk, follow, head, cat, cursor, pend, stamp, lhead, jour, skipped>>
    BY DEF Discovered, catalog, cached, captures
<1>2. jour.files = {} /\ ~run.fresh
    BY <1>1 DEF RunOK
<1>3. ASSUME NEW f \in Files, ~Heard(f) /\ (Taken(f)' <=> Taken(f)), Known(f)
      PROVE  Known(f)' /\ Journaled(f)' /\ PassedOver(f)' /\ TakenForRemoved(f)' /\ Captured(f)'
  <2>1. Journaled(f)' /\ Captured(f)'
      BY <1>1, <1>2 DEF Journaled, Captured
  <2>2. Known(f)'
      BY <1>1, <1>3 DEF Known, Settled, Visible, Ignored
  <2>3. run'.policy = run.policy /\ run'.select = run.select
      BY <1>1 DEF SameSync
  <2>4. Visible(f, run.policy) # 0 => disk[f] # 0 /\ Visible(f, run.policy) = disk[f]
      BY DEF Visible
  <2>5. ASSUME f \in ScanScope, f \in run.select, f \notin run'.plan, cat[f].seq = head[f].seq
        PROVE  head[f].content = Visible(f, run.policy)
    <3>1. cat[f].content = head[f].content
        BY <2>5 DEF SeqOK
    <3>2. CASE Visible(f, run.policy) = 0
        BY <1>1, <2>5, <3>1, <3>2 DEF ScanRemoved
    <3>3. CASE Visible(f, run.policy) # 0
      <4>1. f \in ScanVerified \/ Cached(f)
          BY <1>1, <2>5, <3>3 DEF ScanCandidates
      <4> QED
          BY <2>4, <3>1, <3>3, <4>1 DEF ScanVerified, Verified, Cached
    <3> QED
        BY <3>2, <3>3
  <2>6. PassedOver(f)'
      BY <1>1, <2>3, <2>5 DEF PassedOver, Visible, Ignored
  <2>7. ASSUME f \in run'.plan, run'.seen[f] = 0
        PROVE  Visible(f, run.policy) = 0
    <3>1. CASE f \in ScanRemoved
        BY <3>1 DEF ScanRemoved
    <3>2. CASE f \in ScanCandidates \ ScanVerified
        BY <1>1, <2>7, <3>2, <2>4 DEF ScanCandidates
    <3> QED
        BY <1>1, <2>7, <3>1, <3>2
  <2>8. TakenForRemoved(f)'
      BY <1>1, <2>3, <2>7 DEF TakenForRemoved, Visible, Ignored
  <2> QED
      BY <2>1, <2>2, <2>6, <2>8
<1> QED
    BY <1>1, <1>3, HintsRun

LEMMA HintsProved ==
    ASSUME TypeOK, TypeOK', RunOK, PlanOK, HintsOK, Proved
    PROVE  HintsOK'
<1>1. /\ run.pc = "prove" /\ run'.pc \in {"finish", "spool"} /\ SameSync
      /\ run'.fresh = run.fresh /\ run'.scope = run.scope /\ run'.plan = run.plan /\ run'.seen = run.seen
      /\ skipped' = skipped \cup {f \in run.verified : OtherwiseIgnored(f, run.policy)}
      /\ \A f \in Files : \/ f \in run.verified /\ lhead'[f].seq = cat[f].seq
                          \/ lhead'[f] = lhead[f]
      /\ UNCHANGED <<disk, follow, head, cat, cursor, pend, stamp, jour>>
    BY DEF Proved, cached
<1>2. jour.files = {} /\ ~run.fresh /\ Scanned
    BY <1>1 DEF RunOK, Scanned
<1>3. run'.policy = run.policy /\ run'.select = run.select
    BY <1>1 DEF SameSync
<1>4. ASSUME NEW f \in Files, ~Heard(f) /\ (Taken(f)' <=> Taken(f)),
             Known(f), PassedOver(f), TakenForRemoved(f)
      PROVE  Known(f)' /\ Journaled(f)' /\ PassedOver(f)' /\ TakenForRemoved(f)' /\ Captured(f)'
  <2>1. Journaled(f)' /\ Captured(f)'
      BY <1>1, <1>2 DEF Journaled, Captured
  <2>2. PassedOver(f)'
      BY <1>1, <1>2, <1>3, <1>4 DEF PassedOver, Visible, Ignored
  <2>3. TakenForRemoved(f)'
      BY <1>1, <1>3, <1>4 DEF TakenForRemoved, Visible, Ignored
  <2>4. Known(f)'
    <3> SUFFICES ASSUME stamp # 2, f \notin skipped', Settled(f)', head[f].content # Visible(f, stamp)
                 PROVE  Taken(f)
        BY <1>1, <1>4 DEF Known, Visible, Ignored
    <3>1. CASE Settled(f)
        BY <1>1, <1>4, <3>1 DEF Known
    <3>2. CASE ~Settled(f)
      <4>1. f \in run.verified /\ lhead'[f].seq = cat[f].seq /\ lhead'[f].seq = head[f].seq
          BY <1>1, <3>2 DEF Settled
      <4>2. ~OtherwiseIgnored(f, run.policy)
          BY <1>1, <4>1
      <4>3. Visible(f, stamp) = Visible(f, run.policy)
          BY <4>2 DEF OtherwiseIgnored, Visible
      <4>4. f \in run.scope /\ f \in run.select /\ f \notin run.plan
          BY <4>1 DEF PlanOK
      <4> QED
          BY <1>2, <1>4, <4>1, <4>3, <4>4 DEF PassedOver
    <3> QED
        BY <3>1, <3>2
  <2> QED
      BY <2>1, <2>2, <2>3, <2>4
<1> QED
    BY <1>1, <1>4, HintsRun

LEMMA HintsSpooled ==
    ASSUME TypeOK, TypeOK', RunOK, PlanOK, HintsOK, Spooled
    PROVE  HintsOK'
<1>1. /\ run.pc = "spool" /\ run'.pc = "register" /\ SameSync
      /\ run'.scope = run.scope /\ run'.plan = run.plan
      /\ jour'.files = run.plan /\ jour'.policy = run.policy
      /\ \A f \in Files : jour'.content[f] =
            IF f \notin run.plan THEN 0
            ELSE IF f \in Moved \ jour'.dirty THEN disk[f] ELSE run.seen[f]
      /\ UNCHANGED <<disk, follow, head, cat, cursor, pend, stamp, lhead, skipped>>
    BY DEF Spooled, catalog, cached
<1>2. Scanned
    BY <1>1 DEF Scanned
<1>3. run'.policy = run.policy /\ run'.select = run.select
    BY <1>1 DEF SameSync
<1>4. ASSUME NEW f \in Files, ~Heard(f) /\ (Taken(f)' <=> Taken(f)),
             Known(f), PassedOver(f), TakenForRemoved(f)
      PROVE  Known(f)' /\ Journaled(f)' /\ PassedOver(f)' /\ TakenForRemoved(f)' /\ Captured(f)'
  <2>1. TakenForRemoved(f)' /\ Captured(f)'
      BY <1>1 DEF TakenForRemoved, Captured
  <2>2. Known(f)'
      BY <1>1, <1>4 DEF Known, Settled, Visible, Ignored
  <2>3. PassedOver(f)'
      BY <1>1, <1>2, <1>3, <1>4 DEF PassedOver, Visible, Ignored
  <2>4. ASSUME f \in run.plan, f \notin jour'.dirty
        PROVE  jour'.content[f] = Visible(f, run.policy)
    <3>1. CASE run.seen[f] = 0
      <4>1. f \notin Moved
          BY <3>1 DEF Moved
      <4>2. Visible(f, run.policy) = 0
          BY <1>1, <1>4, <2>4, <3>1 DEF TakenForRemoved
      <4> QED
          BY <1>1, <2>4, <3>1, <4>1, <4>2
    <3>2. CASE run.seen[f] # 0
      <4>1. f \notin Ignored(run.policy)
          BY <1>1, <2>4, <3>2 DEF PlanOK
      <4>2. jour'.content[f] = disk[f]
          BY <1>1, <2>4, <3>2 DEF Moved
      <4> QED
          BY <4>1, <4>2 DEF Visible
    <3> QED
        BY <3>1, <3>2
  <2>5. Journaled(f)'
      BY <1>1, <2>4 DEF Journaled, Visible, Ignored
  <2> QED
      BY <2>1, <2>2, <2>3, <2>5
<1> QED
    BY <1>1, <1>4, HintsRun

\* savePolicy: what this sync looked at agrees, and the rest was known before it.
LEMMA HintsFinished ==
    ASSUME TypeOK, TypeOK', SeqOK, RunOK, PlanOK, FreshOK, HintsOK, Finished
    PROVE  HintsOK'
<1>1. /\ run.pc = "finish" /\ run' = Off
      /\ UNCHANGED <<disk, head, cat, cursor, lhead, jour>>
      /\ skipped' = (skipped \ (run.scope \cap run.select)) \cup
                    ((IF PolicyChanged THEN Files ELSE run.changed) \ run.select)
    BY DEF Finished, catalog
<1>2. HintsKept
  <2>1. /\ follow'.on = follow.on /\ follow'.events = follow.events
        /\ follow'.installing = follow.installing /\ (follow.full => follow'.full)
        /\ ~follow'.full => follow.paths \subseteq follow'.paths
      BY DEF Finished
  <2>2. ~follow'.full => Hints \subseteq Hints'
      BY <2>1 DEF Hints
  <2> QED
      BY <2>1, <2>2 DEF HintsKept
<1>3. Scanned /\ jour.files = {}
    BY <1>1 DEF Scanned, RunOK
<1>4. run.changed = pend
    BY <1>1, <1>3 DEF RunOK, Fetching
<1>5. stamp' = run.policy /\ (~PolicyChanged => stamp = run.policy)
    BY DEF Finished, PolicyChanged
<1>6. run.select \in SUBSET Files /\ (run.daemon => run.select = Files)
    BY RunFields, TypeFacts DEF RunOK
<1> SUFFICES ASSUME follow'.on, NEW f \in Files, ~Heard(f)'
             PROVE  /\ Known(f)' /\ Journaled(f)' /\ PassedOver(f)'
                    /\ TakenForRemoved(f)' /\ Captured(f)'
    BY HintsFrom
<1>7. /\ ~Heard(f)
      /\ Known(f) /\ PassedOver(f) /\ Captured(f)
    BY <1>2, Unheard
<1>8. Journaled(f)' /\ PassedOver(f)' /\ TakenForRemoved(f)' /\ Captured(f)'
  <2>1. run'.pc = "off" /\ ~Scanned'
      BY <1>1, OffFacts DEF Scanned
  <2> QED
      BY <1>1, <1>3, <2>1 DEF Journaled, PassedOver, TakenForRemoved, Captured
<1>9. Known(f)'
  <2> SUFFICES ASSUME f \notin skipped', Settled(f)', head[f].content # Visible(f, run.policy),
                      run.policy # 2
               PROVE  FALSE
      BY <1>1, <1>5 DEF Known, Visible, Ignored
  <2>1. \/ cat[f].seq = head[f].seq
        \/ /\ head[f].seq # 0 /\ lhead[f].seq = head[f].seq /\ ~lhead[f].dirty
           /\ f \notin cursor.access
      BY <1>1 DEF Settled
  \* The sync looked at it.
  <2>2. CASE f \in run.scope /\ f \in run.select /\ f \notin run.plan
    <3>1. cat[f].seq = head[f].seq
        BY <1>3, <2>1, <2>2 DEF FreshOK
    <3> QED
        BY <1>3, <1>7, <2>2, <3>1 DEF PassedOver
  <2>3. CASE f \in run.plan
    <3>1. run.fresh /\ cat[f].seq < head[f].seq
        BY <1>1, <2>3 DEF PlanOK
    <3>2. cat[f].seq # head[f].seq
        BY <3>1, SameSyncFacts
    <3> QED
        BY <1>1, <1>7, <2>1, <2>3, <3>1, <3>2 DEF Captured
  \* A sync of a selection leaves the other files as they are.
  <2>4. CASE f \notin run.select
    <3>1. ~PolicyChanged /\ f \notin run.changed /\ f \notin skipped
        BY <1>1, <2>4
    <3>2. Settled(f)
        BY <1>4, <2>1, <3>1 DEF Settled
    <3>3. ~Taken(f)
        BY <1>6, <2>4 DEF Taken
    <3> QED
        BY <1>5, <1>7, <3>1, <3>2, <3>3 DEF Known
  \* A sync of hints passes over clean receipts.
  <2>5. CASE f \notin run.scope /\ f \in run.select
    <3>1. ~ScanFull
        BY <1>3, <2>5 DEF PlanOK
    <3>2. ~PolicyChanged /\ ~run.full
        BY <3>1 DEF ScanFull
    <3>3. run.daemon
        BY <1>1, <3>2 DEF RunOK
    <3>4. f \notin skipped
        BY <1>1, <2>5
    <3>5. Settled(f)
      <4>1. CASE f \notin pend
          BY <2>1, <4>1 DEF Settled
      <4>2. CASE f \in pend
        <5>1. lhead[f].seq = cat[f].seq /\ ~lhead[f].dirty
            BY <1>3, <1>4, <2>5, <4>2 DEF PlanOK
        <5>2. cat[f].seq # 0 /\ f \notin cursor.access
            BY <4>2 DEF SeqOK
        <5> QED
            BY <2>1, <5>1, <5>2 DEF Settled
      <4> QED
          BY <4>1, <4>2
    <3>6. ~Taken(f)
        BY <1>3, <2>5, <3>2 DEF Taken, PlanOK
    <3> QED
        BY <1>5, <1>7, <3>2, <3>4, <3>5, <3>6 DEF Known
  <2> QED
      BY <2>2, <2>3, <2>4, <2>5 DEF PlanOK
<1> QED
    BY <1>8, <1>9

LEMMA HintsStep ==
    ASSUME TypeOK, TypeOK', FeedOK, SeqOK, RunOK, PlanOK, FreshOK, JourOK, HintsOK, AnyStep
    PROVE  HintsOK'
<1>1. CASE Quiet
    BY <1>1, HintsSame DEF Quiet, catalog, cached, captures
<1>2. CASE OtherBegan \/ AccessChanged \/ PolicyChanges \/ OtherRead
  <2>1. /\ UNCHANGED <<disk, run, head, cat, cursor, pend, stamp, lhead, jour, skipped>>
        /\ UNCHANGED follow
      BY <1>2 DEF OtherBegan, AccessChanged, PolicyChanges, OtherRead, cached, captures
  <2>2. HintsKept
      BY <2>1 DEF HintsKept, Hints
  <2> QED
      BY <2>1, <2>2, HintsSame
<1>3. CASE Gone
    BY <1>3, HintsGone
<1>4. CASE Begun
    BY <1>4, HintsBegun
<1>5. CASE Edited
    BY <1>5, HintsEdited
<1>6. CASE OtherCommitted
    BY <1>6, HintsCommitted
<1>7. CASE Registered
    BY <1>7, HintsRegistered
<1>8. CASE Recorded
    BY <1>8, HintsRecorded
<1>9. CASE StartedOver
    BY <1>9, HintsStartedOver
<1>10. CASE Requested
    BY <1>10, HintsRequested
<1>11. CASE Paged
    BY <1>11, HintsPaged
<1>12. CASE Discovered
    BY <1>12, HintsDiscovered
<1>13. CASE Proved
    BY <1>13, HintsProved
<1>14. CASE Spooled
    BY <1>14, HintsSpooled
<1>15. CASE Finished
    BY <1>15, HintsFinished
<1> QED
    BY <1>1, <1>2, <1>3, <1>4, <1>5, <1>6, <1>7, <1>8, <1>9, <1>10, <1>11, <1>12, <1>13, <1>14, <1>15
    DEF AnyStep

--------------------------------------------------------------------------------
(* The theorems.                                                            *)

\* Who knows what of a file: the feed, the cached catalog, the receipts, the journal,
\* the running sync and the daemon's hints.
FollowInv ==
    /\ TypeOK /\ DirNoted /\ DataOK /\ FeedOK /\ SeqOK /\ RunOK /\ PlanOK /\ FreshOK /\ JourOK
    /\ HintsOK

\* The invariant holds in every state: each step of the daemon, of a sync and of the
\* other actors of the catalog keeps it.
THEOREM FollowInvariant == Spec => []FollowInv
<1>1. Init => FollowInv
  <2>1. Init => DirNoted
      BY DEF Init, DirNoted
  <2> QED
      BY <2>1, InitTypes, InitInv, InitHints DEF FollowInv
<1>2. FollowInv /\ [Next]_vars => FollowInv'
  <2> SUFFICES ASSUME FollowInv, [Next]_vars PROVE FollowInv'
      OBVIOUS
  <2>1. /\ TypeOK /\ DirNoted /\ DataOK /\ FeedOK /\ SeqOK /\ RunOK /\ PlanOK /\ FreshOK /\ JourOK
        /\ HintsOK
      BY DEF FollowInv
  <2>2. TypeOK' /\ DirNoted' /\ AnyStep
      BY <2>1, Steps DEF FeedOK
  <2>3. DataOK'
      BY <2>1, <2>2, DataStep
  <2>4. FeedOK'
      BY <2>1, <2>2, FeedStep
  <2>5. SeqOK'
      BY <2>1, <2>2, SeqStep
  <2>6. RunOK'
      BY <2>1, <2>2, RunStep
  <2>7. PlanOK'
      BY <2>1, <2>2, PlanStep
  <2>8. FreshOK'
      BY <2>1, <2>2, FreshStep
  <2>9. JourOK'
      BY <2>1, <2>2, JourStep
  <2>10. HintsOK'
      BY <2>1, <2>2, HintsStep
  <2> QED
      BY <2>2, <2>3, <2>4, <2>5, <2>6, <2>7, <2>8, <2>9, <2>10 DEF FollowInv
<1> QED
    BY <1>1, <1>2, PTL DEF Spec

\* Every state of the feed, the daemon and a sync is well typed: a page, a journal
\* and a plan name files of the root, and counters stay within their bounds.
THEOREM TypeCorrect == Spec => []TypeOK
<1>1. FollowInv => TypeOK
    BY DEF FollowInv
<1> QED
    BY <1>1, FollowInvariant, PTL

\* A version or a proof that the cached catalog does not show is in a committed
\* outbox row or has a revision after the cursor, whatever the size of a page and of
\* a batch and however late a transaction commits (advanceCatalogChanges, the catalog
\* handlers and savePage).
THEOREM FeedSkipsNothing == Spec => []CacheCatchesUp
<1>1. FollowInv => CacheCatchesUp
  <2> SUFFICES ASSUME FollowInv PROVE CacheCatchesUp
      OBVIOUS
  <2>1. TypeOK /\ CatchesUp
      BY DEF FollowInv, FeedOK
  <2>2. \A f \in Files : InOutbox(f) <=> f \in Queued
      BY <2>1, QueuedFiles, TypeFacts
  <2> QED
      BY <2>1, <2>2 DEF CatchesUp, CacheCatchesUp
<1> QED
    BY <1>1, FollowInvariant, PTL

\* The server holds a proof of a content for this user only when the client had the
\* bytes, never because the catalog told it the hash (hashCapturedFile,
\* bootstrapCapturedProofs, recordCapturedProofs).
THEOREM ProofsAreLocal == Spec => []ProofIsLocal
<1>1. FollowInv => ProofIsLocal
  <2> SUFFICES ASSUME FollowInv PROVE ProofIsLocal
      OBVIOUS
  <2>1. \A f \in Files : proof[f].content \in Local
      BY DEF FollowInv, DataOK
  <2> QED
      BY <2>1, Tokens DEF ProofIsLocal, Local
<1> QED
    BY <1>1, FollowInvariant, PTL

\* A difference between a file and the catalog is never forgotten while the daemon
\* runs, through failed syncs, crashes, full pages, policies that flip and syncs of a
\* selection: an event, a hint, the running sync, the feed or a policy to save brings
\* a sync to the file (runFollowSync, refresh, CaptureAndSync, savePolicy).
THEOREM ChangesAreRemembered == Spec => []NoChangeIsLost
<1>1. FollowInv => NoChangeIsLost
  <2> SUFFICES ASSUME FollowInv, NEW f \in Files, head[f].content # Visible(f, policy),
                      follow.on, stamp = policy, f \notin skipped, ~Hinted(f), ~Unread(f)
               PROVE  Syncing(f)
      BY DEF NoChangeIsLost
  <2>1. /\ TypeOK /\ SeqOK /\ RunOK /\ PlanOK
        /\ Known(f) /\ PassedOver(f)
      BY DEF FollowInv, HintsOK
  <2>2. ~Heard(f)
      BY <2>1, HintedHeard
  <2>3. cat[f].seq = head[f].seq
      BY DEF Unread
  <2>4. Settled(f)
    <3>1. CASE f \notin pend
        BY <2>3, <3>1 DEF Settled
    <3>2. CASE f \in pend
      <4>1. cat[f].seq # 0 /\ f \notin cursor.access
          BY <2>1, <3>2 DEF SeqOK
      <4> QED
          BY <2>3, <3>2, <4>1 DEF Settled, Unread
    <3> QED
        BY <3>1, <3>2
  <2>5. stamp # 2
      BY <2>1, TypeFacts
  <2>6. Taken(f)
      BY <2>1, <2>2, <2>4, <2>5 DEF Known
  <2>7. ASSUME Scanned, run.policy = stamp
        PROVE  f \in run.plan
    <3>1. run.select = Files /\ (run.full \/ f \in Below(run.paths))
        BY <2>1, <2>6 DEF Taken, RunOK
    <3>2. f \in run.scope
        BY <2>1, <2>7, <3>1 DEF PlanOK, ScanFull
    <3> QED
        BY <2>1, <2>2, <2>3, <2>7, <3>1, <3>2 DEF PassedOver
  <2> QED
      BY <2>6, <2>7 DEF Syncing
<1> QED
    BY <1>1, FollowInvariant, PTL

=============================================================================

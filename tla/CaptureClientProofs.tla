------------------------ MODULE CaptureClientProofs ------------------------
(***************************************************************************)
(* Proofs about CaptureClient, for any number of files, captures, keys,    *)
(* edits and faults: what was captured can be read back, a capture is      *)
(* registered once, a sync that ends well has captured every file that     *)
(* stood still, and local copies outlive their registration.               *)
(***************************************************************************)
EXTENDS CaptureClient, FiniteSetTheorems, FunctionTheorems, SequenceTheorems,
        WellFoundedInduction, TLAPS

----------------------------------------------------------------------------
(* The inductive invariant, in the order in which its parts are proved.    *)

\* Where the sync is decides what the spool it works on is.
RunOK ==
    /\ run.pc = "copy" => /\ run.cur \in Captures /\ Cur.place = "incomplete"
                          /\ \A f \in Cur.packs : f <= run.copied
    /\ run.pc \in {"upload", "heads"} => run.cur \in Captures /\ Cur.place = "pending"
    /\ run.pc = "heads" => IsAccepted(run.cur)
    /\ run.pc = "upload" => \A f \in Files :
            run.stage[f] \in {"put", "confirm"} => Cur.pack[f].key # NoKey

\* The keys of a pack: a large one has its identity before its session.
PackOK(f, p) ==
    /\ p.complete => p.key # NoKey
    /\ IF f \in Large THEN p.key \in {NoKey, p.request} ELSE p.request = NoKey

SpoolOK(s) ==
    /\ s.place \in {"none", "removed"} => s.packs = {}
    /\ s.place \in {"none", "incomplete"} => s.pack = Each(NewPack) /\ s.accepted = Each(0)
    /\ s.packs \subseteq s.files
    /\ s.place \in {"incomplete", "pending"} =>
            \A f \in Files : f \in s.packs <=> s.bytes[f] # <<>>
    /\ \A f \in Files : PackOK(f, s.pack[f])

SpoolsOK == \A c \in Captures : SpoolOK(spool[c])

\* A version and the spool it was registered from.
VersionOK(v) ==
    v.capture # 0 =>
        LET s == spool[v.capture] IN
        /\ s.place \in {"pending", "completed", "removed"}
        /\ s.place # "removed" => /\ v.file \in s.files /\ v.prev = s.prev[v.file]
                                  /\ v.content = s.content[v.file]
        /\ s.place = "pending" => \A f \in s.packs : s.pack[f].complete

VersionsOK == \A i \in DOMAIN ver : VersionOK(ver[i])

\* The version of file f from capture c.
Of(i, c, f) == i \in DOMAIN ver /\ ver[i].capture = c /\ ver[i].file = f

Once == \A i, j \in DOMAIN ver :
            ver[i].capture # 0 /\ ver[j].capture = ver[i].capture /\ ver[j].file = ver[i].file
                => i = j

\* A capture is registered as a whole, and what the journal says of it is so.
ReceiptsOK(c) ==
    /\ Replayed(c) /\ spool[c].place # "removed" =>
            \A f \in spool[c].files : \E i \in DOMAIN ver : Of(i, c, f)
    /\ \A f \in spool[c].files : spool[c].accepted[f] # 0 => Of(spool[c].accepted[f], c, f)
    /\ spool[c].place = "completed" => IsAccepted(c)

AllReceiptsOK == \A c \in Captures : ReceiptsOK(c)

BaseInv == TypeOK /\ RunOK /\ SpoolsOK /\ VersionsOK /\ Once /\ AllReceiptsOK

----------------------------------------------------------------------------

\* No two packs share a key.
Own(p) == {p.key, p.request} \ {NoKey}
Owns(c, f) == Own(spool[c].pack[f])
OwnersOK == \A c, d \in Captures, f, g \in Files :
                Owns(c, f) \cap Owns(d, g) # {} => c = d /\ f = g
KeysTaken == \A c \in Captures, f \in Files :
                spool[c].pack[f].key # NoKey => obj[spool[c].pack[f].key].state # "free"

ObjectOK(o) ==
    /\ o.state = "free" => o.bytes = <<>> /\ ~o.stored
    /\ o.state = "complete" => o.stored
    /\ o.state = "retired" => ~o.stored
ObjectsOK == \A k \in Keys : ObjectOK(obj[k])

\* An object whose bytes will not change any more.
Final(o) == o.state \in {"complete", "retired"}
Settled(k) == Final(obj[k])

\* What was uploaded for a pack are the bytes of the pack.
PackStored(c, f) ==
    spool[c].place = "pending" =>
        /\ \A k \in Owns(c, f) : /\ obj[k].bytes \in {<<>>, spool[c].bytes[f]}
                                 /\ obj[k].stored => obj[k].bytes = spool[c].bytes[f]
        /\ spool[c].pack[f].complete =>
                LET k == spool[c].pack[f].key IN Settled(k) /\ obj[k].bytes = spool[c].bytes[f]
PacksStored == \A c \in Captures, f \in Files : PackStored(c, f)

\* The extents hold the content.
Extents(keys, content) == (\A i \in DOMAIN keys : Settled(keys[i])) /\ Concat(keys) = content

SpoolReadable(c, f) ==
    spool[c].place \in {"incomplete", "pending"} =>
        /\ \A i \in DOMAIN spool[c].reused[f] : Settled(spool[c].reused[f][i])
        /\ spool[c].content[f] = Concat(spool[c].reused[f]) \o spool[c].bytes[f]
SpoolsReadable == \A c \in Captures, f \in Files : SpoolReadable(c, f)

HeadsMatch ==
    \A f \in Files : lhead[f].keys # <<>> =>
        /\ Extents(lhead[f].keys, lhead[f].content)
        /\ lhead[f].seq \in DOMAIN ver /\ ver[lhead[f].seq].content = lhead[f].content
VersionsReadable ==
    \A i \in DOMAIN ver : ver[i].capture # 0 => Extents(ver[i].keys, ver[i].content)
NeededStands == \A k \in Keys : Needed(k) => obj[k].state = "complete"

KeyInv == /\ OwnersOK /\ KeysTaken /\ ObjectsOK /\ PacksStored /\ SpoolsReadable
          /\ HeadsMatch /\ VersionsReadable /\ NeededStands

----------------------------------------------------------------------------

\* The plan of this sync was made, and is not worked off yet.
Scanned ==
    \/ run.pc \in {"spool", "copy", "done"}
    \/ run.fresh /\ run.pc \in {"upload", "heads"}
    \/ run.fresh /\ run.pc = "clean" /\ run.cur # 0

UpToDate(f) == Captured(f, head[f]) = disk[f]

PlanOK ==
    Scanned =>
        /\ \A f \in run.calm \ run.todo : UpToDate(f) \/ (run.pc = "upload" /\ f \in Cur.files)
        /\ \A f \in run.calm \cap run.gone : disk[f] = <<>>
    
CopyOK ==
    run.pc = "copy" =>
        /\ Cur.files \subseteq run.todo
        /\ \A f \in Cur.files : f \in run.gone \/ f > run.copied => Cur.content[f] = <<>>
        /\ \A f \in (Cur.files \cap run.calm) \ ToCopy : Cur.content[f] = disk[f]
        /\ run.before # <<>> /\ ToCopy # {} /\ Min(ToCopy) \in run.calm
                => run.before = disk[Min(ToCopy)]

UploadOK ==
    run.pc = "upload" /\ run.fresh =>
        /\ ~Replayed(run.cur)
        /\ \A f \in run.calm \cap Cur.files : Cur.content[f] = disk[f]

SyncInv == PlanOK /\ CopyOK /\ UploadOK /\ (run.pc = "done" => run.todo = {})

----------------------------------------------------------------------------
(* Operators of the community modules that the model uses.                 *)

\* A non-empty set of naturals has a least element, and Min is that element.
LEMMA LeastOf ==
    ASSUME NEW S, S \subseteq Nat, S # {}
    PROVE  Min(S) \in S /\ (\A x \in S : Min(S) <= x) /\ Min(S) - 1 \notin S
<1>1. PICK m \in S : \A n \in S : ~(<<n, m>> \in OpToRel(<, Nat))
    BY NatLessThanWellFounded, WFMin
<1>2. ASSUME NEW n \in S PROVE m <= n
  <2>1. m \in Nat /\ n \in Nat
      OBVIOUS
  <2>2. ~(n < m)
      BY <1>1, <2>1 DEF OpToRel
  <2> QED
      BY <2>1, <2>2
<1>3. Min(S) \in S /\ \A x \in S : Min(S) <= x
    BY <1>2 DEF Min
<1> DEFINE l == Min(S)
<1>4. l \in Nat /\ \A x \in S : l <= x
    BY <1>3
<1> HIDE DEF l
<1>5. l - 1 \notin S
    BY <1>4
<1> QED
    BY <1>3, <1>5 DEF l

\* SetToSeq lists a finite set without repetition.
LEMMA ListOf ==
    ASSUME NEW S, IsFiniteSet(S)
    PROVE  LET s == SetToSeq(S) n == Cardinality(S) IN
           /\ n \in Nat /\ s \in [1..n -> S]
           /\ \A x \in S : \E i \in 1..n : s[i] = x
           /\ \A i, j \in 1..n : s[i] = s[j] => i = j
<1> DEFINE n == Cardinality(S)
           s == SetToSeq(S)
<1>1. n \in Nat /\ ExistsBijection(1..n, S)
    BY FS_CardinalityType
<1>2. PICK g : g \in Bijection(1..n, S)
    BY <1>1 DEF ExistsBijection
<1>3. g \in [1..n -> S] /\ IsInjective(g)
    BY <1>2 DEF Bijection, Injection, IsInjective
<1>4. s \in [1..n -> S] /\ IsInjective(s)
    BY <1>3 DEF SetToSeq
<1>5. \A i, j \in 1..n : s[i] = s[j] => i = j
    BY <1>4 DEF IsInjective
<1>6. s \in Injection(1..n, S)
    BY <1>4, <1>5 DEF Injection, IsInjective
<1>7. IsFiniteSet(1..n) /\ Cardinality(1..n) = n
    BY <1>1, FS_Interval
<1>8. s \in Surjection(1..n, S)
    BY <1>6, <1>7, FS_Injection
<1> QED
    BY <1>1, <1>4, <1>5, <1>8 DEF Surjection

\* What FlattenSeq computes: f[n] is the concatenation of the first n members of s.
Flattens(f, s, n) ==
    /\ DOMAIN f = 1..n
    /\ \A i \in 1..n : f[i] = IF i = 1 THEN s[i] ELSE f[i - 1] \o s[i]

LEMMA FlattenUnique ==
    ASSUME NEW s, NEW n \in Nat, NEW f, NEW g, Flattens(f, s, n), Flattens(g, s, n)
    PROVE  \A i \in 1..n : f[i] = g[i]
<1> DEFINE D == {i \in 1..n : f[i] # g[i]}
<1> SUFFICES ASSUME D # {} PROVE FALSE
    OBVIOUS
<1>1. D \subseteq Nat
    OBVIOUS
<1>2. Min(D) \in D /\ Min(D) - 1 \notin D
    <2> HIDE DEF D
    <2> QED
        BY <1>1, LeastOf
<1> DEFINE m == Min(D)
<1>3. m \in 1..n /\ f[m] # g[m]
    BY <1>2
<1>4. m - 1 \notin D
    BY <1>2
<1> HIDE DEF m
<1>5. m # 1 => f[m - 1] = g[m - 1]
    BY <1>3, <1>4
<1> QED
    BY <1>3, <1>5 DEF Flattens

LEMMA FlattenExists ==
    ASSUME NEW S, NEW s \in Seq(Seq(S)), NEW n \in 1..Len(s)
    PROVE  \E f \in [1..n -> Seq(S)] : Flattens(f, s, n)
<1> DEFINE Has(k) == \E f \in [1..k -> Seq(S)] : Flattens(f, s, k)
           D == {k \in 1..Len(s) : ~Has(k)}
<1> SUFFICES ASSUME D # {} PROVE FALSE
    OBVIOUS
<1>0. Len(s) \in Nat /\ \A i \in 1..Len(s) : s[i] \in Seq(S)
    OBVIOUS
<1>1. D \subseteq Nat
    BY <1>0
<1>2. Min(D) \in D /\ Min(D) - 1 \notin D
    <2> HIDE DEF D
    <2> QED
        BY <1>1, LeastOf
<1> DEFINE m == Min(D)
<1>3. m \in 1..Len(s) /\ ~Has(m)
    BY <1>2
<1>4. m - 1 \notin D
    BY <1>2
<1> HIDE DEF m
<1>5. CASE m = 1
  <2> DEFINE f == [i \in 1..1 |-> s[1]]
  <2>1. f \in [1..1 -> Seq(S)] /\ Flattens(f, s, 1)
      BY <1>0, <1>3, <1>5 DEF Flattens
  <2> QED
      BY <1>3, <1>5, <2>1
<1>6. CASE m # 1
  <2>1. m - 1 \in 1..Len(s) /\ Has(m - 1)
      BY <1>0, <1>3, <1>4, <1>6
  <2>2. PICK g \in [1..(m - 1) -> Seq(S)] : Flattens(g, s, m - 1)
      BY <2>1
  <2> DEFINE f == [i \in 1..m |-> IF i = m THEN g[m - 1] \o s[m] ELSE g[i]]
  <2>3. m - 1 \in 1..(m - 1) /\ m \in Nat
      BY <1>0, <1>3, <1>6
  <2>4. g[m - 1] \o s[m] \in Seq(S)
      BY <1>0, <1>3, <2>3
  <2>5. f \in [1..m -> Seq(S)]
      BY <2>3, <2>4
  <2>6. DOMAIN f = 1..m
      OBVIOUS
  <2>7. ASSUME NEW i \in 1..m PROVE f[i] = IF i = 1 THEN s[i] ELSE f[i - 1] \o s[i]
    <3>1. CASE i = m
      <4>1. m \in 1..m /\ m - 1 \in 1..m /\ m - 1 # m
          BY <1>3, <1>6, <2>3
      <4>2. f[m] = g[m - 1] \o s[m]
          BY <4>1
      <4>3. f[m - 1] = g[m - 1]
          BY <4>1
      <4> QED
          BY <1>6, <3>1, <4>2, <4>3
    <3>2. CASE i # m
      <4>1. i \in 1..(m - 1) /\ f[i] = g[i] /\ (i # 1 => i - 1 \in 1..m /\ i - 1 # m /\ f[i - 1] = g[i - 1])
          BY <1>3, <2>3, <3>2
      <4> QED
          BY <2>2, <4>1 DEF Flattens
    <3> QED
        BY <3>1, <3>2
  <2>8. Flattens(f, s, m)
      BY <2>6, <2>7 DEF Flattens
  <2> HIDE DEF f
  <2> QED
      BY <1>3, <2>5, <2>8
<1> QED
    BY <1>5, <1>6

LEMMA FlattenIs ==
    ASSUME NEW S, NEW s \in Seq(Seq(S)), NEW f, Len(s) # 0, Flattens(f, s, Len(s))
    PROVE  FlattenSeq(s) = f[Len(s)]
<1> DEFINE n == Len(s)
           E(h) == [i \in 1..n |-> IF i = 1 THEN s[i] ELSE h[i - 1] \o s[i]]
           g == CHOOSE h : h = E(h)
<1>1. n \in Nat /\ n \in 1..n
    OBVIOUS
<1>2. PICK k \in [1..n -> Seq(S)] : Flattens(k, s, n)
    BY <1>1, FlattenExists
<1>3. k = E(k)
    BY <1>2 DEF Flattens
<1>4. g = E(g)
    <2> HIDE DEF E
    <2> QED
        BY <1>3
<1>5. Flattens(g, s, n)
    <2> HIDE DEF g
    <2> QED
        BY <1>4 DEF Flattens
<1>6. FlattenSeq(s) = g[n]
    BY DEF FlattenSeq
<1> HIDE DEF g
<1> QED
    BY <1>1, <1>5, <1>6, FlattenUnique

LEMMA FlattenEmpty == FlattenSeq(<<>>) = <<>>
BY DEF FlattenSeq

LEMMA FlattenAppend ==
    ASSUME NEW S, NEW s \in Seq(Seq(S)), NEW x \in Seq(S)
    PROVE  /\ FlattenSeq(s) \in Seq(S)
           /\ FlattenSeq(Append(s, x)) = FlattenSeq(s) \o x
<1> DEFINE n == Len(s)
           t == Append(s, x)
<1>1. /\ t \in Seq(Seq(S)) /\ Len(t) = n + 1 /\ n \in Nat
      /\ t[n + 1] = x /\ \A i \in 1..n : t[i] = s[i]
    OBVIOUS
<1>2. CASE n = 0
  <2>1. s = <<>>
      BY <1>2
  <2> DEFINE f == [i \in 1..1 |-> x]
  <2>2. Flattens(f, t, 1)
      BY <1>1, <1>2 DEF Flattens
  <2>3. FlattenSeq(t) = f[1]
    <3>1. Len(t) = 1
        BY <1>1, <1>2
    <3> HIDE DEF f, t
    <3> QED
        BY <1>1, <2>2, <3>1, FlattenIs
  <2>4. <<>> \o x = x /\ <<>> \in Seq(S)
      OBVIOUS
  <2>5. f[1] = x
      OBVIOUS
  <2> HIDE DEF f
  <2> QED
      BY <2>1, <2>3, <2>4, <2>5, FlattenEmpty
<1>3. CASE n # 0
  <2>1. n \in 1..n
      BY <1>1, <1>3
  <2>2. PICK g \in [1..n -> Seq(S)] : Flattens(g, s, n)
      BY <2>1, FlattenExists
  <2>3. FlattenSeq(s) = g[n]
      BY <1>3, <2>2, FlattenIs
  <2> DEFINE f == [i \in 1..(n + 1) |-> IF i = n + 1 THEN g[n] \o x ELSE g[i]]
  <2>4. n \in 1..(n + 1) /\ n + 1 \in 1..(n + 1) /\ n # n + 1 /\ n + 1 # 1 /\ (n + 1) - 1 = n
      BY <1>1, <2>1
  <2>5. f[n + 1] = g[n] \o x
      BY <2>4
  <2>6. f[n] = g[n]
      BY <2>4
  <2>7. ASSUME NEW i \in 1..(n + 1) PROVE f[i] = IF i = 1 THEN t[i] ELSE f[i - 1] \o t[i]
    <3> HIDE DEF t
    <3>1. CASE i = n + 1
      <4> HIDE DEF f
      <4> QED
          BY <1>1, <2>4, <2>5, <2>6, <3>1
    <3>2. CASE i # n + 1
      <4>1. i \in 1..n /\ f[i] = g[i] /\ (i # 1 => i - 1 \in 1..(n + 1) /\ i - 1 # n + 1 /\ f[i - 1] = g[i - 1])
          BY <1>1, <3>2
      <4> QED
          BY <1>1, <2>2, <4>1 DEF Flattens
    <3> QED
        BY <3>1, <3>2
  <2>8. Flattens(f, t, n + 1)
      BY <2>7 DEF Flattens
  <2>9. FlattenSeq(t) = f[n + 1]
      <3> HIDE DEF f, t
      <3> QED
          BY <1>1, <2>8, FlattenIs
  <2>10. g[n] \in Seq(S)
      BY <2>1
  <2> HIDE DEF f, t
  <2> QED
      BY <2>3, <2>9, <2>10, <2>5 DEF t
<1> QED
    BY <1>2, <1>3

----------------------------------------------------------------------------
(* Types and fields.                                                       *)

LEMMA Types ==
    ASSUME TypeOK
    PROVE  /\ disk \in [Files -> Seq(Nat)] /\ edits \in Nat
           /\ ver \in Seq(Version) /\ head \in [Files -> 0..Len(ver)]
           /\ obj \in [Keys -> Object]
           /\ spool \in [Captures -> Spool] /\ lhead \in [Files -> LocalHead]
           /\ run \in Run /\ faults \in 0..MaxFaults
           /\ Len(ver) \in Nat
BY DEF TypeOK

LEMMA Sizes ==
    /\ NumFiles \in Nat /\ MaxCaptures \in Nat /\ MaxKeys \in Nat /\ MaxEdits \in Nat
    /\ MaxFaults \in Nat /\ SpoolLimit \in Nat /\ MaxReceipts \in Nat
    /\ Large \subseteq Files /\ Parts # {}
BY CaptureClientAssumption

\* NoKey, no version and no capture are outside their sets.
LEMMA Zeros ==
    /\ NoKey \notin Keys /\ 0 \notin Captures /\ 0 \notin Files
    /\ Keys \subseteq Nat /\ Captures \subseteq Nat /\ Files \subseteq Nat
    /\ 0..MaxKeys = Keys \cup {NoKey} /\ 0..MaxCaptures = Captures \cup {0}
BY Sizes DEF Keys, Captures, Files, NoKey

LEMMA NoSpoolType ==
    /\ NewPack \in Pack /\ NoSpool \in Spool
    /\ NoSpool.place = "none" /\ NoSpool.packs = {} /\ NoSpool.files = {}
    /\ NoSpool.pack = Each(NewPack) /\ NoSpool.accepted = Each(0) /\ NoSpool.bytes = Each(<<>>)
    /\ NoSpool.content = Each(<<>>) /\ NoSpool.reused = Each(<<>>)
    /\ Each(NewPack) \in [Files -> Pack] /\ Each(<<>>) \in [Files -> Seq(Nat)]
<1>1. NewPack \in Pack
    BY Zeros DEF NewPack, Pack
<1>2. \A S, x : x \in S => Each(x) \in [Files -> S]
    BY DEF Each
<1>3. <<>> \in Seq(Nat) /\ <<>> \in Seq(Keys)
    OBVIOUS
<1>4. /\ Each(0) \in [Files -> Nat] /\ Each(<<>>) \in [Files -> Seq(Nat)]
      /\ Each(<<>>) \in [Files -> Seq(Keys)] /\ Each(NewPack) \in [Files -> Pack]
    BY <1>1, <1>2, <1>3
<1>5. NoSpool \in Spool
    BY <1>4 DEF NoSpool, Spool
<1> QED
    BY <1>1, <1>4, <1>5 DEF NoSpool

LEMMA OffType == Off \in Run /\ Off.pc = "off" /\ Off.cur = 0
<1>1. Each(0) \in [Files -> Nat] /\ Each("start") \in [Files -> {"start", "init", "put", "confirm"}]
    BY DEF Each
<1>2. <<>> \in Seq(Nat) /\ 0 \in 0..MaxCaptures /\ 0 \in 0..NumFiles
    BY Sizes
<1> QED
    BY <1>1, <1>2 DEF Off, Run

\* What a run keeps when only its progress within an upload changes.
Turn(r) == <<r.pc, r.force, r.cur, r.fresh, r.todo, r.gone, r.seen, r.copied, r.before>>

LEMMA RunFields ==
    ASSUME NEW r \in Run
    PROVE  /\ r.cur \in 0..MaxCaptures /\ r.todo \in SUBSET Files /\ r.gone \in SUBSET Files
           /\ r.seen \in [Files -> Nat] /\ r.copied \in 0..NumFiles /\ r.before \in Seq(Nat)
           /\ r.calm \in SUBSET Files /\ r.stage \in [Files -> {"start", "init", "put", "confirm"}]
           /\ r.force \in BOOLEAN /\ r.fresh \in BOOLEAN /\ r.attempt \in 0..1
BY DEF Run

LEMMA StageChange ==
    ASSUME NEW r \in Run, NEW st \in [Files -> {"start", "init", "put", "confirm"}], NEW a \in 0..1
    PROVE  LET t == [r EXCEPT !.stage = st]
               u == [r EXCEPT !.attempt = a, !.stage = st] IN
           /\ t \in Run /\ t.calm = r.calm /\ t.stage = st /\ Turn(t) = Turn(r)
           /\ u \in Run /\ u.calm = r.calm /\ u.stage = st /\ Turn(u) = Turn(r)
<1>1. LET t == [r EXCEPT !.stage = st] IN t \in Run /\ t.calm = r.calm /\ t.stage = st /\ Turn(t) = Turn(r)
    BY DEF Run, Turn
<1>2. LET u == [r EXCEPT !.attempt = a, !.stage = st] IN
            u \in Run /\ u.calm = r.calm /\ u.stage = st /\ Turn(u) = Turn(r)
    BY DEF Run, Turn
<1> QED
    BY <1>1, <1>2

LEMMA SpoolFields ==
    ASSUME NEW s \in Spool
    PROVE  /\ s.files \in SUBSET Files /\ s.prev \in [Files -> Nat]
           /\ s.content \in [Files -> Seq(Nat)] /\ s.reused \in [Files -> Seq(Keys)]
           /\ s.packs \in SUBSET Files /\ s.pack \in [Files -> Pack]
           /\ s.bytes \in [Files -> Seq(Nat)] /\ s.dirty \in SUBSET Files
           /\ s.accepted \in [Files -> Nat]
           /\ s.place \in {"none", "incomplete", "pending", "completed", "conflicts", "removed"}
BY DEF Spool

\* The parts of a journal that an upload leaves alone.
Copy(s) == <<s.files, s.prev, s.content, s.reused, s.packs, s.bytes, s.dirty>>

LEMMA PackChange ==
    ASSUME NEW s \in Spool, NEW q \in [Files -> Pack]
    PROVE  LET t == [s EXCEPT !.pack = q] IN
           /\ t \in Spool /\ t.pack = q /\ t.place = s.place /\ t.accepted = s.accepted
           /\ Copy(t) = Copy(s)
BY DEF Spool, Copy

LEMMA PlaceChange ==
    ASSUME NEW s \in Spool, NEW p \in {"none", "incomplete", "pending", "completed", "conflicts", "removed"}
    PROVE  LET t == [s EXCEPT !.place = p] IN
           /\ t \in Spool /\ t.place = p /\ t.pack = s.pack /\ t.accepted = s.accepted
           /\ Copy(t) = Copy(s)
BY DEF Spool, Copy

LEMMA AcceptedChange ==
    ASSUME NEW s \in Spool, NEW a \in [Files -> Nat]
    PROVE  LET t == [s EXCEPT !.accepted = a] IN
           /\ t \in Spool /\ t.accepted = a /\ t.place = s.place /\ t.pack = s.pack
           /\ Copy(t) = Copy(s)
BY DEF Spool, Copy

\* The journal of one capture is written.
LEMMA Journalled ==
    ASSUME TypeOK, NEW c \in Captures, NEW t \in Spool, Journal(c, t)
    PROVE  /\ spool' \in [Captures -> Spool] /\ spool'[c] = t
           /\ \A d \in Captures : d # c => spool'[d] = spool[d]
BY Types DEF Journal

----------------------------------------------------------------------------
(* What a change of a journal must respect.                                *)

GoodChange(c, t) ==
    /\ SpoolOK(t)
    /\ Replayed(c) =>
          /\ t.place \in {"pending", "completed", "removed"}
          /\ t.place # "removed" => /\ spool[c].place # "removed"
                                    /\ t.files = spool[c].files /\ t.prev = spool[c].prev
                                    /\ t.content = spool[c].content
          /\ t.place = "pending" => \A f \in t.packs : t.pack[f].complete
    /\ \A f \in t.files : t.accepted[f] # 0 => Of(t.accepted[f], c, f)
    /\ t.place = "completed" => \A f \in t.files : t.accepted[f] # 0

LogInv == SpoolsOK /\ VersionsOK /\ Once /\ AllReceiptsOK

LEMMA SpoolsChange ==
    ASSUME BaseInv, ver' = ver,
           \A c \in Captures : spool'[c] = spool[c] \/ GoodChange(c, spool'[c])
    PROVE  LogInv'
<1>1. SpoolsOK'
    BY DEF BaseInv, SpoolsOK, GoodChange, SpoolOK, PackOK
<1>2. Once'
    BY DEF BaseInv, Once
<1>3. ASSUME NEW i \in DOMAIN ver', ver'[i].capture # 0
      PROVE  LET v == ver'[i] s == spool'[v.capture] IN
             /\ s.place \in {"pending", "completed", "removed"}
             /\ s.place # "removed" => /\ v.file \in s.files /\ v.prev = s.prev[v.file]
                                       /\ v.content = s.content[v.file]
             /\ s.place = "pending" => \A f \in s.packs : s.pack[f].complete
  <2> DEFINE c == ver[i].capture
  <2>1. i \in DOMAIN ver /\ ver'[i] = ver[i] /\ c # 0
      BY <1>3
  <2>2. ver[i] \in Version
      BY <2>1 DEF BaseInv, TypeOK
  <2>3. c \in Captures
      BY <2>1, <2>2, Zeros DEF Version
  <2>4. VersionOK(ver[i])
      BY <2>1 DEF BaseInv, VersionsOK
  <2>5. Replayed(c)
      BY <2>1 DEF Replayed
  <2> HIDE DEF c
  <2>6. CASE spool'[c] = spool[c]
      BY <2>1, <2>4, <2>6 DEF VersionOK, c
  <2>7. CASE GoodChange(c, spool'[c])
      BY <2>1, <2>4, <2>5, <2>7 DEF VersionOK, GoodChange, c
  <2> QED
      BY <2>3, <2>6, <2>7
<1>4. VersionsOK'
    BY <1>3 DEF VersionsOK, VersionOK
<1>5. ASSUME NEW c \in Captures PROVE ReceiptsOK(c)'
  <2>1. ReceiptsOK(c)
      BY DEF BaseInv, AllReceiptsOK
  <2>2. CASE spool'[c] = spool[c]
      BY <2>1, <2>2 DEF ReceiptsOK, Replayed, Of, IsAccepted
  <2>3. CASE GoodChange(c, spool'[c])
      BY <2>1, <2>3 DEF ReceiptsOK, Replayed, Of, IsAccepted, GoodChange
  <2> QED
      BY <2>2, <2>3
<1> QED
    BY <1>1, <1>2, <1>4, <1>5 DEF LogInv, AllReceiptsOK

\* Nothing was registered, and nothing written down.
LEMMA NothingChanges ==
    ASSUME BaseInv, ver' = ver, spool' = spool
    PROVE  LogInv'
BY SpoolsChange

\* A capture that was never submitted, or conflicts, has no version.
LEMMA Unregistered ==
    ASSUME BaseInv, NEW c \in Captures, spool[c].place \in {"none", "incomplete", "conflicts"}
    PROVE  ~Replayed(c)
<1> SUFFICES ASSUME NEW i \in DOMAIN ver, ver[i].capture = c PROVE FALSE
    BY DEF Replayed
<1>1. VersionOK(ver[i])
    BY DEF BaseInv, VersionsOK
<1> QED
    BY <1>1, Zeros DEF VersionOK

----------------------------------------------------------------------------
(* A step of an upload.                                                    *)

\* The running sync goes on with its submission, or stops.
RunMove(new) ==
    \/ run' = Off
    \/ /\ run' \in Run /\ Turn(run') = Turn(run) /\ run'.calm = run.calm
       /\ \A g \in Files : run'.stage[g] \in {"put", "confirm"} => new[g].key # NoKey

\* The packs of the journal change; only the pack of f may become anything but new.
PackMove(f) ==
    LET t == spool'[run.cur] IN
    /\ spool' \in [Captures -> Spool]
    /\ \A d \in Captures : d # run.cur => spool'[d] = spool[d]
    /\ t.place = Cur.place /\ t.accepted = Cur.accepted /\ Copy(t) = Copy(Cur)
    /\ \A g \in Files : PackOK(g, t.pack[g]) /\ (g # f => t.pack[g] \in {Cur.pack[g], NewPack})

\* What the requests for a pack do to the objects.
ObjMove(f) ==
    LET p == spool'[run.cur].pack[f] IN
    /\ obj' \in [Keys -> Object]
    /\ \A k \in Keys :
          /\ ObjectOK(obj'[k])
          /\ Settled(k) => Final(obj'[k]) /\ obj'[k].bytes = obj[k].bytes
          /\ obj[k].state = "complete" => obj'[k].state = "complete"
          /\ obj[k].state # "free" => obj'[k].state # "free"
          /\ k \notin Own(p) => obj'[k].bytes = obj[k].bytes /\ obj'[k].stored = obj[k].stored
    /\ Own(p) \subseteq Own(Cur.pack[f]) \cup FreshKeys
    /\ \A k \in Own(p) : /\ obj'[k].bytes \in {<<>>, Cur.bytes[f]}
                         /\ obj'[k].stored => obj'[k].bytes = Cur.bytes[f]
    /\ p.complete => Final(obj'[p.key]) /\ obj'[p.key].bytes = Cur.bytes[f]
    /\ p.key # NoKey => obj'[p.key].state # "free"

UploadMove(f) ==
    /\ run.pc = "upload" /\ ~Replayed(run.cur)
    /\ PackMove(f) /\ RunMove(spool'[run.cur].pack) /\ ObjMove(f)
    /\ faults' \in 0..MaxFaults /\ UNCHANGED <<disk, edits, ver, head, lhead>>

Inv == BaseInv /\ KeyInv

LEMMA UploadKeepsBase ==
    ASSUME Inv, NEW f \in Files, UploadMove(f)
    PROVE  BaseInv'
<1> DEFINE c == run.cur
           t == spool'[c]
<1>1. TypeOK /\ BaseInv /\ run.pc = "upload"
    BY DEF Inv, BaseInv, UploadMove
<1>2. c \in Captures /\ Cur.place = "pending" /\ Cur = spool[c]
    BY <1>1 DEF BaseInv, RunOK, Cur
<1>3. ver' = ver
    BY DEF UploadMove
<1>4. TypeOK'
  <2>1. run' \in Run
      BY OffType DEF UploadMove, RunMove
  <2>2. /\ obj' \in [Keys -> Object] /\ spool' \in [Captures -> Spool] /\ faults' \in 0..MaxFaults
        /\ UNCHANGED <<disk, edits, ver, head, lhead>>
      BY DEF UploadMove, PackMove, ObjMove
  <2> QED
      BY <1>1, <2>1, <2>2 DEF TypeOK
<1>5. /\ t.place = "pending" /\ t.accepted = spool[c].accepted /\ t.files = spool[c].files
      /\ t.packs = spool[c].packs /\ t.bytes = spool[c].bytes
      /\ \A g \in Files : PackOK(g, t.pack[g])
      /\ \A d \in Captures : d # c => spool'[d] = spool[d]
    BY <1>2 DEF UploadMove, PackMove, Copy
<1>6. RunOK'
  <2>1. CASE run' = Off
      BY <2>1, OffType DEF RunOK
  <2>2. CASE Turn(run') = Turn(run) /\ \A g \in Files : run'.stage[g] \in {"put", "confirm"} => t.pack[g].key # NoKey
    <3>1. run'.pc = "upload" /\ run'.cur = c
        BY <1>1, <2>2 DEF Turn
    <3>2. Cur' = t
        BY <3>1 DEF Cur
    <3> QED
        BY <1>2, <1>5, <2>2, <3>1, <3>2 DEF RunOK
  <2> QED
      BY <2>1, <2>2 DEF UploadMove, RunMove
<1>7. GoodChange(c, t)
  <2>1. SpoolOK(spool[c]) /\ ReceiptsOK(c)
      BY <1>1, <1>2 DEF BaseInv, SpoolsOK, AllReceiptsOK
  <2>2. SpoolOK(t)
      BY <1>2, <1>5, <2>1 DEF SpoolOK
  <2>3. ~Replayed(c)
      BY DEF UploadMove
  <2>4. \A g \in t.files : t.accepted[g] # 0 => Of(t.accepted[g], c, g)
      BY <1>5, <2>1 DEF ReceiptsOK
  <2> HIDE DEF t
  <2> QED
      BY <1>5, <2>2, <2>3, <2>4 DEF GoodChange
<1>8. LogInv'
    BY <1>1, <1>3, <1>5, <1>7, SpoolsChange
<1> QED
    BY <1>4, <1>6, <1>8 DEF BaseInv, LogInv

\* Settled objects keep their bytes: what can be read stays readable.
LEMMA ExtentsKept ==
    ASSUME NEW S \in SUBSET Keys, NEW keys \in Seq(S),
           \A k \in S : Settled(k) => Final(obj'[k]) /\ obj'[k].bytes = obj[k].bytes,
           \A i \in DOMAIN keys : Settled(keys[i])
    PROVE  /\ \A i \in DOMAIN keys : Settled(keys[i])'
           /\ Concat(keys)' = Concat(keys)
<1>1. \A i \in DOMAIN keys : keys[i] \in S
    OBVIOUS
<1>2. \A i \in DOMAIN keys : Final(obj'[keys[i]]) /\ obj'[keys[i]].bytes = obj[keys[i]].bytes
    BY <1>1
<1>3. [i \in DOMAIN keys |-> obj'[keys[i]].bytes] = [i \in DOMAIN keys |-> obj[keys[i]].bytes]
    BY <1>2
<1>4. Concat(keys)' = Concat(keys)
    BY <1>3 DEF Concat
<1>5. \A i \in DOMAIN keys : Settled(keys[i])'
    BY <1>2 DEF Settled
<1> QED
    BY <1>4, <1>5

\* No step takes the bytes of a settled object away.
ObjectsKept ==
    \A k \in Keys : Settled(k) => Final(obj'[k]) /\ obj'[k].bytes = obj[k].bytes

\* Then versions and heads that stay are as readable as they were.
LEMMA HeadsKept ==
    ASSUME TypeOK, HeadsMatch, ObjectsKept, UNCHANGED <<lhead, ver>>
    PROVE  HeadsMatch'
<1> SUFFICES ASSUME NEW f \in Files, lhead[f].keys # <<>>
             PROVE  /\ Extents(lhead[f].keys, lhead[f].content)'
                    /\ lhead[f].seq \in DOMAIN ver /\ ver[lhead[f].seq].content = lhead[f].content
    BY DEF HeadsMatch
<1>1. /\ Extents(lhead[f].keys, lhead[f].content)
      /\ lhead[f].seq \in DOMAIN ver /\ ver[lhead[f].seq].content = lhead[f].content
    BY DEF HeadsMatch
<1>2. lhead[f] \in LocalHead
    BY Types
<1>3. lhead[f].keys \in Seq(Keys)
    BY <1>2 DEF LocalHead
<1>4. /\ \A i \in DOMAIN lhead[f].keys : Settled(lhead[f].keys[i])
      /\ Concat(lhead[f].keys) = lhead[f].content
    BY <1>1 DEF Extents
<1> DEFINE keys == lhead[f].keys
<1>5. /\ \A i \in DOMAIN keys : Final(obj'[keys[i]])
      /\ Concat(keys)' = lhead[f].content
    BY <1>3, <1>4, ExtentsKept DEF ObjectsKept, Settled
<1> QED
    BY <1>1, <1>5 DEF Extents, Settled

LEMMA VersionsKept ==
    ASSUME TypeOK, VersionsReadable, ObjectsKept, ver' = ver
    PROVE  VersionsReadable'
<1> SUFFICES ASSUME NEW i \in DOMAIN ver, ver[i].capture # 0
             PROVE  Extents(ver[i].keys, ver[i].content)'
    BY DEF VersionsReadable
<1>2. ver[i] \in Version
    BY Types
<1>3. ver[i].keys \in Seq(Keys)
    BY <1>2 DEF Version
<1>4. /\ \A j \in DOMAIN ver[i].keys : Settled(ver[i].keys[j])
      /\ Concat(ver[i].keys) = ver[i].content
    BY DEF Extents, VersionsReadable
<1> DEFINE keys == ver[i].keys
<1>5. /\ \A j \in DOMAIN keys : Final(obj'[keys[j]])
      /\ Concat(keys)' = ver[i].content
    BY <1>3, <1>4, ExtentsKept DEF ObjectsKept, Settled
<1> QED
    BY <1>5 DEF Extents, Settled

\* A spool that stays, or has the same extents and bytes, as well.
LEMMA SpoolKept ==
    ASSUME TypeOK, SpoolsReadable, ObjectsKept, NEW c \in Captures, NEW f \in Files,
           spool[c].place \in {"incomplete", "pending"},
           spool'[c].reused[f] = spool[c].reused[f], spool'[c].content[f] = spool[c].content[f],
           spool'[c].bytes[f] = spool[c].bytes[f]
    PROVE  SpoolReadable(c, f)'
<1> DEFINE keys == spool[c].reused[f]
<1>1. spool[c] \in Spool
    BY Types
<1>2. keys \in Seq(Keys)
    BY <1>1 DEF Spool
<1>3. /\ \A i \in DOMAIN keys : Settled(keys[i])
      /\ spool[c].content[f] = Concat(keys) \o spool[c].bytes[f]
    BY DEF SpoolsReadable, SpoolReadable
<1>4. /\ \A i \in DOMAIN keys : Final(obj'[keys[i]])
      /\ Concat(keys)' = Concat(keys)
    BY <1>2, <1>3, ExtentsKept DEF ObjectsKept, Settled
<1>5. spool'[c].content[f] = Concat(keys)' \o spool'[c].bytes[f]
    BY <1>3, <1>4
<1>6. Concat(keys)' = Concat(spool[c].reused[f])'
    OBVIOUS
<1> QED
    BY <1>4, <1>5 DEF SpoolReadable, Settled

\* The upload of one pack, or the reset of some, leaves the keys in order.
LEMMA UploadKeepsKeys ==
    ASSUME Inv, NEW f \in Files, UploadMove(f)
    PROVE  KeyInv'
<1> DEFINE c == run.cur
           t == spool'[c]
<1>1. BaseInv /\ KeyInv /\ TypeOK /\ run.pc = "upload"
    BY DEF Inv, BaseInv, UploadMove
<1>2. c \in Captures /\ Cur.place = "pending" /\ Cur = spool[c]
    BY <1>1 DEF BaseInv, RunOK, Cur
<1>3. UNCHANGED <<ver, head, lhead>>
    BY DEF UploadMove
<1>4. /\ t.place = "pending" /\ t.reused = spool[c].reused /\ t.content = spool[c].content
      /\ t.packs = spool[c].packs /\ t.bytes = spool[c].bytes
      /\ \A g \in Files : g # f => t.pack[g] \in {spool[c].pack[g], NewPack}
      /\ \A d \in Captures : d # c => spool'[d] = spool[d]
    BY <1>2 DEF UploadMove, PackMove, Copy
<1>5. ObjectsKept
    BY DEF UploadMove, ObjMove, ObjectsKept
<1>6. /\ Own(t.pack[f]) \subseteq Own(spool[c].pack[f]) \cup FreshKeys
      /\ \A k \in Own(t.pack[f]) : /\ obj'[k].bytes \in {<<>>, spool[c].bytes[f]}
                                   /\ obj'[k].stored => obj'[k].bytes = spool[c].bytes[f]
      /\ t.pack[f].complete => Final(obj'[t.pack[f].key]) /\ obj'[t.pack[f].key].bytes = spool[c].bytes[f]
      /\ t.pack[f].key # NoKey => obj'[t.pack[f].key].state # "free"
      /\ \A k \in Keys : /\ ObjectOK(obj'[k])
                         /\ obj[k].state = "complete" => obj'[k].state = "complete"
                         /\ obj[k].state # "free" => obj'[k].state # "free"
                         /\ k \notin Own(t.pack[f]) => obj'[k].bytes = obj[k].bytes /\ obj'[k].stored = obj[k].stored
    BY <1>2 DEF UploadMove, ObjMove
<1> HIDE DEF c, t
\* Every pack keeps its keys, loses them, or is the pack of f.
<1>7. ASSUME NEW d \in Captures, NEW g \in Files
      PROVE  \/ spool'[d].pack[g] \in {spool[d].pack[g], NewPack}
             \/ d = c /\ g = f
    BY <1>4 DEF t
<1>8. Own(NewPack) = {} /\ NewPack.key = NoKey /\ ~NewPack.complete
    BY DEF Own, NewPack
<1>9. \A d \in Captures, g \in Files : \A k \in Own(spool[d].pack[g]) : k \in Keys /\ k \notin FreshKeys
  <2> SUFFICES ASSUME NEW d \in Captures, NEW g \in Files, NEW k \in Own(spool[d].pack[g])
               PROVE  k \in Keys /\ k \notin FreshKeys
      OBVIOUS
  <2>1. spool[d].pack[g] \in Pack
      BY <1>1, Types DEF Spool
  <2>2. k \in Keys
      BY <2>1, Zeros DEF Own, Pack
  <2>3. k = spool[d].pack[g].request => k \notin FreshKeys
      BY DEF FreshKeys
  <2>4. k = spool[d].pack[g].key => obj[k].state # "free"
      BY <1>1 DEF KeyInv, KeysTaken, Own
  <2> QED
      BY <2>2, <2>3, <2>4 DEF FreshKeys, Own
<1>10. OwnersOK'
  <2>1. \A d \in Captures, g \in Files :
            /\ Own(spool'[d].pack[g]) \subseteq Own(spool[d].pack[g]) \cup FreshKeys
            /\ ~(d = c /\ g = f) => Own(spool'[d].pack[g]) \subseteq Own(spool[d].pack[g])
      BY <1>6, <1>7, <1>8 DEF t
  <2>2. \A d, e \in Captures, g, h \in Files :
            Own(spool[d].pack[g]) \cap Own(spool[e].pack[h]) # {} => d = e /\ g = h
      BY <1>1 DEF KeyInv, OwnersOK, Owns
  <2> SUFFICES ASSUME NEW d \in Captures, NEW e \in Captures, NEW g \in Files, NEW h \in Files,
                      NEW k \in Own(spool'[d].pack[g]), k \in Own(spool'[e].pack[h])
               PROVE  d = e /\ g = h
      BY DEF OwnersOK, Owns
  <2>3. CASE k \in FreshKeys
      BY <1>9, <2>1, <2>3
  <2>4. CASE k \notin FreshKeys
      BY <2>1, <2>2, <2>4
  <2> QED
      BY <2>3, <2>4
<1>11. KeysTaken'
  <2> SUFFICES ASSUME NEW d \in Captures, NEW g \in Files, spool'[d].pack[g].key # NoKey
               PROVE  obj'[spool'[d].pack[g].key].state # "free"
      BY DEF KeysTaken
  <2>1. CASE d = c /\ g = f
      BY <1>6, <2>1 DEF t
  <2>2. CASE spool'[d].pack[g] = spool[d].pack[g]
    <3>1. spool[d].pack[g].key \in Own(spool[d].pack[g])
        BY <2>2 DEF Own
    <3> QED
        BY <1>1, <1>6, <1>9, <2>2, <3>1 DEF KeyInv, KeysTaken
  <2> QED
      BY <1>7, <1>8, <2>1, <2>2
<1>12. ObjectsOK'
    BY <1>6 DEF ObjectsOK
<1>13. PacksStored'
  <2> SUFFICES ASSUME NEW d \in Captures, NEW g \in Files, spool'[d].place = "pending"
               PROVE  /\ \A k \in Own(spool'[d].pack[g]) :
                            /\ obj'[k].bytes \in {<<>>, spool'[d].bytes[g]}
                            /\ obj'[k].stored => obj'[k].bytes = spool'[d].bytes[g]
                      /\ spool'[d].pack[g].complete =>
                            LET k == spool'[d].pack[g].key IN
                            Final(obj'[k]) /\ obj'[k].bytes = spool'[d].bytes[g]
      BY DEF PacksStored, PackStored, Settled, Owns
  <2>1. spool[d].place = "pending" /\ spool'[d].bytes = spool[d].bytes
      BY <1>2, <1>4 DEF t, Cur, c
  <2>2. CASE d = c /\ g = f
      BY <1>6, <2>1, <2>2 DEF t
  <2>3. CASE spool'[d].pack[g] = NewPack
      BY <1>8, <2>3
  <2>4. CASE spool'[d].pack[g] = spool[d].pack[g] /\ ~(d = c /\ g = f)
    <3>1. PackStored(d, g)
        BY <1>1 DEF KeyInv, PacksStored
    <3>2. ASSUME NEW k \in Own(spool[d].pack[g]) PROVE k \notin Own(t.pack[f])
      <4>1. k \notin Own(spool[c].pack[f])
          BY <1>1, <1>2, <2>4, <3>2 DEF KeyInv, OwnersOK, Owns
      <4> QED
          BY <1>6, <1>9, <4>1
    <3>3. \A k \in Own(spool[d].pack[g]) : k \in Keys /\ obj'[k].bytes = obj[k].bytes /\ obj'[k].stored = obj[k].stored
        BY <1>6, <1>9, <3>2
    <3>4. spool[d].pack[g].complete => spool[d].pack[g].key \in Own(spool[d].pack[g])
        BY <1>1 DEF BaseInv, SpoolsOK, SpoolOK, PackOK, Own
    <3>5. spool[d].pack[g].complete => Final(obj'[spool[d].pack[g].key]) /\ obj'[spool[d].pack[g].key].bytes = spool[d].bytes[g]
        BY <1>5, <2>1, <3>1, <3>3, <3>4 DEF PackStored, ObjectsKept
    <3>6. \A k \in Own(spool[d].pack[g]) : /\ obj'[k].bytes \in {<<>>, spool[d].bytes[g]}
                                           /\ obj'[k].stored => obj'[k].bytes = spool[d].bytes[g]
        BY <2>1, <3>1, <3>3 DEF PackStored, Owns
    <3> QED
        BY <2>1, <2>4, <3>5, <3>6
  <2> QED
      BY <1>7, <2>2, <2>3, <2>4
<1>14. SpoolsReadable'
  <2> SUFFICES ASSUME NEW d \in Captures, NEW g \in Files PROVE SpoolReadable(d, g)'
      BY DEF SpoolsReadable
  <2>1. /\ spool'[d].reused = spool[d].reused /\ spool'[d].content = spool[d].content
        /\ spool'[d].bytes = spool[d].bytes /\ spool'[d].place = spool[d].place
      BY <1>2, <1>4 DEF t, Cur, c
  <2>2. CASE spool[d].place \in {"incomplete", "pending"}
      BY <1>1, <1>5, <2>1, <2>2, SpoolKept DEF KeyInv
  <2>3. CASE spool[d].place \notin {"incomplete", "pending"}
      BY <2>1, <2>3 DEF SpoolReadable
  <2> QED
      BY <2>2, <2>3
<1>15. HeadsMatch' /\ VersionsReadable'
    BY <1>1, <1>3, <1>5, HeadsKept, VersionsKept DEF KeyInv
<1>16. NeededStands'
  <2> SUFFICES ASSUME NEW k \in Keys, Needed(k)' PROVE obj'[k].state = "complete"
      BY DEF NeededStands
  <2>1. Needed(k)
      BY <1>3 DEF Needed
  <2> QED
      BY <1>1, <1>6, <2>1 DEF KeyInv, NeededStands
<1> QED
    BY <1>10, <1>11, <1>12, <1>13, <1>14, <1>15, <1>16 DEF KeyInv

----------------------------------------------------------------------------
(* The requests of an upload.                                              *)

\* The packs of a pending capture that are not complete belong to an unregistered one.
LEMMA Uploads ==
    ASSUME BaseInv, NEW f \in Files, Uploading(f)
    PROVE  /\ run.pc = "upload" /\ run.cur \in Captures /\ Cur = spool[run.cur] /\ Cur \in Spool
           /\ Cur.place = "pending" /\ ~Replayed(run.cur) /\ f \in Cur.packs /\ f \in Cur.files
           /\ Cur.bytes[f] # <<>> /\ ~Cur.pack[f].complete /\ Cur.pack[f] \in Pack
           /\ Cur.pack \in [Files -> Pack] /\ \A g \in Files : PackOK(g, Cur.pack[g])
<1>1. run.pc = "upload" /\ f \in Cur.packs /\ ~Cur.pack[f].complete
    BY DEF Uploading, Unsent
<1>2. run.cur \in Captures /\ Cur.place = "pending"
    BY <1>1 DEF BaseInv, RunOK
<1>3. Cur = spool[run.cur] /\ Cur \in Spool
    BY <1>2 DEF BaseInv, TypeOK, Cur
<1>4. SpoolOK(Cur)
    BY <1>2 DEF BaseInv, SpoolsOK, Cur
<1>5. Cur.pack \in [Files -> Pack] /\ Cur.pack[f] \in Pack
    BY <1>3, SpoolFields
<1>6. ASSUME Replayed(run.cur) PROVE FALSE
  <2>1. PICK i \in DOMAIN ver : ver[i].capture = run.cur
      BY <1>6 DEF Replayed
  <2>2. VersionOK(ver[i])
      BY DEF BaseInv, VersionsOK
  <2>3. \A g \in Cur.packs : Cur.pack[g].complete
      BY <1>2, <1>3, <2>1, <2>2, Zeros DEF VersionOK
  <2> QED
      BY <1>1, <2>3
<1> QED
    BY <1>1, <1>2, <1>3, <1>4, <1>5, <1>6 DEF SpoolOK

\* The journal stays.
LEMMA SpoolSame ==
    ASSUME BaseInv, NEW f \in Files, Uploading(f), spool' = spool
    PROVE  PackMove(f) /\ spool'[run.cur].pack = Cur.pack
<1>1. spool'[run.cur] = Cur
    BY Uploads
<1> QED
    BY <1>1, Uploads DEF PackMove, BaseInv, TypeOK

\* One pack is saved.
LEMMA PackSaved ==
    ASSUME BaseInv, NEW f \in Files, Uploading(f), NEW p \in Pack, PackOK(f, p), SavePack(f, p)
    PROVE  /\ PackMove(f) /\ spool'[run.cur].pack[f] = p
           /\ \A g \in Files : g # f => spool'[run.cur].pack[g] = Cur.pack[g]
<1> DEFINE c == run.cur
           q == [Cur.pack EXCEPT ![f] = p]
           t == [Cur EXCEPT !.pack = q]
<1>1. c \in Captures /\ Cur \in Spool /\ Cur.pack \in [Files -> Pack]
    BY Uploads
<1>2. q \in [Files -> Pack] /\ q[f] = p /\ \A g \in Files : g # f => q[g] = Cur.pack[g]
    BY <1>1
<1> HIDE DEF q
<1>3. t \in Spool /\ t.pack = q /\ t.place = Cur.place /\ t.accepted = Cur.accepted /\ Copy(t) = Copy(Cur)
    BY <1>1, <1>2, PackChange
<1>4. [Cur EXCEPT !.pack[f] = p] = t
    BY <1>1 DEF q, Spool
<1> HIDE DEF t
<1>5. Journal(c, t)
    BY <1>4 DEF SavePack
<1>6. /\ spool' \in [Captures -> Spool] /\ spool'[c] = t
      /\ \A d \in Captures : d # c => spool'[d] = spool[d]
    BY <1>1, <1>3, <1>5, Journalled DEF BaseInv
<1>7. \A g \in Files : PackOK(g, q[g])
    BY <1>2, Uploads
<1> QED
    BY <1>2, <1>3, <1>6, <1>7 DEF PackMove

\* Some packs are reset, and nothing else is new.
LEMMA PacksReset ==
    ASSUME BaseInv, NEW f \in Files, run.pc = "upload", run.cur \in Captures,
           NEW keys, ResetRetired(keys)
    PROVE  /\ PackMove(f) /\ RunMove(spool'[run.cur].pack)
           /\ \A g \in Files : spool'[run.cur].pack[g] \in {Cur.pack[g], NewPack}
<1> DEFINE c == run.cur
<1>1. /\ Cur = spool[c] /\ Cur \in Spool /\ spool \in [Captures -> Spool] /\ run \in Run
      /\ \A g \in Files : PackOK(g, Cur.pack[g])
    BY DEF BaseInv, TypeOK, Cur, SpoolsOK, SpoolOK
<1>2. CASE run' = Off /\ spool' = spool
  <2>1. spool'[c] = Cur
      BY <1>1, <1>2
  <2> QED
      BY <1>1, <1>2, <2>1 DEF PackMove, RunMove
<1>3. CASE ~(run' = Off /\ spool' = spool)
  <2> DEFINE owned == {g \in Cur.packs : Cur.pack[g].key \in keys \/ Cur.pack[g].request \in keys}
             q == [g \in Files |-> IF g \in owned THEN Reset(Cur.pack[g]) ELSE Cur.pack[g]]
             t == [Cur EXCEPT !.pack = q]
  <2>1. Journal(c, t) /\ run' = [run EXCEPT !.attempt = 1, !.stage = Each("start")]
      BY <1>3 DEF ResetRetired
  <2>2. q \in [Files -> Pack] /\ \A g \in Files : q[g] \in {Cur.pack[g], NewPack}
      BY <1>1, NoSpoolType, SpoolFields DEF Reset
  <2> HIDE DEF q
  <2>3. t \in Spool /\ t.pack = q /\ t.place = Cur.place /\ t.accepted = Cur.accepted /\ Copy(t) = Copy(Cur)
      BY <1>1, <2>2, PackChange
  <2> HIDE DEF t
  <2>4. /\ spool' \in [Captures -> Spool] /\ spool'[c] = t
        /\ \A d \in Captures : d # c => spool'[d] = spool[d]
      BY <2>1, <2>3, Journalled DEF BaseInv
  <2>5. \A g \in Files : PackOK(g, NewPack)
      BY DEF PackOK, NewPack
  <2>6. PackMove(f)
      BY <1>1, <2>2, <2>3, <2>4, <2>5 DEF PackMove
  <2>7. Each("start") \in [Files -> {"start", "init", "put", "confirm"}] /\ \A g \in Files : Each("start")[g] = "start"
      BY DEF Each
  <2>8. run' \in Run /\ Turn(run') = Turn(run) /\ run'.calm = run.calm /\ run'.stage = Each("start")
      <3> DEFINE st == Each("start")
      <3>1. st \in [Files -> {"start", "init", "put", "confirm"}]
          BY <2>7
      <3>2. run' = [run EXCEPT !.attempt = 1, !.stage = st]
          BY <2>1
      <3>3. run \in Run
          BY <1>1
      <3> HIDE DEF st
      <3>4. run' \in Run
        <4>1. \A a : a = 1 => a \in 0..1
            OBVIOUS
        <4>2. PICK a : a = 1 /\ a \in 0..1
            BY <4>1
        <4>3. run' = [run EXCEPT !.attempt = a, !.stage = st]
            BY <3>2, <4>2
        <4> QED
            BY ONLY <3>1, <3>3, <4>2, <4>3 DEF Run
      <3>5. run'.calm = run.calm /\ run'.stage = st
          BY ONLY <3>2, <3>3 DEF Run
      <3>6. Turn(run') = Turn(run)
          BY <3>2, <3>3 DEF Run, Turn
      <3> QED
          BY <3>4, <3>5, <3>6 DEF st
  <2>9. RunMove(spool'[c].pack)
      BY <2>7, <2>8 DEF RunMove
  <2> QED
      BY <2>2, <2>3, <2>4, <2>6, <2>9
<1> QED
    BY <1>2, <1>3

LEMMA Stopped == ASSUME NEW q, run' = Off PROVE RunMove(q)
BY DEF RunMove

\* The sync waits for another answer; whoever was at a later stage has its key.
LEMMA RunSame ==
    ASSUME BaseInv, run.pc = "upload", run' = run, NEW q,
           \A g \in Files : Cur.pack[g].key # NoKey => q[g].key # NoKey
    PROVE  RunMove(q)
BY DEF RunMove, BaseInv, RunOK, TypeOK

LEMMA StageSet ==
    ASSUME BaseInv, run.pc = "upload", NEW f \in Files,
           NEW s \in {"start", "init", "put", "confirm"}, At(f, s), NEW q,
           s \in {"put", "confirm"} => q[f].key # NoKey,
           \A g \in Files : g # f /\ Cur.pack[g].key # NoKey => q[g].key # NoKey
    PROVE  RunMove(q)
<1> DEFINE st == [run.stage EXCEPT ![f] = s]
<1>1. run \in Run
    BY DEF BaseInv, TypeOK
<1>2. run.stage \in [Files -> {"start", "init", "put", "confirm"}]
    BY <1>1, RunFields
<1>3. /\ st \in [Files -> {"start", "init", "put", "confirm"}]
      /\ st[f] = s /\ \A g \in Files : g # f => st[g] = run.stage[g]
    BY <1>2
<1> HIDE DEF st
<1>4. [run EXCEPT !.stage[f] = s] = [run EXCEPT !.stage = st]
    BY <1>1 DEF st, Run
<1>5. run' = [run EXCEPT !.stage = st]
    BY <1>4 DEF At
<1>6. 1 \in 0..1
    OBVIOUS
<1>7. run' \in Run /\ run'.calm = run.calm /\ run'.stage = st /\ Turn(run') = Turn(run)
    BY <1>1, <1>3, <1>5, <1>6, StageChange
<1>8. \A g \in Files : run.stage[g] \in {"put", "confirm"} => Cur.pack[g].key # NoKey
    BY DEF BaseInv, RunOK
<1>9. ASSUME NEW g \in Files, run'.stage[g] \in {"put", "confirm"} PROVE q[g].key # NoKey
    BY <1>3, <1>7, <1>8, <1>9
<1> QED
    BY <1>7, <1>9 DEF RunMove

LEMMA FaultType == ASSUME TypeOK, Fault \/ UNCHANGED faults PROVE faults' \in 0..MaxFaults
BY Sizes, Types DEF Fault

\* What is known of the pack that is uploaded and of its objects.
LEMMA PackFacts ==
    ASSUME Inv, NEW f \in Files, run.pc = "upload", NEW p, p = Cur.pack[f]
    PROVE  /\ run.cur \in Captures /\ p \in Pack /\ PackOK(f, p)
           /\ \A k \in Own(p) : /\ k \in Keys /\ obj[k].bytes \in {<<>>, Cur.bytes[f]}
                                /\ obj[k].stored => obj[k].bytes = Cur.bytes[f]
           /\ p.complete => Final(obj[p.key]) /\ obj[p.key].bytes = Cur.bytes[f]
           /\ p.key # NoKey => p.key \in Own(p) /\ obj[p.key].state # "free"
           /\ p.request # NoKey => p.request \in Own(p)
           /\ Cur.bytes[f] \in Seq(Nat)
<1>1. BaseInv /\ TypeOK /\ KeyInv
    BY DEF Inv, BaseInv
<1>2. run.cur \in Captures /\ Cur.place = "pending" /\ Cur = spool[run.cur] /\ Cur \in Spool
    BY <1>1, Types DEF BaseInv, RunOK, Cur
<1>3. p \in Pack /\ Cur.bytes[f] \in Seq(Nat)
    BY <1>2, SpoolFields
<1>4. PackStored(run.cur, f)
    BY <1>1, <1>2 DEF KeyInv, PacksStored
<1>5. PackOK(f, p)
    BY <1>1, <1>2 DEF BaseInv, SpoolsOK, SpoolOK
<1>6. \A k \in Own(p) : k \in Keys
    BY <1>3, Zeros DEF Own, Pack
<1>7. p.key # NoKey => p.key \in Own(p) /\ obj[p.key].state # "free"
    BY <1>1, <1>2 DEF KeyInv, KeysTaken, Own
<1>8. p.request # NoKey => p.request \in Own(p)
    BY DEF Own
<1> QED
    BY <1>2, <1>3, <1>4, <1>5, <1>6, <1>7, <1>8 DEF PackStored, Owns, Settled

LEMMA FreshFacts ==
    ASSUME Inv
    PROVE  /\ \A k \in FreshKeys : /\ k \in Keys /\ k # NoKey /\ obj[k].state = "free"
                                   /\ obj[k].bytes = <<>> /\ ~obj[k].stored
           /\ FreshKeys # {} => Min(FreshKeys) \in FreshKeys
<1>1. ASSUME NEW k \in FreshKeys
      PROVE  k \in Keys /\ k # NoKey /\ obj[k].state = "free" /\ obj[k].bytes = <<>> /\ ~obj[k].stored
  <2>1. k \in Keys /\ obj[k].state = "free"
      BY DEF FreshKeys
  <2>2. ObjectOK(obj[k])
      BY <2>1 DEF Inv, KeyInv, ObjectsOK
  <2> QED
      BY <2>1, <2>2, Zeros DEF ObjectOK
<1>2. FreshKeys \subseteq Nat
    BY Zeros DEF FreshKeys
<1>3. FreshKeys # {} => Min(FreshKeys) \in FreshKeys
    BY <1>2, LeastOf
<1> QED
    BY <1>1, <1>3

\* No object changes; the pack stays, is reset, or has a fresh identity.
LEMMA ObjSame ==
    ASSUME Inv, NEW f \in Files, run.pc = "upload", PackMove(f), obj' = obj,
           NEW p, p = spool'[run.cur].pack[f],
           \/ p \in {Cur.pack[f], NewPack}
           \/ Own(p) \subseteq FreshKeys /\ p.key = NoKey /\ ~p.complete
    PROVE  ObjMove(f)
<1>1. Own(NewPack) = {} /\ NewPack.key = NoKey /\ ~NewPack.complete
    BY DEF Own, NewPack
<1>2. /\ Own(p) \subseteq Own(Cur.pack[f]) \cup FreshKeys
      /\ \A k \in Own(p) : /\ obj[k].bytes \in {<<>>, Cur.bytes[f]}
                           /\ obj[k].stored => obj[k].bytes = Cur.bytes[f]
      /\ p.complete => Final(obj[p.key]) /\ obj[p.key].bytes = Cur.bytes[f]
      /\ p.key # NoKey => obj[p.key].state # "free"
  <2>1. CASE p = Cur.pack[f]
      BY <2>1, PackFacts
  <2>2. CASE p = NewPack
      BY <1>1, <2>2
  <2>3. CASE Own(p) \subseteq FreshKeys /\ p.key = NoKey /\ ~p.complete
      BY <2>3, FreshFacts
  <2> QED
      BY <2>1, <2>2, <2>3
<1>3. obj \in [Keys -> Object] /\ \A k \in Keys : ObjectOK(obj[k])
    BY Types DEF Inv, BaseInv, KeyInv, ObjectsOK
<1> QED
    BY <1>2, <1>3 DEF ObjMove, Settled

\* One object changes, that of the pack or a fresh one.
LEMMA ObjChanged ==
    ASSUME Inv, NEW f \in Files, run.pc = "upload", PackMove(f),
           NEW k \in Keys, obj' \in [Keys -> Object], \A j \in Keys : j # k => obj'[j] = obj[j],
           NEW o, o = obj'[k], NEW p, p = spool'[run.cur].pack[f],
           ObjectOK(o), o.state # "free",
           Settled(k) => Final(o) /\ o.bytes = obj[k].bytes,
           obj[k].state = "complete" => o.state = "complete",
           Own(p) \subseteq Own(Cur.pack[f]) \cup {k}, k \in Own(Cur.pack[f]) \cup FreshKeys,
           k \notin Own(p) => o.bytes = obj[k].bytes /\ o.stored = obj[k].stored,
           k \in Own(p) => o.bytes \in {<<>>, Cur.bytes[f]} /\ (o.stored => o.bytes = Cur.bytes[f]),
           p.complete => p.key = k /\ Final(o) /\ o.bytes = Cur.bytes[f],
           p.key \in {NoKey, k, Cur.pack[f].key}
    PROVE  ObjMove(f)
<1>1. \A j \in Keys : ObjectOK(obj[j])
    BY DEF Inv, KeyInv, ObjectsOK
<1>2. ASSUME NEW j \in Own(p)
      PROVE  obj'[j].bytes \in {<<>>, Cur.bytes[f]} /\ (obj'[j].stored => obj'[j].bytes = Cur.bytes[f])
  <2>1. CASE j = k
      BY <1>2, <2>1
  <2>2. CASE j # k
      BY <1>2, <2>2, PackFacts
  <2> QED
      BY <2>1, <2>2
<1>3. Own(p) \subseteq Own(Cur.pack[f]) \cup FreshKeys
    OBVIOUS
<1>4. p.key # NoKey => obj'[p.key].state # "free"
  <2>1. CASE p.key = k
      BY <2>1
  <2>2. CASE p.key # k /\ p.key = Cur.pack[f].key
      BY <2>2, PackFacts
  <2> QED
      BY <2>1, <2>2
<1>5. ASSUME NEW j \in Keys
      PROVE  /\ ObjectOK(obj'[j])
             /\ Settled(j) => Final(obj'[j]) /\ obj'[j].bytes = obj[j].bytes
             /\ obj[j].state = "complete" => obj'[j].state = "complete"
             /\ obj[j].state # "free" => obj'[j].state # "free"
             /\ j \notin Own(p) => obj'[j].bytes = obj[j].bytes /\ obj'[j].stored = obj[j].stored
  <2>1. CASE j = k
      BY <2>1
  <2>2. CASE j # k
      BY <1>1, <2>2 DEF Settled
  <2> QED
      BY <2>1, <2>2
<1> QED
    BY <1>2, <1>3, <1>4, <1>5 DEF ObjMove

LEMMA UploadKeeps ==
    ASSUME Inv, NEW f \in Files, UploadMove(f)
    PROVE  Inv'
BY UploadKeepsBase, UploadKeepsKeys DEF Inv

\* A reset after a retired pack.
LEMMA ResetKeeps ==
    ASSUME Inv, NEW f \in Files, run.pc = "upload", ~Replayed(run.cur), NEW keys, ResetRetired(keys),
           UNCHANGED <<disk, edits, obj, ver, head, lhead, faults>>
    PROVE  UploadMove(f)
<1>1. run.cur \in Captures /\ TypeOK
    BY DEF Inv, BaseInv, RunOK
<1>2. PackMove(f) /\ RunMove(spool'[run.cur].pack) /\ spool'[run.cur].pack[f] \in {Cur.pack[f], NewPack}
    BY <1>1, PacksReset DEF Inv
<1>3. ObjMove(f)
    BY <1>2, ObjSame
<1>4. faults' \in 0..MaxFaults
    BY <1>1, FaultType
<1> QED
    BY <1>2, <1>3, <1>4 DEF UploadMove

\* The frame of every request.
UploadFrame == UNCHANGED <<disk, edits, ver, head, lhead>>

\* The response is journalled, or the process stops before.
LEMMA AnsweredMove ==
    ASSUME Inv, NEW f \in Files, Uploading(f), NEW p \in Pack, PackOK(f, p),
           Cur.pack[f].key # NoKey => p.key # NoKey,
           NEW s \in {"start", "init", "put", "confirm"},
           s \in {"put", "confirm"} => p.key # NoKey,
           \/ Answered(SavePack(f, p), At(f, s))
           \/ Answered(SavePack(f, p), UNCHANGED run)
    PROVE  /\ PackMove(f) /\ RunMove(spool'[run.cur].pack) /\ faults' \in 0..MaxFaults
           /\ spool'[run.cur].pack[f] \in {p, Cur.pack[f]}
           /\ spool'[run.cur].pack[f] = p \/ run' = Off
<1>1. BaseInv /\ TypeOK /\ run.pc = "upload"
    BY Uploads DEF Inv, BaseInv
<1>2. faults' \in 0..MaxFaults
    BY <1>1, FaultType DEF Answered, Stop
<1>3. CASE spool' = spool /\ Stop
    BY <1>1, <1>2, <1>3, SpoolSame, Stopped DEF Stop
<1>4. CASE SavePack(f, p) /\ (At(f, s) \/ run' = run)
  <2> DEFINE q == spool'[run.cur].pack
  <2>1. PackMove(f) /\ q[f] = p /\ \A g \in Files : g # f => q[g] = Cur.pack[g]
      BY <1>1, <1>4, PackSaved
  <2> HIDE DEF q
  <2>2. \A g \in Files : Cur.pack[g].key # NoKey => q[g].key # NoKey
      BY <2>1
  <2>3. CASE run' = run
      BY <1>1, <1>2, <2>1, <2>2, <2>3, RunSame DEF q
  <2>4. CASE At(f, s)
      BY <1>1, <1>2, <2>1, <2>2, <2>4, StageSet DEF q
  <2> QED
      BY <1>4, <2>3, <2>4
<1> QED
    BY <1>3, <1>4 DEF Answered

\* sources/complete found the object of the pack.
LEMMA SourceStored ==
    ASSUME Inv, NEW f \in Files, Uploading(f), NEW k, k = Cur.pack[f].key, k # NoKey,
           obj[k].stored, obj' = [obj EXCEPT ![k].state = "complete"],
           Answered(SavePack(f, [Cur.pack[f] EXCEPT !.complete = TRUE]), UNCHANGED run), UploadFrame
    PROVE  UploadMove(f)
<1> DEFINE p == [Cur.pack[f] EXCEPT !.complete = TRUE]
           q == spool'[run.cur].pack[f]
<1>1. BaseInv /\ run.pc = "upload" /\ ~Replayed(run.cur) /\ Cur.pack[f] \in Pack /\ PackOK(f, Cur.pack[f])
    BY Uploads DEF Inv
<1>2. p \in Pack /\ p.key = k /\ p.request = Cur.pack[f].request
    BY <1>1 DEF Pack
<1>3. PackOK(f, p) /\ Own(p) = Own(Cur.pack[f])
    BY <1>1, <1>2 DEF PackOK, Own
<1>4. k \in Own(Cur.pack[f]) /\ k \in Keys /\ obj[k].bytes = Cur.bytes[f]
    BY <1>1, PackFacts
<1>5. obj[k] \in Object /\ obj \in [Keys -> Object]
    BY <1>1, <1>4, Types DEF BaseInv
<1>6. /\ obj' \in [Keys -> Object] /\ \A j \in Keys : j # k => obj'[j] = obj[j]
      /\ obj'[k].state = "complete" /\ obj'[k].stored = obj[k].stored /\ obj'[k].bytes = obj[k].bytes
    BY <1>4, <1>5 DEF Object
<1> HIDE DEF p
<1>7. PackMove(f) /\ RunMove(spool'[run.cur].pack) /\ faults' \in 0..MaxFaults /\ q \in {p, Cur.pack[f]}
  <2>1. "start" \in {"start", "init", "put", "confirm"} /\ "start" \notin {"put", "confirm"}
      OBVIOUS
  <2>2. Answered(SavePack(f, p), UNCHANGED run)
      BY DEF p
  <2> QED
      BY <1>2, <1>3, <2>1, <2>2, AnsweredMove
<1> HIDE DEF q
<1>8. ObjectOK(obj'[k]) /\ Final(obj'[k])
    BY <1>6 DEF ObjectOK, Final
<1>9. Own(q) = Own(Cur.pack[f]) /\ q.key = k
    BY <1>2, <1>3, <1>7
<1>10. ObjMove(f)
  <2>1. q = spool'[run.cur].pack[f]
      BY DEF q
  <2>2. /\ obj'[k].state = "complete" /\ obj'[k].state # "free"
        /\ Settled(k) => Final(obj'[k]) /\ obj'[k].bytes = obj[k].bytes
        /\ Own(q) \subseteq Own(Cur.pack[f]) \cup {k} /\ k \in Own(Cur.pack[f]) \cup FreshKeys
        /\ obj'[k].bytes = Cur.bytes[f] /\ k \in Own(q)
      BY <1>4, <1>6, <1>8, <1>9
  <2> QED
      BY <1>1, <1>4, <1>6, <1>7, <1>8, <1>9, <2>1, <2>2, ObjChanged
<1> QED
    BY <1>1, <1>7, <1>10 DEF UploadMove, UploadFrame

\* Nothing is written; the sync asks on, or stops.
LEMMA OnlyRun ==
    ASSUME Inv, NEW f \in Files, Uploading(f), spool' = spool, obj' = obj, UploadFrame,
           RunMove(Cur.pack), faults' \in 0..MaxFaults
    PROVE  UploadMove(f)
<1>1. BaseInv /\ run.pc = "upload" /\ ~Replayed(run.cur)
    BY Uploads DEF Inv
<1>2. PackMove(f) /\ spool'[run.cur].pack = Cur.pack
    BY <1>1, SpoolSame
<1>3. ObjMove(f)
    BY <1>1, <1>2, ObjSame
<1> QED
    BY <1>1, <1>2, <1>3 DEF UploadMove, UploadFrame

LEMMA ConfirmMove ==
    ASSUME Inv, NEW f \in Files, ConfirmEarlier(f) \/ CompleteSourcePack(f)
    PROVE  UploadMove(f)
<1>1. BaseInv /\ TypeOK /\ Uploading(f) /\ UploadFrame /\ run.pc = "upload" /\ ~Replayed(run.cur)
    BY Uploads DEF Inv, BaseInv, ConfirmEarlier, CompleteSourcePack, UploadFrame, Uploading
<1> DEFINE k == Cur.pack[f].key
<1>2. k # NoKey
    BY <1>1 DEF ConfirmEarlier, CompleteSourcePack, BaseInv, RunOK
<1>3. \/ /\ obj[k].stored /\ obj' = [obj EXCEPT ![k].state = "complete"]
         /\ Answered(SavePack(f, [Cur.pack[f] EXCEPT !.complete = TRUE]), UNCHANGED run)
      \/ ResetRetired({k}) /\ UNCHANGED <<obj, faults>>
      \/ (At(f, "init") \/ run' = Off) /\ UNCHANGED <<obj, spool, faults>>
    BY DEF ConfirmEarlier, CompleteSourcePack, SourcePackComplete
<1> HIDE DEF k
<1>4. CASE /\ obj[k].stored /\ obj' = [obj EXCEPT ![k].state = "complete"]
           /\ Answered(SavePack(f, [Cur.pack[f] EXCEPT !.complete = TRUE]), UNCHANGED run)
    BY <1>1, <1>2, <1>4, SourceStored DEF k
<1>5. CASE ResetRetired({k}) /\ UNCHANGED <<obj, faults>>
    BY <1>1, <1>5, ResetKeeps DEF UploadFrame
<1>6. CASE (At(f, "init") \/ run' = Off) /\ UNCHANGED <<obj, spool, faults>>
  <2>1. RunMove(Cur.pack)
    <3>1. CASE run' = Off
        BY <3>1, Stopped
    <3>2. CASE At(f, "init")
      <4>1. "init" \in {"start", "init", "put", "confirm"} /\ "init" \notin {"put", "confirm"}
          OBVIOUS
      <4> QED
          BY <1>1, <3>2, <4>1, StageSet
    <3> QED
        BY <1>6, <3>1, <3>2
  <2>2. faults' \in 0..MaxFaults
      BY <1>1, <1>6, FaultType
  <2> QED
      BY <1>1, <1>6, <2>1, <2>2, OnlyRun
<1> QED
    BY <1>3, <1>4, <1>5, <1>6

LEMMA InitMove ==
    ASSUME Inv, NEW f \in Files, InitSourcePack(f)
    PROVE  UploadMove(f)
<1>1. BaseInv /\ TypeOK /\ Uploading(f) /\ UploadFrame /\ run.pc = "upload" /\ ~Replayed(run.cur)
      /\ Cur.pack[f] \in Pack /\ PackOK(f, Cur.pack[f]) /\ f \notin Large /\ ~Cur.pack[f].complete
    BY Uploads DEF Inv, BaseInv, InitSourcePack, UploadFrame, Uploading
<1> DEFINE known == Cur.pack[f].key
           k == IF known = NoKey THEN Min(FreshKeys) ELSE known
           p == [Cur.pack[f] EXCEPT !.key = k]
           q == spool'[run.cur].pack[f]
<1>2. CASE ResetRetired({known}) /\ UNCHANGED <<obj, faults>>
    BY <1>1, <1>2, ResetKeeps DEF UploadFrame
<1>3. CASE ~(ResetRetired({known}) /\ UNCHANGED <<obj, faults>>)
  <2>1. /\ known \notin RetiredKeys /\ (FreshKeys # {} \/ known # NoKey)
        /\ obj' = [obj EXCEPT ![k].state = IF @ = "free" THEN "open" ELSE @]
        /\ Answered(SavePack(f, p), At(f, "put"))
      BY <1>3 DEF InitSourcePack
  <2>2. k # NoKey /\ k \in Keys /\ k \in Own(Cur.pack[f]) \cup FreshKeys
    <3>1. CASE known = NoKey
        BY <2>1, <3>1, FreshFacts
    <3>2. CASE known # NoKey
        BY <1>1, <3>2, PackFacts
    <3> QED
        BY <3>1, <3>2
  <2>3. known # NoKey => k = known
      OBVIOUS
  <2> HIDE DEF k
  <2>4. p \in Pack /\ p.key = k /\ p.request = Cur.pack[f].request /\ ~p.complete
    <3>1. k \in 0..MaxKeys
        BY <2>2, Zeros
    <3> QED
        BY <1>1, <3>1 DEF Pack
  <2>5. PackOK(f, p) /\ Own(p) = {k}
      BY <1>1, <2>2, <2>4 DEF PackOK, Own
  <2>6. obj[k] \in Object /\ obj \in [Keys -> Object] /\ ObjectOK(obj[k])
      BY <1>1, <2>2, Types DEF Inv, KeyInv, ObjectsOK
  <2>7. /\ obj' \in [Keys -> Object] /\ \A j \in Keys : j # k => obj'[j] = obj[j]
        /\ obj'[k].state = (IF obj[k].state = "free" THEN "open" ELSE obj[k].state)
        /\ obj'[k].stored = obj[k].stored /\ obj'[k].bytes = obj[k].bytes
      BY <2>1, <2>2, <2>6 DEF Object
  <2> HIDE DEF p
  <2>8. PackMove(f) /\ RunMove(spool'[run.cur].pack) /\ faults' \in 0..MaxFaults /\ q \in {p, Cur.pack[f]}
    <3>1. "put" \in {"start", "init", "put", "confirm"}
        OBVIOUS
    <3> QED
        BY <2>1, <2>2, <2>4, <2>5, <1>1, <3>1, AnsweredMove
  <2>9. ObjectOK(obj'[k]) /\ obj'[k].state # "free" /\ (Settled(k) => Final(obj'[k]))
        /\ (obj[k].state = "complete" => obj'[k].state = "complete")
      BY <2>6, <2>7 DEF ObjectOK, Final, Settled
  <2>10. obj[k].bytes \in {<<>>, Cur.bytes[f]} /\ (obj[k].stored => obj[k].bytes = Cur.bytes[f])
      BY <1>1, <2>2, PackFacts, FreshFacts
  <2>11. Own(q) \subseteq Own(Cur.pack[f]) \cup {k} /\ q.key \in {NoKey, k, Cur.pack[f].key} /\ ~q.complete
      BY <1>1, <2>4, <2>5, <2>8
  <2>12. q = spool'[run.cur].pack[f]
      OBVIOUS
  <2> HIDE DEF q
  <2>13. ObjMove(f)
      BY <1>1, <2>2, <2>7, <2>8, <2>9, <2>10, <2>11, <2>12, ObjChanged
  <2> QED
      BY <1>1, <2>8, <2>13 DEF UploadMove, UploadFrame
<1> QED
    BY <1>2, <1>3

LEMMA PutMove ==
    ASSUME Inv, NEW f \in Files, PutSourcePack(f)
    PROVE  UploadMove(f)
<1> DEFINE k == Cur.pack[f].key
<1>1. BaseInv /\ TypeOK /\ Uploading(f) /\ UploadFrame /\ run.pc = "upload" /\ ~Replayed(run.cur)
      /\ Cur.pack[f] \in Pack /\ ~Cur.pack[f].complete /\ spool' = spool /\ faults' = faults
    BY Uploads DEF Inv, BaseInv, PutSourcePack, UploadFrame, Uploading
<1>2. k # NoKey
    BY <1>1 DEF PutSourcePack, BaseInv, RunOK
<1>3. k \in Keys /\ k \in Own(Cur.pack[f]) /\ obj[k].state # "free"
      /\ (obj[k].stored => obj[k].bytes = Cur.bytes[f]) /\ Cur.bytes[f] \in Seq(Nat)
    BY <1>1, <1>2, PackFacts
<1>4. obj \in [Keys -> Object] /\ obj[k] \in Object /\ ObjectOK(obj[k])
    BY <1>1, <1>3, Types DEF Inv, KeyInv, ObjectsOK
<1>5. faults' \in 0..MaxFaults
    BY <1>1, FaultType
<1>6. PackMove(f) /\ spool'[run.cur].pack = Cur.pack
    BY <1>1, SpoolSame
<1>7. RunMove(Cur.pack)
  <2>1. CASE run' = Off
      BY <2>1, Stopped
  <2>2. CASE At(f, "confirm")
    <3>1. "confirm" \in {"start", "init", "put", "confirm"}
        OBVIOUS
    <3> QED
        BY <1>1, <1>2, <2>2, <3>1, StageSet
  <2> QED
      BY <2>1, <2>2 DEF PutSourcePack
<1>8. CASE obj' = obj
    BY <1>1, <1>5, <1>7, <1>8, OnlyRun
<1>9. CASE obj' # obj
  <2>1. ~obj[k].stored /\ obj[k].state # "retired" /\ obj' = [obj EXCEPT ![k].stored = TRUE, ![k].bytes = Cur.bytes[f]]
      BY <1>9 DEF PutSourcePack
  <2> HIDE DEF k
  <2>2. /\ obj' \in [Keys -> Object] /\ \A j \in Keys : j # k => obj'[j] = obj[j]
        /\ obj'[k].state = obj[k].state /\ obj'[k].stored /\ obj'[k].bytes = Cur.bytes[f]
      BY <1>3, <1>4, <2>1 DEF Object
  <2>3. ~Settled(k) /\ ObjectOK(obj'[k]) /\ obj'[k].state # "free" /\ obj[k].state # "complete"
      BY <1>3, <1>4, <2>1, <2>2 DEF Settled, Final, ObjectOK
  <2>4. ObjMove(f)
    <3> DEFINE p == spool'[run.cur].pack[f]
    <3>1. p = Cur.pack[f]
        BY <1>6
    <3>2. p.key = k /\ ~p.complete /\ Own(p) \subseteq Own(Cur.pack[f]) \cup {k} /\ k \in Own(p)
        BY <1>1, <1>3, <3>1 DEF k
    <3>3. p = spool'[run.cur].pack[f]
        OBVIOUS
    <3> HIDE DEF p
    <3> QED
        BY <1>1, <1>3, <1>6, <2>2, <2>3, <3>2, <3>3, ObjChanged
  <2> QED
      BY <1>1, <1>5, <1>6, <1>7, <2>4 DEF UploadMove, UploadFrame
<1> QED
    BY <1>8, <1>9

\* A fresh identity of a multipart upload.
LEMMA FreshIdentity ==
    ASSUME Inv, NEW f \in Files, Uploading(f), f \in Large, FreshKeys # {},
           SavePack(f, [NewPack EXCEPT !.request = Min(FreshKeys)]),
           UploadFrame, UNCHANGED <<obj, run, faults>>,
           run.stage[f] \notin {"put", "confirm"}
    PROVE  UploadMove(f)
<1> DEFINE k == Min(FreshKeys)
           p == [NewPack EXCEPT !.request = k]
           q == spool'[run.cur].pack
<1>1. BaseInv /\ TypeOK /\ run.pc = "upload" /\ ~Replayed(run.cur)
    BY Uploads DEF Inv, BaseInv
<1>2. k \in FreshKeys /\ k \in Keys /\ k # NoKey
    BY FreshFacts
<1> HIDE DEF k
<1>3. p \in Pack /\ p.key = NoKey /\ p.request = k /\ ~p.complete
    BY <1>2, Zeros DEF Pack, NewPack
<1>4. PackOK(f, p) /\ Own(p) = {k}
    BY <1>2, <1>3 DEF PackOK, Own
<1>5. SavePack(f, p)
    BY DEF k
<1> HIDE DEF p
<1>6. PackMove(f) /\ q[f] = p /\ \A g \in Files : g # f => q[g] = Cur.pack[g]
    BY <1>1, <1>3, <1>4, <1>5, PackSaved
<1>7. ObjMove(f)
  <2>1. Own(p) \subseteq FreshKeys /\ q[f] = spool'[run.cur].pack[f]
      BY <1>2, <1>4
  <2> QED
      BY <1>1, <1>3, <1>6, <2>1, ObjSame
<1> HIDE DEF q
<1>8. RunMove(q)
    BY <1>1, <1>6 DEF RunMove, BaseInv, RunOK, TypeOK
<1>9. faults' \in 0..MaxFaults
    BY <1>1, FaultType
<1> QED
    BY <1>1, <1>6, <1>7, <1>8, <1>9 DEF UploadMove, UploadFrame, q

LEMMA MultipartIdentityMove ==
    ASSUME Inv, NEW f \in Files, MultipartIdentity(f)
    PROVE  UploadMove(f)
<1>1. BaseInv /\ Uploading(f) /\ UploadFrame /\ run.pc = "upload" /\ PackOK(f, Cur.pack[f])
      /\ f \in Large /\ Cur.pack[f].request = NoKey
    BY Uploads DEF Inv, MultipartIdentity, UploadFrame, server, Uploading
<1>2. run.stage[f] \notin {"put", "confirm"}
    BY <1>1 DEF PackOK, BaseInv, RunOK
<1> QED
    BY <1>1, <1>2, FreshIdentity DEF MultipartIdentity, server

LEMMA MultipartInitMove ==
    ASSUME Inv, NEW f \in Files, MultipartInit(f)
    PROVE  UploadMove(f)
<1> DEFINE k == Cur.pack[f].request
           p == [Cur.pack[f] EXCEPT !.key = k, !.complete = obj[k].stored]
           q == spool'[run.cur].pack[f]
<1>1. BaseInv /\ TypeOK /\ Uploading(f) /\ UploadFrame /\ run.pc = "upload" /\ ~Replayed(run.cur)
      /\ Cur.pack[f] \in Pack /\ PackOK(f, Cur.pack[f]) /\ ~Cur.pack[f].complete
      /\ f \in Large /\ k # NoKey /\ run.stage[f] = "start"
    BY Uploads DEF Inv, BaseInv, MultipartInit, UploadFrame, Uploading
<1>2. CASE ResetRetired({k}) /\ UNCHANGED <<obj, faults>>
    BY <1>1, <1>2, ResetKeeps DEF UploadFrame
<1>3. CASE FreshKeys # {} /\ SavePack(f, Restarted(Cur.pack[f], Min(FreshKeys))) /\ UNCHANGED <<obj, run, faults>>
    BY <1>1, <1>3, FreshIdentity DEF Restarted
<1>4. CASE /\ obj[k].state \in {"free", "open", "complete"}
           /\ obj' = [obj EXCEPT ![k].state = IF obj[k].stored THEN "complete" ELSE "open"]
           /\ Answered(SavePack(f, p), At(f, "put"))
  <2>1. k \in Keys /\ k \in Own(Cur.pack[f]) /\ obj[k].bytes \in {<<>>, Cur.bytes[f]}
        /\ (obj[k].stored => obj[k].bytes = Cur.bytes[f])
      BY <1>1, PackFacts
  <2>2. obj[k] \in Object /\ obj \in [Keys -> Object] /\ ObjectOK(obj[k])
      BY <1>1, <2>1, Types DEF Inv, KeyInv, ObjectsOK
  <2>3. obj[k].stored \in BOOLEAN
      BY <2>2 DEF Object
  <2> HIDE DEF k
  <2>4. p \in Pack /\ p.key = k /\ p.request = k /\ p.complete = obj[k].stored
    <3>1. k \in 0..MaxKeys /\ Cur.pack[f].request = k
        BY <2>1, Zeros DEF k
    <3> QED
        BY <1>1, <2>3, <3>1 DEF Pack
  <2> HIDE DEF p
  <2>5. PackOK(f, p) /\ Own(p) = {k} /\ Own(p) \subseteq Own(Cur.pack[f])
      BY <1>1, <2>1, <2>4 DEF PackOK, Own
  <2>6. PackMove(f) /\ RunMove(spool'[run.cur].pack) /\ faults' \in 0..MaxFaults /\ q \in {p, Cur.pack[f]}
    <3>1. "put" \in {"start", "init", "put", "confirm"}
        OBVIOUS
    <3>2. p.key # NoKey
        BY <1>1, <2>4
    <3> QED
        BY <1>1, <1>4, <2>4, <2>5, <3>1, <3>2, AnsweredMove
  <2>7. /\ obj' \in [Keys -> Object] /\ \A j \in Keys : j # k => obj'[j] = obj[j]
        /\ obj'[k].state = (IF obj[k].stored THEN "complete" ELSE "open")
        /\ obj'[k].stored = obj[k].stored /\ obj'[k].bytes = obj[k].bytes
      BY <1>4, <2>1, <2>2 DEF Object
  <2>8. /\ ObjectOK(obj'[k]) /\ obj'[k].state # "free"
        /\ Settled(k) => Final(obj'[k]) /\ obj'[k].bytes = obj[k].bytes
        /\ obj[k].state = "complete" => obj'[k].state = "complete"
      BY <1>4, <2>2, <2>7 DEF Settled, Final, ObjectOK
  <2>9. /\ Own(q) \subseteq Own(Cur.pack[f]) \cup {k} /\ q.key \in {NoKey, k, Cur.pack[f].key}
        /\ q.complete => q.key = k /\ Final(obj'[k]) /\ obj'[k].bytes = Cur.bytes[f]
      BY <1>1, <2>1, <2>4, <2>5, <2>6, <2>7 DEF Final
  <2>10. q = spool'[run.cur].pack[f]
      OBVIOUS
  <2> HIDE DEF q
  <2>11. ObjMove(f)
      BY <1>1, <2>1, <2>6, <2>7, <2>8, <2>9, <2>10, ObjChanged
  <2> QED
      BY <1>1, <2>6, <2>11 DEF UploadMove, UploadFrame
<1> QED
    BY <1>1, <1>2, <1>3, <1>4 DEF MultipartInit

\* A stage that needs a key has one, and its object belongs to the pack.
LEMMA PutFacts ==
    ASSUME Inv, NEW f \in Files, Uploading(f), f \in Large, run.stage[f] = "put",
           NEW k, k = Cur.pack[f].key
    PROVE  /\ k # NoKey /\ k \in Keys /\ k \in Own(Cur.pack[f]) /\ Own(Cur.pack[f]) = {k}
           /\ obj \in [Keys -> Object] /\ obj[k] \in Object /\ ObjectOK(obj[k])
           /\ obj[k].state # "free" /\ Cur.bytes[f] \in Seq(Nat)
           /\ obj[k].bytes \in {<<>>, Cur.bytes[f]} /\ (obj[k].stored => obj[k].bytes = Cur.bytes[f])
<1>1. BaseInv /\ TypeOK /\ run.pc = "upload" /\ PackOK(f, Cur.pack[f])
    BY Uploads DEF Inv, BaseInv
<1>2. k # NoKey
    BY <1>1 DEF BaseInv, RunOK
<1>3. Own(Cur.pack[f]) = {k}
    BY <1>1, <1>2 DEF PackOK, Own
<1>4. /\ k \in Keys /\ obj[k].state # "free" /\ Cur.bytes[f] \in Seq(Nat)
      /\ obj[k].bytes \in {<<>>, Cur.bytes[f]} /\ (obj[k].stored => obj[k].bytes = Cur.bytes[f])
    BY <1>1, <1>2, <1>3, PackFacts
<1>5. obj \in [Keys -> Object] /\ obj[k] \in Object /\ ObjectOK(obj[k])
    BY <1>1, <1>4, Types DEF Inv, KeyInv, ObjectsOK
<1> QED
    BY <1>2, <1>3, <1>4, <1>5

LEMMA PartMove ==
    ASSUME Inv, NEW f \in Files, NEW n \in Parts, PutPart(f, n)
    PROVE  UploadMove(f)
<1> DEFINE k == Cur.pack[f].key
           p == [Cur.pack[f] EXCEPT !.acked = @ \cup {n}]
           q == spool'[run.cur].pack[f]
<1>1. BaseInv /\ TypeOK /\ Uploading(f) /\ UploadFrame /\ run.pc = "upload" /\ ~Replayed(run.cur)
      /\ Cur.pack[f] \in Pack /\ PackOK(f, Cur.pack[f]) /\ ~Cur.pack[f].complete
      /\ f \in Large /\ run.stage[f] = "put"
    BY Uploads DEF Inv, BaseInv, PutPart, UploadFrame, Uploading
<1>2. CASE run' = Off /\ UNCHANGED <<obj, spool, faults>>
    BY <1>1, <1>2, Stopped, FaultType, OnlyRun
<1>3. CASE obj[k].state = "open" /\ PutCapturedPart(k, n) /\ Answered(SavePack(f, p), UNCHANGED run)
  <2>1. /\ k # NoKey /\ k \in Keys /\ k \in Own(Cur.pack[f]) /\ obj[k] \in Object
        /\ ObjectOK(obj[k]) /\ obj \in [Keys -> Object]
        /\ obj[k].bytes \in {<<>>, Cur.bytes[f]} /\ (obj[k].stored => obj[k].bytes = Cur.bytes[f])
      BY <1>1, PutFacts
  <2>2. Cur.pack[f].key = k
      OBVIOUS
  <2> HIDE DEF k
  <2>3. p \in Pack /\ p.key = k /\ p.request = Cur.pack[f].request /\ ~p.complete
      BY <1>1, <2>2 DEF Pack
  <2> HIDE DEF p
  <2>4. PackOK(f, p) /\ Own(p) = Own(Cur.pack[f])
      BY <1>1, <2>2, <2>3 DEF PackOK, Own
  <2>5. PackMove(f) /\ RunMove(spool'[run.cur].pack) /\ faults' \in 0..MaxFaults /\ q \in {p, Cur.pack[f]}
    <3>1. "start" \in {"start", "init", "put", "confirm"} /\ "start" \notin {"put", "confirm"}
        OBVIOUS
    <3> QED
        BY <1>1, <1>3, <2>1, <2>2, <2>3, <2>4, <3>1, AnsweredMove
  <2>6. /\ obj' \in [Keys -> Object] /\ \A j \in Keys : j # k => obj'[j] = obj[j]
        /\ obj'[k].state = obj[k].state
        /\ obj'[k].stored = obj[k].stored /\ obj'[k].bytes = obj[k].bytes
      BY <1>3, <2>1 DEF Object, PutCapturedPart
  <2>7. /\ ObjectOK(obj'[k]) /\ obj'[k].state # "free" /\ ~Settled(k)
        /\ obj[k].state # "complete"
      BY <1>3, <2>1, <2>6 DEF Settled, Final, ObjectOK
  <2>8. Own(q) \subseteq Own(Cur.pack[f]) \cup {k} /\ q.key = k /\ ~q.complete
      BY <1>1, <2>2, <2>3, <2>4, <2>5
  <2>9. q = spool'[run.cur].pack[f]
      OBVIOUS
  <2> HIDE DEF q
  <2>10. ObjMove(f)
      BY <1>1, <2>1, <2>5, <2>6, <2>7, <2>8, <2>9, ObjChanged
  <2> QED
      BY <1>1, <2>5, <2>10 DEF UploadMove, UploadFrame
<1> QED
    BY <1>2, <1>3 DEF PutPart

LEMMA MultipartCompleteMove ==
    ASSUME Inv, NEW f \in Files, MultipartComplete(f)
    PROVE  UploadMove(f)
<1> DEFINE k == Cur.pack[f].key
           p == [Cur.pack[f] EXCEPT !.complete = TRUE]
           q == spool'[run.cur].pack[f]
<1>1. BaseInv /\ TypeOK /\ Uploading(f) /\ UploadFrame /\ run.pc = "upload" /\ ~Replayed(run.cur)
      /\ Cur.pack[f] \in Pack /\ PackOK(f, Cur.pack[f]) /\ ~Cur.pack[f].complete
      /\ f \in Large /\ run.stage[f] = "put"
    BY Uploads DEF Inv, BaseInv, MultipartComplete, UploadFrame, Uploading
<1>2. CASE ResetRetired({k}) /\ UNCHANGED <<obj, faults>>
    BY <1>1, <1>2, ResetKeeps DEF UploadFrame
<1>3. CASE run' = Off /\ UNCHANGED <<obj, spool, faults>>
    BY <1>1, <1>3, Stopped, FaultType, OnlyRun
<1>4. ASSUME obj[k].state = "open", NEW state \in {"open", "complete"},
             obj' = [obj EXCEPT ![k].stored = TRUE, ![k].state = state,
                                ![k].bytes = IF @ = <<>> THEN Cur.bytes[f] ELSE @],
             \/ state = "complete" /\ SavePack(f, p) /\ UNCHANGED <<run, faults>>
             \/ UNCHANGED spool /\ Stop
      PROVE  UploadMove(f)
  <2>1. /\ k # NoKey /\ k \in Keys /\ k \in Own(Cur.pack[f]) /\ obj[k] \in Object
        /\ ObjectOK(obj[k]) /\ obj \in [Keys -> Object] /\ Cur.bytes[f] \in Seq(Nat)
        /\ obj[k].bytes \in {<<>>, Cur.bytes[f]}
      BY <1>1, PutFacts
  <2>2. Cur.pack[f].key = k
      OBVIOUS
  <2> HIDE DEF k
  <2>3. p \in Pack /\ p.key = k /\ p.request = Cur.pack[f].request
      BY <1>1, <2>2 DEF Pack
  <2>4. p.complete
      BY <1>1 DEF Pack
  <2> HIDE DEF p
  <2>5. PackOK(f, p) /\ Own(p) = Own(Cur.pack[f])
      BY <1>1, <2>1, <2>2, <2>3 DEF PackOK, Own
  <2>6. /\ PackMove(f) /\ RunMove(spool'[run.cur].pack) /\ faults' \in 0..MaxFaults
        /\ q = Cur.pack[f] \/ (q = p /\ state = "complete")
    <3>1. CASE spool' = spool /\ Stop
        BY <1>1, <3>1, SpoolSame, Stopped, FaultType DEF Stop
    <3>2. CASE state = "complete" /\ SavePack(f, p) /\ UNCHANGED <<run, faults>>
      <4>1. PackMove(f) /\ q = p /\ \A g \in Files : g # f => spool'[run.cur].pack[g] = Cur.pack[g]
          BY <1>1, <2>3, <2>5, <3>2, PackSaved
      <4>2. \A g \in Files : Cur.pack[g].key # NoKey => spool'[run.cur].pack[g].key # NoKey
          BY <2>1, <2>3, <4>1
      <4> DEFINE packs == spool'[run.cur].pack
      <4> HIDE DEF packs
      <4>3. RunMove(packs)
          BY <1>1, <3>2, <4>2, RunSame DEF packs
      <4> QED
          BY <1>1, <3>2, <4>1, <4>3, FaultType DEF packs
    <3> QED
        BY <1>4, <3>1, <3>2
  <2>7. /\ obj' \in [Keys -> Object] /\ \A j \in Keys : j # k => obj'[j] = obj[j]
        /\ obj'[k].stored /\ obj'[k].state = state
        /\ obj'[k].bytes = (IF obj[k].bytes = <<>> THEN Cur.bytes[f] ELSE obj[k].bytes)
      BY <1>4, <2>1 DEF Object
  <2>8. obj'[k].bytes = Cur.bytes[f]
      BY <2>1, <2>7
  <2>9. /\ ObjectOK(obj'[k]) /\ obj'[k].state # "free" /\ ~Settled(k)
        /\ obj[k].state # "complete"
      BY <1>4, <2>1, <2>7 DEF Settled, Final, ObjectOK
  <2>10. /\ Own(q) \subseteq Own(Cur.pack[f]) \cup {k} /\ q.key = k /\ k \in Own(q)
         /\ q.complete => Final(obj'[k])
      BY <1>1, <2>1, <2>2, <2>3, <2>5, <2>6, <2>7 DEF Final
  <2>11. q = spool'[run.cur].pack[f]
      OBVIOUS
  <2> HIDE DEF q
  <2>12. ObjMove(f)
      BY <1>1, <2>1, <2>6, <2>7, <2>8, <2>9, <2>10, <2>11, ObjChanged
  <2> QED
      BY <1>1, <2>6, <2>12 DEF UploadMove, UploadFrame
<1> QED
    BY <1>2, <1>3, <1>4 DEF MultipartComplete

LEMMA RegisterRetiredMove ==
    ASSUME Inv, RegisterRetired
    PROVE  \E f \in Files : UploadMove(f)
<1>1. /\ run.pc = "upload" /\ ~Replayed(run.cur) /\ Retired(run.cur) # {}
      /\ ResetRetired(Retired(run.cur)) /\ UNCHANGED <<disk, edits, server, lhead, faults>>
    BY DEF RegisterRetired
<1>2. run.cur \in Captures /\ spool[run.cur] \in Spool
    BY <1>1, Types DEF Inv, BaseInv, RunOK
<1>3. PICK f \in spool[run.cur].files : TRUE
    BY <1>1 DEF Retired, RequestKeys
<1>4. f \in Files
    BY <1>2, SpoolFields
<1> QED
    BY <1>1, <1>4, ResetKeeps DEF server

----------------------------------------------------------------------------
(* Steps that leave the catalog, the objects, the spools and the local     *)
(* heads alone.                                                            *)

LEMMA KeysStill ==
    ASSUME KeyInv, UNCHANGED <<ver, head, obj, spool, lhead>>
    PROVE  KeyInv'
<1>1. OwnersOK' /\ KeysTaken' /\ ObjectsOK'
    BY DEF KeyInv, OwnersOK, Owns, Own, KeysTaken, ObjectsOK, ObjectOK
<1>2. \A keys : Concat(keys)' = Concat(keys)
    BY DEF Concat
<1>3. PacksStored'
    BY DEF KeyInv, PacksStored, PackStored, Owns, Own, Settled, Final
<1>4. SpoolsReadable'
    BY <1>2 DEF KeyInv, SpoolsReadable, SpoolReadable, Settled, Final
<1>5. HeadsMatch' /\ VersionsReadable'
    BY <1>2 DEF KeyInv, HeadsMatch, VersionsReadable, Extents, Settled, Final
<1>6. NeededStands'
    BY DEF KeyInv, NeededStands, Needed
<1> QED
    BY <1>1, <1>3, <1>4, <1>5, <1>6 DEF KeyInv

LEMMA StillKeeps ==
    ASSUME Inv, UNCHANGED <<ver, head, obj, spool, lhead>>, TypeOK', RunOK'
    PROVE  Inv'
BY NothingChanges, KeysStill DEF Inv, BaseInv, LogInv

LEMMA StillType ==
    ASSUME TypeOK, UNCHANGED <<disk, edits, ver, head, obj, spool, lhead>>, run' \in Run,
           Fault \/ UNCHANGED faults
    PROVE  TypeOK'
BY FaultType DEF TypeOK

\* A process that is not in the middle of a capture owes nothing.
LEMMA IdleRun ==
    ASSUME run'.pc \notin {"copy", "upload", "heads"}
    PROVE  RunOK'
BY DEF RunOK

LEMMA OffKeeps ==
    ASSUME Inv, run' = Off, UNCHANGED <<disk, edits, ver, head, obj, spool, lhead>>,
           Fault \/ UNCHANGED faults
    PROVE  Inv'
BY OffType, StillType, IdleRun, StillKeeps DEF Inv, BaseInv

\* Only the calm files of a run may change.
LEMMA CalmKeepsRun ==
    ASSUME BaseInv, NEW f \in Files, run' = [run EXCEPT !.calm = @ \ {f}], spool' = spool
    PROVE  run' \in Run /\ RunOK' /\ Turn(run') = Turn(run) /\ run'.calm = run.calm \ {f}
<1> DEFINE S == run.calm \ {f}
<1>1. run \in Run /\ S \in SUBSET Files
    BY RunFields DEF BaseInv, TypeOK
<1> HIDE DEF S
<1>2. run' = [run EXCEPT !.calm = S]
    BY DEF S
<1>3. run' \in Run /\ run'.calm = S /\ run'.stage = run.stage /\ Turn(run') = Turn(run)
  <2>1. run' \in Run
      BY ONLY <1>1, <1>2 DEF Run
  <2>2. run'.calm = S /\ run'.stage = run.stage
      BY ONLY <1>1, <1>2 DEF Run
  <2>3. Turn(run') = Turn(run)
      BY ONLY <1>1, <1>2 DEF Run, Turn
  <2> QED
      BY <2>1, <2>2, <2>3
<1>4. run'.pc = run.pc /\ run'.cur = run.cur /\ run'.copied = run.copied
    BY <1>3 DEF Turn
<1>5. Cur' = Cur
    BY <1>4 DEF Cur
<1>6. RunOK /\ spool' = spool
    BY DEF BaseInv
<1>7. RunOK'
    BY <1>3, <1>4, <1>5, <1>6 DEF RunOK, IsAccepted
<1> QED
    BY <1>3, <1>7 DEF S

LEMMA EditKeeps ==
    ASSUME Inv, NEW f \in Files, NEW content \in Seq(Nat), Edit(f, content)
    PROVE  Inv'
<1>1. BaseInv /\ TypeOK
    BY DEF Inv, BaseInv
<1>2. run' \in Run /\ RunOK'
    BY <1>1, CalmKeepsRun DEF Edit
<1>3. disk' \in [Files -> Seq(Nat)] /\ edits' \in Nat
    BY <1>1, Types DEF Edit
<1>4. TypeOK'
    BY <1>1, <1>2, <1>3 DEF TypeOK, Edit, server
<1> QED
    BY <1>2, <1>4, StillKeeps DEF Edit, server

LEMMA EditsKeep ==
    ASSUME Inv, NEW f \in Files, AppendFile(f) \/ ReplaceFile(f) \/ RemoveFile(f)
    PROVE  Inv'
<1>1. /\ edits + 1 \in Nat /\ Append(disk[f], edits + 1) \in Seq(Nat) /\ <<edits + 1>> \in Seq(Nat)
      /\ <<>> \in Seq(Nat)
    BY Types DEF Inv, BaseInv
<1> QED
    BY <1>1, EditKeeps DEF AppendFile, ReplaceFile, RemoveFile

LEMMA StartKeeps ==
    ASSUME Inv, NEW force \in BOOLEAN, StartSync(force)
    PROVE  Inv'
<1>1. run' \in Run /\ run'.pc = "clean"
    BY OffType DEF StartSync, Run
<1> QED
    BY <1>1, StillType, IdleRun, StillKeeps DEF StartSync, server, Inv, BaseInv

\* The submission of a published capture starts.
LEMMA SubmitRun ==
    ASSUME run \in Run, NEW c \in Captures, NEW fresh \in BOOLEAN
    PROVE  LET r == Submit(c, fresh) IN
           /\ r \in Run /\ r.pc = (IF IsAccepted(c) THEN "heads" ELSE "upload") /\ r.cur = c
           /\ r.fresh = fresh /\ r.stage = Each("start") /\ r.calm = run.calm /\ r.todo = run.todo
           /\ r.gone = run.gone
<1> DEFINE st == Each("start")
           r == Submit(c, fresh)
           pc == IF IsAccepted(c) THEN "heads" ELSE "upload"
<1>1. st \in [Files -> {"start", "init", "put", "confirm"}]
    BY DEF Each
<1>2. c \in 0..MaxCaptures
    BY Zeros
<1>3. pc \in {"heads", "upload"}
    OBVIOUS
<1>4. 0 \in 0..1
    OBVIOUS
<1>5. r = [run EXCEPT !.pc = pc, !.cur = c, !.fresh = fresh, !.attempt = 0, !.stage = st]
    BY DEF Submit
<1> HIDE DEF st, r, pc
<1>6. r \in Run
    BY <1>1, <1>2, <1>3, <1>4, <1>5 DEF Run
<1>7. /\ r.pc = pc /\ r.cur = c /\ r.fresh = fresh /\ r.stage = st /\ r.calm = run.calm
      /\ r.todo = run.todo /\ r.gone = run.gone
    BY <1>5 DEF Run
<1> QED
    BY <1>6, <1>7 DEF st, r, pc

LEMMA ResumeKeeps ==
    ASSUME Inv, NEW c \in Captures, ResumePending(c)
    PROVE  Inv'
<1>1. BaseInv /\ TypeOK /\ run \in Run /\ c \in Pending
    BY DEF Inv, BaseInv, TypeOK, ResumePending
<1> DEFINE r == Submit(c, FALSE)
<1>2. /\ r \in Run /\ r.pc = (IF IsAccepted(c) THEN "heads" ELSE "upload") /\ r.cur = c
      /\ r.stage = Each("start")
    BY <1>1, SubmitRun
<1>3. run' = r
    BY DEF ResumePending
<1> HIDE DEF r
<1>4. TypeOK'
    BY <1>1, <1>2, <1>3, StillType DEF ResumePending, server
<1>5. Cur' = spool[c] /\ IsAccepted(c)' = IsAccepted(c)
    BY <1>2, <1>3 DEF ResumePending, Cur, IsAccepted
<1>6. \A g \in Files : Each("start")[g] = "start"
    BY DEF Each
<1>7. RunOK'
    BY <1>1, <1>2, <1>3, <1>5, <1>6 DEF RunOK, Pending
<1> QED
    BY <1>4, <1>7, StillKeeps DEF ResumePending, server

\* The file that is copied next.
LEMMA NextSource ==
    ASSUME BaseInv, run.pc = "copy", ToCopy # {}
    PROVE  /\ run.cur \in Captures /\ Cur = spool[run.cur] /\ Cur \in Spool /\ Cur.place = "incomplete"
           /\ ToCopy \subseteq Files
           /\ Min(ToCopy) \in ToCopy /\ Min(ToCopy) \in Files /\ \A g \in ToCopy : Min(ToCopy) <= g
<1>1. run.cur \in Captures /\ Cur.place = "incomplete"
    BY DEF BaseInv, RunOK
<1>2. Cur = spool[run.cur] /\ Cur \in Spool
    BY <1>1, Types DEF BaseInv, Cur
<1>3. ToCopy \subseteq Files
    BY <1>2, SpoolFields DEF ToCopy
<1>4. ToCopy \subseteq Nat
    BY <1>3, Zeros
<1> QED
    BY <1>1, <1>2, <1>3, <1>4, LeastOf

LEMMA OpenKeeps ==
    ASSUME Inv, OpenSource
    PROVE  Inv'
<1> DEFINE f == Min(ToCopy)
<1>1. BaseInv /\ TypeOK /\ run \in Run /\ run.pc = "copy" /\ f \in Files
    BY NextSource DEF Inv, BaseInv, TypeOK, OpenSource
<1>2. UNCHANGED <<disk, edits, ver, head, obj, spool, lhead, faults>>
    BY DEF OpenSource, server
<1>3. disk[f] \in Seq(Nat)
    BY <1>1, Types
<1>4. CASE run' = Off
    BY <1>2, <1>4, OffKeeps
<1>5. CASE run' = [run EXCEPT !.before = disk[f]]
  <2> HIDE DEF f
  <2>1. run' \in Run /\ run'.pc = run.pc /\ run'.cur = run.cur /\ run'.copied = run.copied
      BY <1>1, <1>3, <1>5 DEF Run
  <2>2. Cur' = Cur
      BY <1>2, <2>1 DEF Cur
  <2>3. RunOK'
      BY <1>1, <1>2, <2>1, <2>2 DEF BaseInv, RunOK
  <2>4. TypeOK'
      BY <1>1, <1>2, <2>1, StillType
  <2> QED
      BY <1>2, <2>3, <2>4, StillKeeps
<1> QED
    BY <1>4, <1>5 DEF OpenSource

LEMMA StopsKeep ==
    ASSUME Inv, Crash \/ Finish \/ TruncatedSource
    PROVE  Inv'
BY OffKeeps DEF Crash, Stop, Finish, TruncatedSource, server

----------------------------------------------------------------------------
(* The other clients, and the objects that go.                             *)

LEMMA OtherKeeps ==
    ASSUME Inv, NEW f \in Files, OtherCapture(f)
    PROVE  Inv'
<1>1. BaseInv /\ TypeOK /\ KeyInv /\ UNCHANGED <<disk, edits, obj, spool, lhead>> /\ Fault
    BY DEF Inv, BaseInv, OtherCapture
<1>2. PICK content \in {<<>>, <<0>>, disk[f]} :
        ver' = Append(ver, [file |-> f, capture |-> 0, prev |-> head[f], content |-> content, keys |-> <<>>])
    BY DEF OtherCapture
<1> DEFINE v == [file |-> f, capture |-> 0, prev |-> head[f], content |-> content, keys |-> <<>>]
           n == Len(ver)
<1>3. n \in Nat /\ head[f] \in Nat /\ ver \in Seq(Version)
    BY <1>1, Types
<1>4. v \in Version /\ v.capture = 0 /\ v.keys = <<>>
  <2>1. content \in Seq(Nat) /\ <<>> \in Seq(Keys) /\ 0 \in 0..MaxCaptures
    <3>1. disk[f] \in Seq(Nat)
        BY <1>1, Types
    <3>2. <<>> \in Seq(Nat) /\ <<0>> \in Seq(Nat) /\ <<>> \in Seq(Keys)
        OBVIOUS
    <3>3. content \in Seq(Nat)
        BY <3>1, <3>2
    <3>4. 0 \in 0..MaxCaptures
        BY Zeros
    <3> QED
        BY <3>2, <3>3, <3>4
  <2> QED
    <3> HIDE DEF n
    <3>1. v.capture = 0 /\ v.keys = <<>>
        OBVIOUS
    <3>2. v \in Version
        BY ONLY <1>3, <2>1, f \in Files DEF Version
    <3> QED
        BY <3>1, <3>2
<1>5. ver' = Append(ver, v)
    BY <1>2
<1> HIDE DEF v
<1>6. /\ ver' \in Seq(Version) /\ Len(ver') = n + 1 /\ DOMAIN ver' = 1..(n + 1) /\ DOMAIN ver = 1..n
      /\ ver'[n + 1] = v /\ \A i \in DOMAIN ver : ver'[i] = ver[i]
    BY <1>3, <1>4, <1>5
<1>7. \A i \in DOMAIN ver' : ver'[i].capture # 0 => i \in DOMAIN ver /\ ver'[i] = ver[i]
    BY <1>3, <1>4, <1>6
<1>8. DOMAIN ver \subseteq DOMAIN ver'
    BY <1>3, <1>6
<1> HIDE DEF n
<1>9. run' \in Run /\ RunOK'
    BY <1>1, CalmKeepsRun DEF OtherCapture
<1>10. head' \in [Files -> 0..Len(ver')] /\ head'[f] = n + 1 /\ \A g \in Files : g # f => head'[g] = head[g]
  <2>1. head \in [Files -> 0..n] /\ head' = [head EXCEPT ![f] = n + 1]
      BY <1>1, Types DEF OtherCapture, n
  <2> QED
      BY <1>3, <1>6, <2>1
<1>11. TypeOK'
    BY <1>1, <1>6, <1>9, <1>10, FaultType DEF TypeOK
<1>12. \A c \in Captures : Replayed(c)' <=> Replayed(c)
  <2> SUFFICES ASSUME NEW c \in Captures PROVE (\E i \in DOMAIN ver' : ver'[i].capture = c) <=> (\E i \in DOMAIN ver : ver[i].capture = c)
      BY DEF Replayed
  <2>1. c # 0
      BY Zeros
  <2> QED
      BY <1>6, <1>7, <1>8, <2>1
<1>13. SpoolsOK' /\ Once'
    BY <1>1, <1>6, <1>7 DEF BaseInv, SpoolsOK, SpoolOK, PackOK, Once
<1>14. VersionsOK'
    BY <1>1, <1>7 DEF BaseInv, VersionsOK, VersionOK
<1>15. AllReceiptsOK'
  <2> SUFFICES ASSUME NEW c \in Captures PROVE ReceiptsOK(c)'
      BY DEF AllReceiptsOK
  <2>1. ReceiptsOK(c) /\ spool' = spool
      BY <1>1 DEF BaseInv, AllReceiptsOK
  <2>2. \A i, g : Of(i, c, g) => Of(i, c, g)'
      BY <1>6, <1>8 DEF Of
  <2>3. ASSUME Replayed(c)', spool'[c].place # "removed", NEW g \in spool'[c].files
        PROVE  \E i \in DOMAIN ver' : Of(i, c, g)'
    <3>1. PICK i \in DOMAIN ver : Of(i, c, g)
        BY <1>12, <2>1, <2>3 DEF ReceiptsOK
    <3> QED
        BY <1>8, <2>2, <3>1
  <2>4. ASSUME NEW g \in spool[c].files, NEW i, i = spool[c].accepted[g], i # 0 PROVE Of(i, c, g)'
      BY <2>1, <2>2, <2>4 DEF ReceiptsOK
  <2>5. \A g \in spool'[c].files : spool'[c].accepted[g] # 0 => Of(spool[c].accepted[g], c, g)'
      BY <2>1, <2>4 DEF Of
  <2>6. spool'[c].place = "completed" => \A g \in spool'[c].files : spool'[c].accepted[g] # 0
      BY <2>1 DEF ReceiptsOK, IsAccepted
  <2> QED
      BY <2>1, <2>3, <2>5, <2>6 DEF ReceiptsOK, IsAccepted, Of
<1>16. OwnersOK' /\ KeysTaken' /\ ObjectsOK'
    BY <1>1 DEF KeyInv, OwnersOK, Owns, Own, KeysTaken, ObjectsOK, ObjectOK
<1>17. \A keys : Concat(keys)' = Concat(keys)
    BY <1>1 DEF Concat
<1>18. PacksStored' /\ SpoolsReadable'
    BY <1>1, <1>17 DEF KeyInv, PacksStored, PackStored, SpoolsReadable, SpoolReadable, Owns, Own, Settled, Final
<1>19. HeadsMatch'
    BY <1>1, <1>6, <1>8, <1>17 DEF KeyInv, HeadsMatch, Extents, Settled, Final
<1>20. VersionsReadable'
    BY <1>1, <1>7, <1>17 DEF KeyInv, VersionsReadable, Extents, Settled, Final
<1>21. NeededStands'
  <2> SUFFICES ASSUME NEW k \in Keys, NEW g \in Files, head'[g] # 0, k \in ToSet(ver'[head'[g]].keys)
               PROVE  obj'[k].state = "complete"
      BY DEF NeededStands, Needed
  <2>1. g # f
    <3>1. ToSet(<<>>) = {}
        BY DEF ToSet
    <3> QED
        BY <1>4, <1>6, <1>10, <3>1
  <2>2. head'[g] = head[g] /\ head[g] \in 1..n
      BY <1>1, <1>10, <2>1, Types DEF n
  <2>3. Needed(k)
      BY <1>6, <2>2 DEF Needed
  <2> QED
      BY <1>1, <2>3 DEF KeyInv, NeededStands
<1>22. KeyInv'
    BY <1>16, <1>18, <1>19, <1>20, <1>21 DEF KeyInv
<1> QED
    BY <1>9, <1>11, <1>13, <1>14, <1>15, <1>22 DEF Inv, BaseInv

\* Objects change, and no bytes do.
LEMMA ObjectsKeep ==
    ASSUME Inv, UNCHANGED <<disk, edits, ver, head, spool, lhead, run>>, Fault,
           obj' \in [Keys -> Object],
           \A k \in Keys : /\ ObjectOK(obj'[k]) /\ obj'[k].bytes = obj[k].bytes
                           /\ Settled(k) => Final(obj'[k])
                           /\ obj[k].state # "free" => obj'[k].state # "free"
                           /\ obj'[k].stored => obj[k].stored
                           /\ obj[k].state = "complete" /\ Needed(k) => obj'[k].state = "complete"
    PROVE  Inv'
<1>1. BaseInv /\ TypeOK /\ KeyInv /\ ObjectsKept
    BY DEF Inv, BaseInv, ObjectsKept
<1>2. TypeOK' /\ RunOK'
    BY <1>1, FaultType DEF TypeOK, BaseInv, RunOK, Cur, IsAccepted
<1>3. LogInv'
    BY <1>1, NothingChanges
<1>4. OwnersOK' /\ ObjectsOK'
    BY <1>1 DEF KeyInv, OwnersOK, Owns, ObjectsOK
<1>5. \A d \in Captures, g \in Files : LET p == spool[d].pack[g] IN
          (\A k \in Own(p) : k \in Keys) /\ (p.key # NoKey => p.key \in Keys)
  <2> SUFFICES ASSUME NEW d \in Captures, NEW g \in Files, NEW p, p = spool[d].pack[g]
               PROVE  (\A k \in Own(p) : k \in Keys) /\ (p.key # NoKey => p.key \in Keys)
      OBVIOUS
  <2>1. p \in Pack
      BY <1>1, Types, SpoolFields
  <2> QED
      BY <2>1, Zeros DEF Own, Pack
<1>6. KeysTaken'
    BY <1>1, <1>5 DEF KeyInv, KeysTaken
<1>7. PacksStored'
  <2> SUFFICES ASSUME NEW d \in Captures, NEW g \in Files PROVE PackStored(d, g)'
      BY DEF PacksStored
  <2>1. PackStored(d, g) /\ PackOK(g, spool[d].pack[g])
      BY <1>1 DEF KeyInv, PacksStored, BaseInv, SpoolsOK, SpoolOK
  <2> QED
      BY <1>5, <2>1 DEF PackStored, PackOK, Owns, Settled
<1>8. SpoolsReadable'
  <2> SUFFICES ASSUME NEW d \in Captures, NEW g \in Files PROVE SpoolReadable(d, g)'
      BY DEF SpoolsReadable
  <2>1. CASE spool[d].place \in {"incomplete", "pending"}
      BY <1>1, <2>1, SpoolKept DEF KeyInv
  <2>2. CASE spool[d].place \notin {"incomplete", "pending"}
      BY <2>2 DEF SpoolReadable
  <2> QED
      BY <2>1, <2>2
<1>9. HeadsMatch' /\ VersionsReadable'
    BY <1>1, HeadsKept, VersionsKept DEF KeyInv
<1>10. NeededStands'
    BY <1>1 DEF KeyInv, NeededStands, Needed
<1> QED
    BY <1>2, <1>3, <1>4, <1>6, <1>7, <1>8, <1>9, <1>10 DEF Inv, BaseInv, LogInv, KeyInv

LEMMA RetireKeeps ==
    ASSUME Inv, NEW k \in Keys, RetirePack(k)
    PROVE  Inv'
<1>1. obj \in [Keys -> Object] /\ obj[k] \in Object /\ \A j \in Keys : ObjectOK(obj[j])
    BY Types DEF Inv, BaseInv, KeyInv, ObjectsOK
<1>2. /\ obj[k].state \in {"open", "complete", "expired"} /\ ~Needed(k)
      /\ obj' = [obj EXCEPT ![k].state = "retired", ![k].stored = FALSE]
    BY DEF RetirePack
<1>3. /\ obj' \in [Keys -> Object] /\ \A j \in Keys : j # k => obj'[j] = obj[j]
      /\ obj'[k].state = "retired" /\ ~obj'[k].stored /\ obj'[k].bytes = obj[k].bytes
    BY <1>1, <1>2 DEF Object
<1>4. ASSUME NEW j \in Keys
      PROVE  /\ ObjectOK(obj'[j]) /\ obj'[j].bytes = obj[j].bytes
             /\ Settled(j) => Final(obj'[j])
             /\ obj[j].state # "free" => obj'[j].state # "free"
             /\ obj'[j].stored => obj[j].stored
             /\ obj[j].state = "complete" /\ Needed(j) => obj'[j].state = "complete"
  <2>1. CASE j = k
      BY <1>2, <1>3, <2>1 DEF ObjectOK, Final
  <2>2. CASE j # k
      BY <1>1, <1>3, <2>2 DEF Settled
  <2> QED
      BY <2>1, <2>2
<1> QED
    BY <1>3, <1>4, ObjectsKeep DEF RetirePack

LEMMA ExpireKeeps ==
    ASSUME Inv, NEW k \in Keys, ExpireSession(k)
    PROVE  Inv'
<1>1. obj \in [Keys -> Object] /\ obj[k] \in Object /\ \A j \in Keys : ObjectOK(obj[j])
    BY Types DEF Inv, BaseInv, KeyInv, ObjectsOK
<1>2. obj[k].state = "open" /\ obj' = [obj EXCEPT ![k].state = "expired", ![k].acked = {}]
    BY DEF ExpireSession
<1>3. /\ obj' \in [Keys -> Object] /\ \A j \in Keys : j # k => obj'[j] = obj[j]
      /\ obj'[k].state = "expired" /\ obj'[k].stored = obj[k].stored /\ obj'[k].bytes = obj[k].bytes
    BY <1>1, <1>2 DEF Object
<1>4. ASSUME NEW j \in Keys
      PROVE  /\ ObjectOK(obj'[j]) /\ obj'[j].bytes = obj[j].bytes
             /\ Settled(j) => Final(obj'[j])
             /\ obj[j].state # "free" => obj'[j].state # "free"
             /\ obj'[j].stored => obj[j].stored
             /\ obj[j].state = "complete" /\ Needed(j) => obj'[j].state = "complete"
  <2>1. CASE j = k
      BY <1>2, <1>3, <2>1 DEF ObjectOK, Final, Settled
  <2>2. CASE j # k
      BY <1>1, <1>3, <2>2 DEF Settled
  <2> QED
      BY <2>1, <2>2
<1> QED
    BY <1>3, <1>4, ObjectsKeep DEF ExpireSession

----------------------------------------------------------------------------
(* Steps of one sync on its own journals.                                  *)

\* The extents and the pack of a spool hold its content.
Holds(t, f) ==
    /\ \A i \in DOMAIN t.reused[f] : Settled(t.reused[f][i])
    /\ t.content[f] = Concat(t.reused[f]) \o t.bytes[f]

\* What a journal may become while no object changes.
KeyChange(c, t) ==
    /\ \A f \in Files : t.pack[f] \in {spool[c].pack[f], NewPack}
    /\ t.place = "pending" => \/ spool[c].place = "pending" /\ t.bytes = spool[c].bytes
                              \/ \A f \in Files : t.pack[f] = NewPack
    /\ t.place \in {"incomplete", "pending"} => \A f \in Files : Holds(t, f)

LEMMA SpoolKeys ==
    ASSUME Inv, \A k \in Keys : /\ obj'[k].state = obj[k].state /\ obj'[k].stored = obj[k].stored
                                /\ obj'[k].bytes = obj[k].bytes,
           spool' \in [Captures -> Spool],
           \A c \in Captures : spool'[c] = spool[c] \/ KeyChange(c, spool'[c])
    PROVE  OwnersOK' /\ KeysTaken' /\ ObjectsOK' /\ PacksStored' /\ SpoolsReadable' /\ ObjectsKept
<1>1. BaseInv /\ TypeOK /\ KeyInv
    BY DEF Inv, BaseInv
<1>2. Own(NewPack) = {} /\ NewPack.key = NoKey /\ ~NewPack.complete
    BY DEF Own, NewPack
<1>3. ASSUME NEW c \in Captures, NEW f \in Files
      PROVE  spool'[c].pack[f] \in {spool[c].pack[f], NewPack}
    BY DEF KeyChange
<1>4. ASSUME NEW c \in Captures, NEW f \in Files, NEW p, p = spool[c].pack[f]
      PROVE  (\A k \in Own(p) : k \in Keys) /\ (p.key # NoKey => p.key \in Own(p) /\ p.key \in Keys)
  <2>1. p \in Pack
      BY <1>1, <1>4, Types, SpoolFields
  <2> QED
      BY <2>1, Zeros DEF Own, Pack
<1>5. OwnersOK'
  <2>1. \A c \in Captures, f \in Files : Own(spool'[c].pack[f]) \subseteq Own(spool[c].pack[f])
      BY <1>2, <1>3
  <2> QED
      BY <1>1, <2>1 DEF KeyInv, OwnersOK, Owns
<1>6. KeysTaken'
  <2> SUFFICES ASSUME NEW c \in Captures, NEW f \in Files, spool'[c].pack[f].key # NoKey
               PROVE  obj'[spool'[c].pack[f].key].state # "free"
      BY DEF KeysTaken
  <2>1. spool'[c].pack[f] = spool[c].pack[f]
      BY <1>2, <1>3
  <2>2. spool[c].pack[f].key \in Keys
      BY <1>4, <2>1
  <2> QED
      BY <1>1, <2>1, <2>2 DEF KeyInv, KeysTaken
<1>7. ObjectsOK'
    BY <1>1 DEF KeyInv, ObjectsOK, ObjectOK
<1>8. ObjectsKept
    BY DEF ObjectsKept, Settled, Final
<1>9. PacksStored'
  <2> SUFFICES ASSUME NEW c \in Captures, NEW f \in Files, spool'[c].place = "pending"
               PROVE  LET p == spool'[c].pack[f] b == spool'[c].bytes[f] IN
                      /\ \A k \in Own(p) : obj'[k].bytes \in {<<>>, b} /\ (obj'[k].stored => obj'[k].bytes = b)
                      /\ p.complete => Final(obj'[p.key]) /\ obj'[p.key].bytes = b
      BY DEF PacksStored, PackStored, Settled, Owns
  <2>1. CASE spool'[c].pack[f] = NewPack
      BY <1>2, <2>1
  <2>2. CASE /\ spool'[c].pack[f] = spool[c].pack[f] /\ spool[c].place = "pending"
             /\ spool'[c].bytes[f] = spool[c].bytes[f]
    <3>1. PackStored(c, f) /\ PackOK(f, spool[c].pack[f])
        BY <1>1 DEF KeyInv, PacksStored, BaseInv, SpoolsOK, SpoolOK
    <3>2. spool[c].pack[f].complete => spool[c].pack[f].key \in Keys
        BY <1>4, <3>1 DEF PackOK
    <3>3. \A k \in Own(spool[c].pack[f]) : k \in Keys
        BY <1>4
    <3> QED
        BY <2>2, <3>1, <3>2, <3>3 DEF PackStored, Owns, Settled, Final
  <2> QED
      BY <1>3, <2>1, <2>2 DEF KeyChange
<1>10. SpoolsReadable'
  <2> SUFFICES ASSUME NEW c \in Captures, NEW f \in Files PROVE SpoolReadable(c, f)'
      BY DEF SpoolsReadable
  <2>1. CASE spool'[c].place \notin {"incomplete", "pending"}
      BY <2>1 DEF SpoolReadable
  <2>2. CASE spool'[c] = spool[c] /\ spool[c].place \in {"incomplete", "pending"}
      BY <1>1, <1>8, <2>2, SpoolKept DEF KeyInv
  <2>3. CASE Holds(spool'[c], f)
    <3> DEFINE t == spool'[c]
    <3>1. t.reused[f] \in Seq(Keys)
        BY SpoolFields
    <3>2. (\A i \in DOMAIN t.reused[f] : Settled(t.reused[f][i])) /\ t.content[f] = Concat(t.reused[f]) \o t.bytes[f]
        BY <2>3 DEF Holds
    <3>3. \A i \in DOMAIN t.reused[f] : t.reused[f][i] \in Keys
        BY <3>1
    <3>4. [i \in DOMAIN t.reused[f] |-> obj'[t.reused[f][i]].bytes] = [i \in DOMAIN t.reused[f] |-> obj[t.reused[f][i]].bytes]
        BY <3>3
    <3>5. FlattenSeq([i \in DOMAIN t.reused[f] |-> obj'[t.reused[f][i]].bytes]) = Concat(t.reused[f])
        BY <3>4 DEF Concat
    <3>6. t.content[f] = FlattenSeq([i \in DOMAIN t.reused[f] |-> obj'[t.reused[f][i]].bytes]) \o t.bytes[f]
        BY <3>2, <3>5
    <3>7. \A i \in DOMAIN t.reused[f] : Final(obj'[t.reused[f][i]])
        BY <1>8, <3>2, <3>3 DEF ObjectsKept
    <3> QED
        BY <3>6, <3>7 DEF SpoolReadable, Concat, Settled
  <2> QED
      BY <2>1, <2>2, <2>3 DEF KeyChange
<1> QED
    BY <1>5, <1>6, <1>7, <1>8, <1>9, <1>10

LEMMA JournalsKeep ==
    ASSUME Inv, UNCHANGED <<disk, edits, ver, head, obj, lhead>>, Fault \/ UNCHANGED faults,
           spool' \in [Captures -> Spool], run' \in Run, RunOK',
           \A c \in Captures : spool'[c] = spool[c] \/ (GoodChange(c, spool'[c]) /\ KeyChange(c, spool'[c]))
    PROVE  Inv'
<1>1. BaseInv /\ TypeOK /\ KeyInv
    BY DEF Inv, BaseInv
<1>2. TypeOK'
    BY <1>1, FaultType DEF TypeOK
<1>3. LogInv'
    BY <1>1, SpoolsChange
<1>4. OwnersOK' /\ KeysTaken' /\ ObjectsOK' /\ PacksStored' /\ SpoolsReadable' /\ ObjectsKept
    BY SpoolKeys
<1>5. HeadsMatch' /\ VersionsReadable'
    BY <1>1, <1>4, HeadsKept, VersionsKept DEF KeyInv
<1>6. NeededStands'
    BY <1>1 DEF KeyInv, NeededStands, Needed
<1> QED
    BY <1>2, <1>3, <1>4, <1>5, <1>6 DEF Inv, BaseInv, LogInv, KeyInv

\* One journal is written.
LEMMA JournalKeeps ==
    ASSUME Inv, UNCHANGED <<disk, edits, ver, head, obj, lhead, faults>>,
           NEW c \in Captures, NEW t \in Spool, Journal(c, t), GoodChange(c, t), KeyChange(c, t),
           run' \in Run, RunOK'
    PROVE  Inv'
<1>1. /\ spool' \in [Captures -> Spool] /\ spool'[c] = t
      /\ \A d \in Captures : d # c => spool'[d] = spool[d]
    BY Journalled DEF Inv, BaseInv
<1> QED
    BY <1>1, JournalsKeep

\* What the invariant says of one spool.
LEMMA SpoolFacts ==
    ASSUME Inv, NEW c \in Captures, NEW s, s = spool[c]
    PROVE  /\ s \in Spool /\ SpoolOK(s) /\ s.files \in SUBSET Files /\ s.packs \in SUBSET Files
           /\ \A f \in s.files : s.accepted[f] # 0 => Of(s.accepted[f], c, f)
           /\ s.place = "completed" => \A f \in s.files : s.accepted[f] # 0
           /\ s.place \in {"incomplete", "pending"} => \A f \in Files : Holds(s, f)
<1>1. s \in Spool /\ SpoolOK(s) /\ ReceiptsOK(c)
    BY Types DEF Inv, BaseInv, SpoolsOK, AllReceiptsOK
<1>2. s.place \in {"incomplete", "pending"} => \A f \in Files : Holds(s, f)
    BY DEF Inv, KeyInv, SpoolsReadable, SpoolReadable, Holds
<1>3. /\ \A f \in s.files : s.accepted[f] # 0 => Of(s.accepted[f], c, f)
      /\ s.place = "completed" => \A f \in s.files : s.accepted[f] # 0
    BY <1>1 DEF ReceiptsOK, IsAccepted
<1> QED
    BY <1>1, <1>2, <1>3, SpoolFields

\* A receipt is what remains of a completed capture.
LEMMA ReceiptType ==
    ASSUME Inv, NEW c \in Completed, NEW t, t = Receipt(c)
    PROVE  /\ t \in Spool /\ t.place \in {"completed", "removed"} /\ t.bytes = Each(<<>>)
           /\ \/ t.place = "removed" /\ t.packs = {} /\ t.files = {} /\ t.pack = Each(NewPack)
              \/ t.place = "completed" /\ t.packs = spool[c].packs /\ t.files = spool[c].files /\ t.pack = spool[c].pack
                    /\ t.prev = spool[c].prev /\ t.content = spool[c].content /\ t.accepted = spool[c].accepted
<1>1. c \in Captures /\ spool[c].place = "completed" /\ spool[c] \in Spool
    BY Types DEF Inv, BaseInv, Completed
<1>2. CASE t = [NoSpool EXCEPT !.place = "removed"]
    BY <1>2, NoSpoolType DEF Spool, NoSpool
<1>3. CASE t = [spool[c] EXCEPT !.bytes = Each(<<>>)]
    BY <1>1, <1>3, NoSpoolType DEF Spool
<1> QED
    BY <1>2, <1>3 DEF Receipt

LEMMA RetainKeeps ==
    ASSUME Inv, RetainCaptureSpools
    PROVE  Inv'
<1>1. /\ run.pc = "clean" /\ run \in Run
      /\ UNCHANGED <<disk, edits, ver, head, obj, lhead>>
    BY Types DEF Inv, BaseInv, RetainCaptureSpools, server
<1>2. PICK left \in SUBSET Completed :
         /\ spool' = [c \in Captures |-> IF c \in Completed \ left THEN Receipt(c) ELSE spool[c]]
         /\ \/ /\ left = {} /\ run' = [run EXCEPT !.pc = AfterClean, !.cur = 0]
               /\ UNCHANGED faults
            \/ left # {} /\ Stop
    BY DEF RetainCaptureSpools
<1>3. ASSUME NEW c \in Captures
      PROVE  /\ spool'[c] \in Spool
             /\ spool'[c] = spool[c] \/ (GoodChange(c, spool'[c]) /\ KeyChange(c, spool'[c]))
  <2>1. CASE spool'[c] = spool[c]
      BY <2>1, SpoolFacts
  <2>2. CASE c \in Completed /\ spool'[c] = Receipt(c)
    <3> DEFINE t == spool'[c]
    <3>1. /\ t \in Spool /\ t.place \in {"completed", "removed"} /\ t.bytes = Each(<<>>)
          /\ \/ t.place = "removed" /\ t.packs = {} /\ t.files = {} /\ t.pack = Each(NewPack)
             \/ t.place = "completed" /\ t.packs = spool[c].packs /\ t.files = spool[c].files /\ t.pack = spool[c].pack
                   /\ t.prev = spool[c].prev /\ t.content = spool[c].content /\ t.accepted = spool[c].accepted
        BY <2>2, ReceiptType
    <3>2. spool[c].place = "completed"
        BY <2>2 DEF Completed
    <3>3. /\ SpoolOK(spool[c])
          /\ \A f \in spool[c].files : spool[c].accepted[f] # 0 => Of(spool[c].accepted[f], c, f)
          /\ \A f \in spool[c].files : spool[c].accepted[f] # 0
        BY <3>2, SpoolFacts
    <3>4. \A f \in Files : Each(NewPack)[f] = NewPack /\ PackOK(f, NewPack)
        BY DEF Each, PackOK, NewPack
    <3> HIDE DEF t
    <3>5. SpoolOK(t)
        BY <3>1, <3>2, <3>3, <3>4 DEF SpoolOK
    <3>6. GoodChange(c, t)
        BY <3>1, <3>2, <3>3, <3>5 DEF GoodChange
    <3>7. KeyChange(c, t)
        BY <3>1, <3>2, <3>4 DEF KeyChange
    <3> QED
        BY <3>1, <3>6, <3>7 DEF t
  <2> QED
      BY <1>2, <2>1, <2>2
<1>4. spool' \in [Captures -> Spool]
    BY <1>2, <1>3
<1>5. AfterClean \in {"discard", "resume", "spool", "done"}
    BY DEF AfterClean
<1>6. run' \in Run /\ run'.pc \notin {"copy", "upload", "heads"} /\ (Fault \/ UNCHANGED faults)
  <2>1. CASE run' = [run EXCEPT !.pc = AfterClean, !.cur = 0] /\ UNCHANGED faults
    <3>1. 0 \in 0..MaxCaptures
        BY Zeros
    <3> QED
        BY <1>1, <1>5, <2>1, <3>1 DEF Run
  <2>2. CASE Stop
      BY <2>2, OffType DEF Stop
  <2> QED
      BY <1>2, <2>1, <2>2
<1> QED
    BY <1>1, <1>3, <1>4, <1>6, IdleRun, JournalsKeep

LEMMA DiscardKeeps ==
    ASSUME Inv, DiscardIncompleteCaptures
    PROVE  Inv'
<1>1. /\ run \in Run /\ UNCHANGED <<disk, edits, ver, head, obj, lhead, faults>>
      /\ spool' = [c \in Captures |-> IF Incomplete(c) THEN NoSpool ELSE spool[c]]
      /\ run' = [run EXCEPT !.pc = "resume"]
    BY Types DEF Inv, BaseInv, DiscardIncompleteCaptures, server
<1>2. SpoolOK(NoSpool)
  <2>1. \A f \in Files : Each(NewPack)[f] = NewPack /\ PackOK(f, NewPack)
      BY DEF Each, PackOK, NewPack
  <2> QED
      BY <2>1, NoSpoolType DEF SpoolOK
<1>3. ASSUME NEW c \in Captures
      PROVE  /\ spool'[c] \in Spool
             /\ spool'[c] = spool[c] \/ (GoodChange(c, spool'[c]) /\ KeyChange(c, spool'[c]))
  <2>1. CASE spool'[c] = spool[c]
      BY <2>1, SpoolFacts
  <2>2. CASE spool[c].place = "incomplete" /\ spool'[c] = NoSpool
    <3>1. ~Replayed(c)
        BY <2>2, Unregistered DEF Inv
    <3>2. GoodChange(c, NoSpool)
        BY <1>2, <3>1, NoSpoolType DEF GoodChange
    <3>3. KeyChange(c, NoSpool)
        BY NoSpoolType DEF KeyChange, Each
    <3> QED
        BY <2>2, <3>2, <3>3, NoSpoolType
  <2> QED
      BY <1>1, <2>1, <2>2 DEF Incomplete
<1>4. spool' \in [Captures -> Spool]
    BY <1>1, <1>3
<1>5. run' \in Run /\ run'.pc \notin {"copy", "upload", "heads"}
    BY <1>1 DEF Run
<1> QED
    BY <1>1, <1>3, <1>4, <1>5, IdleRun, JournalsKeep

\* No extents hold no bytes.
LEMMA ConcatEmpty == Concat(<<>>) = <<>>
<1> DEFINE s == [i \in DOMAIN <<>> |-> obj[<<>>[i]].bytes]
<1>1. DOMAIN <<>> = 1..0 /\ \A i \in 1..0 : FALSE
    OBVIOUS
<1>2. s \in Seq({}) /\ DOMAIN s = 1..0
    BY <1>1
<1>3. s = <<>>
    BY <1>2
<1> QED
    BY <1>3, FlattenEmpty DEF Concat

LEMMA CreateKeeps ==
    ASSUME Inv, NEW c \in Captures, CreateSpool(c)
    PROVE  Inv'
<1> DEFINE t == [NoSpool EXCEPT !.place = "incomplete", !.files = run.todo, !.prev = run.seen]
<1>1. /\ run \in Run /\ run.pc = "spool" /\ spool[c].place = "none"
      /\ UNCHANGED <<disk, edits, ver, head, obj, lhead, faults>>
    BY Types DEF Inv, BaseInv, CreateSpool, server
<1>2. CASE run' = Off /\ spool' = spool
    BY <1>1, <1>2, OffKeeps
<1>3. CASE /\ Journal(c, t)
           /\ run' = [run EXCEPT !.pc = "copy", !.cur = c, !.copied = 0, !.before = <<>>]
  <2>1. run.todo \in SUBSET Files /\ run.seen \in [Files -> Nat]
      BY <1>1, RunFields
  <2>2. /\ t \in Spool /\ t.place = "incomplete" /\ t.packs = {} /\ t.pack = Each(NewPack)
        /\ t.accepted = Each(0) /\ t.bytes = Each(<<>>) /\ t.content = Each(<<>>) /\ t.reused = Each(<<>>)
        /\ t.files = run.todo
      BY <2>1, NoSpoolType DEF Spool, NoSpool
  <2> HIDE DEF t
  <2>3. \A f \in Files : /\ Each(NewPack)[f] = NewPack /\ PackOK(f, NewPack) /\ Each(<<>>)[f] = <<>>
                         /\ Each(0)[f] = 0
      BY DEF Each, PackOK, NewPack
  <2>4. SpoolOK(t)
      BY <2>2, <2>3 DEF SpoolOK
  <2>5. ~Replayed(c)
      BY <1>1, Unregistered DEF Inv
  <2>6. GoodChange(c, t)
      BY <2>1, <2>2, <2>3, <2>4, <2>5 DEF GoodChange
  <2>7. Concat(<<>>) = <<>>
      BY ConcatEmpty
  <2>8. \A f \in Files : Holds(t, f)
    <3>1. \A s : s = <<>> => (\A i \in DOMAIN s : FALSE) /\ s = s \o s
        OBVIOUS
    <3> SUFFICES ASSUME NEW f \in Files PROVE Holds(t, f)
        OBVIOUS
    <3>2. t.reused[f] = <<>> /\ t.content[f] = <<>> /\ t.bytes[f] = <<>>
        BY <2>2, <2>3
    <3>3. Concat(t.reused[f]) = <<>>
        BY <2>7, <3>2
    <3> QED
        BY <3>1, <3>2, <3>3 DEF Holds
  <2>9. KeyChange(c, t)
      BY <2>2, <2>3, <2>8 DEF KeyChange
  <2>10. c \in 0..MaxCaptures /\ 0 \in 0..NumFiles /\ <<>> \in Seq(Nat)
      BY Zeros, Sizes
  <2>11. run' \in Run /\ run'.pc = "copy" /\ run'.cur = c
      BY <1>1, <1>3, <2>10 DEF Run
  <2>12. spool'[c] = t
      BY <1>3, <2>2, Journalled DEF Inv, BaseInv
  <2>13. RunOK'
      BY <2>2, <2>11, <2>12 DEF RunOK, Cur
  <2> QED
      BY <1>1, <1>3, <2>2, <2>6, <2>9, <2>11, <2>13, JournalKeeps
<1> QED
    BY <1>2, <1>3 DEF CreateSpool

LEMMA PublishKeeps ==
    ASSUME Inv, PublishJournal
    PROVE  Inv'
<1> DEFINE c == run.cur
           t == [spool[c] EXCEPT !.place = "pending"]
           r == Submit(c, TRUE)
<1>1. /\ run \in Run /\ run.pc = "copy" /\ UNCHANGED <<disk, edits, ver, head, obj, lhead, faults>>
      /\ Journal(c, t) /\ run' = [r EXCEPT !.pc = "upload", !.todo = Uncaptured]
    BY Types DEF Inv, BaseInv, PublishJournal, server
<1>2. c \in Captures /\ spool[c].place = "incomplete"
    BY <1>1 DEF Inv, BaseInv, RunOK, Cur
<1>3. /\ spool[c] \in Spool /\ SpoolOK(spool[c]) /\ \A f \in Files : Holds(spool[c], f)
      /\ \A f \in spool[c].files : spool[c].accepted[f] # 0 => Of(spool[c].accepted[f], c, f)
    BY <1>2, SpoolFacts
<1>4. r \in Run /\ r.cur = c /\ r.stage = Each("start")
    BY <1>1, <1>2, SubmitRun
<1>5. Uncaptured \in SUBSET Files
    BY <1>1, RunFields DEF Uncaptured
<1> HIDE DEF r
<1>6. run' \in Run /\ run'.pc = "upload" /\ run'.cur = c /\ run'.stage = Each("start")
    BY <1>1, <1>4, <1>5 DEF Run
<1> HIDE DEF c
<1>7. /\ t \in Spool /\ t.place = "pending" /\ t.pack = spool[c].pack /\ t.accepted = spool[c].accepted
      /\ Copy(t) = Copy(spool[c])
    BY <1>3, PlaceChange
<1>8. /\ t.files = spool[c].files /\ t.packs = spool[c].packs /\ t.bytes = spool[c].bytes
      /\ t.content = spool[c].content /\ t.reused = spool[c].reused /\ t.pack = Each(NewPack)
    BY <1>2, <1>3, <1>7 DEF Copy, SpoolOK
<1> HIDE DEF t
<1>9. SpoolOK(t)
    BY <1>2, <1>3, <1>7, <1>8 DEF SpoolOK
<1>10. ~Replayed(c)
    BY <1>2, Unregistered DEF Inv
<1>11. GoodChange(c, t)
    BY <1>3, <1>7, <1>8, <1>9, <1>10 DEF GoodChange
<1>12. KeyChange(c, t)
    BY <1>3, <1>7, <1>8 DEF KeyChange, Holds, Each
<1>13. spool'[c] = t
    BY <1>1, <1>2, <1>7, Journalled DEF Inv, BaseInv
<1>14. RunOK'
  <2>1. \A f \in Files : Each("start")[f] = "start"
      BY DEF Each
  <2> QED
      BY <1>2, <1>6, <1>7, <1>13, <2>1 DEF RunOK, Cur
<1> QED
    BY <1>1, <1>2, <1>6, <1>7, <1>11, <1>12, <1>14, JournalKeeps

\* A submission that ends: its journal moves on, with everything in it.
LEMMA PlaceKeeps ==
    ASSUME Inv, UNCHANGED <<disk, edits, ver, head, obj, lhead, faults>>,
           NEW c \in Captures, spool[c].place = "pending",
           NEW place \in {"completed", "conflicts"}, Journal(c, [spool[c] EXCEPT !.place = place]),
           place = "conflicts" => ~Replayed(c),
           place = "completed" => IsAccepted(c),
           run' \in Run, run'.pc \notin {"copy", "upload", "heads"}
    PROVE  Inv'
<1> DEFINE t == [spool[c] EXCEPT !.place = place]
<1>1. /\ spool[c] \in Spool /\ SpoolOK(spool[c])
      /\ \A f \in spool[c].files : spool[c].accepted[f] # 0 => Of(spool[c].accepted[f], c, f)
    BY SpoolFacts
<1>2. /\ t \in Spool /\ t.place = place /\ t.pack = spool[c].pack /\ t.accepted = spool[c].accepted
      /\ Copy(t) = Copy(spool[c])
  <2>1. place \in {"none", "incomplete", "pending", "completed", "conflicts", "removed"}
      OBVIOUS
  <2> QED
      BY <1>1, <2>1, PlaceChange
<1>3. /\ t.files = spool[c].files /\ t.packs = spool[c].packs /\ t.bytes = spool[c].bytes
      /\ t.content = spool[c].content /\ t.prev = spool[c].prev
    BY <1>2 DEF Copy
<1>4. Journal(c, t)
    OBVIOUS
<1> HIDE DEF t
<1>5. SpoolOK(t)
    BY <1>1, <1>2, <1>3 DEF SpoolOK
<1>6. GoodChange(c, t)
    BY <1>1, <1>2, <1>3, <1>5 DEF GoodChange, IsAccepted
<1>7. KeyChange(c, t)
    BY <1>2 DEF KeyChange
<1> QED
    BY <1>2, <1>4, <1>6, <1>7, IdleRun, JournalKeeps

LEMMA ConflictKeeps ==
    ASSUME Inv, RegisterConflict
    PROVE  Inv'
<1>1. /\ run \in Run /\ run.pc = "upload" /\ UNCHANGED <<disk, edits, ver, head, obj, lhead, faults>>
      /\ ~Replayed(run.cur)
    BY Types DEF Inv, BaseInv, RegisterConflict, server, Conflicts
<1>2. run.cur \in Captures /\ Cur.place = "pending"
    BY <1>1 DEF Inv, BaseInv, RunOK
<1>3. CASE run' = Off /\ spool' = spool
    BY <1>1, <1>3, OffKeeps
<1>4. CASE /\ Journal(run.cur, [Cur EXCEPT !.place = "conflicts"])
           /\ run' = [run EXCEPT !.pc = "resume", !.cur = 0]
  <2>1. 0 \in 0..MaxCaptures
      BY Zeros
  <2>2. run' \in Run /\ run'.pc = "resume"
      BY <1>1, <1>4, <2>1 DEF Run
  <2> QED
      BY <1>1, <1>2, <1>4, <2>2, PlaceKeeps DEF Cur
<1> QED
    BY <1>3, <1>4 DEF RegisterConflict

LEMMA CompleteKeeps ==
    ASSUME Inv, CompleteCapture
    PROVE  Inv'
<1>1. /\ run \in Run /\ run.pc = "heads" /\ UNCHANGED <<disk, edits, ver, head, obj, lhead, faults>>
      /\ Journal(run.cur, [Cur EXCEPT !.place = "completed"]) /\ run' = [run EXCEPT !.pc = "clean"]
    BY Types DEF Inv, BaseInv, CompleteCapture, server
<1>2. run.cur \in Captures /\ Cur.place = "pending" /\ IsAccepted(run.cur)
    BY <1>1 DEF Inv, BaseInv, RunOK
<1>3. run' \in Run /\ run'.pc = "clean"
    BY <1>1 DEF Run
<1> QED
    BY <1>1, <1>2, <1>3, PlaceKeeps DEF Cur

----------------------------------------------------------------------------
(* The extents of what was captured.                                       *)

\* The bytes of a list of keys, and of one key more.
LEMMA ConcatType ==
    ASSUME TypeOK, NEW keys \in Seq(Keys)
    PROVE  /\ Concat(keys) \in Seq(Nat)
           /\ \A k \in Keys : Concat(Append(keys, k)) = Concat(keys) \o obj[k].bytes
<1> DEFINE s == [i \in DOMAIN keys |-> obj[keys[i]].bytes]
<1>1. \A k \in Keys : obj[k].bytes \in Seq(Nat)
  <2>1. \A k \in Keys : obj[k] \in Object
      BY Types
  <2> QED
      BY <2>1 DEF Object
<1>2. s \in Seq(Seq(Nat)) /\ DOMAIN s = DOMAIN keys /\ Len(s) = Len(keys) /\ Len(keys) \in Nat
    BY <1>1
<1>3. Concat(keys) = FlattenSeq(s)
    BY DEF Concat
<1>4. ASSUME NEW k \in Keys PROVE Concat(Append(keys, k)) = Concat(keys) \o obj[k].bytes
  <2> DEFINE more == Append(keys, k)
             t == [i \in DOMAIN more |-> obj[more[i]].bytes]
  <2>1. /\ DOMAIN more = 1..(Len(keys) + 1) /\ more[Len(keys) + 1] = k
        /\ \A i \in 1..Len(keys) : more[i] = keys[i]
      BY <1>2
  <2> HIDE DEF more
  <2>2. /\ DOMAIN t = 1..(Len(keys) + 1) /\ t[Len(keys) + 1] = obj[k].bytes
        /\ \A i \in 1..Len(keys) : t[i] = obj[keys[i]].bytes
      BY <1>2, <2>1
  <2>3. t = Append(s, obj[k].bytes)
    <3> DEFINE u == Append(s, obj[k].bytes)
    <3>1. /\ u \in Seq(Seq(Nat)) /\ DOMAIN u = 1..(Len(keys) + 1) /\ u[Len(keys) + 1] = obj[k].bytes
          /\ \A i \in 1..Len(keys) : u[i] = obj[keys[i]].bytes
        BY <1>1, <1>2
    <3>2. t \in Seq(Seq(Nat))
      <4>1. \A i \in DOMAIN t : t[i] \in Seq(Nat)
        <5> SUFFICES ASSUME NEW i \in 1..(Len(keys) + 1) PROVE t[i] \in Seq(Nat)
            BY <2>2
        <5>1. CASE i = Len(keys) + 1
            BY <1>1, <2>2, <5>1
        <5>2. CASE i # Len(keys) + 1
          <6>1. i \in 1..Len(keys) /\ keys[i] \in Keys
              BY <1>2, <5>2
          <6> QED
              BY <1>1, <2>2, <6>1
        <5> QED
            BY <5>1, <5>2
      <4>2. Len(keys) + 1 \in Nat
          BY <1>2
      <4>3. t \in [1..(Len(keys) + 1) -> Seq(Nat)]
          BY <2>2, <4>1
      <4> HIDE DEF t
      <4> QED
          BY <4>2, <4>3
    <3> HIDE DEF t, u
    <3>3. \A i \in 1..(Len(keys) + 1) : i = Len(keys) + 1 \/ i \in 1..Len(keys)
        BY <1>2
    <3>4. \A i \in 1..(Len(keys) + 1) : t[i] = u[i]
        BY <2>2, <3>1, <3>3
    <3>5. Len(t) = Len(keys) + 1 /\ Len(u) = Len(keys) + 1
        BY <1>2, <2>2, <3>1, <3>2
    <3>6. t = u
        BY <3>1, <3>2, <3>4, <3>5, SeqEqual
    <3> QED
        BY <3>6 DEF u
  <2>4. FlattenSeq(Append(s, obj[k].bytes)) = FlattenSeq(s) \o obj[k].bytes
    <3> HIDE DEF s, t
    <3> QED
        BY <1>1, <1>2, FlattenAppend
  <2>5. Concat(more) = FlattenSeq(t)
      BY DEF Concat
  <2> QED
      BY <1>3, <2>3, <2>4, <2>5 DEF more
<1>5. FlattenSeq(s) \in Seq(Nat)
  <2> HIDE DEF s
  <2>1. <<>> \in Seq(Nat)
      OBVIOUS
  <2> QED
      BY <1>2, <2>1, FlattenAppend
<1> QED
    BY <1>3, <1>4, <1>5

\* The extents a published capture is registered with hold its content.
LEMMA SourceExtents ==
    ASSUME Inv, NEW c \in Captures, spool[c].place = "pending", NEW f \in Files,
           \A g \in spool[c].packs : spool[c].pack[g].complete
    PROVE  SourceKeys(c, f) \in Seq(Keys) /\ Extents(SourceKeys(c, f), spool[c].content[f])
<1> DEFINE s == spool[c]
           r == s.reused[f]
           k == s.pack[f].key
<1>1. BaseInv /\ TypeOK /\ KeyInv /\ s \in Spool /\ SpoolOK(s) /\ Holds(s, f)
    BY SpoolFacts DEF Inv, BaseInv
<1>2. r \in Seq(Keys) /\ s.bytes[f] \in Seq(Nat) /\ s.pack[f] \in Pack
    BY <1>1, SpoolFields
<1>3. (\A i \in DOMAIN r : Settled(r[i])) /\ s.content[f] = Concat(r) \o s.bytes[f]
    BY <1>1 DEF Holds
<1>4. Concat(r) \in Seq(Nat) /\ \A j \in Keys : Concat(Append(r, j)) = Concat(r) \o obj[j].bytes
    BY <1>1, <1>2, ConcatType
<1>5. CASE f \in s.packs
  <2>1. s.pack[f].complete /\ PackOK(f, s.pack[f]) /\ PackStored(c, f)
      BY <1>1, <1>5 DEF SpoolOK, KeyInv, PacksStored
  <2>2. k \in Keys /\ Settled(k) /\ obj[k].bytes = s.bytes[f]
    <3>1. k # NoKey
        BY <2>1 DEF PackOK
    <3>2. k \in 0..MaxKeys
        BY <1>2 DEF Pack
    <3> QED
        BY <2>1, <3>1, <3>2, Zeros DEF PackStored
  <2>3. SourceKeys(c, f) = Append(r, k)
    <3> HIDE DEF k
    <3>1. r \o <<k>> = Append(r, k)
        BY <1>2, <2>2
    <3> QED
        BY <1>5, <3>1 DEF SourceKeys, k
  <2> HIDE DEF r, k
  <2>4. Append(r, k) \in Seq(Keys) /\ \A i \in DOMAIN Append(r, k) : Settled(Append(r, k)[i])
      BY <1>2, <1>3, <2>2
  <2>5. Concat(Append(r, k)) = s.content[f]
      BY <1>3, <1>4, <2>2
  <2> QED
      BY <2>3, <2>4, <2>5 DEF Extents
<1>6. CASE f \notin s.packs
  <2>1. s.bytes[f] = <<>>
      BY <1>1, <1>6 DEF SpoolOK
  <2>2. SourceKeys(c, f) = r
    <3> HIDE DEF r
    <3>1. r \o <<>> = r
        BY <1>2
    <3> QED
        BY <1>6, <3>1 DEF SourceKeys, r
  <2> HIDE DEF r
  <2>3. Concat(r) \o <<>> = Concat(r)
      BY <1>4
  <2> QED
      BY <1>2, <1>3, <2>1, <2>2, <2>3 DEF Extents
<1> QED
    BY <1>5, <1>6

----------------------------------------------------------------------------
(* The local heads.                                                        *)

LEMMA LocalHeadsKeep ==
    ASSUME Inv, UNCHANGED <<disk, edits, ver, head, obj, spool, faults>>,
           lhead' \in [Files -> LocalHead], HeadsMatch', run' \in Run, RunOK'
    PROVE  Inv'
<1>1. BaseInv /\ TypeOK /\ KeyInv
    BY DEF Inv, BaseInv
<1>2. TypeOK'
    BY <1>1 DEF TypeOK
<1>3. LogInv'
    BY <1>1, NothingChanges
<1>4. OwnersOK' /\ KeysTaken' /\ ObjectsOK' /\ PacksStored'
    BY <1>1 DEF KeyInv, OwnersOK, Owns, KeysTaken, ObjectsOK, ObjectOK, PacksStored, PackStored, Settled
<1>5. \A keys : Concat(keys)' = Concat(keys)
    BY DEF Concat
<1>6. SpoolsReadable' /\ VersionsReadable' /\ NeededStands'
    BY <1>1, <1>5 DEF KeyInv, SpoolsReadable, SpoolReadable, VersionsReadable, Extents, Settled, NeededStands, Needed
<1> QED
    BY <1>2, <1>3, <1>4, <1>6 DEF Inv, BaseInv, LogInv, KeyInv

\* What a head of the invariant means, in the terms of the next state.
LEMMA HeadsMatchStill ==
    ASSUME Inv, UNCHANGED <<ver, obj>>,
           \A f \in Files : lhead'[f].keys # <<>> =>
              /\ Extents(lhead'[f].keys, lhead'[f].content)
              /\ lhead'[f].seq \in DOMAIN ver /\ ver[lhead'[f].seq].content = lhead'[f].content
    PROVE  HeadsMatch'
<1> SUFFICES ASSUME NEW f \in Files, lhead'[f].keys # <<>>
             PROVE  /\ Extents(lhead[f].keys, lhead[f].content)'
                    /\ lhead'[f].seq \in DOMAIN ver' /\ ver'[lhead'[f].seq].content = lhead'[f].content
    BY DEF HeadsMatch
<1>1. /\ \A i \in DOMAIN lhead'[f].keys : Settled(lhead'[f].keys[i])
      /\ Concat(lhead'[f].keys) = lhead'[f].content
    BY DEF Extents
<1>2. Extents(lhead[f].keys, lhead[f].content)'
    BY <1>1 DEF Extents, Settled, Concat
<1> QED
    BY <1>2

LEMMA SaveKeeps ==
    ASSUME Inv, SaveHead
    PROVE  Inv'
<1> DEFINE c == run.cur
           s == spool[c]
           f == Min(Behind(c))
           h == [seq |-> s.accepted[f], content |-> s.content[f],
                 keys |-> SourceKeys(c, f), dirty |-> f \in s.dirty]
<1>1. /\ BaseInv /\ TypeOK /\ KeyInv /\ run.pc = "heads" /\ Behind(c) # {}
      /\ lhead' = [lhead EXCEPT ![f] = h]
      /\ UNCHANGED <<disk, edits, ver, head, obj, spool, run, faults>>
    BY DEF Inv, BaseInv, SaveHead, server, Cur
<1>2. c \in Captures /\ s.place = "pending" /\ IsAccepted(c)
    BY <1>1 DEF BaseInv, RunOK, Cur
<1>3. s \in Spool /\ s.files \in SUBSET Files /\ \A g \in s.files : s.accepted[g] # 0 => Of(s.accepted[g], c, g)
    BY <1>2, SpoolFacts
<1>4. f \in s.files /\ f \in Files
  <2>1. Behind(c) \subseteq s.files /\ Behind(c) \subseteq Files
      BY <1>3 DEF Behind
  <2>2. Behind(c) \subseteq Nat
      BY <2>1, Zeros
  <2>3. f \in Behind(c)
      BY <1>1, <2>2, LeastOf
  <2> QED
      BY <2>1, <2>3
<1> HIDE DEF f
<1>5. Of(s.accepted[f], c, f)
    BY <1>2, <1>3, <1>4 DEF IsAccepted
<1>6. s.accepted[f] \in DOMAIN ver /\ ver[s.accepted[f]].content = s.content[f] /\ s.accepted[f] \in Nat
      /\ \A g \in s.packs : s.pack[g].complete
  <2> DEFINE v == ver[s.accepted[f]]
  <2>1. s.accepted[f] \in DOMAIN ver /\ v.capture = c /\ v.file = f
      BY <1>5 DEF Of
  <2>2. VersionOK(v)
      BY <1>1, <2>1 DEF BaseInv, VersionsOK
  <2>3. v.content = s.content[v.file] /\ \A g \in s.packs : s.pack[g].complete
      BY <1>2, <2>1, <2>2, Zeros DEF VersionOK
  <2>4. s.accepted[f] \in Nat
      BY <1>3, <1>4, SpoolFields
  <2> QED
      BY <2>1, <2>3, <2>4
<1>7. SourceKeys(c, f) \in Seq(Keys) /\ Extents(SourceKeys(c, f), s.content[f])
    BY <1>2, <1>4, <1>6, SourceExtents
<1>8. h \in LocalHead
  <2>1. s.content[f] \in Seq(Nat)
      BY <1>3, <1>4, SpoolFields
  <2> QED
      BY <1>6, <1>7, <2>1 DEF LocalHead
<1>9. /\ lhead' \in [Files -> LocalHead] /\ lhead'[f] = h
      /\ \A g \in Files : g # f => lhead'[g] = lhead[g]
  <2> HIDE DEF h
  <2> QED
      BY <1>1, <1>4, <1>8, Types
<1>10. h.seq = s.accepted[f] /\ h.content = s.content[f] /\ h.keys = SourceKeys(c, f)
    OBVIOUS
<1> HIDE DEF h
<1>11. HeadsMatch'
  <2>1. ASSUME NEW g \in Files, lhead'[g].keys # <<>>
        PROVE  /\ Extents(lhead'[g].keys, lhead'[g].content)
               /\ lhead'[g].seq \in DOMAIN ver /\ ver[lhead'[g].seq].content = lhead'[g].content
    <3>1. CASE g = f
        BY <1>6, <1>7, <1>9, <1>10, <3>1
    <3>2. CASE g # f
        BY <1>1, <1>9, <2>1, <3>2 DEF KeyInv, HeadsMatch
    <3> QED
        BY <3>1, <3>2
  <2> QED
      BY <1>1, <2>1, HeadsMatchStill
<1>12. run' \in Run /\ RunOK'
    BY <1>1, Types DEF BaseInv, RunOK, Cur, IsAccepted
<1> QED
    BY <1>1, <1>9, <1>11, <1>12, LocalHeadsKeep

LEMMA ScanKeeps ==
    ASSUME Inv, Scan
    PROVE  Inv'
<1>1. /\ BaseInv /\ TypeOK /\ KeyInv /\ lhead' = Bootstrapped
      /\ UNCHANGED <<disk, edits, ver, head, obj, spool, faults>>
    BY DEF Inv, BaseInv, Scan, server
<1>2. ASSUME NEW f \in Files
      PROVE  /\ lhead'[f] \in LocalHead
             /\ lhead'[f].keys # <<>> =>
                  /\ Extents(lhead'[f].keys, lhead'[f].content)
                  /\ lhead'[f].seq \in DOMAIN ver /\ ver[lhead'[f].seq].content = lhead'[f].content
  <2>1. lhead[f] \in LocalHead /\ disk[f] \in Seq(Nat) /\ head[f] \in Nat
      BY <1>1, Types
  <2>2. lhead[f].keys # <<>> =>
            /\ Extents(lhead[f].keys, lhead[f].content)
            /\ lhead[f].seq \in DOMAIN ver /\ ver[lhead[f].seq].content = lhead[f].content
      BY <1>1 DEF KeyInv, HeadsMatch
  <2>3. CASE lhead'[f] = lhead[f]
      BY <2>1, <2>2, <2>3
  <2>4. CASE /\ Verified(f)
             /\ lhead'[f] = [seq |-> head[f], content |-> disk[f], dirty |-> FALSE,
                             keys |-> IF lhead[f].seq = head[f] THEN lhead[f].keys ELSE <<>>]
    <3>1. <<>> \in Seq(Keys) /\ lhead[f].keys \in Seq(Keys)
        BY <2>1 DEF LocalHead
    <3>2. lhead'[f] \in LocalHead
        BY <2>1, <2>4, <3>1 DEF LocalHead
    <3>3. ASSUME lhead'[f].keys # <<>>
          PROVE  /\ Extents(lhead'[f].keys, lhead'[f].content)
                 /\ lhead'[f].seq \in DOMAIN ver /\ ver[lhead'[f].seq].content = lhead'[f].content
      <4>1. lhead[f].seq = head[f] /\ lhead'[f].keys = lhead[f].keys /\ lhead[f].keys # <<>>
          BY <2>4, <3>3
      <4>2. lhead'[f].seq = head[f] /\ lhead'[f].content = disk[f]
          BY <2>4
      <4>3. head[f] \in DOMAIN ver /\ head[f] # 0
        <5>1. ver \in Seq(Version)
            BY <1>1, Types
        <5> QED
            BY <2>2, <4>1, <5>1
      <4>4. disk[f] = ver[head[f]].content
          BY <2>4, <4>3 DEF Verified, Captured
      <4> QED
          BY <2>2, <4>1, <4>2, <4>3, <4>4
    <3> QED
        BY <3>2, <3>3
  <2> QED
      BY <1>1, <2>3, <2>4 DEF Bootstrapped
<1>3. lhead' \in [Files -> LocalHead]
    BY <1>1, <1>2 DEF Bootstrapped
<1>4. HeadsMatch'
    BY <1>1, <1>2, HeadsMatchStill
<1>5. run' \in Run /\ run'.pc \in {"done", "spool"}
  <2> DEFINE changed == {f \in Candidates : run.force \/ ~Verified(f)}
             removed == {f \in Files : disk[f] = <<>> /\ Captured(f, head[f]) # <<>>}
             todo == changed \cup removed
  <2>1. run \in Run /\ head \in [Files -> Nat]
      BY <1>1, Types
  <2>2. todo \in SUBSET Files /\ removed \in SUBSET Files /\ Files \in SUBSET Files
      BY DEF Candidates
  <2>3. run' = [run EXCEPT !.pc = IF todo = {} THEN "done" ELSE "spool", !.todo = todo,
                           !.gone = removed, !.seen = head, !.calm = Files]
      BY DEF Scan
  <2> HIDE DEF changed, removed, todo
  <2> QED
      BY <2>1, <2>2, <2>3 DEF Run
<1> QED
    BY <1>1, <1>3, <1>4, <1>5, IdleRun, LocalHeadsKeep

----------------------------------------------------------------------------
(* The copy of a file into the spool.                                      *)

\* A sequence is its prefix followed by the rest.
LEMMA PrefixRest ==
    ASSUME NEW S, NEW s \in Seq(S), NEW t \in Seq(S), IsPrefix(s, t)
    PROVE  SubSeq(t, Len(s) + 1, Len(t)) \in Seq(S) /\ t = s \o SubSeq(t, Len(s) + 1, Len(t))
<1> DEFINE n == Len(s)
           m == Len(t)
           rest == SubSeq(t, n + 1, m)
           u == s \o rest
<1>1. n \in Nat /\ m \in Nat /\ n <= m /\ SubSeq(s, 1, n) = SubSeq(t, 1, n)
    BY DEF IsPrefix
<1>2. \A i \in 1..m : t[i] \in S
    OBVIOUS
<1>3. rest \in Seq(S) /\ Len(rest) = m - n /\ \A i \in 1..(m - n) : rest[i] = t[n + i]
    BY <1>1, <1>2, SubSeqProperties
<1>4. \A i \in 1..n : s[i] = t[i]
    BY <1>1
<1> HIDE DEF rest
<1>5. u \in Seq(S) /\ Len(u) = m /\ \A i \in 1..m : u[i] = IF i <= n THEN s[i] ELSE rest[i - n]
    BY <1>1, <1>3
<1>6. \A i \in 1..m : u[i] = t[i]
  <2> SUFFICES ASSUME NEW i \in 1..m PROVE u[i] = t[i]
      OBVIOUS
  <2>1. CASE i <= n
      BY <1>1, <1>4, <1>5, <2>1
  <2>2. CASE ~(i <= n)
    <3>1. i - n \in 1..(m - n) /\ n + (i - n) = i
        BY <1>1, <2>2
    <3> QED
        BY <1>3, <1>5, <2>2, <3>1
  <2> QED
      BY <2>1, <2>2
<1> HIDE DEF u
<1>7. t = u
    BY <1>5, <1>6, SeqEqual
<1> QED
    BY <1>3, <1>7 DEF rest, u

\* What the copy takes from the captured prefix and what it adds.
Parted(f, read, reused, bytes) ==
    /\ reused = IF Reusable(f, read) THEN lhead[f].keys ELSE <<>>
    /\ bytes = IF Reusable(f, read) THEN SubSeq(read, Len(lhead[f].content) + 1, Len(read)) ELSE read

\* What is read is a sequence; what it reuses and adds makes it up.
LEMMA CopyParts ==
    ASSUME Inv, NEW f \in Files, NEW read \in ReadBytes(f), NEW reused, NEW bytes,
           Parted(f, read, reused, bytes)
    PROVE  /\ read \in Seq(Nat) /\ reused \in Seq(Keys) /\ bytes \in Seq(Nat)
           /\ \A i \in DOMAIN reused : Settled(reused[i])
           /\ read = Concat(reused) \o bytes
<1>1. TypeOK /\ HeadsMatch
    BY DEF Inv, BaseInv, KeyInv
<1>2. run.before \in Seq(Nat) /\ disk[f] \in Seq(Nat) /\ lhead[f] \in LocalHead
    BY <1>1, Types, RunFields
<1>3. read \in Seq(Nat)
  <2>1. CASE read = run.before
      BY <1>2, <2>1
  <2>2. CASE Len(disk[f]) >= Len(run.before) /\ read = SubSeq(disk[f], 1, Len(run.before))
    <3>1. Len(run.before) \in Nat /\ Len(disk[f]) \in Nat
        BY <1>2
    <3>2. \A i \in 1..Len(run.before) : disk[f][i] \in Nat
        BY <1>2, <2>2, <3>1
    <3> QED
        BY <2>2, <3>1, <3>2, SubSeqProperties
  <2> QED
      BY <2>1, <2>2 DEF ReadBytes
<1>4. lhead[f].keys \in Seq(Keys) /\ lhead[f].content \in Seq(Nat)
    BY <1>2 DEF LocalHead
<1>5. CASE Reusable(f, read)
  <2>1. lhead[f].keys # <<>> /\ IsPrefix(lhead[f].content, read)
      BY <1>5 DEF Reusable
  <2>2. Extents(lhead[f].keys, lhead[f].content)
      BY <1>1, <2>1 DEF HeadsMatch
  <2>3. reused = lhead[f].keys /\ bytes = SubSeq(read, Len(lhead[f].content) + 1, Len(read))
      BY <1>5 DEF Parted
  <2>4. bytes \in Seq(Nat) /\ read = lhead[f].content \o bytes
      BY <1>3, <1>4, <2>1, <2>3, PrefixRest
  <2> QED
      BY <1>3, <1>4, <2>2, <2>3, <2>4 DEF Extents
<1>6. CASE ~Reusable(f, read)
  <2>1. reused = <<>> /\ bytes = read
      BY <1>6 DEF Parted
  <2>2. Concat(reused) = <<>>
      BY <2>1, ConcatEmpty
  <2>3. <<>> \o read = read
      BY <1>3
  <2>4. <<>> \in Seq(Keys) /\ \A s : s = <<>> => \A i \in DOMAIN s : FALSE
      OBVIOUS
  <2> QED
      BY <1>3, <2>1, <2>2, <2>3, <2>4
<1> QED
    BY <1>5, <1>6

\* The copy goes on behind the file.
LEMMA CopiedRun ==
    ASSUME run \in Run, NEW f \in Files, run' = [run EXCEPT !.copied = f, !.before = <<>>]
    PROVE  /\ run' \in Run /\ run'.pc = run.pc /\ run'.cur = run.cur /\ run'.copied = f
           /\ run'.todo = run.todo /\ run'.gone = run.gone /\ run'.calm = run.calm /\ run'.fresh = run.fresh
           /\ run'.before = <<>>
<1>1. f \in 0..NumFiles /\ <<>> \in Seq(Nat)
    BY Sizes DEF Files
<1> QED
    BY <1>1 DEF Run

\* A journal that is being written stays one.
LEMMA CopyStep ==
    ASSUME Inv, run.pc = "copy", NEW f \in Files, NEW t \in Spool,
           Journal(run.cur, t), run' = [run EXCEPT !.copied = f, !.before = <<>>],
           UNCHANGED <<disk, edits, ver, head, obj, lhead, faults>>,
           t.place = "incomplete", t.pack = Cur.pack, t.accepted = Cur.accepted,
           t.packs \subseteq t.files, \A g \in t.packs : g <= f,
           \A g \in Files : (g \in t.packs <=> t.bytes[g] # <<>>) /\ Holds(t, g)
    PROVE  Inv'
<1> DEFINE c == run.cur
<1>1. BaseInv /\ TypeOK /\ run \in Run /\ c \in Captures /\ Cur.place = "incomplete" /\ Cur = spool[c]
    BY Types DEF Inv, BaseInv, RunOK, Cur
<1>2. SpoolOK(Cur) /\ ~Replayed(c)
    BY <1>1, SpoolFacts, Unregistered
<1>3. t.pack = Each(NewPack) /\ t.accepted = Each(0) /\ \A g \in Files : PackOK(g, t.pack[g])
    BY <1>1, <1>2 DEF SpoolOK
<1>4. SpoolOK(t)
    BY <1>3 DEF SpoolOK
<1>5. GoodChange(c, t)
  <2>1. t.files \subseteq Files
      BY SpoolFields
  <2>2. \A g \in t.files : t.accepted[g] = 0
      BY <1>3, <2>1 DEF Each
  <2> QED
      BY <1>2, <1>4, <2>2 DEF GoodChange
<1>6. KeyChange(c, t)
    BY <1>1 DEF KeyChange
<1>7. run' \in Run /\ run'.pc = "copy" /\ run'.cur = c /\ run'.copied = f
    BY <1>1, CopiedRun
<1>8. spool'[c] = t
    BY <1>1, Journalled
<1>9. RunOK'
    BY <1>1, <1>7, <1>8 DEF RunOK, Cur
<1> QED
    BY <1>1, <1>5, <1>6, <1>7, <1>9, JournalKeeps

\* What a file's copy leaves in the spool.
CopyOf(s, f, read, reused, bytes, packs, dirty, t) ==
    t = [s EXCEPT !.content[f] = read, !.reused[f] = reused, !.bytes[f] = bytes,
                  !.packs = packs, !.dirty = dirty]

CopyKept(s, f, read, reused, bytes, packs, t) ==
    /\ t \in Spool /\ t.place = s.place /\ t.pack = s.pack /\ t.accepted = s.accepted
    /\ t.files = s.files /\ t.packs = packs
    /\ t.content[f] = read /\ t.reused[f] = reused /\ t.bytes[f] = bytes
    /\ \A g \in Files : g # f => /\ t.content[g] = s.content[g] /\ t.reused[g] = s.reused[g]
                                 /\ t.bytes[g] = s.bytes[g]

LEMMA CopyJournal ==
    ASSUME NEW s \in Spool, NEW f \in Files, NEW read \in Seq(Nat), NEW reused \in Seq(Keys),
           NEW bytes \in Seq(Nat), NEW packs \in SUBSET Files, NEW dirty \in SUBSET Files,
           NEW t, CopyOf(s, f, read, reused, bytes, packs, dirty, t)
    PROVE  CopyKept(s, f, read, reused, bytes, packs, t)
<1> DEFINE content == [s.content EXCEPT ![f] = read]
           extents == [s.reused EXCEPT ![f] = reused]
           copies == [s.bytes EXCEPT ![f] = bytes]
<1>1. /\ content \in [Files -> Seq(Nat)] /\ content[f] = read
      /\ \A g \in Files : g # f => content[g] = s.content[g]
    BY SpoolFields
<1>2. /\ extents \in [Files -> Seq(Keys)] /\ extents[f] = reused
      /\ \A g \in Files : g # f => extents[g] = s.reused[g]
    BY SpoolFields
<1>3. /\ copies \in [Files -> Seq(Nat)] /\ copies[f] = bytes
      /\ \A g \in Files : g # f => copies[g] = s.bytes[g]
    BY SpoolFields
<1>4. t = [s EXCEPT !.content = content, !.reused = extents, !.bytes = copies, !.packs = packs, !.dirty = dirty]
    BY DEF Spool, CopyOf
<1> HIDE DEF content, extents, copies
<1>5. t \in Spool
    BY <1>1, <1>2, <1>3, <1>4 DEF Spool
<1>6. /\ t.content = content /\ t.reused = extents /\ t.bytes = copies /\ t.packs = packs
      /\ t.place = s.place /\ t.pack = s.pack /\ t.accepted = s.accepted /\ t.files = s.files
    BY <1>4 DEF Spool
<1> QED
    BY <1>1, <1>2, <1>3, <1>5, <1>6 DEF CopyKept

\* What one copy does: it is written down, or ends the batch, or the sync.
Copied(f, read, bytes, t) ==
    /\ Fits(bytes) /\ Journal(run.cur, t) /\ run' = [run EXCEPT !.copied = f, !.before = <<>>]
    /\ t \in Spool /\ t.place = "incomplete" /\ t.files = Cur.files
    /\ t.pack = Cur.pack /\ t.accepted = Cur.accepted
    /\ t.packs = Cur.packs \cup (IF bytes = <<>> THEN {} ELSE {f})
    /\ t.content[f] = read /\ t.bytes[f] = bytes /\ Holds(t, f)
    /\ \A g \in Files : g # f => /\ t.content[g] = Cur.content[g] /\ t.reused[g] = Cur.reused[g]
                                 /\ t.bytes[g] = Cur.bytes[g]

EndedBatch(f, t) ==
    /\ Journal(run.cur, t) /\ run' = [run EXCEPT !.copied = f, !.before = <<>>]
    /\ t \in Spool /\ t.place = "incomplete" /\ t.files = {g \in Cur.files : g < f}
    /\ t.pack = Cur.pack /\ t.accepted = Cur.accepted /\ t.packs = Cur.packs
    /\ t.content = Cur.content /\ t.reused = Cur.reused /\ t.bytes = Cur.bytes

LEMMA CopyCases ==
    ASSUME Inv, CopySource
    PROVE  \E f \in Files :
           /\ f = Min(ToCopy)
           /\ \/ run' = Off /\ spool' = spool
              \/ \E t : EndedBatch(f, t)
              \/ \E read \in ReadBytes(f) : \E bytes, t : Copied(f, read, bytes, t)
<1>1. BaseInv /\ run.pc = "copy" /\ ToCopy # {}
    BY DEF Inv, BaseInv, CopySource
<1>2. PICK f \in Files : f = Min(ToCopy)
    BY <1>1, NextSource
<1>3. PICK s : s = Cur
    OBVIOUS
<1>4. s \in Spool /\ s.place = "incomplete"
    BY <1>1, <1>3, NextSource
<1>5. PICK read \in ReadBytes(f) :
         LET reused == IF Reusable(f, read) THEN lhead[f].keys ELSE <<>>
             bytes == IF Reusable(f, read) THEN SubSeq(read, Len(lhead[f].content) + 1, Len(read)) ELSE read
         IN \/ /\ Fits(bytes)
               /\ Journal(run.cur,
                    [s EXCEPT !.content[f] = read, !.reused[f] = reused, !.bytes[f] = bytes,
                              !.packs = IF bytes = <<>> THEN @ ELSE @ \cup {f},
                              !.dirty = IF Dirty(f) THEN @ \cup {f} ELSE @])
               /\ run' = [run EXCEPT !.copied = f, !.before = <<>>]
            \/ /\ ~Fits(bytes)
               /\ IF \E g \in s.files : g < f
                    THEN /\ Journal(run.cur, [s EXCEPT !.files = {g \in @ : g < f}])
                         /\ run' = [run EXCEPT !.copied = f, !.before = <<>>]
                    ELSE run' = Off /\ UNCHANGED spool
    BY <1>2, <1>3 DEF CopySource, Cur
<1>6. PICK reused : reused = IF Reusable(f, read) THEN lhead[f].keys ELSE <<>>
    OBVIOUS
<1>7. PICK bytes : bytes = IF Reusable(f, read)
                             THEN SubSeq(read, Len(lhead[f].content) + 1, Len(read)) ELSE read
    OBVIOUS
<1>8. /\ read \in Seq(Nat) /\ reused \in Seq(Keys) /\ bytes \in Seq(Nat)
      /\ \A i \in DOMAIN reused : Settled(reused[i])
      /\ read = Concat(reused) \o bytes
  <2>1. Parted(f, read, reused, bytes)
      BY <1>6, <1>7 DEF Parted
  <2> QED
      BY <2>1, CopyParts
<1>9. PICK packs : packs = s.packs \cup (IF bytes = <<>> THEN {} ELSE {f})
    OBVIOUS
<1>10. PICK dirty : dirty = s.dirty \cup (IF Dirty(f) THEN {f} ELSE {})
    OBVIOUS
<1>11. packs \in SUBSET Files /\ dirty \in SUBSET Files
    BY <1>4, <1>9, <1>10, SpoolFields
<1>12. PICK t : CopyOf(s, f, read, reused, bytes, packs, dirty, t)
    BY DEF CopyOf
<1>13. \/ Fits(bytes) /\ Journal(run.cur, t) /\ run' = [run EXCEPT !.copied = f, !.before = <<>>]
       \/ /\ Journal(run.cur, [s EXCEPT !.files = {g \in @ : g < f}])
          /\ run' = [run EXCEPT !.copied = f, !.before = <<>>]
       \/ run' = Off /\ spool' = spool
  <2>1. packs = (IF bytes = <<>> THEN s.packs ELSE s.packs \cup {f})
      BY <1>9
  <2>2. dirty = (IF Dirty(f) THEN s.dirty \cup {f} ELSE s.dirty)
      BY <1>10
  <2>3. t = [s EXCEPT !.content[f] = read, !.reused[f] = reused, !.bytes[f] = bytes,
                      !.packs = IF bytes = <<>> THEN @ ELSE @ \cup {f},
                      !.dirty = IF Dirty(f) THEN @ \cup {f} ELSE @]
      BY <1>4, <1>12, <2>1, <2>2 DEF Spool, CopyOf
  <2> QED
      BY <1>5, <1>6, <1>7, <2>3
<1>14. CASE Fits(bytes) /\ Journal(run.cur, t) /\ run' = [run EXCEPT !.copied = f, !.before = <<>>]
  <2>1. CopyKept(s, f, read, reused, bytes, packs, t)
    <3>1. read \in Seq(Nat) /\ reused \in Seq(Keys) /\ bytes \in Seq(Nat) /\ s \in Spool
        BY <1>4, <1>8
    <3> QED
        BY <1>11, <1>12, <3>1, CopyJournal
  <2>2. Holds(t, f)
      BY <1>8, <2>1 DEF Holds, CopyKept
  <2>3. Copied(f, read, bytes, t)
      BY <1>3, <1>4, <1>9, <1>14, <2>1, <2>2 DEF Copied, CopyKept
  <2> QED
      BY <1>2, <2>3
<1>15. CASE /\ Journal(run.cur, [s EXCEPT !.files = {g \in @ : g < f}])
            /\ run' = [run EXCEPT !.copied = f, !.before = <<>>]
  <2>1. {g \in s.files : g < f} \in SUBSET Files
      BY <1>4, SpoolFields
  <2>2. PICK t2 : t2 = [s EXCEPT !.files = {g \in @ : g < f}]
      OBVIOUS
  <2>3. /\ t2 \in Spool /\ t2.place = s.place /\ t2.pack = s.pack /\ t2.accepted = s.accepted
        /\ t2.files = {g \in s.files : g < f} /\ t2.packs = s.packs /\ t2.content = s.content
        /\ t2.reused = s.reused /\ t2.bytes = s.bytes
      BY <1>4, <2>1, <2>2 DEF Spool
  <2>4. EndedBatch(f, t2)
      BY <1>3, <1>4, <1>15, <2>2, <2>3 DEF EndedBatch
  <2> QED
      BY <1>2, <2>4
<1> QED
    BY <1>2, <1>13, <1>14, <1>15

LEMMA CopyKeeps ==
    ASSUME Inv, CopySource
    PROVE  Inv'
<1> PICK f \in Files :
        /\ f = Min(ToCopy)
        /\ \/ run' = Off /\ spool' = spool
           \/ \E t : EndedBatch(f, t)
           \/ \E read \in ReadBytes(f) : \E bytes, t : Copied(f, read, bytes, t)
    BY CopyCases
<1>1. /\ BaseInv /\ run.pc = "copy" /\ ToCopy # {}
      /\ UNCHANGED <<disk, edits, ver, head, obj, lhead, faults>>
    BY DEF Inv, BaseInv, CopySource, server
<1>2. /\ run.cur \in Captures /\ Cur \in Spool /\ Cur.place = "incomplete" /\ Cur = spool[run.cur]
      /\ f \in Files /\ f \in ToCopy
    BY <1>1, NextSource
<1>3. SpoolOK(Cur) /\ (\A g \in Files : Holds(Cur, g)) /\ Cur.packs \subseteq Files
    BY <1>2, SpoolFacts
<1>4. /\ f \in Cur.files /\ f > run.copied /\ run.copied \in Nat /\ \A g \in Cur.packs : g <= run.copied
  <2>1. run \in Run /\ \A g \in Cur.packs : g <= run.copied
      BY <1>1, Types DEF BaseInv, RunOK
  <2>2. run.copied \in Nat
      BY <2>1, RunFields, Sizes
  <2> QED
      BY <1>2, <2>1, <2>2 DEF ToCopy
<1>5. f \in Nat /\ \A g \in Cur.packs : g \in Nat /\ g < f
  <2>1. f \in Nat /\ \A g \in Cur.packs : g \in Nat
      BY <1>2, <1>3, Zeros
  <2> QED
      BY <1>4, <2>1
<1>6. Cur.packs \subseteq Cur.files /\ \A g \in Files : (g \in Cur.packs <=> Cur.bytes[g] # <<>>)
    BY <1>2, <1>3 DEF SpoolOK
<1>7. CASE run' = Off /\ spool' = spool
    BY <1>1, <1>7, OffKeeps
<1>8. ASSUME NEW t, EndedBatch(f, t) PROVE Inv'
  <2>1. t.packs \subseteq t.files /\ \A g \in t.packs : g <= f
      BY <1>5, <1>6, <1>8 DEF EndedBatch
  <2>2. \A g \in Files : (g \in t.packs <=> t.bytes[g] # <<>>) /\ Holds(t, g)
      BY <1>3, <1>6, <1>8 DEF EndedBatch, Holds
  <2> QED
      BY <1>1, <1>2, <1>8, <2>1, <2>2, CopyStep DEF EndedBatch
<1>9. ASSUME NEW read, NEW bytes, NEW t, Copied(f, read, bytes, t) PROVE Inv'
  <2>1. t.packs \subseteq t.files /\ \A g \in t.packs : g <= f
      BY <1>4, <1>5, <1>6, <1>9 DEF Copied
  <2>2. ASSUME NEW g \in Files PROVE (g \in t.packs <=> t.bytes[g] # <<>>) /\ Holds(t, g)
    <3>1. CASE g = f
      <4>1. f \notin Cur.packs
          BY <1>5
      <4> QED
          BY <1>9, <3>1, <4>1 DEF Copied
    <3>2. CASE g # f
        BY <1>3, <1>6, <1>9, <3>2 DEF Copied, Holds
    <3> QED
        BY <3>1, <3>2
  <2> QED
      BY <1>1, <1>2, <1>9, <2>1, <2>2, CopyStep DEF Copied
<1> QED
    BY <1>7, <1>8, <1>9

----------------------------------------------------------------------------
(* The registration of a capture.                                          *)

\* The extents hold the content in the next state.
ExtentsNext(keys, content) ==
    /\ \A i \in DOMAIN keys : Final(obj'[keys[i]])
    /\ FlattenSeq([i \in DOMAIN keys |-> obj'[keys[i]].bytes]) = content

LEMMA ExtentsStay ==
    ASSUME ObjectsKept, NEW keys \in Seq(Keys), NEW content, Extents(keys, content)
    PROVE  ExtentsNext(keys, content)
<1>1. \A i \in DOMAIN keys : keys[i] \in Keys /\ Settled(keys[i])
    BY DEF Extents
<1>2. \A i \in DOMAIN keys : Final(obj'[keys[i]]) /\ obj'[keys[i]].bytes = obj[keys[i]].bytes
    BY <1>1 DEF ObjectsKept
<1>3. [i \in DOMAIN keys |-> obj'[keys[i]].bytes] = [i \in DOMAIN keys |-> obj[keys[i]].bytes]
    BY <1>2
<1>4. FlattenSeq([i \in DOMAIN keys |-> obj[keys[i]].bytes]) = content
    BY DEF Extents, Concat
<1> QED
    BY <1>2, <1>3, <1>4 DEF ExtentsNext

\* A version that was made from the spool of capture c.
FromSpool(c, v) ==
    /\ v.capture = c /\ v.file \in spool[c].files /\ v.prev = spool[c].prev[v.file]
    /\ v.content = spool[c].content[v.file] /\ v.keys = SourceKeys(c, v.file)

\* The log grows by the versions of capture c, once for each of its files.
Grown(c) ==
    /\ ver' \in Seq(Version)
    /\ \A i \in DOMAIN ver : i \in DOMAIN ver' /\ ver'[i] = ver[i]
    /\ \A i \in DOMAIN ver' : i \in DOMAIN ver \/ (FromSpool(c, ver'[i]) /\ Retired(c) = {})
    /\ \A f \in spool[c].files : \E i \in DOMAIN ver' : ver'[i].capture = c /\ ver'[i].file = f
    /\ \A i, j \in DOMAIN ver' : ver'[i].capture # 0 /\ ver'[j].capture = ver'[i].capture
                                    /\ ver'[j].file = ver'[i].file => i = j

\* The capture at its registration.
LEMMA RegisteringFacts ==
    ASSUME Inv, RegisterCapture, NEW c, c = run.cur
    PROVE  /\ c \in Captures /\ Cur = spool[c] /\ spool[c].place = "pending" /\ spool[c] \in Spool
           /\ \A g \in spool[c].packs : spool[c].pack[g].complete
           /\ \A f \in Files : SourceKeys(c, f) \in Seq(Keys) /\ Extents(SourceKeys(c, f), spool[c].content[f])
           /\ spool[c].files \in SUBSET Files
<1>1. run.pc = "upload" /\ Unsent = {}
    BY DEF RegisterCapture
<1>2. c \in Captures /\ Cur = spool[c] /\ spool[c].place = "pending"
    BY <1>1 DEF Inv, BaseInv, RunOK, Cur
<1>3. spool[c] \in Spool /\ spool[c].files \in SUBSET Files
    BY <1>2, SpoolFacts
<1>4. \A g \in spool[c].packs : spool[c].pack[g].complete
    BY <1>1, <1>2 DEF Unsent
<1> QED
    BY <1>2, <1>3, <1>4, SourceExtents

LEMMA ReplayGrows ==
    ASSUME Inv, RegisterCapture, Replayed(run.cur)
    PROVE  Grown(run.cur) /\ ver' = ver
<1> PICK c : c = run.cur
    OBVIOUS
<1>1. c \in Captures /\ spool[c].place = "pending"
    BY RegisteringFacts
<1>2. ver' = ver
    BY DEF RegisterCapture, Registered
<1>3. ReceiptsOK(c) /\ Once /\ ver \in Seq(Version)
    BY <1>1, Types DEF Inv, BaseInv, AllReceiptsOK
<1>4. \A f \in spool[c].files : \E i \in DOMAIN ver : ver[i].capture = c /\ ver[i].file = f
    BY <1>1, <1>3 DEF ReceiptsOK, Of
<1> QED
    BY <1>2, <1>3, <1>4 DEF Grown, Once

\* What one transaction appends.
LEMMA NewVersionsList ==
    ASSUME Inv, RegisterCapture, NEW c, c = run.cur, ~Replayed(c)
    PROVE  /\ NewVersions(c) \in Seq(Version)
           /\ \A i \in DOMAIN NewVersions(c) : FromSpool(c, NewVersions(c)[i])
           /\ \A f \in spool[c].files : \E i \in DOMAIN NewVersions(c) : NewVersions(c)[i].file = f
           /\ \A i, j \in DOMAIN NewVersions(c) : NewVersions(c)[i].file = NewVersions(c)[j].file => i = j
<1> DEFINE s == spool[c]
           m == Cardinality(s.files)
           order == SetToSeq(s.files)
           list == NewVersions(c)
<1>1. /\ c \in Captures /\ s \in Spool /\ s.files \in SUBSET Files
      /\ \A f \in Files : SourceKeys(c, f) \in Seq(Keys)
    BY RegisteringFacts
<1>2. IsFiniteSet(s.files)
  <2>1. IsFiniteSet(Files)
      BY Sizes, FS_Interval DEF Files
  <2> QED
      BY <1>1, <2>1, FS_Subset
<1>3. /\ m \in Nat /\ order \in [1..m -> s.files]
      /\ \A f \in s.files : \E i \in 1..m : order[i] = f
      /\ \A i, j \in 1..m : order[i] = order[j] => i = j
  <2> HIDE DEF s
  <2> QED
      BY <1>2, ListOf
<1>4. list = [i \in 1..m |-> [file |-> order[i], capture |-> c, prev |-> head[order[i]],
                              content |-> s.content[order[i]], keys |-> SourceKeys(c, order[i])]]
    BY DEF NewVersions
<1> HIDE DEF m, order, list
<1>5. ASSUME NEW i \in 1..m
      PROVE  list[i] \in Version /\ FromSpool(c, list[i]) /\ list[i].file = order[i]
  <2> PICK f : f = order[i]
      OBVIOUS
  <2> DEFINE v == [file |-> f, capture |-> c, prev |-> head[f], content |-> s.content[f], keys |-> SourceKeys(c, f)]
  <2>1. f \in s.files /\ f \in Files
      BY <1>1, <1>3
  <2>2. list[i] = v
      BY <1>4
  <2>3. head[f] = s.prev[f]
      BY <2>1 DEF RegisterCapture, Conflicts
  <2>4. head[f] \in Nat /\ s.content[f] \in Seq(Nat) /\ c \in 0..MaxCaptures
    <3>1. head[f] \in 0..Len(ver) /\ Len(ver) \in Nat
        BY <2>1, Types DEF Inv, BaseInv
    <3> QED
        BY <1>1, <2>1, <3>1, SpoolFields, Zeros
  <2>5. v \in Version
      BY <1>1, <2>1, <2>4 DEF Version
  <2>6. FromSpool(c, v)
      BY <2>1, <2>3 DEF FromSpool
  <2> QED
      BY <2>2, <2>5, <2>6
<1>6. list \in Seq(Version) /\ DOMAIN list = 1..m
    BY <1>3, <1>4, <1>5
<1>7. \A f \in s.files : \E i \in DOMAIN list : list[i].file = f
    BY <1>3, <1>5, <1>6
<1>8. \A i, j \in DOMAIN list : list[i].file = list[j].file => i = j
    BY <1>3, <1>5, <1>6
<1> QED
    BY <1>5, <1>6, <1>7, <1>8 DEF list

LEMMA RegistrationGrows ==
    ASSUME Inv, RegisterCapture, ~Replayed(run.cur)
    PROVE  /\ Grown(run.cur)
           /\ \A i \in DOMAIN ver : ver[i].capture # run.cur
<1> PICK c : c = run.cur
    OBVIOUS
<1> DEFINE list == NewVersions(c)
           n == Len(ver)
           m == Len(list)
<1>1. /\ list \in Seq(Version)
      /\ \A i \in DOMAIN list : FromSpool(c, list[i])
      /\ \A f \in spool[c].files : \E i \in DOMAIN list : list[i].file = f
      /\ \A i, j \in DOMAIN list : list[i].file = list[j].file => i = j
    BY NewVersionsList
<1>2. ver' = ver \o list /\ Retired(c) = {}
    BY DEF RegisterCapture, Registered
<1>3. ver \in Seq(Version) /\ Once
    BY Types DEF Inv, BaseInv
<1> HIDE DEF list
<1>4. /\ ver' \in Seq(Version) /\ n \in Nat /\ m \in Nat /\ DOMAIN ver' = 1..(n + m)
      /\ DOMAIN ver = 1..n /\ DOMAIN list = 1..m
      /\ \A i \in 1..n : ver'[i] = ver[i]
      /\ \A i \in 1..m : ver'[n + i] = list[i]
    BY <1>1, <1>2, <1>3
<1> HIDE DEF n, m
<1>5. \A i \in 1..n : i \in 1..(n + m)
    BY <1>4
<1>6. \A i \in 1..m : n + i \in 1..(n + m)
    BY <1>4
<1>7. \A i \in 1..(n + m) : i \in 1..n \/ (i - n \in 1..m /\ n + (i - n) = i)
    BY <1>4
<1>8. \A i \in 1..n : ver[i].capture # c
    BY <1>4 DEF Replayed
<1>9. \A i \in DOMAIN ver' : i \in DOMAIN ver \/ (FromSpool(c, ver'[i]) /\ Retired(c) = {})
  <2> SUFFICES ASSUME NEW i \in DOMAIN ver', i \notin DOMAIN ver PROVE FromSpool(c, ver'[i])
      BY <1>2
  <2> PICK j \in 1..m : n + j = i
      BY <1>4, <1>7
  <2>1. ver'[i] = list[j]
      BY <1>4
  <2>2. FromSpool(c, list[j])
      BY <1>1, <1>4
  <2> QED
      BY <2>1, <2>2
<1>10. \A f \in spool[c].files : \E i \in DOMAIN ver' : ver'[i].capture = c /\ ver'[i].file = f
  <2> SUFFICES ASSUME NEW f \in spool[c].files PROVE \E i \in DOMAIN ver' : ver'[i].capture = c /\ ver'[i].file = f
      OBVIOUS
  <2>1. PICK i \in 1..m : list[i].file = f
      BY <1>1, <1>4
  <2> PICK j : j = n + i
      OBVIOUS
  <2>2. ver'[j] = list[i] /\ j \in DOMAIN ver'
      BY <1>4, <1>6
  <2>3. FromSpool(c, list[i])
      BY <1>1, <1>4
  <2> QED
      BY <2>1, <2>2, <2>3 DEF FromSpool
<1>11. ASSUME NEW i \in DOMAIN ver', NEW j \in DOMAIN ver',
              ver'[i].capture # 0, ver'[j].capture = ver'[i].capture, ver'[j].file = ver'[i].file
       PROVE  i = j
  <2>1. CASE i \in 1..n /\ j \in 1..n
      BY <1>3, <1>4, <1>11, <2>1 DEF Once
  <2>2. CASE i \notin 1..n /\ j \notin 1..n
    <3>1. i - n \in 1..m /\ j - n \in 1..m /\ n + (i - n) = i /\ n + (j - n) = j
        BY <1>4, <1>7, <2>2
    <3>2. ver'[i] = list[i - n] /\ ver'[j] = list[j - n]
        BY <1>4, <3>1
    <3>3. i - n = j - n
        BY <1>1, <1>4, <1>11, <3>1, <3>2
    <3> QED
        BY <3>1, <3>3
  <2>3. CASE i \in 1..n /\ j \notin 1..n
      BY <1>4, <1>8, <1>9, <1>11, <2>3 DEF FromSpool
  <2>4. CASE i \notin 1..n /\ j \in 1..n
      BY <1>4, <1>8, <1>9, <1>11, <2>4 DEF FromSpool
  <2> QED
      BY <2>1, <2>2, <2>3, <2>4
<1>12. \A i \in DOMAIN ver : i \in DOMAIN ver' /\ ver'[i] = ver[i]
    BY <1>4, <1>5
<1>13. Grown(c)
    BY <1>4, <1>9, <1>10, <1>11, <1>12 DEF Grown
<1> QED
    BY <1>4, <1>8, <1>13

\* What RegisterFileVersions does to the tables: the log and the heads of its files
\* move on, and objects get their capture.
LEMMA RegisteredTables ==
    ASSUME Inv, RegisterCapture, NEW c, c = run.cur
    PROVE  /\ Grown(c)
           /\ head' \in [Files -> 0..Len(ver')]
           /\ \A g \in Files : \/ head'[g] = head[g]
                               \/ /\ head'[g] \in DOMAIN ver' /\ head'[g] \notin DOMAIN ver
                                  /\ ver'[head'[g]].file = g
           /\ Receipts(c, ver') \in [Files -> Nat]
           /\ \A f \in spool[c].files : LET i == Receipts(c, ver')[f] IN
                  i # 0 /\ i \in DOMAIN ver' /\ ver'[i].capture = c /\ ver'[i].file = f
<1>1. c \in Captures /\ Cur = spool[c] /\ spool[c].files \in SUBSET Files
    BY RegisteringFacts
<1>2. Grown(c) /\ (Replayed(c) \/ \A i \in DOMAIN ver : ver[i].capture # c)
    BY ReplayGrows, RegistrationGrows
<1>3. head \in [Files -> 0..Len(ver)] /\ Len(ver) \in Nat /\ ver \in Seq(Version)
    BY Types DEF Inv, BaseInv
<1>4. ver' \in Seq(Version) /\ Len(ver') \in Nat /\ DOMAIN ver' = 1..Len(ver') /\ DOMAIN ver = 1..Len(ver)
    BY <1>2, <1>3 DEF Grown
<1>5. Len(ver) <= Len(ver')
  <2>1. CASE Len(ver) = 0
      BY <1>4, <2>1
  <2>2. CASE Len(ver) # 0
    <3>1. Len(ver) \in DOMAIN ver
        BY <1>3, <1>4, <2>2
    <3>2. Len(ver) \in DOMAIN ver'
        BY <1>2, <3>1 DEF Grown
    <3> QED
        BY <1>3, <1>4, <3>2
  <2> QED
      BY <2>1, <2>2
<1>6. ASSUME NEW f \in spool[c].files, NEW i, i = Receipts(c, ver')[f]
      PROVE  i # 0 /\ i \in DOMAIN ver' /\ ver'[i].capture = c /\ ver'[i].file = f /\ i \in Nat
  <2>1. i = CHOOSE j \in DOMAIN ver' : ver'[j].file = f /\ ver'[j].capture = c
      BY <1>1, <1>6 DEF Receipts
  <2>2. \E j \in DOMAIN ver' : ver'[j].file = f /\ ver'[j].capture = c
      BY <1>2 DEF Grown
  <2>3. i \in DOMAIN ver' /\ ver'[i].file = f /\ ver'[i].capture = c
      BY <2>1, <2>2
  <2> QED
      BY <1>4, <2>3
<1>7. Receipts(c, ver') \in [Files -> Nat]
  <2>1. \A f \in Files : f \notin spool[c].files => Receipts(c, ver')[f] = 0
      BY DEF Receipts
  <2>2. \A f \in Files : Receipts(c, ver')[f] \in Nat
      BY <1>6, <2>1
  <2>3. Receipts(c, ver') = [f \in Files |-> Receipts(c, ver')[f]]
      BY DEF Receipts
  <2> QED
      BY <2>2, <2>3
<1>8. head' = [f \in Files |-> IF f \in spool[c].files /\ ~Replayed(c) THEN Receipts(c, ver')[f] ELSE head[f]]
    BY <1>1 DEF RegisterCapture
<1>9. ASSUME NEW g \in Files
      PROVE  /\ head'[g] \in 0..Len(ver')
             /\ \/ head'[g] = head[g]
                \/ /\ head'[g] \in DOMAIN ver' /\ head'[g] \notin DOMAIN ver
                   /\ ver'[head'[g]].file = g
  <2>1. CASE g \in spool[c].files /\ ~Replayed(c)
    <3> PICK i : i = Receipts(c, ver')[g]
        OBVIOUS
    <3>1. head'[g] = i
        BY <1>8, <2>1
    <3>2. i \in DOMAIN ver' /\ ver'[i].capture = c /\ ver'[i].file = g
        BY <1>6, <2>1
    <3>3. i \notin DOMAIN ver
        BY <1>2, <2>1, <3>2 DEF Grown
    <3>4. i \in 0..Len(ver')
        BY <1>4, <3>2
    <3> QED
        BY <3>1, <3>2, <3>3, <3>4
  <2>2. CASE ~(g \in spool[c].files /\ ~Replayed(c))
    <3>1. head'[g] = head[g]
        BY <1>8, <2>2
    <3>2. head[g] \in 0..Len(ver)
        BY <1>3
    <3> QED
        BY <1>3, <1>4, <1>5, <3>1, <3>2
  <2> QED
      BY <2>1, <2>2
<1>10. head' \in [Files -> 0..Len(ver')]
    BY <1>8, <1>9
<1> QED
    BY <1>2, <1>6, <1>7, <1>9, <1>10

\* The objects of the capture, and its journal: accepted, or the process stopped.
LEMMA RegisteredJournal ==
    ASSUME Inv, RegisterCapture, NEW c, c = run.cur, NEW t, t = spool'[c]
    PROVE  /\ obj' \in [Keys -> Object]
           /\ \A k \in Keys : /\ obj'[k].state = obj[k].state /\ obj'[k].stored = obj[k].stored
                              /\ obj'[k].bytes = obj[k].bytes
           /\ spool' \in [Captures -> Spool] /\ (\A d \in Captures : d # c => spool'[d] = spool[d])
           /\ t \in Spool /\ t.place = "pending" /\ t.pack = spool[c].pack /\ Copy(t) = Copy(spool[c])
           /\ \/ t = spool[c] /\ run' = Off
              \/ t.accepted = Receipts(c, ver') /\ run' = [run EXCEPT !.pc = "heads"]
           /\ Fault \/ UNCHANGED faults
<1>1. /\ c \in Captures /\ Cur = spool[c] /\ spool[c] \in Spool /\ spool[c].place = "pending"
      /\ TypeOK /\ obj \in [Keys -> Object] /\ spool \in [Captures -> Spool]
    BY RegisteringFacts, Types DEF Inv, BaseInv
<1>2. obj' = [k \in Keys |-> IF k \in RequestKeys(c) /\ obj[k].capture = 0
                              THEN [obj[k] EXCEPT !.capture = c] ELSE obj[k]]
    BY DEF RegisterCapture
<1>3. ASSUME NEW k \in Keys
      PROVE  /\ obj'[k] \in Object
             /\ obj'[k].state = obj[k].state /\ obj'[k].stored = obj[k].stored
             /\ obj'[k].bytes = obj[k].bytes
  <2>1. obj[k] \in Object /\ c \in 0..MaxCaptures
      BY <1>1, Zeros
  <2>2. obj'[k] \in {obj[k], [obj[k] EXCEPT !.capture = c]}
      BY <1>2
  <2> QED
      BY <2>1, <2>2 DEF Object
<1>4. obj' \in [Keys -> Object]
    BY <1>2, <1>3
<1> DEFINE a == Receipts(c, ver')
           u == [spool[c] EXCEPT !.accepted = a]
<1>5. a \in [Files -> Nat]
    BY RegisteredTables
<1>6. u \in Spool /\ u.accepted = a /\ u.place = "pending" /\ u.pack = spool[c].pack /\ Copy(u) = Copy(spool[c])
  <2> HIDE DEF a
  <2> QED
      BY <1>1, <1>5, AcceptedChange
<1>7. Answered(Journal(c, u), run' = [run EXCEPT !.pc = "heads"])
    BY <1>1 DEF RegisterCapture
<1> HIDE DEF a, u
<1>8. CASE Journal(c, u) /\ run' = [run EXCEPT !.pc = "heads"] /\ UNCHANGED faults
  <2>1. /\ spool' \in [Captures -> Spool] /\ t = u
        /\ \A d \in Captures : d # c => spool'[d] = spool[d]
      BY <1>1, <1>6, <1>8, Journalled
  <2> QED
      BY <1>3, <1>4, <1>6, <1>8, <2>1 DEF a
<1>9. CASE UNCHANGED spool /\ Stop
  <2>1. t = spool[c] /\ t.place = "pending" /\ run' = Off /\ Fault
      BY <1>1, <1>9 DEF Stop
  <2> QED
      BY <1>1, <1>3, <1>4, <1>9, <2>1
<1> QED
    BY <1>7, <1>8, <1>9 DEF Answered

LEMMA RegisterKeepsBase ==
    ASSUME Inv, RegisterCapture
    PROVE  BaseInv'
<1> PICK c : c = run.cur
    OBVIOUS
<1> PICK t : t = spool'[c]
    OBVIOUS
<1>1. /\ BaseInv /\ TypeOK /\ run \in Run /\ ver \in Seq(Version)
      /\ UNCHANGED <<disk, edits, lhead>>
    BY Types DEF Inv, BaseInv, RegisterCapture
<1>2. /\ c \in Captures /\ spool[c].place = "pending" /\ spool[c] \in Spool
      /\ (\A g \in spool[c].packs : spool[c].pack[g].complete) /\ spool[c].files \in SUBSET Files
      /\ SpoolOK(spool[c]) /\ ReceiptsOK(c)
    BY <1>1, RegisteringFacts DEF BaseInv, SpoolsOK, AllReceiptsOK
<1>3. Grown(c) /\ head' \in [Files -> 0..Len(ver')]
    BY RegisteredTables
<1>4. \A f \in spool[c].files : LET i == Receipts(c, ver')[f] IN
          i # 0 /\ i \in DOMAIN ver' /\ ver'[i].capture = c /\ ver'[i].file = f
    BY RegisteredTables
<1>5. /\ obj' \in [Keys -> Object] /\ spool' \in [Captures -> Spool]
      /\ (\A d \in Captures : d # c => spool'[d] = spool[d])
      /\ t \in Spool /\ t.place = "pending" /\ t.pack = spool[c].pack /\ Copy(t) = Copy(spool[c])
      /\ \/ t = spool[c] /\ run' = Off
         \/ t.accepted = Receipts(c, ver') /\ run' = [run EXCEPT !.pc = "heads"]
      /\ Fault \/ UNCHANGED faults
    BY RegisteredJournal
<1>6. /\ t.files = spool[c].files /\ t.prev = spool[c].prev /\ t.content = spool[c].content
      /\ t.packs = spool[c].packs /\ t.bytes = spool[c].bytes
    BY <1>5 DEF Copy
<1>7. \A f \in t.files : t.accepted[f] # 0 =>
          t.accepted[f] \in DOMAIN ver' /\ ver'[t.accepted[f]].capture = c /\ ver'[t.accepted[f]].file = f
  <2>1. CASE t = spool[c]
      BY <1>2, <1>3, <2>1 DEF ReceiptsOK, Of, Grown
  <2>2. CASE t.accepted = Receipts(c, ver')
      BY <1>4, <1>6, <2>2
  <2> QED
      BY <1>5, <2>1, <2>2
<1>8. run' \in Run
  <2>1. CASE run' = Off
      BY <2>1, OffType
  <2>2. CASE run' = [run EXCEPT !.pc = "heads"]
      BY <1>1, <2>2 DEF Run
  <2> QED
      BY <1>5, <2>1, <2>2
<1>9. TypeOK'
  <2>1. faults' \in 0..MaxFaults
      BY <1>1, <1>5, FaultType
  <2>2. disk' \in [Files -> Seq(Nat)] /\ edits' \in Nat /\ lhead' \in [Files -> LocalHead]
      BY <1>1, Types
  <2>3. ver' \in Seq(Version)
      BY <1>3 DEF Grown
  <2> QED
      BY <1>3, <1>5, <1>8, <2>1, <2>2, <2>3 DEF TypeOK
<1>10. RunOK'
  <2>1. CASE run' = Off
      BY <2>1, OffType DEF RunOK
  <2>2. CASE t.accepted = Receipts(c, ver') /\ run' = [run EXCEPT !.pc = "heads"]
    <3>1. run'.pc = "heads" /\ run'.cur = c
        BY <1>1, <2>2 DEF Run
    <3>2. \A f \in spool'[c].files : spool'[c].accepted[f] # 0
        BY <1>4, <1>6, <2>2
    <3> QED
        BY <1>2, <1>5, <3>1, <3>2 DEF RunOK, Cur, IsAccepted
  <2> QED
      BY <1>5, <2>1, <2>2
<1>11. SpoolsOK'
  <2>1. SpoolOK(t)
      BY <1>2, <1>5, <1>6 DEF SpoolOK
  <2>2. \A d \in Captures : SpoolOK(spool'[d])
      BY <1>1, <1>5, <2>1 DEF BaseInv, SpoolsOK
  <2> QED
      BY <2>2 DEF SpoolsOK, SpoolOK, PackOK
<1>12. VersionsOK'
  <2> SUFFICES ASSUME NEW i \in DOMAIN ver', ver'[i].capture # 0
               PROVE  LET v == ver'[i] s == spool'[v.capture] IN
                      /\ s.place \in {"pending", "completed", "removed"}
                      /\ s.place # "removed" => /\ v.file \in s.files /\ v.prev = s.prev[v.file]
                                                /\ v.content = s.content[v.file]
                      /\ s.place = "pending" => \A f \in s.packs : s.pack[f].complete
      BY DEF VersionsOK, VersionOK
  <2>1. CASE i \in DOMAIN ver
    <3> PICK d : d = ver[i].capture
        OBVIOUS
    <3>1. ver'[i] = ver[i] /\ ver[i] \in Version /\ VersionOK(ver[i])
        BY <1>1, <1>3, <2>1 DEF Grown, BaseInv, VersionsOK
    <3>2. d \in Captures
        BY <3>1, Zeros DEF Version
    <3>3. CASE d = c
        BY <1>2, <1>5, <1>6, <3>1, <3>3 DEF VersionOK
    <3>4. CASE d # c
        BY <1>5, <3>1, <3>2, <3>4 DEF VersionOK
    <3> QED
        BY <3>3, <3>4
  <2>2. CASE FromSpool(c, ver'[i])
      BY <1>2, <1>5, <1>6, <2>2 DEF FromSpool
  <2> QED
      BY <1>3, <2>1, <2>2 DEF Grown
<1>13. Once'
    BY <1>3 DEF Grown, Once
<1>14. AllReceiptsOK'
  <2> SUFFICES ASSUME NEW d \in Captures PROVE ReceiptsOK(d)'
      BY DEF AllReceiptsOK
  <2>1. CASE d = c
    <3>1. \A f \in spool'[d].files : \E i \in DOMAIN ver' : ver'[i].capture = d /\ ver'[i].file = f
        BY <1>3, <1>6, <2>1 DEF Grown
    <3> QED
        BY <1>5, <1>7, <2>1, <3>1 DEF ReceiptsOK, Of
  <2>2. CASE d # c
    <3>1. spool'[d] = spool[d] /\ ReceiptsOK(d)
        BY <1>1, <1>5, <2>2 DEF BaseInv, AllReceiptsOK
    <3>2. Replayed(d)' => Replayed(d)
        BY <1>3, <2>2 DEF Replayed, Grown, FromSpool
    <3>3. ASSUME Replayed(d)', spool[d].place # "removed", NEW f \in spool[d].files
          PROVE  \E i \in DOMAIN ver' : ver'[i].capture = d /\ ver'[i].file = f
      <4> PICK i \in DOMAIN ver : ver[i].capture = d /\ ver[i].file = f
          BY <3>1, <3>2, <3>3 DEF ReceiptsOK, Of
      <4> QED
          BY <1>3 DEF Grown
    <3>4. \A f \in spool[d].files : spool[d].accepted[f] # 0 =>
              /\ spool[d].accepted[f] \in DOMAIN ver'
              /\ ver'[spool[d].accepted[f]].capture = d /\ ver'[spool[d].accepted[f]].file = f
        BY <1>3, <3>1 DEF ReceiptsOK, Of, Grown
    <3>5. spool[d].place = "completed" => \A f \in spool[d].files : spool[d].accepted[f] # 0
        BY <3>1 DEF ReceiptsOK, IsAccepted
    <3> QED
        BY <3>1, <3>3, <3>4, <3>5 DEF ReceiptsOK, Of, IsAccepted
  <2> QED
      BY <2>1, <2>2
<1> QED
    BY <1>9, <1>10, <1>11, <1>12, <1>13, <1>14 DEF BaseInv

LEMMA RegisterKeepsKeys ==
    ASSUME Inv, RegisterCapture
    PROVE  KeyInv'
<1> PICK c : c = run.cur
    OBVIOUS
<1> PICK t : t = spool'[c]
    OBVIOUS
<1>1. /\ BaseInv /\ TypeOK /\ KeyInv /\ ver \in Seq(Version) /\ lhead \in [Files -> LocalHead]
      /\ lhead' = lhead /\ head \in [Files -> 0..Len(ver)] /\ Len(ver) \in Nat
    BY Types DEF Inv, BaseInv, RegisterCapture
<1>2. /\ c \in Captures /\ spool[c].place = "pending" /\ spool[c].files \in SUBSET Files
      /\ \A f \in Files : SourceKeys(c, f) \in Seq(Keys) /\ Extents(SourceKeys(c, f), spool[c].content[f])
    BY RegisteringFacts
<1>3. /\ Grown(c)
      /\ \A g \in Files : \/ head'[g] = head[g]
                          \/ /\ head'[g] \in DOMAIN ver' /\ head'[g] \notin DOMAIN ver
                             /\ ver'[head'[g]].file = g
    BY RegisteredTables
<1>4. /\ \A k \in Keys : /\ obj'[k].state = obj[k].state /\ obj'[k].stored = obj[k].stored
                         /\ obj'[k].bytes = obj[k].bytes
      /\ spool' \in [Captures -> Spool]
      /\ (\A d \in Captures : d # c => spool'[d] = spool[d])
      /\ t.place = "pending" /\ t.pack = spool[c].pack /\ Copy(t) = Copy(spool[c])
    BY RegisteredJournal
<1>5. KeyChange(c, t)
  <2>1. \A f \in Files : Holds(spool[c], f)
      BY <1>2, SpoolFacts
  <2>2. t.reused = spool[c].reused /\ t.content = spool[c].content /\ t.bytes = spool[c].bytes
      BY <1>4 DEF Copy
  <2>3. \A f \in Files : Holds(t, f)
      BY <2>1, <2>2 DEF Holds
  <2> QED
      BY <1>2, <1>4, <2>2, <2>3 DEF KeyChange
<1>6. OwnersOK' /\ KeysTaken' /\ ObjectsOK' /\ PacksStored' /\ SpoolsReadable' /\ ObjectsKept
    BY <1>4, <1>5, SpoolKeys
<1>7. HeadsMatch'
  <2> SUFFICES ASSUME NEW f \in Files, lhead[f].keys # <<>>
               PROVE  /\ Extents(lhead[f].keys, lhead[f].content)'
                      /\ lhead[f].seq \in DOMAIN ver' /\ ver'[lhead[f].seq].content = lhead[f].content
      BY <1>1 DEF HeadsMatch
  <2>1. /\ Extents(lhead[f].keys, lhead[f].content)
        /\ lhead[f].seq \in DOMAIN ver /\ ver[lhead[f].seq].content = lhead[f].content
      BY <1>1 DEF KeyInv, HeadsMatch
  <2>2. lhead[f].keys \in Seq(Keys)
      BY <1>1 DEF LocalHead
  <2>3. ExtentsNext(lhead[f].keys, lhead[f].content)
      BY <1>6, <2>1, <2>2, ExtentsStay
  <2> QED
      BY <1>1, <1>3, <2>1, <2>3 DEF Grown, ExtentsNext, Extents, Settled, Concat
<1>8. ASSUME NEW i \in DOMAIN ver', ver'[i].capture # 0 PROVE ExtentsNext(ver'[i].keys, ver'[i].content)
  <2>1. CASE i \in DOMAIN ver
    <3>1. ver'[i] = ver[i]
        BY <1>3, <2>1 DEF Grown
    <3>2. ver[i] \in Version
        BY <1>1, <2>1
    <3>3. ver[i].keys \in Seq(Keys)
        BY <3>2 DEF Version
    <3>4. Extents(ver[i].keys, ver[i].content)
        BY <1>1, <1>8, <2>1, <3>1 DEF KeyInv, VersionsReadable
    <3> QED
        BY <1>6, <3>1, <3>3, <3>4, ExtentsStay
  <2>2. CASE FromSpool(c, ver'[i])
    <3> PICK f \in Files : f = ver'[i].file
        BY <1>2, <2>2 DEF FromSpool
    <3>1. ver'[i].keys = SourceKeys(c, f) /\ ver'[i].content = spool[c].content[f]
        BY <2>2 DEF FromSpool
    <3>2. ExtentsNext(SourceKeys(c, f), spool[c].content[f])
        BY <1>2, <1>6, ExtentsStay
    <3> QED
        BY <3>1, <3>2
  <2> QED
      BY <1>3, <2>1, <2>2 DEF Grown
<1>9. VersionsReadable'
  <2>1. \A i \in DOMAIN ver' : ver'[i].capture # 0 => ExtentsNext(ver'[i].keys, ver'[i].content)
      BY <1>8
  <2> QED
      BY <2>1 DEF VersionsReadable, Extents, ExtentsNext, Settled, Concat
<1>10. NeededStands'
  <2> SUFFICES ASSUME NEW k \in Keys, NEW g \in Files, head'[g] # 0, k \in ToSet(ver'[head'[g]].keys)
               PROVE  obj'[k].state = "complete"
      BY DEF NeededStands, Needed
  <2>1. CASE head'[g] = head[g]
    <3>1. head[g] \in DOMAIN ver
      <4>1. head[g] \in 0..Len(ver) /\ head[g] # 0
          BY <1>1, <2>1
      <4> QED
          BY <1>1, <4>1
    <3>2. ver'[head'[g]] = ver[head[g]]
        BY <1>3, <2>1, <3>1 DEF Grown
    <3>3. Needed(k)
        BY <2>1, <3>2 DEF Needed
    <3> QED
        BY <1>1, <1>4, <3>3 DEF KeyInv, NeededStands
  <2>2. CASE /\ head'[g] \in DOMAIN ver' /\ head'[g] \notin DOMAIN ver /\ ver'[head'[g]].file = g
    <3>1. FromSpool(c, ver'[head'[g]]) /\ Retired(c) = {}
        BY <1>3, <2>2 DEF Grown
    <3>2. k \in ToSet(SourceKeys(c, g)) /\ g \in spool[c].files
        BY <2>2, <3>1 DEF FromSpool
    <3>3. Settled(k)
        BY <1>2, <3>2 DEF Extents, ToSet
    <3>4. k \in RequestKeys(c)
        BY <3>2 DEF RequestKeys
    <3>5. obj[k].state # "retired"
        BY <3>1, <3>4 DEF Retired, RetiredKeys
    <3> QED
        BY <1>4, <3>3, <3>5 DEF Settled, Final
  <2> QED
      BY <1>3, <2>1, <2>2
<1> QED
    BY <1>6, <1>7, <1>9, <1>10 DEF KeyInv

LEMMA RegisterKeeps ==
    ASSUME Inv, RegisterCapture
    PROVE  Inv'
BY RegisterKeepsBase, RegisterKeepsKeys DEF Inv

----------------------------------------------------------------------------
(* The invariant holds in every state.                                     *)

LEMMA InitBase == Init => BaseInv
<1> SUFFICES ASSUME Init PROVE BaseInv
    OBVIOUS
<1>1. disk \in [Files -> Seq(Nat)] /\ edits \in Nat
    BY Sizes, Zeros DEF Init
<1>2. ver = <<>> /\ ver \in Seq(Version) /\ Len(ver) = 0 /\ DOMAIN ver = {}
    BY DEF Init
<1>3. head \in [Files -> 0..Len(ver)]
    BY <1>2 DEF Init, Each
<1>4. FreeObject \in Object
    BY Zeros DEF FreeObject, Object
<1>5. obj \in [Keys -> Object]
    BY <1>4 DEF Init
<1>6. spool \in [Captures -> Spool] /\ \A c \in Captures : spool[c] = NoSpool
    BY NoSpoolType DEF Init
<1>7. NoHead \in LocalHead
    BY DEF NoHead, LocalHead
<1>8. lhead \in [Files -> LocalHead]
    BY <1>7 DEF Init, Each
<1>9. run \in Run /\ faults \in 0..MaxFaults /\ run.pc = "off"
    BY OffType, Sizes DEF Init
<1>10. TypeOK
    BY <1>1, <1>2, <1>3, <1>5, <1>6, <1>8, <1>9 DEF TypeOK
<1>11. RunOK
    BY <1>9 DEF RunOK
<1>12. SpoolsOK
  <2>1. \A f \in Files : Each(NewPack)[f] = NewPack /\ PackOK(f, NewPack)
      BY DEF Each, PackOK, NewPack
  <2> QED
      BY <1>6, <2>1, NoSpoolType DEF SpoolsOK, SpoolOK
<1>13. VersionsOK /\ Once
    BY <1>2 DEF VersionsOK, Once
<1>14. AllReceiptsOK
    BY <1>2, <1>6, NoSpoolType DEF AllReceiptsOK, ReceiptsOK, Replayed, IsAccepted
<1> QED
    BY <1>10, <1>11, <1>12, <1>13, <1>14 DEF BaseInv

LEMMA InitKeys == Init => KeyInv
<1> SUFFICES ASSUME Init PROVE KeyInv
    OBVIOUS
<1>1. \A c \in Captures : spool[c] = NoSpool
    BY DEF Init
<1>2. ver = <<>> /\ DOMAIN ver = {}
    BY DEF Init
<1>3. \A f \in Files : Each(NewPack)[f] = NewPack
    BY DEF Each
<1>4. Own(NewPack) = {} /\ NewPack.key = NoKey
    BY DEF Own, NewPack
<1>5. OwnersOK /\ KeysTaken
    BY <1>1, <1>3, <1>4, NoSpoolType DEF OwnersOK, Owns, KeysTaken
<1>6. ObjectsOK
    BY DEF Init, ObjectsOK, ObjectOK, FreeObject
<1>7. PacksStored /\ SpoolsReadable
    BY <1>1, NoSpoolType DEF PacksStored, PackStored, SpoolsReadable, SpoolReadable
<1>8. HeadsMatch
    BY DEF Init, Each, NoHead, HeadsMatch
<1>9. VersionsReadable
    BY <1>2 DEF VersionsReadable
<1>10. NeededStands
    BY DEF Init, Each, NeededStands, Needed
<1> QED
    BY <1>5, <1>6, <1>7, <1>8, <1>9, <1>10 DEF KeyInv

\* Every request of an upload.
LEMMA RequestsKeep ==
    ASSUME Inv, NEW f \in Files,
           \/ ConfirmEarlier(f) \/ InitSourcePack(f) \/ PutSourcePack(f) \/ CompleteSourcePack(f)
           \/ MultipartIdentity(f) \/ MultipartInit(f) \/ MultipartComplete(f)
           \/ \E n \in Parts : PutPart(f, n)
    PROVE  Inv'
<1>1. UploadMove(f)
    BY ConfirmMove, InitMove, PutMove, MultipartIdentityMove, MultipartInitMove, MultipartCompleteMove, PartMove
<1> QED
    BY <1>1, UploadKeeps

LEMMA WorkKeeps ==
    ASSUME Inv, Work
    PROVE  Inv'
<1>1. CASE RegisterRetired
    BY <1>1, RegisterRetiredMove, UploadKeeps
<1>2. CASE \E f \in Files : \/ ConfirmEarlier(f) \/ InitSourcePack(f) \/ PutSourcePack(f)
                            \/ CompleteSourcePack(f) \/ MultipartIdentity(f) \/ MultipartInit(f)
                            \/ MultipartComplete(f) \/ \E n \in Parts : PutPart(f, n)
    BY <1>2, RequestsKeep
<1>3. CASE \E c \in Captures : ResumePending(c) \/ CreateSpool(c)
    BY <1>3, ResumeKeeps, CreateKeeps
<1>4. CASE RetainCaptureSpools \/ DiscardIncompleteCaptures \/ Scan \/ OpenSource
    BY <1>4, RetainKeeps, DiscardKeeps, ScanKeeps, OpenKeeps
<1>5. CASE TruncatedSource \/ CopySource \/ PublishJournal \/ RegisterCapture
    BY <1>5, StopsKeep, CopyKeeps, PublishKeeps, RegisterKeeps
<1>6. CASE RegisterConflict \/ SaveHead \/ CompleteCapture \/ Finish
    BY <1>6, StopsKeep, ConflictKeeps, SaveKeeps, CompleteKeeps
<1> QED
    BY <1>1, <1>2, <1>3, <1>4, <1>5, <1>6 DEF Work

LEMMA EnvironmentKeeps ==
    ASSUME Inv, Environment
    PROVE  Inv'
<1>1. CASE Crash
    BY <1>1, StopsKeep
<1>2. CASE \E f \in Files : AppendFile(f) \/ ReplaceFile(f) \/ RemoveFile(f) \/ OtherCapture(f)
    BY <1>2, EditsKeep, OtherKeeps
<1>3. CASE \E k \in Keys : RetirePack(k) \/ ExpireSession(k)
    BY <1>3, RetireKeeps, ExpireKeeps
<1> QED
    BY <1>1, <1>2, <1>3 DEF Environment

LEMMA NextKeeps == Inv /\ [Next]_vars => Inv'
<1> SUFFICES ASSUME Inv, [Next]_vars PROVE Inv'
    OBVIOUS
<1>1. CASE Next
    BY <1>1, WorkKeeps, EnvironmentKeeps, StartKeeps DEF Next
<1>2. CASE UNCHANGED vars
  <2>1. UNCHANGED <<disk, edits, ver, head, obj, spool, lhead, run, faults>>
      BY <1>2 DEF vars, server
  <2>2. run \in Run /\ TypeOK /\ RunOK
      BY DEF Inv, BaseInv, TypeOK
  <2>3. TypeOK'
      BY <2>1, <2>2, StillType
  <2>4. RunOK'
      BY <2>1, <2>2 DEF RunOK, Cur, IsAccepted
  <2> QED
      BY <2>1, <2>3, <2>4, StillKeeps
<1> QED
    BY <1>1, <1>2

\* Whatever the interleaving of syncs, edits, other clients, crashes, lost responses and
\* retired packs: journals, uploads, versions and local heads agree as Inv says.
THEOREM ClientInvariant == Spec => []Inv
<1>1. Init => Inv
    BY InitBase, InitKeys DEF Inv
<1> QED
    BY <1>1, NextKeeps, PTL DEF Spec

\* Every step keeps the state of the client and of the tables in its types.
THEOREM TypeCorrect == Spec => []TypeOK
<1>1. Inv => TypeOK
    BY DEF Inv, BaseInv
<1> QED
    BY <1>1, ClientInvariant, PTL

\* A capture that is submitted again after a lost response gets the versions it already
\* has (RegisterFileVersions), on top of those it was made against.
THEOREM CapturesRegisterOnce == Spec => []RegisteredOnce
<1>1. Inv => RegisteredOnce
  <2> SUFFICES ASSUME Inv, NEW i \in DOMAIN ver, ver[i].capture # 0
               PROVE  /\ ver[i].prev = spool[ver[i].capture].prev[ver[i].file]
                         \/ spool[ver[i].capture].place = "removed"
                      /\ \A j \in DOMAIN ver : ver[j].capture = ver[i].capture /\ ver[j].file = ver[i].file => i = j
      BY DEF RegisteredOnce
  <2> QED
      BY DEF Inv, BaseInv, VersionsOK, VersionOK, Once
<1> QED
    BY <1>1, ClientInvariant, PTL

\* What a capture registered can be read back from the extents of the version: uploads,
\* resets after retired packs and reused extents of an append never mix up bytes.
THEOREM CapturedHeadsAreReadable == Spec => []HeadIsReadable
<1>1. Inv => HeadIsReadable
  <2> SUFFICES ASSUME Inv, NEW f \in Files, head[f] # 0, ver[head[f]].capture # 0
               PROVE  /\ \A k \in ToSet(ver[head[f]].keys) : obj[k].stored /\ obj[k].state = "complete"
                      /\ Concat(ver[head[f]].keys) = ver[head[f]].content
      BY DEF HeadIsReadable
  <2>1. /\ head[f] \in 0..Len(ver) /\ Len(ver) \in Nat /\ ver \in Seq(Version)
      BY Types DEF Inv, BaseInv
  <2>2. head[f] \in DOMAIN ver
      BY <2>1
  <2>3. ver[head[f]] \in Version
      BY <2>1, <2>2
  <2>4. ver[head[f]].keys \in Seq(Keys)
      BY <2>3 DEF Version
  <2>5. Concat(ver[head[f]].keys) = ver[head[f]].content
      BY <2>2 DEF Inv, KeyInv, VersionsReadable, Extents
  <2>6. ASSUME NEW k \in ToSet(ver[head[f]].keys) PROVE obj[k].stored /\ obj[k].state = "complete"
    <3>1. k \in Keys
        BY <2>4 DEF ToSet
    <3>2. Needed(k)
        BY DEF Needed
    <3>3. obj[k].state = "complete"
        BY <3>1, <3>2 DEF Inv, KeyInv, NeededStands
    <3> QED
        BY <3>1, <3>3 DEF Inv, KeyInv, ObjectsOK, ObjectOK
  <2> QED
      BY <2>5, <2>6
<1> QED
    BY <1>1, ClientInvariant, PTL

----------------------------------------------------------------------------
(* The bytes on the local disk.                                            *)

\* Every step but the copy of a file keeps the bytes of a capture, or removes them:
\* those of one that was not published, or of one that is complete.
LocalBytes(c) ==
    \/ spool'[c].bytes = spool[c].bytes
    \/ /\ spool'[c].bytes = Each(<<>>)
       /\ spool[c].place \in {"none", "incomplete"} \/ (RetainCaptureSpools /\ c \in Completed)

LEMMA JournalBytes ==
    ASSUME Inv, NEW c \in Captures, NEW d \in Captures, NEW t, Journal(d, t),
           c = d => t.bytes = spool[c].bytes
    PROVE  LocalBytes(c)
<1>1. spool \in [Captures -> Spool]
    BY Types DEF Inv, BaseInv
<1>2. spool'[c] = IF c = d THEN t ELSE spool[c]
    BY <1>1 DEF Journal
<1> QED
    BY <1>2 DEF LocalBytes

LEMMA UploadBytes ==
    ASSUME Inv, NEW f \in Files, UploadMove(f), NEW c \in Captures
    PROVE  LocalBytes(c)
<1>1. PackMove(f)
    BY DEF UploadMove
<1>2. CASE c = run.cur
  <2>1. Copy(spool'[c]) = Copy(spool[c])
      BY <1>1, <1>2 DEF PackMove, Cur
  <2> QED
      BY <2>1 DEF Copy, LocalBytes
<1>3. CASE c # run.cur
    BY <1>1, <1>3 DEF PackMove, LocalBytes
<1> QED
    BY <1>2, <1>3

LEMMA RequestBytes ==
    ASSUME Inv, NEW f \in Files, NEW c \in Captures,
           \/ ConfirmEarlier(f) \/ InitSourcePack(f) \/ PutSourcePack(f) \/ CompleteSourcePack(f)
           \/ MultipartIdentity(f) \/ MultipartInit(f) \/ MultipartComplete(f)
           \/ \E n \in Parts : PutPart(f, n)
    PROVE  LocalBytes(c)
<1>1. UploadMove(f)
    BY ConfirmMove, InitMove, PutMove, MultipartIdentityMove, MultipartInitMove, MultipartCompleteMove, PartMove
<1> QED
    BY <1>1, UploadBytes

LEMMA RetainBytes ==
    ASSUME Inv, RetainCaptureSpools, NEW c \in Captures
    PROVE  LocalBytes(c)
<1>1. PICK left \in SUBSET Completed :
         spool' = [d \in Captures |-> IF d \in Completed \ left THEN Receipt(d) ELSE spool[d]]
    BY DEF RetainCaptureSpools
<1>2. CASE c \in Completed /\ spool'[c] = Receipt(c)
  <2>1. spool'[c].bytes = Each(<<>>)
      BY <1>2, ReceiptType
  <2> QED
      BY <1>2, <2>1 DEF LocalBytes
<1>3. CASE spool'[c] = spool[c]
    BY <1>3 DEF LocalBytes
<1> QED
    BY <1>1, <1>2, <1>3

LEMMA CreateBytes ==
    ASSUME Inv, NEW d \in Captures, CreateSpool(d), NEW c \in Captures
    PROVE  LocalBytes(c)
<1>1. CASE spool' = spool
    BY <1>1 DEF LocalBytes
<1>2. CASE spool' # spool
  <2> DEFINE t == [NoSpool EXCEPT !.place = "incomplete", !.files = run.todo, !.prev = run.seen]
  <2>1. Journal(d, t) /\ spool[d].place = "none"
      BY <1>2 DEF CreateSpool
  <2>2. t.bytes = Each(<<>>)
      BY DEF NoSpool
  <2> HIDE DEF t
  <2>3. CASE c = d
    <3>1. spool'[c] = t
        BY <2>1, <2>3, Types DEF Inv, BaseInv, Journal
    <3> QED
        BY <2>1, <2>2, <2>3, <3>1 DEF LocalBytes
  <2>4. CASE c # d
      BY <2>1, <2>4, JournalBytes
  <2> QED
      BY <2>3, <2>4
<1> QED
    BY <1>1, <1>2

\* Only the place of the journal changes.
LEMMA PlaceBytes ==
    ASSUME Inv, PublishJournal \/ RegisterConflict \/ CompleteCapture, NEW c \in Captures
    PROVE  LocalBytes(c)
<1>1. run.cur \in Captures /\ Cur = spool[run.cur] /\ Cur \in Spool
  <2>1. run.pc \in {"copy", "upload", "heads"}
      BY DEF PublishJournal, RegisterConflict, CompleteCapture
  <2> QED
      BY <2>1, Types DEF Inv, BaseInv, RunOK, Cur
<1>2. CASE spool' = spool
    BY <1>2 DEF LocalBytes
<1>3. ASSUME NEW p \in {"pending", "conflicts", "completed"}, Journal(run.cur, [Cur EXCEPT !.place = p])
      PROVE  LocalBytes(c)
  <2> DEFINE t == [Cur EXCEPT !.place = p]
  <2>1. t.bytes = Cur.bytes
      BY <1>1 DEF Spool
  <2> HIDE DEF t
  <2> QED
      BY <1>1, <1>3, <2>1, JournalBytes DEF t
<1> QED
    BY <1>1, <1>2, <1>3 DEF PublishJournal, RegisterConflict, CompleteCapture

LEMMA RegisterBytes ==
    ASSUME Inv, RegisterCapture, NEW c \in Captures
    PROVE  LocalBytes(c)
<1> PICK d : d = run.cur
    OBVIOUS
<1> PICK t : t = spool'[d]
    OBVIOUS
<1>1. (\A e \in Captures : e # d => spool'[e] = spool[e]) /\ Copy(t) = Copy(spool[d])
    BY RegisteredJournal
<1> QED
    BY <1>1 DEF Copy, LocalBytes

LEMMA RetiredBytes ==
    ASSUME Inv, RegisterRetired, NEW c \in Captures
    PROVE  LocalBytes(c)
BY RegisterRetiredMove, UploadBytes

LEMMA BytesStay ==
    ASSUME Inv, [Next]_vars, ~CopySource, NEW c \in Captures
    PROVE  LocalBytes(c)
<1>1. CASE spool' = spool
    BY <1>1 DEF LocalBytes
<1>2. CASE DiscardIncompleteCaptures
  <2>1. spool'[c] = spool[c] \/ (spool[c].place = "incomplete" /\ spool'[c] = NoSpool)
      BY <1>2 DEF DiscardIncompleteCaptures, Incomplete
  <2> QED
      BY <2>1, NoSpoolType DEF LocalBytes
<1>3. CASE \E f \in Files : \/ ConfirmEarlier(f) \/ InitSourcePack(f) \/ PutSourcePack(f)
                            \/ CompleteSourcePack(f) \/ MultipartIdentity(f) \/ MultipartInit(f)
                            \/ MultipartComplete(f) \/ \E n \in Parts : PutPart(f, n)
    BY <1>3, RequestBytes
<1>4. CASE \E d \in Captures : CreateSpool(d)
    BY <1>4, CreateBytes
<1>5. CASE RetainCaptureSpools \/ RegisterCapture \/ RegisterRetired
    BY <1>5, RetainBytes, RegisterBytes, RetiredBytes
<1>6. CASE PublishJournal \/ RegisterConflict \/ CompleteCapture
    BY <1>6, PlaceBytes
<1>7. CASE UNCHANGED vars \/ Environment \/ \E force \in BOOLEAN : StartSync(force)
  <2>1. spool' = spool
      BY <1>7 DEF vars, Environment, Crash, AppendFile, ReplaceFile, RemoveFile, Edit, OtherCapture,
                  RetirePack, ExpireSession, StartSync
  <2> QED
      BY <1>1, <2>1
<1>8. CASE \/ Scan \/ OpenSource \/ TruncatedSource \/ SaveHead \/ Finish
           \/ \E d \in Captures : ResumePending(d)
  <2>1. spool' = spool
      BY <1>8 DEF Scan, OpenSource, TruncatedSource, SaveHead, Finish, ResumePending
  <2> QED
      BY <1>1, <2>1
<1> QED
    BY <1>2, <1>3, <1>4, <1>5, <1>6, <1>7, <1>8 DEF Next, Work

\* A copy goes into a spool that is not published.
LEMMA CopyPlace ==
    ASSUME Inv, CopySource
    PROVE  run.cur \in Captures /\ spool[run.cur].place = "incomplete"
BY DEF Inv, BaseInv, RunOK, CopySource, Cur

\* What a sync removes from the disk has a version, and a local head that records it.
LEMMA RemovedIsRegistered ==
    ASSUME Inv, RetainCaptureSpools, NEW c \in Completed, NEW f \in spool[c].packs
    PROVE  \E i \in DOMAIN ver : ver[i].capture = c /\ ver[i].file = f /\ lhead[f].seq >= i
<1>1. c \in Captures /\ spool[c].place = "completed"
    BY DEF Completed
<1>2. f \in spool[c].files
    BY <1>1, SpoolFacts DEF SpoolOK
<1>3. spool[c].accepted[f] # 0 /\ Of(spool[c].accepted[f], c, f)
    BY <1>1, <1>2, SpoolFacts
<1>4. lhead[f].seq >= spool[c].accepted[f]
    BY <1>2 DEF RetainCaptureSpools, HeadsDurable
<1> QED
    BY <1>3, <1>4 DEF Of

\* retainCaptureSpools removes the local bytes of a published capture only once it has
\* its version and a local head that records it; a conflict keeps its bytes.
THEOREM CapturedBytesStay == Spec => CapturedBytesSurvive
<1> DEFINE Survive == \A c \in Captures : \A f \in spool[c].packs :
         /\ spool[c].place # "incomplete" /\ spool[c].bytes[f] # <<>> /\ spool'[c].bytes[f] = <<>>
         => /\ spool[c].place # "conflicts"
            /\ \E i \in DOMAIN ver : ver[i].capture = c /\ ver[i].file = f /\ lhead[f].seq >= i
<1>1. ASSUME Inv, [Next]_vars PROVE Survive
  <2> SUFFICES ASSUME NEW c \in Captures, NEW f \in spool[c].packs, spool[c].place # "incomplete",
                      spool[c].bytes[f] # <<>>, spool'[c].bytes[f] = <<>>
               PROVE  /\ spool[c].place # "conflicts"
                      /\ \E i \in DOMAIN ver : ver[i].capture = c /\ ver[i].file = f /\ lhead[f].seq >= i
      OBVIOUS
  <2>1. SpoolOK(spool[c])
      BY <1>1, SpoolFacts
  <2>2. spool[c].place # "none"
      BY <2>1 DEF SpoolOK
  <2>3. ~CopySource
    <3> SUFFICES ASSUME CopySource PROVE FALSE
        OBVIOUS
    <3>1. run.cur # c
        BY <1>1, CopyPlace
    <3>2. spool' = spool \/ \E t : Journal(run.cur, t)
        BY DEF CopySource
    <3>3. spool'[c] = spool[c]
        BY <1>1, <3>1, <3>2, Types DEF Inv, BaseInv, Journal
    <3> QED
        BY <3>3
  <2>4. LocalBytes(c)
      BY <1>1, <2>3, BytesStay
  <2>5. RetainCaptureSpools /\ c \in Completed
      BY <2>2, <2>4 DEF LocalBytes
  <2> QED
      BY <1>1, <2>5, RemovedIsRegistered DEF Completed
<1>2. Inv /\ [Next]_vars => [Survive]_vars
    BY <1>1
<1> HIDE DEF Survive
<1>3. Spec => [][Survive]_vars
    BY <1>2, ClientInvariant, PTL DEF Spec
<1> QED
    BY <1>3 DEF CapturedBytesSurvive, Survive

\* The tokens on the local disk are finitely many, and within the limit.
Bounded == IsFiniteSet(PackTokens) /\ PackBytes <= SpoolLimit

LEMMA FewerTokens ==
    ASSUME Inv, Bounded, spool' \in [Captures -> Spool],
           \A c \in Captures, f \in Files : spool'[c].bytes[f] \in {spool[c].bytes[f], <<>>}
    PROVE  Bounded'
<1>1. ASSUME NEW c \in Captures, NEW f \in Files
      PROVE  {<<c, f>>} \X (1..Len(spool'[c].bytes[f])) \subseteq {<<c, f>>} \X (1..Len(spool[c].bytes[f]))
  <2>1. CASE spool'[c].bytes[f] = spool[c].bytes[f]
      BY <2>1
  <2>2. CASE spool'[c].bytes[f] = <<>>
    <3>1. 1..Len(spool'[c].bytes[f]) = {}
        BY <2>2
    <3> QED
        BY <3>1
  <2> QED
      BY <2>1, <2>2
<1>2. \A c \in Captures, f \in Files : Tokens(c, f)' \subseteq Tokens(c, f)
    BY <1>1 DEF Tokens
<1>3. PackTokens' \subseteq PackTokens
    BY <1>2 DEF PackTokens
<1>4. /\ IsFiniteSet(PackTokens') /\ Cardinality(PackTokens') <= Cardinality(PackTokens)
      /\ Cardinality(PackTokens) \in Nat /\ Cardinality(PackTokens') \in Nat
    BY <1>3, FS_Subset, FS_CardinalityType DEF Bounded
<1>5. Cardinality(PackTokens) <= SpoolLimit
    BY DEF Bounded, PackBytes
<1>6. Cardinality(PackTokens') <= SpoolLimit
    BY <1>4, <1>5, Sizes
<1> QED
    BY <1>4, <1>6 DEF Bounded, PackBytes

\* The tokens of one file are as many as its pack is long.
LEMMA BlockSize ==
    ASSUME NEW x, NEW n \in Nat
    PROVE  IsFiniteSet({x} \X (1..n)) /\ Cardinality({x} \X (1..n)) = n
<1>1. IsFiniteSet({x}) /\ Cardinality({x}) = 1
    BY FS_Singleton
<1>2. IsFiniteSet(1..n) /\ Cardinality(1..n) = n
    BY FS_Interval
<1> PICK S, T : S = {x} /\ T = 1..n
    OBVIOUS
<1>3. IsFiniteSet(S \X T) /\ Cardinality(S \X T) = Cardinality(S) * Cardinality(T)
    BY <1>1, <1>2, FS_Product
<1>4. Cardinality(S \X T) = n
    BY <1>1, <1>2, <1>3
<1> QED
    BY <1>3, <1>4

LEMMA UnionSize ==
    ASSUME NEW S, NEW T, IsFiniteSet(S), IsFiniteSet(T)
    PROVE  /\ IsFiniteSet(S \cup T) /\ Cardinality(S \cup T) <= Cardinality(S) + Cardinality(T)
           /\ Cardinality(S) \in Nat /\ Cardinality(S \cup T) \in Nat
<1>1. IsFiniteSet(S \cap T)
    BY FS_Intersection
<1>2. IsFiniteSet(S \cup T) /\ Cardinality(S \cup T) = Cardinality(S) + Cardinality(T) - Cardinality(S \cap T)
    BY FS_Union
<1>3. Cardinality(S) \in Nat /\ Cardinality(T) \in Nat /\ Cardinality(S \cap T) \in Nat /\ Cardinality(S \cup T) \in Nat
    BY <1>1, <1>2, FS_CardinalityType
<1> QED
    BY <1>2, <1>3

\* A copy that fits adds no more than was measured.
LEMMA CopiedTokens ==
    ASSUME Inv, Bounded, NEW c \in Captures, NEW f \in Files, NEW bytes \in Seq(Nat), Fits(bytes),
           spool'[c].bytes[f] = bytes,
           \A d \in Captures, g \in Files : d # c \/ g # f => spool'[d].bytes[g] = spool[d].bytes[g]
    PROVE  Bounded'
<1> PICK n : n = Len(bytes)
    OBVIOUS
<1> PICK new : new = {<<c, f>>} \X (1..n)
    OBVIOUS
<1>1. n \in Nat
    OBVIOUS
<1>2. IsFiniteSet(new) /\ Cardinality(new) = n
    BY <1>1, BlockSize
<1>3. ASSUME NEW d \in Captures, NEW g \in Files
      PROVE  {<<d, g>>} \X (1..Len(spool'[d].bytes[g])) \subseteq Tokens(d, g) \cup new
    BY DEF Tokens
<1>4. \A d \in Captures, g \in Files : Tokens(d, g)' \subseteq Tokens(d, g) \cup new
    BY <1>3 DEF Tokens
<1>5. PackTokens' \subseteq PackTokens \cup new
  <2> SUFFICES ASSUME NEW x \in PackTokens' PROVE x \in PackTokens \cup new
      OBVIOUS
  <2> PICK d \in Captures, g \in Files : x \in Tokens(d, g)'
      BY DEF PackTokens
  <2>1. x \in Tokens(d, g) \cup new
      BY <1>4
  <2> QED
      BY <2>1 DEF PackTokens
<1> PICK both : both = PackTokens \cup new
    OBVIOUS
<1>6. /\ IsFiniteSet(both) /\ Cardinality(both) <= Cardinality(PackTokens) + n
      /\ Cardinality(PackTokens) \in Nat /\ Cardinality(both) \in Nat
    BY <1>2, UnionSize DEF Bounded
<1>7. IsFiniteSet(PackTokens') /\ Cardinality(PackTokens') <= Cardinality(both) /\ Cardinality(PackTokens') \in Nat
    BY <1>5, <1>6, FS_Subset, FS_CardinalityType
<1>8. Cardinality(PackTokens) + n <= SpoolLimit
    BY DEF Fits, PackBytes
<1>9. Cardinality(PackTokens') <= SpoolLimit
    BY <1>1, <1>6, <1>7, <1>8, Sizes
<1> QED
    BY <1>7, <1>9 DEF Bounded, PackBytes

LEMMA CopyBounded ==
    ASSUME Inv, Inv', Bounded, CopySource
    PROVE  Bounded'
<1>1. spool \in [Captures -> Spool] /\ spool' \in [Captures -> Spool]
    BY Types DEF Inv, BaseInv, TypeOK
<1> PICK c : c = run.cur
    OBVIOUS
<1>2. c \in Captures /\ Cur = spool[c] /\ Cur \in Spool
    BY <1>1, CopyPlace DEF Cur
<1>3. PICK f \in Files :
         \/ run' = Off /\ spool' = spool
         \/ \E t : EndedBatch(f, t)
         \/ \E read \in ReadBytes(f) : \E bytes, t : Copied(f, read, bytes, t)
    BY CopyCases
<1>4. CASE spool' = spool
    BY <1>1, <1>4, FewerTokens
<1>5. ASSUME NEW t, EndedBatch(f, t) PROVE Bounded'
  <2>1. Journal(c, t) /\ t.bytes = spool[c].bytes
      BY <1>2, <1>5 DEF EndedBatch
  <2>2. \A d \in Captures : spool'[d].bytes = spool[d].bytes
      BY <1>1, <1>2, <2>1 DEF Journal
  <2> QED
      BY <1>1, <2>2, FewerTokens
<1>6. ASSUME NEW read, NEW bytes, NEW t, Copied(f, read, bytes, t) PROVE Bounded'
  <2>1. /\ Journal(c, t) /\ Fits(bytes) /\ t.bytes[f] = bytes /\ t \in Spool
        /\ \A g \in Files : g # f => t.bytes[g] = spool[c].bytes[g]
      BY <1>2, <1>6 DEF Copied
  <2>2. bytes \in Seq(Nat)
      BY <2>1, SpoolFields
  <2>3. spool'[c] = t /\ \A d \in Captures : d # c => spool'[d] = spool[d]
      BY <1>1, <1>2, <2>1 DEF Journal
  <2>4. \A d \in Captures, g \in Files : d # c \/ g # f => spool'[d].bytes[g] = spool[d].bytes[g]
      BY <2>1, <2>3
  <2> QED
      BY <1>2, <2>1, <2>2, <2>3, <2>4, CopiedTokens
<1> QED
    BY <1>3, <1>4, <1>5, <1>6

\* The copy of a source stops before the spool outgrows PUFFERFS_CAPTURE_SPOOL_BYTES,
\* with every pending, conflicted and completed pack counted.
THEOREM SpoolStaysBounded == Spec => []SpoolIsBounded
<1>1. Init => Bounded
  <2> SUFFICES ASSUME Init PROVE Bounded
      OBVIOUS
  <2>1. \A c \in Captures, f \in Files : spool[c].bytes[f] = <<>>
      BY NoSpoolType DEF Init, Each
  <2>2. \A c \in Captures, f \in Files : 1..Len(spool[c].bytes[f]) = {}
      BY <2>1
  <2>3. PackTokens = {}
      BY <2>2 DEF PackTokens, Tokens
  <2> QED
      BY <2>3, FS_EmptySet, Sizes DEF Bounded, PackBytes
<1>2. Inv /\ Inv' /\ Bounded /\ [Next]_vars => Bounded'
  <2> SUFFICES ASSUME Inv, Inv', Bounded, [Next]_vars PROVE Bounded'
      OBVIOUS
  <2>1. CASE CopySource
      BY <2>1, CopyBounded
  <2>2. CASE ~CopySource
    <3>1. spool' \in [Captures -> Spool]
        BY DEF Inv, BaseInv, TypeOK
    <3>2. \A c \in Captures : LocalBytes(c)
        BY <2>2, BytesStay
    <3>3. \A c \in Captures, f \in Files : spool'[c].bytes[f] \in {spool[c].bytes[f], <<>>}
        BY <3>2 DEF LocalBytes, Each
    <3> QED
        BY <3>1, <3>3, FewerTokens
  <2> QED
      BY <2>1, <2>2
<1>3. Bounded => SpoolIsBounded
    BY DEF Bounded, SpoolIsBounded
<1> QED
    BY <1>1, <1>2, <1>3, ClientInvariant, PTL DEF Spec

----------------------------------------------------------------------------
(* What a sync has planned, copied and submitted.                          *)

\* Without a plan there is nothing to say.
LEMMA NoPlan ==
    ASSUME ~Scanned'
    PROVE  SyncInv'
BY DEF SyncInv, PlanOK, CopyOK, UploadOK, Scanned

LEMMA NoPlanOff ==
    ASSUME run' = Off
    PROVE  SyncInv'
BY NoPlan DEF Scanned, Off

\* The files that stand still are where they were, and what is captured stays captured.
Undisturbed ==
    \A f \in run'.calm : /\ f \in run.calm /\ disk'[f] = disk[f]
                         /\ UpToDate(f) => Captured(f, head[f])' = disk[f]

LEMMA CalmStays ==
    ASSUME TypeOK, run'.calm \subseteq run.calm, \A f \in run'.calm : disk'[f] = disk[f] /\ head'[f] = head[f],
           \A i \in DOMAIN ver : ver'[i] = ver[i]
    PROVE  Undisturbed
<1> SUFFICES ASSUME NEW f \in run'.calm, UpToDate(f)
             PROVE  Captured(f, head[f])' = disk[f]
    BY DEF Undisturbed
<1>1. f \in Files /\ head[f] \in 0..Len(ver) /\ DOMAIN ver = 1..Len(ver) /\ Len(ver) \in Nat
    BY Types, RunFields
<1>2. head'[f] = head[f] /\ (head[f] # 0 => head[f] \in DOMAIN ver)
    BY <1>1
<1> QED
    BY <1>2 DEF UpToDate, Captured

LEMMA PlanStays ==
    ASSUME SyncInv, Undisturbed, Scanned' => Scanned, run'.gone = run.gone, run'.todo = run.todo,
           run.pc = "upload" => run'.pc = "upload" /\ Cur'.files = Cur.files
    PROVE  PlanOK'
<1> SUFFICES ASSUME Scanned'
             PROVE  /\ \A f \in run'.calm \ run'.todo :
                           UpToDate(f)' \/ (run'.pc = "upload" /\ f \in Cur'.files)
                    /\ \A f \in run'.calm \cap run'.gone : disk'[f] = <<>>
    BY DEF PlanOK
<1>1. PlanOK /\ Scanned
    BY DEF SyncInv
<1>2. ASSUME NEW f \in run'.calm \ run'.todo
      PROVE  UpToDate(f)' \/ (run'.pc = "upload" /\ f \in Cur'.files)
  <2>1. f \in run.calm \ run.todo /\ disk'[f] = disk[f]
      BY DEF Undisturbed
  <2>2. UpToDate(f) \/ (run.pc = "upload" /\ f \in Cur.files)
      BY <1>1, <2>1 DEF PlanOK
  <2>3. CASE UpToDate(f)
      BY <2>1, <2>3 DEF Undisturbed, UpToDate
  <2>4. CASE run.pc = "upload" /\ f \in Cur.files
      BY <2>4
  <2> QED
      BY <2>2, <2>3, <2>4
<1>3. ASSUME NEW f \in run'.calm \cap run'.gone PROVE disk'[f] = <<>>
    BY <1>1 DEF Undisturbed, PlanOK
<1> QED
    BY <1>2, <1>3

\* A step that leaves the sync where it is.
LEMMA TurnStays ==
    ASSUME Inv, SyncInv, Undisturbed, Turn(run') = Turn(run),
           run.cur \in Captures => Copy(spool'[run.cur]) = Copy(spool[run.cur]),
           run.pc = "upload" /\ ~Replayed(run.cur) => ~Replayed(run.cur)'
    PROVE  SyncInv'
<1>1. /\ run'.pc = run.pc /\ run'.cur = run.cur /\ run'.fresh = run.fresh /\ run'.todo = run.todo
      /\ run'.gone = run.gone /\ run'.copied = run.copied /\ run'.before = run.before
    BY DEF Turn
<1>2. ASSUME run.pc \in {"copy", "upload"}
      PROVE  /\ Cur'.files = Cur.files /\ Cur'.content = Cur.content
             /\ ToCopy' = ToCopy
  <2>1. run.cur \in Captures
      BY <1>2 DEF Inv, BaseInv, RunOK
  <2>2. Copy(spool'[run.cur]) = Copy(spool[run.cur])
      BY <2>1
  <2>3. spool'[run.cur].files = spool[run.cur].files /\ spool'[run.cur].content = spool[run.cur].content
      BY <2>2 DEF Copy
  <2> QED
      BY <1>1, <2>3 DEF Cur, ToCopy
<1>3. PlanOK'
  <2>1. Scanned' => Scanned
      BY <1>1 DEF Scanned
  <2> QED
      BY <1>1, <1>2, <2>1, PlanStays
<1>4. CopyOK'
  <2> SUFFICES ASSUME run'.pc = "copy" PROVE CopyOK'
      BY DEF CopyOK
  <2>1. /\ run.pc = "copy" /\ Cur'.files = Cur.files /\ Cur'.content = Cur.content /\ ToCopy' = ToCopy
        /\ CopyOK
      BY <1>1, <1>2 DEF SyncInv
  <2>2. \A f \in run'.calm : f \in run.calm /\ disk'[f] = disk[f]
      BY DEF Undisturbed
  <2>3. /\ Cur'.files \subseteq run'.todo
        /\ \A f \in Cur'.files : f \in run'.gone \/ f > run'.copied => Cur'.content[f] = <<>>
      BY <1>1, <2>1 DEF CopyOK
  <2>4. \A f \in (Cur'.files \cap run'.calm) \ ToCopy' : Cur'.content[f] = disk'[f]
      BY <1>1, <2>1, <2>2 DEF CopyOK
  <2>5. Min(ToCopy)' = Min(ToCopy)
      BY <2>1
  <2>6. run'.before # <<>> /\ ToCopy' # {} /\ Min(ToCopy)' \in run'.calm => run'.before = disk'[Min(ToCopy)']
      BY <1>1, <2>1, <2>2, <2>5 DEF CopyOK
  <2> QED
      BY <2>3, <2>4, <2>6 DEF CopyOK
<1>5. UploadOK'
  <2> SUFFICES ASSUME run'.pc = "upload", run'.fresh
               PROVE  /\ ~Replayed(run.cur)'
                      /\ \A f \in run'.calm \cap Cur'.files : Cur'.content[f] = disk'[f]
      BY <1>1 DEF UploadOK, Replayed
  <2>1. UploadOK /\ run.pc = "upload" /\ run.fresh /\ Cur'.files = Cur.files /\ Cur'.content = Cur.content
      BY <1>1, <1>2 DEF SyncInv
  <2> QED
      BY <2>1 DEF UploadOK, Undisturbed
<1> QED
    BY <1>1, <1>3, <1>4, <1>5 DEF SyncInv

\* A step that changes neither the files nor the catalog.
LEMMA StillUndisturbed ==
    ASSUME Inv, run'.calm = run.calm, UNCHANGED <<disk, head, ver>>
    PROVE  Undisturbed
BY CalmStays DEF Inv, BaseInv

LEMMA StillSync ==
    ASSUME Inv, SyncInv, UNCHANGED <<disk, head, ver, run>>,
           \A c \in Captures : Copy(spool'[c]) = Copy(spool[c])
    PROVE  SyncInv'
<1>1. Undisturbed
    BY StillUndisturbed
<1>2. ~Replayed(run.cur) => ~Replayed(run.cur)'
    BY DEF Replayed
<1> QED
    BY <1>1, <1>2, TurnStays

LEMMA EditSync ==
    ASSUME Inv, SyncInv, NEW f \in Files, NEW content, Edit(f, content)
    PROVE  SyncInv'
<1>1. /\ BaseInv /\ TypeOK /\ UNCHANGED <<ver, head, spool>>
      /\ disk' = [disk EXCEPT ![f] = content] /\ run' = [run EXCEPT !.calm = @ \ {f}]
    BY DEF Edit, server, Inv, BaseInv
<1>2. Turn(run') = Turn(run) /\ run'.calm = run.calm \ {f}
    BY <1>1, CalmKeepsRun
<1>3. \A g \in run'.calm : disk'[g] = disk[g]
    BY <1>1, <1>2, Types, RunFields
<1>4. Undisturbed
    BY <1>1, <1>2, <1>3, CalmStays
<1>5. ~Replayed(run.cur) => ~Replayed(run.cur)'
    BY <1>1, <1>2 DEF Replayed, Turn
<1> QED
    BY <1>1, <1>2, <1>4, <1>5, TurnStays

LEMMA OtherSync ==
    ASSUME Inv, SyncInv, NEW f \in Files, OtherCapture(f)
    PROVE  SyncInv'
<1>1. /\ BaseInv /\ TypeOK /\ UNCHANGED <<disk, spool>>
      /\ run' = [run EXCEPT !.calm = @ \ {f}] /\ head' = [head EXCEPT ![f] = Len(ver) + 1]
    BY DEF OtherCapture, Inv, BaseInv
<1>2. PICK v : ver' = Append(ver, v) /\ v.capture = 0
    BY DEF OtherCapture
<1>3. Turn(run') = Turn(run) /\ run'.calm = run.calm \ {f}
    BY <1>1, CalmKeepsRun
<1>4. ver \in Seq(Version) /\ Len(ver) \in Nat /\ DOMAIN ver = 1..Len(ver)
    BY <1>1, Types
<1>5. DOMAIN ver' = 1..(Len(ver) + 1) /\ (\A i \in DOMAIN ver : ver'[i] = ver[i]) /\ ver'[Len(ver) + 1] = v
    BY <1>2, <1>4
<1>6. Undisturbed
  <2>1. \A g \in run'.calm : head'[g] = head[g] /\ disk'[g] = disk[g]
      BY <1>1, <1>3, Types, RunFields
  <2> QED
      BY <1>1, <1>3, <1>5, <2>1, CalmStays
<1>7. run.pc = "upload" /\ ~Replayed(run.cur) => ~Replayed(run.cur)'
  <2> SUFFICES ASSUME run.pc = "upload", ~Replayed(run.cur), NEW i \in DOMAIN ver', ver'[i].capture = run.cur
               PROVE  FALSE
      BY <1>3 DEF Replayed, Turn
  <2>1. run.cur # 0
      BY <1>1, Zeros DEF BaseInv, RunOK
  <2>2. i \in DOMAIN ver \/ i = Len(ver) + 1
      BY <1>4, <1>5
  <2> QED
      BY <1>2, <1>5, <2>1, <2>2 DEF Replayed
<1> QED
    BY <1>1, <1>3, <1>6, <1>7, TurnStays

LEMMA UploadSync ==
    ASSUME Inv, SyncInv, NEW f \in Files, UploadMove(f)
    PROVE  SyncInv'
<1>1. CASE run' = Off
    BY <1>1, NoPlanOff
<1>2. CASE Turn(run') = Turn(run) /\ run'.calm = run.calm
  <2>1. UNCHANGED <<disk, head, ver>> /\ Copy(spool'[run.cur]) = Copy(Cur)
      BY DEF UploadMove, PackMove
  <2>2. Undisturbed
      BY <1>2, <2>1, StillUndisturbed
  <2>3. ~Replayed(run.cur) => ~Replayed(run.cur)'
      BY <1>2, <2>1 DEF Replayed, Turn
  <2>4. Copy(spool'[run.cur]) = Copy(spool[run.cur])
      BY <2>1 DEF Cur
  <2> QED
      BY <1>2, <2>2, <2>3, <2>4, TurnStays
<1> QED
    BY <1>1, <1>2 DEF UploadMove, RunMove

\* The plan: what is not in it is captured, and what is to become a tombstone is gone.
LEMMA ScanSync ==
    ASSUME Inv, Scan
    PROVE  SyncInv'
<1> DEFINE changed == {f \in Candidates : run.force \/ ~Verified(f)}
           removed == {f \in Files : disk[f] = <<>> /\ Captured(f, head[f]) # <<>>}
           plan == changed \cup removed
           pc == IF plan = {} THEN "done" ELSE "spool"
<1>1. /\ run' = [run EXCEPT !.pc = pc, !.todo = plan, !.gone = removed, !.seen = head, !.calm = Files]
      /\ UNCHANGED <<disk, ver, head>> /\ TypeOK /\ run \in Run
    BY DEF Scan, server, Inv, BaseInv, TypeOK
<1>2. \A f \in Files \ plan : UpToDate(f)
  <2> SUFFICES ASSUME NEW f \in Files, f \notin plan PROVE Captured(f, head[f]) = disk[f]
      BY DEF UpToDate
  <2>1. CASE disk[f] = <<>>
      BY <2>1
  <2>2. CASE disk[f] # <<>> /\ f \notin Candidates
      BY <2>2 DEF Candidates, Cached
  <2>3. CASE f \in Candidates
      BY <2>3 DEF Verified
  <2> QED
      BY <2>1, <2>2, <2>3
<1>3. \A f \in removed : disk[f] = <<>>
    OBVIOUS
<1> HIDE DEF plan, removed
<1>4. run'.pc = pc /\ run'.todo = plan /\ run'.gone = removed /\ run'.calm = Files
    BY <1>1 DEF Run
<1>5. \A f \in Files : UpToDate(f)' = UpToDate(f)
    BY <1>1 DEF UpToDate, Captured
<1>6. PlanOK'
    BY <1>1, <1>2, <1>3, <1>4, <1>5 DEF PlanOK
<1> QED
    BY <1>4, <1>6 DEF SyncInv, CopyOK, UploadOK

LEMMA CreateSync ==
    ASSUME Inv, SyncInv, NEW c \in Captures, CreateSpool(c)
    PROVE  SyncInv'
<1>1. CASE run' = Off
    BY <1>1, NoPlanOff
<1> DEFINE t == [NoSpool EXCEPT !.place = "incomplete", !.files = run.todo, !.prev = run.seen]
<1>2. CASE /\ Journal(c, t)
           /\ run' = [run EXCEPT !.pc = "copy", !.cur = c, !.copied = 0, !.before = <<>>]
  <2>1. /\ TypeOK /\ run \in Run /\ spool \in [Captures -> Spool] /\ run.pc = "spool"
        /\ UNCHANGED <<disk, ver, head>>
      BY DEF Inv, BaseInv, TypeOK, CreateSpool, server
  <2>2. /\ run'.pc = "copy" /\ run'.cur = c /\ run'.copied = 0 /\ run'.before = <<>>
        /\ run'.todo = run.todo /\ run'.gone = run.gone /\ run'.calm = run.calm
      BY <1>2, <2>1 DEF Run
  <2>3. t.files = run.todo /\ t.content = Each(<<>>)
      BY NoSpoolType DEF Spool
  <2> HIDE DEF t
  <2>4. spool'[c] = t
      BY <1>2, <2>1 DEF Journal
  <2>5. Cur' = t
      BY <2>2, <2>4 DEF Cur
  <2>6. run.todo \in SUBSET Files /\ \A f \in Files : Each(<<>>)[f] = <<>>
      BY <2>1, RunFields DEF Each
  <2>7. Undisturbed /\ PlanOK /\ Scanned
      BY <2>1, <2>2, StillUndisturbed DEF SyncInv, Scanned
  <2>8. PlanOK'
      BY <2>1, <2>2, <2>7, PlanStays
  <2>9. \A f \in run.todo \ ToCopy' : f \in run.gone
    <3>1. \A f \in run.todo : f > 0
        BY <2>6 DEF Files
    <3> QED
        BY <2>2, <2>3, <2>4, <3>1 DEF ToCopy
  <2>10. \A f \in run.calm \cap run.gone : disk'[f] = <<>>
      BY <2>7, <2>1 DEF PlanOK
  <2>11. CopyOK'
    <3>1. \A f \in (Cur'.files \cap run'.calm) \ ToCopy' : Cur'.content[f] = disk'[f]
        BY <2>2, <2>3, <2>5, <2>6, <2>9, <2>10
    <3> QED
        BY <2>2, <2>3, <2>5, <2>6, <3>1 DEF CopyOK
  <2> QED
      BY <2>2, <2>8, <2>11 DEF SyncInv, UploadOK
<1> QED
    BY <1>1, <1>2 DEF CreateSpool

LEMMA OpenSync ==
    ASSUME Inv, SyncInv, OpenSource
    PROVE  SyncInv'
<1>1. PICK f : f = Min(ToCopy)
    OBVIOUS
<1>2. CASE run' = Off
    BY <1>2, NoPlanOff
<1>3. CASE run' = [run EXCEPT !.before = disk[f]]
  <2>1. run \in Run /\ run.pc = "copy" /\ UNCHANGED <<disk, ver, head, spool>>
      BY DEF Inv, BaseInv, TypeOK, OpenSource, server
  <2>2. /\ run'.pc = run.pc /\ run'.cur = run.cur /\ run'.copied = run.copied /\ run'.before = disk[f]
        /\ run'.todo = run.todo /\ run'.gone = run.gone /\ run'.calm = run.calm /\ run'.fresh = run.fresh
      BY <1>3, <2>1 DEF Run
  <2>3. Cur' = Cur /\ ToCopy' = ToCopy
      BY <2>1, <2>2 DEF Cur, ToCopy
  <2>4. Undisturbed
      BY <2>1, <2>2, StillUndisturbed
  <2>5. PlanOK'
      BY <2>1, <2>2, <2>3, <2>4, PlanStays DEF Scanned
  <2>6. CopyOK'
    <3>1. CopyOK
        BY DEF SyncInv
    <3>2. run'.before = disk[Min(ToCopy)'] /\ Min(ToCopy)' = f
        BY <1>1, <2>2, <2>3
    <3> QED
        BY <2>1, <2>2, <2>3, <3>1, <3>2 DEF CopyOK
  <2> QED
      BY <2>1, <2>2, <2>5, <2>6 DEF SyncInv, UploadOK
<1> QED
    BY <1>1, <1>2, <1>3 DEF OpenSource

\* A file that stood still is read as it is.
LEMMA CalmRead ==
    ASSUME Inv, SyncInv, CopySource, NEW f, f = Min(ToCopy), f \in run.calm, NEW read \in ReadBytes(f)
    PROVE  read = disk[f]
<1>1. run.before = disk[f] /\ f \in Files
    BY NextSource DEF SyncInv, CopyOK, CopySource, Inv
<1>2. disk[f] \in Seq(Nat)
    BY <1>1, Types DEF Inv, BaseInv
<1>3. SubSeq(disk[f], 1, Len(disk[f])) = disk[f]
    BY <1>2
<1> QED
    BY <1>1, <1>3 DEF ReadBytes

\* The copy goes on to the next file of its batch.
LEMMA CopyOn ==
    ASSUME Inv, SyncInv, run.pc = "copy", run' \in Run, NEW f \in Files,
           run' = [run EXCEPT !.copied = f, !.before = <<>>], UNCHANGED <<disk, head, ver>>
    PROVE  /\ run'.pc = "copy" /\ run'.cur = run.cur /\ run'.copied = f /\ run'.before = <<>>
           /\ run'.todo = run.todo /\ run'.gone = run.gone /\ run'.calm = run.calm
           /\ PlanOK'
<1>1. /\ run'.pc = run.pc /\ run'.cur = run.cur /\ run'.copied = f /\ run'.before = <<>>
      /\ run'.todo = run.todo /\ run'.gone = run.gone /\ run'.calm = run.calm /\ run'.fresh = run.fresh
    BY CopiedRun DEF Inv, BaseInv, TypeOK
<1>2. Undisturbed
    BY <1>1, StillUndisturbed
<1>3. PlanOK'
    BY <1>1, <1>2, PlanStays DEF Scanned
<1> QED
    BY <1>1, <1>3

LEMMA CopySync ==
    ASSUME Inv, Inv', SyncInv, CopySource
    PROVE  SyncInv'
<1>1. /\ BaseInv /\ TypeOK /\ run.pc = "copy" /\ ToCopy # {} /\ UNCHANGED <<disk, head, ver>>
      /\ CopyOK /\ run \in Run /\ run' \in Run
    BY DEF Inv, BaseInv, TypeOK, CopySource, server, SyncInv
<1>2. PICK f \in Files :
           /\ f = Min(ToCopy)
           /\ \/ run' = Off /\ spool' = spool
              \/ \E t : EndedBatch(f, t)
              \/ \E read \in ReadBytes(f) : \E bytes, t : Copied(f, read, bytes, t)
    BY CopyCases
<1>3. /\ run.cur \in Captures /\ Cur = spool[run.cur] /\ ToCopy \subseteq Files
      /\ f \in ToCopy /\ \A g \in ToCopy : f <= g
    BY <1>1, <1>2, NextSource
<1>4. f \in Cur.files /\ f \notin run.gone /\ f > run.copied /\ Cur.files \subseteq Files
    BY <1>1, <1>3, Types, SpoolFields DEF ToCopy
<1>5. run.copied \in Nat /\ Files \subseteq Nat
    BY <1>1, Zeros, RunFields
<1>6. CASE run' = Off
    BY <1>6, NoPlanOff
<1>7. ASSUME NEW t, EndedBatch(f, t) PROVE SyncInv'
  <2>1. /\ run' = [run EXCEPT !.copied = f, !.before = <<>>] /\ Journal(run.cur, t)
        /\ t.files = {g \in Cur.files : g < f} /\ t.content = Cur.content /\ t \in Spool
      BY <1>7 DEF EndedBatch
  <2>2. /\ run'.pc = "copy" /\ run'.cur = run.cur /\ run'.copied = f /\ run'.before = <<>>
        /\ run'.todo = run.todo /\ run'.gone = run.gone /\ run'.calm = run.calm /\ PlanOK'
      BY <1>1, <2>1, CopyOn
  <2>3. Cur' = t
      BY <1>1, <1>3, <2>1, <2>2, Journalled DEF Cur
  <2>4. \A g \in t.files : g \notin ToCopy
      BY <1>3, <1>4, <1>5, <2>1
  <2>5. CopyOK'
    <3>1. Cur'.files \subseteq run'.todo
        BY <1>1, <2>1, <2>2, <2>3 DEF CopyOK
    <3>2. \A g \in Cur'.files : g \in run'.gone \/ g > run'.copied => Cur'.content[g] = <<>>
        BY <1>1, <1>4, <1>5, <2>1, <2>2, <2>3 DEF CopyOK
    <3>3. \A g \in Cur'.files \cap run'.calm : Cur'.content[g] = disk'[g]
        BY <1>1, <2>1, <2>2, <2>3, <2>4 DEF CopyOK
    <3> QED
        BY <2>2, <3>1, <3>2, <3>3 DEF CopyOK
  <2> QED
      BY <2>2, <2>5 DEF SyncInv, UploadOK
<1>8. ASSUME NEW read \in ReadBytes(f), NEW bytes, NEW t, Copied(f, read, bytes, t) PROVE SyncInv'
  <2>1. /\ run' = [run EXCEPT !.copied = f, !.before = <<>>] /\ Journal(run.cur, t)
        /\ t.files = Cur.files /\ t.content[f] = read /\ t \in Spool
        /\ \A g \in Files : g # f => t.content[g] = Cur.content[g]
      BY <1>8 DEF Copied
  <2>2. /\ run'.pc = "copy" /\ run'.cur = run.cur /\ run'.copied = f /\ run'.before = <<>>
        /\ run'.todo = run.todo /\ run'.gone = run.gone /\ run'.calm = run.calm /\ PlanOK'
      BY <1>1, <2>1, CopyOn
  <2>3. Cur' = t
      BY <1>1, <1>3, <2>1, <2>2, Journalled DEF Cur
  <2>4. f \in run.calm => read = disk[f]
      BY <1>2, <1>8, CalmRead
  <2>5. \A g \in t.files \ ToCopy' : g = f \/ g \notin ToCopy
    <3>1. \A g \in ToCopy : g = f \/ g > f
        BY <1>3, <1>5
    <3>2. ToCopy' = {g \in t.files \ run.gone : g > f}
        BY <2>2, <2>3 DEF Cur, ToCopy
    <3> QED
        BY <1>3, <2>1, <3>1, <3>2 DEF ToCopy
  <2>6. CopyOK'
    <3>1. Cur'.files \subseteq run'.todo
        BY <1>1, <2>1, <2>2, <2>3 DEF CopyOK
    <3>2. \A g \in Cur'.files : g \in run'.gone \/ g > run'.copied => Cur'.content[g] = <<>>
      <4> SUFFICES ASSUME NEW g \in Cur.files, g \in run.gone \/ g > f PROVE t.content[g] = <<>>
          BY <2>1, <2>2, <2>3
      <4>1. g \in Files /\ g \in Nat /\ f \in Nat
          BY <1>4, <1>5
      <4>2. g # f
          BY <1>4, <4>1
      <4>3. g > f => g > run.copied
          BY <1>4, <1>5, <4>1
      <4> QED
          BY <1>1, <2>1, <4>1, <4>2, <4>3 DEF CopyOK
    <3>3. \A g \in (Cur'.files \cap run'.calm) \ ToCopy' : Cur'.content[g] = disk'[g]
      <4> SUFFICES ASSUME NEW g \in (Cur.files \cap run.calm) \ ToCopy' PROVE t.content[g] = disk[g]
          BY <1>1, <2>1, <2>2, <2>3
      <4>1. CASE g = f
          BY <2>1, <2>4, <4>1
      <4>2. CASE g # f
        <5>1. g \in Files /\ g \notin ToCopy
            BY <1>4, <2>1, <2>5, <4>2
        <5> QED
            BY <1>1, <2>1, <4>2, <5>1 DEF CopyOK
      <4> QED
          BY <4>1, <4>2
    <3> QED
        BY <2>2, <3>1, <3>2, <3>3 DEF CopyOK
  <2> QED
      BY <2>2, <2>6 DEF SyncInv, UploadOK
<1> QED
    BY <1>2, <1>6, <1>7, <1>8

\* The journal holds the batch, and the rest of the plan is left for the next one.
LEMMA PublishSync ==
    ASSUME Inv, SyncInv, PublishJournal
    PROVE  SyncInv'
<1>1. /\ BaseInv /\ TypeOK /\ run \in Run /\ run.pc = "copy" /\ ToCopy = {}
      /\ UNCHANGED <<disk, ver, head>> /\ PlanOK /\ CopyOK
    BY DEF Inv, BaseInv, TypeOK, PublishJournal, server, SyncInv
<1>2. PICK c : c = run.cur
    OBVIOUS
<1>3. c \in Captures /\ Cur = spool[c] /\ spool[c].place = "incomplete" /\ spool[c] \in Spool
    BY <1>1, <1>2, Types DEF BaseInv, RunOK, Cur
<1>4. PICK q : q = Submit(c, TRUE)
    OBVIOUS
<1>5. q \in Run /\ q.cur = c /\ q.fresh = TRUE /\ q.calm = run.calm /\ q.gone = run.gone
    BY <1>1, <1>3, <1>4, SubmitRun
<1>6. run' = [q EXCEPT !.pc = "upload", !.todo = run.todo \ Cur.files]
    BY <1>2, <1>4 DEF PublishJournal, Uncaptured, Cur
<1>7. /\ run'.pc = "upload" /\ run'.cur = c /\ run'.fresh /\ run'.calm = run.calm
      /\ run'.gone = run.gone /\ run'.todo = run.todo \ Cur.files
    BY <1>5, <1>6 DEF Run
<1>8. spool'[c].files = Cur.files /\ spool'[c].content = Cur.content
  <2>1. spool' = [spool EXCEPT ![c] = [Cur EXCEPT !.place = "pending"]]
      BY <1>2, <1>3 DEF PublishJournal, Journal
  <2>2. spool \in [Captures -> Spool]
      BY <1>1, Types
  <2>3. spool'[c] = [Cur EXCEPT !.place = "pending"]
      BY <1>3, <2>1, <2>2
  <2> QED
      BY <1>3, <2>3 DEF Spool
<1>9. Cur'.files = Cur.files /\ Cur'.content = Cur.content
    BY <1>7, <1>8 DEF Cur
<1>10. \A f \in Files : UpToDate(f)' = UpToDate(f)
    BY <1>1 DEF UpToDate, Captured
<1>11. run.calm \subseteq Files /\ Scanned
    BY <1>1, RunFields DEF Scanned
<1>12. PlanOK'
  <2>1. \A f \in run'.calm \ run'.todo : UpToDate(f)' \/ f \in Cur'.files
      BY <1>1, <1>7, <1>9, <1>10, <1>11 DEF PlanOK
  <2>2. \A f \in run'.calm \cap run'.gone : disk'[f] = <<>>
      BY <1>1, <1>7, <1>11 DEF PlanOK
  <2> QED
      BY <1>7, <2>1, <2>2 DEF PlanOK
<1>13. UploadOK'
  <2>1. ~Replayed(run.cur)'
      BY <1>1, <1>2, <1>3, <1>7, Unregistered DEF Replayed
  <2>2. \A f \in run'.calm \cap Cur'.files : Cur'.content[f] = disk'[f]
      BY <1>1, <1>7, <1>9 DEF CopyOK
  <2> QED
      BY <2>1, <2>2 DEF UploadOK, Replayed
<1> QED
    BY <1>7, <1>12, <1>13 DEF SyncInv, CopyOK

\* The head of a registered file is the content of its copy.
LEMMA RegisteredHead ==
    ASSUME Inv, RegisterCapture, ~Replayed(run.cur), NEW f \in Cur.files
    PROVE  Captured(f, head[f])' = Cur.content[f]
<1>1. PICK c : c = run.cur
    OBVIOUS
<1>2. c \in Captures /\ Cur = spool[c] /\ spool[c].files \subseteq Files /\ f \in Files
    BY <1>1, RegisteringFacts
<1>3. PICK i : i = Receipts(c, ver')[f]
    OBVIOUS
<1>4. i # 0 /\ i \in DOMAIN ver' /\ ver'[i].capture = c /\ ver'[i].file = f /\ Grown(c)
    BY <1>1, <1>2, <1>3, RegisteredTables
<1>5. i \notin DOMAIN ver
    BY <1>1, <1>4 DEF Replayed, Grown
<1>6. FromSpool(c, ver'[i])
    BY <1>4, <1>5 DEF Grown
<1>7. head'[f] = i
    BY <1>1, <1>2, <1>3 DEF RegisterCapture
<1> QED
    BY <1>2, <1>4, <1>6, <1>7 DEF FromSpool, Captured

LEMMA RegisterSync ==
    ASSUME Inv, SyncInv, RegisterCapture
    PROVE  SyncInv'
<1>1. PICK c : c = run.cur
    OBVIOUS
<1>2. /\ BaseInv /\ TypeOK /\ run \in Run /\ run.pc = "upload" /\ disk' = disk /\ PlanOK /\ UploadOK
    BY DEF Inv, BaseInv, TypeOK, RegisterCapture, SyncInv
<1>3. CASE run' = Off
    BY <1>3, NoPlanOff
<1>4. CASE run' = [run EXCEPT !.pc = "heads"]
  <2>1. /\ run'.pc = "heads" /\ run'.todo = run.todo /\ run'.gone = run.gone /\ run'.calm = run.calm
        /\ run'.fresh = run.fresh
      BY <1>2, <1>4 DEF Run
  <2>2. CASE ~run.fresh
      BY <2>1, <2>2, NoPlan DEF Scanned
  <2>3. CASE run.fresh
    <3>1. ~Replayed(run.cur) /\ \A f \in run.calm \cap Cur.files : Cur.content[f] = disk[f]
        BY <1>2, <2>3 DEF UploadOK
    <3>2. ASSUME NEW f \in run.calm \ run.todo PROVE UpToDate(f)'
      <4>1. CASE f \in Cur.files
          BY <1>2, <3>1, <4>1, RegisteredHead DEF UpToDate
      <4>2. CASE f \notin Cur.files
        <5>1. f \in Files /\ head[f] \in 0..Len(ver) /\ DOMAIN ver = 1..Len(ver) /\ Len(ver) \in Nat
            BY <1>2, Types, RunFields
        <5>2. head'[f] = head[f]
            BY <4>2, <5>1 DEF RegisterCapture
        <5>3. \A i \in DOMAIN ver : ver'[i] = ver[i]
            BY <1>1, RegisteredTables DEF Grown
        <5>4. head[f] # 0 => ver'[head[f]] = ver[head[f]]
            BY <5>1, <5>3
        <5>5. UpToDate(f)
            BY <1>2, <2>3, <4>2 DEF PlanOK, Scanned
        <5> QED
            BY <1>2, <5>2, <5>4, <5>5 DEF UpToDate, Captured
      <4> QED
          BY <4>1, <4>2
    <3>3. PlanOK'
        BY <1>2, <2>1, <2>3, <3>2 DEF PlanOK, Scanned
    <3> QED
        BY <2>1, <3>3 DEF SyncInv, CopyOK, UploadOK
  <2> QED
      BY <2>2, <2>3
<1> QED
    BY <1>1, <1>3, <1>4, RegisteredJournal

\* The next batch, or the end.
LEMMA PlanGoesOn ==
    ASSUME Inv, SyncInv, UNCHANGED <<disk, ver, head>>, Scanned' => Scanned, run.pc # "upload",
           run'.pc \notin {"copy", "upload"}, run'.pc = "done" => run.todo = {},
           run'.calm = run.calm, run'.gone = run.gone, run'.todo = run.todo
    PROVE  SyncInv'
<1>1. Undisturbed
    BY StillUndisturbed
<1>2. PlanOK'
    BY <1>1, PlanStays
<1> QED
    BY <1>2 DEF SyncInv, CopyOK, UploadOK

LEMMA CompleteSync ==
    ASSUME Inv, SyncInv, CompleteCapture
    PROVE  SyncInv'
<1>1. /\ run \in Run /\ run.pc = "heads" /\ run' = [run EXCEPT !.pc = "clean"]
      /\ UNCHANGED <<disk, ver, head>>
    BY DEF Inv, BaseInv, TypeOK, CompleteCapture, server
<1>2. /\ run'.pc = "clean" /\ run'.calm = run.calm /\ run'.gone = run.gone /\ run'.todo = run.todo
      /\ run'.fresh = run.fresh
    BY <1>1 DEF Run
<1> QED
    BY <1>1, <1>2, PlanGoesOn DEF Scanned

LEMMA RetainSync ==
    ASSUME Inv, SyncInv, RetainCaptureSpools
    PROVE  SyncInv'
<1>1. CASE run' = Off
    BY <1>1, NoPlanOff
<1>2. CASE run' = [run EXCEPT !.pc = AfterClean, !.cur = 0]
  <2>1. run \in Run /\ run.pc = "clean" /\ UNCHANGED <<disk, ver, head>>
      BY DEF Inv, BaseInv, TypeOK, RetainCaptureSpools, server
  <2>2. /\ run'.pc = AfterClean /\ run'.calm = run.calm /\ run'.gone = run.gone /\ run'.todo = run.todo
        /\ run'.fresh = run.fresh /\ run'.cur = 0
      BY <1>2, <2>1 DEF Run
  <2>3. /\ AfterClean \in {"discard", "resume", "spool", "done"}
        /\ AfterClean \in {"spool", "done"} => run.cur # 0 /\ run.fresh
        /\ AfterClean = "done" => run.todo = {}
      BY DEF AfterClean
  <2>4. Scanned' => Scanned
      BY <2>1, <2>2, <2>3 DEF Scanned
  <2> QED
      BY <2>1, <2>2, <2>3, <2>4, PlanGoesOn
<1> QED
    BY <1>1, <1>2 DEF RetainCaptureSpools, Stop

\* Steps that end a sync, or come before its plan.
LEMMA UnplannedSync ==
    ASSUME Inv, \/ Crash \/ DiscardIncompleteCaptures \/ TruncatedSource \/ Finish
                \/ RegisterConflict
                \/ \E force \in BOOLEAN : StartSync(force)
                \/ \E c \in Captures : ResumePending(c)
    PROVE  SyncInv'
<1>1. run \in Run
    BY DEF Inv, BaseInv, TypeOK
<1>2. CASE run' = Off
    BY <1>2, NoPlanOff
<1>3. CASE DiscardIncompleteCaptures
  <2>1. run'.pc = "resume"
      BY <1>1, <1>3 DEF DiscardIncompleteCaptures, Run
  <2> QED
      BY <2>1, NoPlan DEF Scanned
<1>4. CASE RegisterConflict /\ run' # Off
  <2>1. run'.pc = "resume"
      BY <1>1, <1>4 DEF RegisterConflict, Run
  <2> QED
      BY <2>1, NoPlan DEF Scanned
<1>5. CASE \E force \in BOOLEAN : StartSync(force)
  <2>1. run'.pc = "clean" /\ run'.cur = 0
      BY <1>5, OffType DEF StartSync, Off
  <2> QED
      BY <2>1, NoPlan DEF Scanned
<1>6. ASSUME NEW c \in Captures, ResumePending(c) PROVE SyncInv'
  <2>1. run'.pc \in {"heads", "upload"} /\ ~run'.fresh
      BY <1>1, <1>6, SubmitRun DEF ResumePending
  <2> QED
      BY <2>1, NoPlan DEF Scanned
<1> QED
    BY <1>2, <1>3, <1>4, <1>5, <1>6 DEF Crash, Stop, TruncatedSource, Finish

\* Steps that the sync does not notice.
LEMMA UnnoticedSync ==
    ASSUME Inv, SyncInv, SaveHead \/ (\E k \in Keys : RetirePack(k) \/ ExpireSession(k)) \/ UNCHANGED vars
    PROVE  SyncInv'
<1>1. UNCHANGED <<disk, head, ver, run, spool>>
    BY DEF SaveHead, RetirePack, ExpireSession, server, vars
<1> QED
    BY <1>1, StillSync

LEMMA SyncKeeps ==
    ASSUME Inv, Inv', SyncInv, [Next]_vars
    PROVE  SyncInv'
<1>1. CASE \/ Crash \/ DiscardIncompleteCaptures \/ TruncatedSource \/ Finish \/ RegisterConflict
           \/ \E force \in BOOLEAN : StartSync(force)
           \/ \E c \in Captures : ResumePending(c)
    BY <1>1, UnplannedSync
<1>2. CASE SaveHead \/ (\E k \in Keys : RetirePack(k) \/ ExpireSession(k)) \/ UNCHANGED vars
    BY <1>2, UnnoticedSync
<1>3. CASE \E f \in Files : AppendFile(f) \/ ReplaceFile(f) \/ RemoveFile(f)
    BY <1>3, EditSync DEF AppendFile, ReplaceFile, RemoveFile
<1>4. CASE \E f \in Files : OtherCapture(f)
    BY <1>4, OtherSync
<1>5. CASE \E f \in Files : \/ ConfirmEarlier(f) \/ InitSourcePack(f) \/ PutSourcePack(f)
                            \/ CompleteSourcePack(f) \/ MultipartIdentity(f) \/ MultipartInit(f)
                            \/ MultipartComplete(f) \/ \E n \in Parts : PutPart(f, n)
  <2>1. \E f \in Files : UploadMove(f)
      BY <1>5, ConfirmMove, InitMove, PutMove, MultipartIdentityMove, MultipartInitMove,
         MultipartCompleteMove, PartMove
  <2> QED
      BY <2>1, UploadSync
<1>6. CASE RegisterRetired
    BY <1>6, RegisterRetiredMove, UploadSync
<1>7. CASE Scan \/ OpenSource \/ CopySource \/ PublishJournal \/ \E c \in Captures : CreateSpool(c)
    BY <1>7, ScanSync, OpenSync, CopySync, PublishSync, CreateSync
<1>8. CASE RegisterCapture \/ CompleteCapture \/ RetainCaptureSpools
    BY <1>8, RegisterSync, CompleteSync, RetainSync
<1>9. CASE Work
    BY <1>1, <1>2, <1>5, <1>6, <1>7, <1>8, <1>9 DEF Work
<1>10. CASE Environment
    BY <1>1, <1>2, <1>3, <1>4, <1>10 DEF Environment
<1> QED
    BY <1>1, <1>2, <1>9, <1>10 DEF Next

\* A sync that reports success has captured every file that neither the user nor another
\* client changed since the scan, whatever batches, replays and resumptions it took.
THEOREM SyncsCapture == Spec => []SyncedIsCaptured
<1>1. Init => SyncInv
    BY OffType DEF Init, SyncInv, PlanOK, CopyOK, UploadOK, Scanned, Off
<1>2. Inv /\ Inv' /\ SyncInv /\ [Next]_vars => SyncInv'
    BY SyncKeeps
<1>3. Inv /\ SyncInv => SyncedIsCaptured
  <2> SUFFICES ASSUME Inv, SyncInv, run.pc = "done", NEW f \in run.calm
               PROVE  Captured(f, head[f]) = disk[f]
      BY DEF SyncedIsCaptured
  <2>1. run.todo = {} /\ Scanned /\ PlanOK
      BY DEF SyncInv, Scanned
  <2> QED
      BY <2>1 DEF PlanOK, UpToDate
<1> QED
    BY <1>1, <1>2, <1>3, ClientInvariant, PTL DEF Spec

=============================================================================

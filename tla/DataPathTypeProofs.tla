------------------------- MODULE DataPathTypeProofs ------------------------
(***************************************************************************)
(* Every variable of DataPath keeps its type, for every set of payloads,   *)
(* segment capacity, sync interval and number of writes and crashes; and   *)
(* the lemmas about the operators DataPath is built from.                  *)
(***************************************************************************)
EXTENDS DataPath, FiniteSetTheorems, WellFoundedInduction, TLAPS

-----------------------------------------------------------------------------
(* High and Low.                                                           *)

Bounded(S) == \E n \in Nat : \A x \in S : x <= n

\* A nonempty set of naturals has a least element.
LEMMA LowProps ==
  ASSUME NEW S, S \subseteq Nat, S # {}
  PROVE  Low(S) \in S /\ \A x \in S : Low(S) <= x
<1> DEFINE R == OpToRel(<, Nat)
<1>a. IsWellFoundedOn(R, Nat)
  BY Zenon, NatLessThanWellFounded
<1>b. \E m \in S : \A y \in S : ~ (<<y, m>> \in R)
  <2> HIDE DEF R
  <2> QED
    BY Zenon, <1>a, WFMin
<1>1. PICK m \in S : \A y \in S : ~ (<<y, m>> \in R)
  BY Zenon, <1>b
<1>c. \A x, y \in Nat : x < y => <<x, y>> \in R
  BY DEF OpToRel
<1>2. \A x \in S : m <= x
  <2> HIDE DEF R
  <2> SUFFICES ASSUME NEW x \in S, ~(m <= x) PROVE FALSE
    OBVIOUS
  <2>1. x \in Nat /\ m \in Nat
    OBVIOUS
  <2>2. x < m
    BY <2>1
  <2>3. <<x, m>> \in R
    BY <2>1, <2>2, <1>c
  <2> QED
    BY <2>3, <1>1
<1>3. \E m1 \in S : \A x \in S : m1 <= x
  BY <1>2
<1> QED
  BY Zenon, <1>3 DEF Low

\* High returns the largest element of a bounded set of naturals, else 0.
LEMMA HighProps ==
  ASSUME NEW S, S \subseteq Nat, Bounded(S)
  PROVE  /\ High(S) \in Nat
         /\ \A x \in S : x <= High(S)
         /\ S # {} => High(S) \in S
<1>1. CASE S = {}
  BY <1>1 DEF High
<1>2. CASE S # {}
  <2>1. PICK n \in Nat : \A x \in S : x <= n
    BY DEF Bounded
  <2> DEFINE D == {n - x : x \in S}
  <2>a. \A x \in S : n - x \in Nat
    BY <2>1
  <2>2. D \subseteq Nat /\ D # {}
    BY Zenon, <1>2, <2>a
  <2>3. Low(D) \in D /\ \A d \in D : Low(D) <= d
    BY Zenon, <2>2, LowProps
  <2>4. PICK m \in S : Low(D) = n - m
    BY <2>3
  <2>5. \A x \in S : x <= m
    <3> SUFFICES ASSUME NEW x \in S PROVE x <= m
      OBVIOUS
    <3>1. n - x \in D
      OBVIOUS
    <3>2. n - m <= n - x
      BY Zenon, <2>3, <2>4, <3>1
    <3> QED
      BY <3>2, <2>1
  <2>6. \E m1 \in S : \A x \in S : x <= m1
    BY <2>5
  <2> QED
    BY Zenon, <1>2, <2>6 DEF High
<1> QED
  BY <1>1, <1>2

\* Boundedness of the sets the operations build.
LEMMA BoundedUnion ==
  ASSUME NEW S, NEW T, S \subseteq Nat, T \subseteq Nat, Bounded(S), Bounded(T)
  PROVE  Bounded(S \cup T)
<1>1. PICK m \in Nat : \A x \in S : x <= m
  BY DEF Bounded
<1>2. PICK n \in Nat : \A x \in T : x <= n
  BY Zenon DEF Bounded
<1>3. \A x \in S \cup T : x <= m + n
  BY <1>1, <1>2
<1>4. m + n \in Nat
  OBVIOUS
<1> QED
  BY <1>3, <1>4 DEF Bounded

\* Adding one number, such as the next segment, keeps a set bounded.
LEMMA BoundedAdd ==
  ASSUME NEW S, NEW e \in Nat, S \subseteq Nat, Bounded(S)
  PROVE  Bounded(S \cup {e})
<1>1. Bounded({e})
  BY DEF Bounded
<1> QED
  BY Zenon, <1>1, BoundedUnion

\* The segments of a layout without files are bounded.
LEMMA BoundedEmpty == Bounded({})
BY DEF Bounded

\* Removing segments or blobs keeps a set bounded.
LEMMA BoundedSubset ==
  ASSUME NEW S, NEW T, S \subseteq T, Bounded(T)
  PROVE  Bounded(S)
BY DEF Bounded

\* The values of a function on a bounded set of naturals are bounded: by the
\* least argument up to which they would not be.
LEMMA ImageBounded ==
  ASSUME NEW f, DOMAIN f \subseteq Nat, Bounded(DOMAIN f),
         \A s \in DOMAIN f : f[s] \in Nat
  PROVE  Bounded({f[s] : s \in DOMAIN f})
<1> DEFINE Img(n) == {f[s] : s \in {t \in DOMAIN f : t <= n}}
           Bad    == {n \in Nat : ~Bounded(Img(n))}
<1>1. \A n \in Nat : Img(n) \subseteq Nat
  OBVIOUS
<1>2. CASE Bad # {}
  <2> DEFINE m == Low(Bad)
  <2>1. m \in Bad /\ \A x \in Bad : m <= x
    <3> HIDE DEF Bad
    <3>1. Bad \subseteq Nat
      BY DEF Bad
    <3> QED
      BY Zenon, <3>1, <1>2, LowProps
  <2> HIDE DEF m
  <2>2. m \in Nat /\ ~Bounded(Img(m))
    BY <2>1
  <2>3. CASE m = 0
    <3>1. Img(m) \subseteq (IF 0 \in DOMAIN f THEN {f[0]} ELSE {})
      BY <2>3
    <3>2. Bounded(IF 0 \in DOMAIN f THEN {f[0]} ELSE {})
      BY DEF Bounded
    <3> HIDE DEF Img
    <3> QED
      BY <3>1, <3>2, <2>2, BoundedSubset
  <2>4. CASE m # 0
    <3>1. m - 1 \in Nat /\ ~(m <= m - 1)
      BY <2>2, <2>4
    <3>2. Bounded(Img(m - 1))
      BY <3>1, <2>1
    <3>3. CASE m \in DOMAIN f
      <4>1. Img(m) \subseteq Img(m - 1) \cup {f[m]}
        <5> SUFFICES ASSUME NEW s \in DOMAIN f, s <= m, s # m PROVE s <= m - 1
          OBVIOUS
        <5> QED
          BY <2>2
      <4>2. Img(m - 1) \subseteq Nat /\ f[m] \in Nat
        BY <1>1, <3>1, <3>3
      <4> HIDE DEF Img
      <4>3. Bounded(Img(m - 1) \cup {f[m]})
        BY <3>2, <4>2, BoundedAdd
      <4> QED
        BY <4>1, <4>3, <2>2, BoundedSubset
    <3>4. CASE m \notin DOMAIN f
      <4>1. Img(m) \subseteq Img(m - 1)
        <5> SUFFICES ASSUME NEW s \in DOMAIN f, s <= m PROVE s <= m - 1
          OBVIOUS
        <5> QED
          BY <2>2, <3>4
      <4> HIDE DEF Img
      <4> QED
        BY <4>1, <3>2, <2>2, BoundedSubset
    <3> QED
      BY <3>3, <3>4
  <2> QED
    BY <2>3, <2>4
<1>3. CASE Bad = {}
  <2>1. PICK n \in Nat : \A x \in DOMAIN f : x <= n
    BY DEF Bounded
  <2>2. Bounded(Img(n))
    BY Zenon, <1>3
  <2>3. Img(n) = {f[s] : s \in DOMAIN f}
    BY <2>1
  <2> HIDE DEF Img
  <2> QED
    BY <2>2, <2>3
<1> QED
  BY <1>2, <1>3

-----------------------------------------------------------------------------
(* Types, one predicate per kind of value.                                 *)

GoodBlobs(v) == IsBlobs(v) /\ Bounded(DOMAIN v)

GoodSegment(f) == IsFile(f) /\ GoodBlobs(f.val) /\ \A v \in f.old : GoodBlobs(v)

GoodSegs(x) ==
  /\ DOMAIN x \subseteq Nat /\ Bounded(DOMAIN x)
  /\ \A s \in DOMAIN x : GoodSegment(x[s])

GoodIndex(ix) == IsIndex(ix) /\ Bounded({ix.desc[s].last : s \in DOMAIN ix.desc})

GoodMap(m) ==
  /\ m \in Seq(Record)
  /\ \E n \in Nat : \A i \in DOMAIN m : m[i].block <= n /\ m[i].blob <= n

GoodMapFile(f) == IsFile(f) /\ GoodMap(f.val) /\ \A m \in f.old : GoodMap(m)

GoodLookupFile(f) == IsFile(f) /\ IsLookup(f.val) /\ \A v \in f.old : IsLookup(v)

GoodDedupFile(f) == IsFile(f) /\ f.val \in Seq(Entry) /\ \A v \in f.old : v \in Seq(Entry)

GoodReclaim(x) == DOMAIN x \subseteq Nat /\ x \in [DOMAIN x -> BOOLEAN]

Op == [block : Nat, payload : Payload \cup {NoPayload}, dedup : BOOLEAN,
       seg : Nat, blob : Nat, entry : Nat, tail : SUBSET Nat]

Steps == {"down", "refused", "idle", "failed", "w_sync", "w_index", "w_logs", "w_clean"}
           \cup RecoverySteps \cup CommandSteps

\* The type invariant, made inductive: sets of numbers are bounded so that
\* their largest element exists, and a rebuild finds the segments it scans.
TInv ==
  /\ ckpt \in {"clean", "dirty"}
  /\ GoodSegs(segs)
  /\ GoodIndex(index) /\ GoodIndex(icache)
  /\ GoodMapFile(blkMap) /\ GoodLookupFile(lookup) /\ GoodDedupFile(dedup)
  /\ GoodReclaim(reclaim)
  /\ pending \in Nat /\ eod \in Nat
  /\ pc \in Steps
  /\ op \in Op /\ IsFiniteSet(op.tail)
  /\ pc \in CommandSteps => op.payload \in Payload
  /\ writes \in Nat /\ kills \in Nat /\ powerLosses \in Nat /\ rewinds \in Nat
  /\ pc = "r_index" => ReferencedSegments \subseteq DOMAIN segs
  /\ pc = "r_index0" => ReferencedSegments = {} /\ 0 \in DOMAIN segs

\* The inductive form implies the type invariant that TLC checks.
LEMMA TInvTypeOK == TInv => TypeOK
<1> SUFFICES ASSUME TInv PROVE TypeOK
  OBVIOUS
<1>1. blkMap \in FileOf(Seq(Record))
  BY DEF TInv, GoodMapFile, GoodMap, IsFile, FileOf
<1>2. dedup \in FileOf(Seq(Entry))
  BY DEF TInv, GoodDedupFile, IsFile, FileOf
<1>3. \A s \in DOMAIN segs :
        IsFile(segs[s]) /\ IsBlobs(segs[s].val) /\ \A v \in segs[s].old : IsBlobs(v)
  BY DEF TInv, GoodSegs, GoodSegment, GoodBlobs
<1>4. op \in [block : Nat, payload : Payload \cup {NoPayload}, dedup : BOOLEAN,
              seg : Nat, blob : Nat, entry : Nat, tail : SUBSET Nat]
  BY DEF TInv, Op
<1> QED
  BY <1>1, <1>2, <1>3, <1>4
  DEF TInv, TypeOK, GoodSegs, GoodIndex, GoodLookupFile, GoodReclaim, Steps

(* What the file operations keep.                                          *)

\* An empty data segment and an empty lookup are well-formed.
LEMMA EmptyBlobs == GoodBlobs(EmptyFunction) /\ IsLookup(EmptyFunction)
                    /\ DOMAIN EmptyFunction = {}
BY BoundedEmpty DEF GoodBlobs, IsBlobs, IsLookup, EmptyFunction

\* Appending to, syncing, tearing and losing power on a data segment keep
\* it well-formed.
LEMMA SegmentOps ==
  ASSUME NEW f, GoodSegment(f)
  PROVE  /\ \A v : GoodBlobs(v) => GoodSegment(Appended(f, v))
         /\ GoodSegment(Synced(f))
         /\ GoodSegment(TornAppend(f))
         /\ \A g \in PowerLossOutcomes(f) : GoodSegment(g)
<1> HIDE DEF GoodBlobs
<1> USE DEF GoodSegment, IsFile
<1>1. \A v : GoodBlobs(v) => GoodSegment(Appended(f, v))
  BY DEF Appended
<1>2. GoodSegment(Synced(f))
  BY DEF Synced
<1>3. GoodSegment(TornAppend(f))
  BY DEF TornAppend
<1>4. \A g \in PowerLossOutcomes(f) : GoodSegment(g)
  BY DEF PowerLossOutcomes
<1> QED
  BY <1>1, <1>2, <1>3, <1>4

\* write_segment_file of well-formed contents gives a well-formed segment.
LEMMA SegmentReplaced == ASSUME NEW v, GoodBlobs(v) PROVE GoodSegment(Replaced(v))
BY DEF GoodSegment, IsFile, Replaced

\* The same operations keep a block map file well-formed.
LEMMA MapOps ==
  ASSUME NEW f, GoodMapFile(f)
  PROVE  /\ \A v : GoodMap(v) => GoodMapFile(Appended(f, v))
         /\ GoodMapFile(Synced(f))
         /\ GoodMapFile(TornAppend(f))
         /\ \A g \in PowerLossOutcomes(f) : GoodMapFile(g)
<1> USE DEF GoodMapFile, IsFile
<1>1. \A v : GoodMap(v) => GoodMapFile(Appended(f, v))
  BY DEF Appended
<1>2. GoodMapFile(Synced(f))
  BY DEF Synced
<1>3. GoodMapFile(TornAppend(f))
  BY DEF TornAppend
<1>4. \A g \in PowerLossOutcomes(f) : GoodMapFile(g)
  BY DEF PowerLossOutcomes
<1> QED
  BY <1>1, <1>2, <1>3, <1>4

\* The same operations keep a lookup file well-formed.
LEMMA LookupOps ==
  ASSUME NEW f, GoodLookupFile(f)
  PROVE  /\ \A v : IsLookup(v) => GoodLookupFile(Appended(f, v))
         /\ GoodLookupFile(Synced(f))
         /\ GoodLookupFile(TornAppend(f))
         /\ \A g \in PowerLossOutcomes(f) : GoodLookupFile(g)
<1> USE DEF GoodLookupFile, IsFile
<1>1. \A v : IsLookup(v) => GoodLookupFile(Appended(f, v))
  BY DEF Appended
<1>2. GoodLookupFile(Synced(f))
  BY DEF Synced
<1>3. GoodLookupFile(TornAppend(f))
  BY DEF TornAppend
<1>4. \A g \in PowerLossOutcomes(f) : GoodLookupFile(g)
  BY DEF PowerLossOutcomes
<1> QED
  BY <1>1, <1>2, <1>3, <1>4

\* The same operations keep a dedup file well-formed.
LEMMA DedupOps ==
  ASSUME NEW f, GoodDedupFile(f)
  PROVE  /\ \A v \in Seq(Entry) : GoodDedupFile(Appended(f, v))
         /\ GoodDedupFile(Synced(f))
         /\ GoodDedupFile(TornAppend(f))
         /\ \A g \in PowerLossOutcomes(f) : GoodDedupFile(g)
<1> USE DEF GoodDedupFile, IsFile
<1>1. \A v \in Seq(Entry) : GoodDedupFile(Appended(f, v))
  BY DEF Appended
<1>2. GoodDedupFile(Synced(f))
  BY DEF Synced
<1>3. GoodDedupFile(TornAppend(f))
  BY DEF TornAppend
<1>4. \A g \in PowerLossOutcomes(f) : GoodDedupFile(g)
  BY DEF PowerLossOutcomes
<1> QED
  BY <1>1, <1>2, <1>3, <1>4

\* The logs a reset leaves are well-formed.
LEMMA EmptyLogs ==
  /\ GoodMapFile(Replaced(<<>>)) /\ GoodDedupFile(Replaced(<<>>))
  /\ GoodLookupFile(Replaced(EmptyFunction)) /\ GoodSegment(Replaced(EmptyFunction))
  /\ GoodReclaim(EmptyFunction)
<1>1. GoodMap(<<>>)
  BY DEF GoodMap
<1>2. GoodMapFile(Replaced(<<>>))
  BY <1>1 DEF GoodMapFile, IsFile, Replaced
<1>a. <<>> \in Seq(Entry)
  OBVIOUS
<1>3. GoodDedupFile(Replaced(<<>>))
  <2> DEFINE E == Seq(Entry)
  <2>1. <<>> \in E
    BY <1>a
  <2> HIDE DEF E
  <2>2. Replaced(<<>>).val \in E /\ \A v \in Replaced(<<>>).old : v \in E
    BY <2>1 DEF Replaced
  <2>3. IsFile(Replaced(<<>>))
    BY DEF IsFile, Replaced
  <2> QED
    BY <2>2, <2>3 DEF GoodDedupFile, E
<1>4. GoodLookupFile(Replaced(EmptyFunction))
  BY EmptyBlobs DEF GoodLookupFile, IsFile, Replaced
<1>5. GoodSegment(Replaced(EmptyFunction))
  BY EmptyBlobs, SegmentReplaced
<1>6. GoodReclaim(EmptyFunction)
  BY DEF GoodReclaim, EmptyFunction
<1> QED
  BY <1>2, <1>3, <1>4, <1>5, <1>6

(* What the operators on contents keep.                                    *)

\* A segment stays well-formed when append_data_blob adds one more blob.
LEMMA WithBlobGood ==
  ASSUME NEW v, NEW b \in Nat
  PROVE  /\ \A p \in Payload : GoodBlobs(v) => GoodBlobs(WithBlob(v, b, p))
         /\ \A n \in Nat : IsLookup(v) => IsLookup(WithBlob(v, b, n))
<1>1. ASSUME NEW p \in Payload, GoodBlobs(v) PROVE GoodBlobs(WithBlob(v, b, p))
  <2>1. Bounded(DOMAIN v \cup {b})
    BY <1>1, BoundedAdd DEF GoodBlobs, IsBlobs
  <2> QED
    BY <1>1, <2>1 DEF GoodBlobs, IsBlobs, WithBlob
<1>2. ASSUME NEW n \in Nat, IsLookup(v) PROVE IsLookup(WithBlob(v, b, n))
  BY <1>2 DEF IsLookup, WithBlob
<1> QED
  BY <1>1, <1>2

\* append_blk_map_record of a record keeps the map well-formed.
LEMMA MapAppend ==
  ASSUME NEW m, GoodMap(m), NEW r \in Record
  PROVE  GoodMap(Append(m, r))
<1>1. PICK n \in Nat : \A i \in DOMAIN m : m[i].block <= n /\ m[i].blob <= n
  BY DEF GoodMap
<1> DEFINE k == n + r.block + r.blob
<1>2. m \in Seq(Record) /\ r.block \in Nat /\ r.blob \in Nat
  BY DEF GoodMap, Record
<1>3. k \in Nat /\ n <= k /\ r.block <= k /\ r.blob <= k
  BY <1>2
<1>a. \A i \in DOMAIN m : m[i] \in Record
  BY <1>2
<1>4. \A i \in DOMAIN m : m[i].block \in Nat /\ m[i].blob \in Nat
  BY <1>a DEF Record
<1> HIDE DEF k
<1>5. \A i \in DOMAIN Append(m, r) : Append(m, r)[i].block <= k /\ Append(m, r)[i].blob <= k
  <2> SUFFICES ASSUME NEW i \in DOMAIN Append(m, r)
               PROVE  Append(m, r)[i].block <= k /\ Append(m, r)[i].blob <= k
    OBVIOUS
  <2>1. CASE i \in DOMAIN m
    <3>1. Append(m, r)[i] = m[i]
      BY <1>2, <2>1
    <3> QED
      BY <3>1, <2>1, <1>1, <1>3, <1>4
  <2>2. CASE i = Len(m) + 1
    <3>1. Append(m, r)[i] = r
      BY <1>2, <2>2
    <3> QED
      BY <3>1, <1>3
  <2> QED
    BY <1>2, <2>1, <2>2
<1>6. Append(m, r) \in Seq(Record)
  BY <1>2
<1> QED
  BY Zenon, <1>3, <1>5, <1>6 DEF GoodMap

\* mark_blk_map_stale_batch keeps the map well-formed.
LEMMA MapStale ==
  ASSUME NEW m, GoodMap(m), NEW T
  PROVE  GoodMap([i \in DOMAIN m |-> IF i \in T THEN [m[i] EXCEPT !.active = FALSE]
                                                 ELSE m[i]])
<1> DEFINE q == [i \in DOMAIN m |-> IF i \in T THEN [m[i] EXCEPT !.active = FALSE]
                                                ELSE m[i]]
<1>1. PICK n \in Nat : \A i \in DOMAIN m : m[i].block <= n /\ m[i].blob <= n
  BY DEF GoodMap
<1>2. m \in Seq(Record)
  BY DEF GoodMap
<1>3. \A i \in DOMAIN m : m[i] \in Record
  BY <1>2
<1>4. \A i \in DOMAIN m : q[i] \in Record /\ q[i].block = m[i].block /\ q[i].blob = m[i].blob
  BY Zenon, <1>3 DEF Record
<1>5. DOMAIN q = DOMAIN m /\ DOMAIN m = 1..Len(m) /\ Len(m) \in Nat
  BY <1>2
<1>6. q \in Seq(Record)
  <2>1. q \in [1..Len(m) -> Record]
    BY <1>4, <1>5
  <2> HIDE DEF q
  <2> QED
    BY <2>1, <1>5
<1>7. \A i \in DOMAIN q : q[i].block <= n /\ q[i].blob <= n
  BY <1>1, <1>4, <1>5
<1> HIDE DEF q
<1>8. GoodMap(q)
  BY Zenon, <1>6, <1>7 DEF GoodMap
<1> QED
  BY <1>8 DEF q

\* What recovery reads from a well-formed map has its type.
LEMMA MapReads ==
  ASSUME NEW m, GoodMap(m)
  PROVE  EndOfData(m) \in Nat /\ IsLookup(RebuiltLookup(m))
<1>1. PICK n \in Nat : \A i \in DOMAIN m : m[i].block <= n /\ m[i].blob <= n
  BY DEF GoodMap
<1>2. \A i \in DOMAIN m : m[i] \in Record /\ i \in Nat
  BY DEF GoodMap
<1>3. \A b \in MappedBlocks(m) : b \in Nat /\ b <= n
  BY <1>1, <1>2 DEF MappedBlocks, Active, Record
<1>4. EndOfData(m) \in Nat
  <2> DEFINE S == {b + 1 : b \in MappedBlocks(m)}
  <2>1. S \subseteq Nat
    BY <1>3
  <2>2. \A x \in S : x <= n + 1
    BY <1>3
  <2>3. Bounded(S)
    BY <2>2 DEF Bounded
  <2> HIDE DEF S
  <2>4. High(S) \in Nat
    BY Zenon, <2>1, <2>3, HighProps
  <2> QED
    BY <2>4 DEF EndOfData, S
<1>5. \A b \in MappedBlocks(m) : RecordOf(m, b) \in Nat
  <2> SUFFICES ASSUME NEW b \in MappedBlocks(m) PROVE RecordOf(m, b) \in Nat
    OBVIOUS
  <2>1. \E i \in Active(m) : m[i].block = b
    BY DEF MappedBlocks
  <2>2. RecordOf(m, b) \in Active(m)
    BY <2>1 DEF RecordOf
  <2> QED
    BY <2>2, <1>2 DEF Active
<1>6. IsLookup(RebuiltLookup(m))
  BY <1>3, <1>5 DEF IsLookup, RebuiltLookup
<1> QED
  BY <1>4, <1>6

(* The segment index.                                                      *)

\* The index of a reset layout is well-formed.
LEMMA NewIndexGood == GoodIndex(NewIndex)
<1>1. {NewIndex.desc[s].last : s \in DOMAIN NewIndex.desc} = {0}
  BY DEF NewIndex, EmptyDescriptor
<1>2. Bounded({0})
  BY DEF Bounded
<1>3. IsIndex(NewIndex)
  BY DEF IsIndex, NewIndex, Descriptor, EmptyDescriptor
<1> QED
  BY <1>1, <1>2, <1>3 DEF GoodIndex

\* The next blob id lies above the last id of every descriptor.
LEMMA NextBlobIdProps ==
  ASSUME NEW ix, GoodIndex(ix)
  PROVE  /\ NextBlobId(ix) \in Nat
         /\ \A s \in DOMAIN ix.desc : ix.desc[s].last < NextBlobId(ix)
<1> DEFINE S == {ix.desc[s].last : s \in DOMAIN ix.desc}
<1>1. \A s \in DOMAIN ix.desc : ix.desc[s].last \in Nat
  BY DEF GoodIndex, IsIndex, Descriptor
<1>2. S \subseteq Nat /\ Bounded(S)
  BY <1>1 DEF GoodIndex
<1>3. \A s \in DOMAIN ix.desc : ix.desc[s].last \in S
  OBVIOUS
<1> HIDE DEF S
<1>4. High(S) \in Nat /\ \A x \in S : x <= High(S)
  BY Zenon, <1>2, HighProps
<1>5. NextBlobId(ix) = High(S) + 1
  BY DEF NextBlobId, S
<1> QED
  BY <1>1, <1>3, <1>4, <1>5

\* rotate_active_segment keeps the index well-formed.
LEMMA RotatedIndexGood ==
  ASSUME NEW ix, GoodIndex(ix)
  PROVE  GoodIndex(RotatedIndex(ix))
<1> DEFINE jx == RotatedIndex(ix)
           S  == {ix.desc[s].last : s \in DOMAIN ix.desc}
           T  == {jx.desc[s].last : s \in DOMAIN jx.desc}
<1>1. IsIndex(jx)
  BY DEF GoodIndex, IsIndex, RotatedIndex, Descriptor, EmptyDescriptor
<1>2. T \subseteq S \cup {0}
  BY Zenon DEF RotatedIndex, EmptyDescriptor
<1>3. S \subseteq Nat /\ Bounded(S)
  BY DEF GoodIndex, IsIndex, Descriptor
<1> HIDE DEF S
<1>4. Bounded(S \cup {0})
  BY Zenon, <1>3, BoundedAdd
<1> HIDE DEF T
<1>5. Bounded(T)
  BY <1>2, <1>4, BoundedSubset
<1> QED
  BY <1>1, <1>5 DEF GoodIndex, T

\* record_blob_append keeps the index well-formed and covers the new blob.
LEMMA RecordBlobAppendGood ==
  ASSUME NEW ix, GoodIndex(ix), NEW b \in Nat
  PROVE  /\ GoodIndex(RecordBlobAppend(ix, b))
         /\ RecordBlobAppend(ix, b).next = ix.next
         /\ RecordBlobAppend(ix, b).active = ix.active
         /\ DOMAIN RecordBlobAppend(ix, b).desc = DOMAIN ix.desc
         /\ \A s \in DOMAIN ix.desc :
              ix.desc[s].last <= RecordBlobAppend(ix, b).desc[s].last
         /\ b <= RecordBlobAppend(ix, b).desc[ix.active].last
<1> DEFINE jx == RecordBlobAppend(ix, b)
           d  == ix.desc[ix.active]
           e  == [first |-> IF d.first = 0 \/ b < d.first THEN b ELSE d.first,
                  last  |-> IF b > d.last THEN b ELSE d.last,
                  blobs |-> d.blobs + 1]
           S  == {ix.desc[s].last : s \in DOMAIN ix.desc}
           T  == {jx.desc[s].last : s \in DOMAIN jx.desc}
<1>1. /\ ix = [desc |-> ix.desc, active |-> ix.active, next |-> ix.next]
      /\ DOMAIN ix.desc \subseteq Nat
      /\ ix.desc \in [DOMAIN ix.desc -> Descriptor]
      /\ ix.active \in DOMAIN ix.desc
      /\ ix.next \in Nat
  BY DEF GoodIndex, IsIndex
<1>2. d \in Descriptor
  BY <1>1
<1>3. e \in Descriptor /\ d.last <= e.last /\ b <= e.last /\ e.last \in {b, d.last}
  BY <1>2 DEF Descriptor
<1>4. jx = [desc |-> [ix.desc EXCEPT ![ix.active] = e], active |-> ix.active, next |-> ix.next]
  BY <1>1 DEF RecordBlobAppend
<1> HIDE DEF e
<1>5. /\ jx.next = ix.next /\ jx.active = ix.active
      /\ DOMAIN jx.desc = DOMAIN ix.desc
      /\ \A s \in DOMAIN ix.desc : jx.desc[s] = IF s = ix.active THEN e ELSE ix.desc[s]
  BY <1>4
<1>6. IsIndex(jx)
  <2>1. jx = [desc |-> jx.desc, active |-> jx.active, next |-> jx.next]
    BY <1>4
  <2>2. jx.desc \in [DOMAIN jx.desc -> Descriptor]
    BY <1>1, <1>3, <1>4
  <2> HIDE DEF jx
  <2> QED
    BY <2>1, <2>2, <1>1, <1>5 DEF IsIndex
<1>7. \A s \in DOMAIN ix.desc : ix.desc[s].last <= jx.desc[s].last
  <2>1. \A s \in DOMAIN ix.desc : ix.desc[s].last \in Nat
    BY <1>1 DEF Descriptor
  <2> HIDE DEF jx
  <2> QED
    BY <1>3, <1>5, <2>1
<1>8. S \subseteq Nat /\ Bounded(S)
  BY <1>1 DEF GoodIndex, Descriptor
<1>9. T \subseteq S \cup {b}
  <2> HIDE DEF jx
  <2> QED
    BY <1>1, <1>3, <1>5
<1> HIDE DEF S, T
<1>10. Bounded(T)
  BY Zenon, <1>8, <1>9, BoundedAdd, BoundedSubset
<1>11. GoodIndex(jx)
  BY <1>6, <1>10 DEF GoodIndex, T
<1> HIDE DEF jx
<1>12. b <= jx.desc[ix.active].last
  BY <1>1, <1>3, <1>5
<1> QED
  BY <1>5, <1>7, <1>11, <1>12 DEF jx

\* What the rebuild of recovery yields: a well-formed index of referenced
\* segments that covers their blobs and lies above every segment file.
LEMMA RebuiltIndexGood ==
  ASSUME GoodSegs(segs), GoodMap(blkMap.val),
         NEW refs, refs \subseteq DOMAIN segs, refs = {} => 0 \in DOMAIN segs
  PROVE  /\ GoodIndex(RebuiltIndex(refs))
         /\ DOMAIN RebuiltIndex(refs).desc = IF refs = {} THEN {0} ELSE refs
         /\ \A s \in DOMAIN segs : s < RebuiltIndex(refs).next
         /\ \A s \in DOMAIN RebuiltIndex(refs).desc : \A b \in DOMAIN segs[s].val :
              b <= RebuiltIndex(refs).desc[s].last
<1> DEFINE D  == IF refs = {} THEN {0} ELSE refs
           hw == High({blkMap.val[i].blob : i \in DOMAIN blkMap.val})
           sc(s) == ScannedDescriptor(DOMAIN segs[s].val, Cardinality(DOMAIN segs[s].val))
           d == [s \in D |-> IF s = High(D) THEN [sc(s) EXCEPT !.last = High({@, hw})]
                                            ELSE sc(s)]
           ix == RebuiltIndex(refs)
<1>1. D \subseteq DOMAIN segs /\ D # {} /\ DOMAIN segs \subseteq Nat /\ Bounded(DOMAIN segs)
  BY DEF GoodSegs
<1>2. High(D) \in D
  <2> HIDE DEF D
  <2>1. D \subseteq Nat /\ Bounded(D)
    BY <1>1, BoundedSubset
  <2> QED
    BY <1>1, <2>1, HighProps
<1>3. hw \in Nat
  <2> DEFINE B == {blkMap.val[i].blob : i \in DOMAIN blkMap.val}
  <2>1. \A i \in DOMAIN blkMap.val : blkMap.val[i] \in Record
    BY DEF GoodMap
  <2>2. B \subseteq Nat
    BY <2>1 DEF Record
  <2>3. Bounded(B)
    BY Zenon DEF GoodMap, Bounded
  <2> HIDE DEF B
  <2>4. High(B) \in Nat
    BY Zenon, <2>2, <2>3, HighProps
  <2> QED
    BY <2>4 DEF B
<1>4. \A s \in D : sc(s) \in Descriptor /\ \A b \in DOMAIN segs[s].val : b <= sc(s).last
  <2> SUFFICES ASSUME NEW s \in D
               PROVE  sc(s) \in Descriptor /\ \A b \in DOMAIN segs[s].val : b <= sc(s).last
    BY Zenon
  <2> DEFINE B == DOMAIN segs[s].val
  <2>1. B \subseteq Nat /\ Bounded(B)
    BY Zenon, <1>1 DEF GoodSegs, GoodSegment, GoodBlobs, IsBlobs
  <2> HIDE DEF B
  <2>2. PICK n \in Nat : \A x \in B : x <= n
    BY Zenon, <2>1 DEF Bounded
  <2>3. Cardinality(B) \in Nat
    <3>1. IsFiniteSet(B)
      BY <2>1, <2>2, FS_BoundedSetOfNaturals
    <3> QED
      BY <3>1, FS_CardinalityType
  <2>4. High(B) \in Nat /\ \A x \in B : x <= High(B)
    BY Zenon, <2>1, HighProps
  <2>5. (IF B = {} THEN 0 ELSE Low(B)) \in Nat
    BY Zenon, <2>1, LowProps
  <2>6. sc(s) = [first |-> IF B = {} THEN 0 ELSE Low(B), last |-> High(B),
                 blobs |-> Cardinality(B)]
    BY DEF ScannedDescriptor, B
  <2> QED
    BY <2>3, <2>4, <2>5, <2>6 DEF Descriptor, B
<1> HIDE DEF sc, hw, D
<1>5. \A n \in Nat : High({n, hw}) \in Nat /\ n <= High({n, hw})
  <2> SUFFICES ASSUME NEW n \in Nat PROVE High({n, hw}) \in Nat /\ n <= High({n, hw})
    OBVIOUS
  <2>1. Bounded({n, hw})
    <3>1. \A x \in {n, hw} : x <= n + hw
      BY <1>3
    <3> QED
      BY <3>1, <1>3 DEF Bounded
  <2>2. {n, hw} \subseteq Nat
    BY <1>3
  <2> QED
    BY <2>1, <2>2, HighProps
<1>6. \A s \in D : d[s] \in Descriptor /\ sc(s).last <= d[s].last
  <2> SUFFICES ASSUME NEW s \in D PROVE d[s] \in Descriptor /\ sc(s).last <= d[s].last
    OBVIOUS
  <2>1. sc(s) \in Descriptor /\ sc(s).last \in Nat
    BY <1>4 DEF Descriptor
  <2>2. CASE s = High(D)
    <3>1. d[s] = [sc(s) EXCEPT !.last = High({sc(s).last, hw})]
      BY <2>2
    <3> HIDE DEF d
    <3> QED
      BY <3>1, <2>1, <1>5 DEF Descriptor
  <2>3. CASE s # High(D)
    BY <2>1, <2>3
  <2> QED
    BY <2>2, <2>3
<1>7. ix = [desc |-> d, active |-> High(D), next |-> High(DOMAIN segs \cup D) + 1]
  BY DEF RebuiltIndex, D, hw, sc
<1>8. DOMAIN d = D /\ d \in [D -> Descriptor]
  BY <1>6
<1> HIDE DEF d
<1>9. /\ High(DOMAIN segs \cup D) \in Nat
      /\ \A s \in DOMAIN segs : s <= High(DOMAIN segs \cup D)
  <2>1. DOMAIN segs \cup D = DOMAIN segs
    BY <1>1
  <2> QED
    BY <2>1, <1>1, HighProps
<1> DEFINE N == High(DOMAIN segs \cup D)
<1> HIDE DEF N, ix
<1>10. ix.desc = d /\ ix.active = High(D) /\ ix.next = N + 1 /\ N \in Nat
  BY <1>7, <1>9 DEF N
<1>11. IsIndex(ix)
  BY <1>1, <1>2, <1>7, <1>8, <1>10 DEF IsIndex
<1>12. Bounded({d[s].last : s \in DOMAIN d})
  <2> DEFINE f == [s \in D |-> d[s].last]
  <2>1. DOMAIN f = D /\ \A s \in D : f[s] = d[s].last /\ f[s] \in Nat
    BY <1>6 DEF Descriptor
  <2>2. {d[s].last : s \in DOMAIN d} = {f[s] : s \in DOMAIN f}
    BY <1>8, <2>1
  <2> HIDE DEF f
  <2>3. DOMAIN f \subseteq Nat /\ Bounded(DOMAIN f)
    BY <1>1, <2>1, BoundedSubset
  <2> QED
    BY <2>1, <2>2, <2>3, ImageBounded
<1>13. GoodIndex(ix)
  BY <1>10, <1>11, <1>12 DEF GoodIndex
<1>14. \A s \in DOMAIN segs : s < ix.next
  <2>1. \A s \in DOMAIN segs : s \in Nat /\ s <= N
    BY <1>1, <1>9 DEF N
  <2> QED
    BY <2>1, <1>10
<1>15. \A s \in D : \A b \in DOMAIN segs[s].val : b <= d[s].last
  <2> SUFFICES ASSUME NEW s \in D, NEW b \in DOMAIN segs[s].val PROVE b <= d[s].last
    OBVIOUS
  <2>1. b \in Nat
    BY Zenon, <1>1 DEF GoodSegs, GoodSegment, GoodBlobs, IsBlobs
  <2>2. b <= sc(s).last /\ sc(s).last <= d[s].last
    BY <1>4, <1>6
  <2>3. sc(s).last \in Nat /\ d[s].last \in Nat
    BY <1>4, <1>6 DEF Descriptor
  <2> QED
    BY <2>1, <2>2, <2>3
<1> QED
  BY <1>8, <1>10, <1>13, <1>14, <1>15 DEF ix, D

(* The dedup log.                                                          *)

\* Changing the counts of a dedup log gives a dedup log.
LEMMA RecountGood ==
  ASSUME NEW q \in Seq(Entry), NEW f, \A e \in DOMAIN q : f[e] \in Int
  PROVE  [e \in DOMAIN q |-> [q[e] EXCEPT !.refs = f[e]]] \in Seq(Entry)
<1> DEFINE r == [e \in DOMAIN q |-> [q[e] EXCEPT !.refs = f[e]]]
<1>1. \A e \in DOMAIN q : q[e] \in Entry
  OBVIOUS
<1>2. \A e \in DOMAIN q : r[e] \in Entry
  BY Zenon, <1>1 DEF Entry
<1>3. DOMAIN q = 1..Len(q) /\ Len(q) \in Nat
  OBVIOUS
<1>4. r \in [1..Len(q) -> Entry]
  BY <1>2, <1>3
<1> HIDE DEF r
<1>5. r \in Seq(Entry)
  BY <1>3, <1>4
<1> QED
  BY <1>5 DEF r

\* The counts that recovery and unmap write are integers.
LEMMA DedupRewrites ==
  ASSUME GoodDedupFile(dedup), GoodMap(blkMap.val), IsFiniteSet(op.tail)
  PROVE  /\ RecountedDedup \in Seq(Entry)
         /\ [e \in DOMAIN dedup.val |-> [dedup.val[e] EXCEPT !.refs = @ - Dropped(e)]]
              \in Seq(Entry)
<1>1. dedup.val \in Seq(Entry)
  BY DEF GoodDedupFile
<1>2. \A e : References(blkMap.val, e) \in Int
  <2> SUFFICES ASSUME NEW e PROVE References(blkMap.val, e) \in Int
    OBVIOUS
  <2> DEFINE S == {i \in Active(blkMap.val) : blkMap.val[i].entry = e}
  <2>1. Len(blkMap.val) \in Nat /\ DOMAIN blkMap.val = 1..Len(blkMap.val)
    BY DEF GoodMap
  <2>2. S \subseteq 1..Len(blkMap.val)
    BY <2>1 DEF Active
  <2>3. IsFiniteSet(1..Len(blkMap.val))
    BY <2>1, FS_Interval
  <2> HIDE DEF S
  <2>4. Cardinality(S) \in Nat
    BY Zenon, <2>2, <2>3, FS_Subset, FS_CardinalityType
  <2> QED
    BY <2>4 DEF References, S
<1>3. \A e : Dropped(e) \in Int
  <2> SUFFICES ASSUME NEW e PROVE Dropped(e) \in Int
    OBVIOUS
  <2> DEFINE S == {i \in op.tail : blkMap.val[i].entry = e}
  <2>1. S \subseteq op.tail
    OBVIOUS
  <2> HIDE DEF S
  <2>2. Cardinality(S) \in Nat
    BY <2>1, FS_Subset, FS_CardinalityType
  <2> QED
    BY <2>2 DEF Dropped, S
<1>4. \A e \in DOMAIN dedup.val : dedup.val[e] \in Entry
  BY <1>1
<1>5. RecountedDedup \in Seq(Entry)
  <2> DEFINE f == [e \in DOMAIN dedup.val |-> References(blkMap.val, e)]
  <2>1. \A e \in DOMAIN dedup.val : f[e] = References(blkMap.val, e) /\ f[e] \in Int
    BY <1>2
  <2>2. RecountedDedup = [e \in DOMAIN dedup.val |-> [dedup.val[e] EXCEPT !.refs = f[e]]]
    BY DEF RecountedDedup
  <2> HIDE DEF f
  <2> QED
    BY Zenon, <1>1, <2>1, <2>2, RecountGood
<1>6. [e \in DOMAIN dedup.val |-> [dedup.val[e] EXCEPT !.refs = @ - Dropped(e)]] \in Seq(Entry)
  <2> DEFINE f == [e \in DOMAIN dedup.val |-> dedup.val[e].refs - Dropped(e)]
  <2>1. \A e \in DOMAIN dedup.val : f[e] \in Int
    BY <1>3, <1>4 DEF Entry
  <2>2. [e \in DOMAIN dedup.val |-> [dedup.val[e] EXCEPT !.refs = @ - Dropped(e)]]
          = [e \in DOMAIN dedup.val |-> [dedup.val[e] EXCEPT !.refs = f[e]]]
    OBVIOUS
  <2> HIDE DEF f
  <2> QED
    BY Zenon, <1>1, <2>1, <2>2, RecountGood
<1> QED
  BY <1>5, <1>6

\* The entry, blob and segment a dedup hit yields.
LEMMA HitGood ==
  ASSUME GoodDedupFile(dedup), GoodIndex(index)
  PROVE  /\ HitEntry # 0 => /\ HitEntry \in DOMAIN dedup.val
                            /\ dedup.val[HitEntry] \in Entry
                            /\ dedup.val[HitEntry].payload = op.payload
                            /\ HitEntry \in Nat /\ HitBlob \in Nat
         /\ HitReadable => HitSegment \in DOMAIN index.desc /\ HitSegment \in Nat
<1>1. dedup.val \in Seq(Entry)
  BY DEF GoodDedupFile
<1>2. ASSUME HitEntry # 0
      PROVE  /\ HitEntry \in DOMAIN dedup.val /\ HitEntry \in Nat
             /\ dedup.val[HitEntry].payload = op.payload
  <2> DEFINE S == EntriesOf(op.payload)
  <2>1. HitEntry = High(S) /\ High(S) # 0
    BY <1>2 DEF HitEntry
  <2>2. DOMAIN dedup.val = 1..Len(dedup.val) /\ Len(dedup.val) \in Nat
    BY <1>1
  <2>3. S \subseteq Nat /\ \A x \in S : x <= Len(dedup.val)
    BY <2>2 DEF EntriesOf
  <2>4. Bounded(S)
    BY <2>2, <2>3 DEF Bounded
  <2>5. S # {}
    BY <2>1 DEF High
  <2> HIDE DEF S
  <2>6. High(S) \in S
    BY Zenon, <2>3, <2>4, <2>5, HighProps
  <2>7. HitEntry \in EntriesOf(op.payload)
    BY <2>1, <2>6 DEF S
  <2> QED
    BY <2>2, <2>7 DEF EntriesOf
<1>3. ASSUME HitEntry # 0 PROVE dedup.val[HitEntry] \in Entry /\ HitBlob \in Nat
  <2>1. dedup.val[HitEntry] \in Entry
    BY <1>1, <1>2, <1>3
  <2> QED
    BY <2>1 DEF HitBlob, Entry
<1>4. ASSUME HitReadable PROVE HitSegment \in DOMAIN index.desc /\ HitSegment \in Nat
  <2> DEFINE S == LocateBlobSegment(HitBlob)
  <2>1. DOMAIN index.desc \subseteq Nat
    BY DEF GoodIndex, IsIndex
  <2>2. S # {} /\ S \subseteq DOMAIN index.desc
    BY <1>4 DEF HitReadable, LocateBlobSegment, DescriptorForBlob
  <2> HIDE DEF S
  <2>3. Low(S) \in S
    BY <2>1, <2>2, LowProps
  <2> QED
    BY <2>1, <2>2, <2>3 DEF HitSegment, S
<1> QED
  BY <1>2, <1>3, <1>4

-----------------------------------------------------------------------------
(* The type invariant.                                                     *)

\* No command is in flight in NoOp.
LEMMA NoOpGood == NoOp \in Op /\ IsFiniteSet(NoOp.tail)
<1>1. NoOp.tail = {}
  BY DEF NoOp
<1> QED
  BY <1>1, FS_EmptySet DEF NoOp, Op

\* The layout an erase leaves is well-formed.
LEMMA InitTInv == Init => TInv
<1> SUFFICES ASSUME Init PROVE TInv
  OBVIOUS
<1>1. GoodSegs(segs)
  <2>1. DOMAIN segs = {0} /\ segs[0] = Replaced(EmptyFunction)
    BY DEF Init
  <2>2. Bounded({0})
    BY DEF Bounded
  <2> QED
    BY <2>1, <2>2, EmptyLogs DEF GoodSegs
<1>2. GoodIndex(index) /\ GoodIndex(icache)
  BY NewIndexGood DEF Init
<1>3. /\ GoodMapFile(blkMap) /\ GoodLookupFile(lookup) /\ GoodDedupFile(dedup)
      /\ GoodReclaim(reclaim)
  BY EmptyLogs DEF Init
<1>4. op \in Op /\ IsFiniteSet(op.tail)
  BY NoOpGood DEF Init
<1>5. pc \in Steps /\ pc \notin CommandSteps
  BY DEF Init, Steps, CommandSteps
<1> QED
  BY <1>1, <1>2, <1>3, <1>4, <1>5 DEF Init, TInv

\* Every step keeps the types: one case per action.
LEMMA NextTInv == TInv /\ [Next]_vars => TInv'
<1> SUFFICES ASSUME TInv, [Next]_vars PROVE TInv'
  OBVIOUS
<1> USE DEF TInv, disk, mem, bound, Steps, CommandSteps, RecoverySteps
<1>a. GoodMap(blkMap.val) /\ IsLookup(lookup.val) /\ dedup.val \in Seq(Entry)
  BY DEF GoodMapFile, GoodLookupFile, GoodDedupFile
<1>b. /\ GoodSegment(Replaced(EmptyFunction))
      /\ GoodMapFile(Replaced(<<>>)) /\ GoodDedupFile(Replaced(<<>>))
      /\ GoodLookupFile(Replaced(EmptyFunction)) /\ GoodReclaim(EmptyFunction)
  BY EmptyLogs
<1>c. EndOfData(blkMap.val) \in Nat /\ IsLookup(RebuiltLookup(blkMap.val))
  BY <1>a, MapReads
<1>d. GoodLookupFile(Replaced(RebuiltLookup(blkMap.val)))
  BY <1>c DEF GoodLookupFile, IsFile, Replaced
<1>e. NoOp \in Op /\ IsFiniteSet(NoOp.tail)
  BY NoOpGood
<1>f. ASSUME NEW n \in Nat
      PROVE  GoodSegs([s \in DOMAIN segs \cup {n} |->
                         IF s = n THEN Replaced(EmptyFunction) ELSE segs[s]])
  <2>1. Bounded(DOMAIN segs \cup {n}) /\ DOMAIN segs \cup {n} \subseteq Nat
    BY BoundedAdd DEF GoodSegs
  <2> QED
    BY <2>1, <1>b DEF GoodSegs
<1>g. ASSUME NEW C, C \subseteq Nat, NEW l PROVE GoodReclaim(Refreshed(C, l))
  BY <1>g DEF GoodReclaim, Refreshed
<1>h. DOMAIN reclaim \subseteq Nat
  BY DEF GoodReclaim
<1>i. icache.next \in Nat /\ icache.active \in Nat /\ icache.active \in DOMAIN icache.desc
  BY DEF GoodIndex, IsIndex
<1>MountLayout. CASE MountLayout
  BY <1>MountLayout, <1>c DEF MountLayout
<1>RefuseMount. CASE RefuseMount
  BY <1>RefuseMount DEF RefuseMount
<1>RetryMount. CASE RetryMount
  BY <1>RetryMount DEF RetryMount
<1>RecoverLookup. CASE RecoverLookup
  <2>1. ReferencedSegments' \subseteq DOMAIN segs
    BY <1>RecoverLookup DEF RecoverLookup, ReferencedSegments, ActiveBlobsValid, HasBlob
  <2> QED
    BY SMTT(30), <1>RecoverLookup, <1>d, <2>1 DEF RecoverLookup
<1>RecoverSegmentZero. CASE RecoverSegmentZero
  <2>1. ReferencedSegments' = {} /\ 0 \in DOMAIN segs'
    BY Zenon, <1>RecoverSegmentZero DEF RecoverSegmentZero, ReferencedSegments
  <2>2. GoodSegs(segs')
    BY <1>RecoverSegmentZero, <1>f DEF RecoverSegmentZero
  <2> QED
    BY <1>RecoverSegmentZero, <2>1, <2>2 DEF RecoverSegmentZero
<1>RecoverIndex. CASE RecoverIndex
  <2>1. /\ ReferencedSegments \subseteq DOMAIN segs
        /\ ReferencedSegments = {} => 0 \in DOMAIN segs
    BY <1>RecoverIndex DEF RecoverIndex
  <2>2. GoodIndex(RebuiltIndex(ReferencedSegments))
    BY <2>1, <1>a, RebuiltIndexGood
  <2> QED
    BY <1>RecoverIndex, <2>2 DEF RecoverIndex
<1>RecoverDedup. CASE RecoverDedup
  <2>1. GoodDedupFile(Appended(dedup, RecountedDedup))
    BY Zenon, <1>a, DedupRewrites, DedupOps
  <2> QED
    BY <1>RecoverDedup, <2>1 DEF RecoverDedup
<1>RecoverReclaim. CASE RecoverReclaim
  BY <1>RecoverReclaim, <1>g, <1>h DEF RecoverReclaim
<1>RecoverClean. CASE RecoverClean
  BY <1>RecoverClean, <1>c DEF RecoverClean
<1>Unmount. CASE Unmount
  BY <1>Unmount, <1>e DEF Unmount
<1>BeginWrite. CASE \E block \in 0..eod, p \in Payload, d \in BOOLEAN : BeginWrite(block, p, d)
  <2>1. PICK block \in 0..eod, p \in Payload, d \in BOOLEAN : BeginWrite(block, p, d)
    BY <1>BeginWrite
  <2>a. op' = [block |-> block, payload |-> p, dedup |-> d,
               seg |-> 0, blob |-> 0, entry |-> 0, tail |-> {}]
    BY Zenon, <2>1 DEF BeginWrite, NoOp
  <2>2. op' \in Op /\ op'.payload \in Payload /\ op'.tail = NoOp.tail
    BY <2>a DEF NoOp, Op
  <2> QED
    BY <2>1, <2>2, <1>e DEF BeginWrite
<1>ResetMap. CASE ResetMap
  BY <1>ResetMap, <1>b DEF ResetMap
<1>ResetLookup. CASE ResetLookup
  BY <1>ResetLookup, <1>b DEF ResetLookup
<1>ResetReclaim. CASE ResetReclaim
  BY <1>ResetReclaim, <1>b DEF ResetReclaim
<1>ResetDedup. CASE ResetDedup
  BY <1>ResetDedup, <1>b DEF ResetDedup
<1>ResetRemoveSegment. CASE \E s \in DOMAIN segs : ResetRemoveSegment(s)
  <2>1. PICK s \in DOMAIN segs : ResetRemoveSegment(s)
    BY <1>ResetRemoveSegment
  <2>2. Bounded(DOMAIN segs \ {s})
    BY BoundedSubset DEF GoodSegs
  <2>3. GoodSegs(segs')
    BY <2>1, <2>2 DEF ResetRemoveSegment, GoodSegs
  <2> QED
    BY <2>1, <2>3 DEF ResetRemoveSegment
<1>ResetSegmentZero. CASE ResetSegmentZero
  <2>1. Bounded({0})
    BY DEF Bounded
  <2>2. GoodSegs(segs')
    BY <1>ResetSegmentZero, <1>b, <2>1 DEF ResetSegmentZero, GoodSegs
  <2> QED
    BY <1>ResetSegmentZero, <2>2 DEF ResetSegmentZero
<1>ResetIndex. CASE ResetIndex
  BY <1>ResetIndex, NewIndexGood DEF ResetIndex
<1>ResetClean. CASE ResetClean
  BY <1>ResetClean DEF ResetClean
<1>UnmapStale. CASE UnmapStale
  <2> DEFINE m == [i \in DOMAIN blkMap.val |->
                     IF i \in TailRecords THEN [blkMap.val[i] EXCEPT !.active = FALSE]
                                          ELSE blkMap.val[i]]
  <2>1. GoodMap(m)
    BY Zenon, <1>a, MapStale
  <2> HIDE DEF m
  <2>2. GoodMapFile(Appended(blkMap, m))
    BY <2>1, MapOps
  <2>3. blkMap' = Appended(blkMap, m)
    BY <1>UnmapStale DEF UnmapStale, m
  <2>4. /\ TailRecords \subseteq 1..Len(blkMap.val) /\ Len(blkMap.val) \in Nat
    BY <1>a DEF TailRecords, Active, GoodMap
  <2>a. IsFiniteSet(1..Len(blkMap.val))
    BY <2>4, FS_Interval
  <2>b. IsFiniteSet(TailRecords)
    BY Zenon, <2>4, <2>a, FS_Subset
  <2>5. IsFiniteSet(TailRecords) /\ TailRecords \subseteq Nat
    BY <2>4, <2>b
  <2>6. op' \in Op /\ op'.tail = TailRecords /\ op'.payload = op.payload
    BY <1>UnmapStale, <2>5 DEF UnmapStale, Op
  <2> QED
    BY <1>UnmapStale, <2>2, <2>3, <2>5, <2>6 DEF UnmapStale
<1>UnmapDedup. CASE UnmapDedup
  <2> DEFINE q == [e \in DOMAIN dedup.val |-> [dedup.val[e] EXCEPT !.refs = @ - Dropped(e)]]
  <2>1. q \in Seq(Entry)
    BY <1>a, DedupRewrites
  <2> HIDE DEF q
  <2>2. GoodDedupFile(Appended(dedup, q))
    BY <2>1, DedupOps
  <2>3. dedup' \in {dedup, Appended(dedup, q)}
    BY <1>UnmapDedup DEF UnmapDedup, q
  <2> QED
    BY <1>UnmapDedup, <2>2, <2>3 DEF UnmapDedup
<1>UnmapLookup. CASE UnmapLookup
  BY SMTT(30), <1>UnmapLookup, <1>d DEF UnmapLookup
<1>UnmapCandidates. CASE UnmapCandidates
  <2>1. op.tail \subseteq Nat
    BY DEF Op
  <2>2. \A i \in op.tail : Refreshed(op.tail, lookup.val)[i] \in BOOLEAN
    BY Zenon DEF Refreshed
  <2>3. \A i \in DOMAIN reclaim : reclaim[i] \in BOOLEAN
    BY DEF GoodReclaim
  <2>4. GoodReclaim(reclaim')
    BY <1>UnmapCandidates, <2>1, <2>2, <2>3 DEF UnmapCandidates, GoodReclaim
  <2> QED
    BY <1>UnmapCandidates, <2>4 DEF UnmapCandidates
<1>UnmapRefresh. CASE UnmapRefresh
  <2>1. op.block \in Nat
    BY DEF Op
  <2> QED
    BY <1>UnmapRefresh, <2>1, <1>g, <1>h DEF UnmapRefresh
<1>MarkDirty. CASE MarkDirty
  BY <1>MarkDirty DEF MarkDirty
<1>ReuseBlob. CASE ReuseBlob
  <2>1. /\ HitEntry \in DOMAIN dedup.val /\ dedup.val[HitEntry] \in Entry
        /\ HitEntry \in Nat /\ HitBlob \in Nat /\ HitSegment \in Nat
    BY <1>ReuseBlob, HitGood DEF ReuseBlob, HitMatches
  <2> DEFINE h == HitEntry
             e == [dedup.val[h] EXCEPT !.refs = @ + 1]
             q == [dedup.val EXCEPT ![h] = e]
  <2>2. e \in Entry
    BY <2>1 DEF Entry
  <2>3. dedup' = Appended(dedup, q)
    BY <1>ReuseBlob DEF ReuseBlob
  <2> HIDE DEF e, h
  <2>a. Len(dedup.val) \in Nat /\ dedup.val \in [1..Len(dedup.val) -> Entry]
    BY <1>a
  <2>b. q \in [1..Len(dedup.val) -> Entry]
    BY Zenon, <2>2, <2>a
  <2> HIDE DEF q
  <2>4. q \in Seq(Entry)
    BY <2>a, <2>b
  <2>5. GoodDedupFile(dedup')
    BY <2>3, <2>4, DedupOps
  <2>6. op' \in Op /\ op'.tail = op.tail /\ op'.payload = op.payload
    BY Zenon, <1>ReuseBlob, <2>1 DEF ReuseBlob, Op
  <2> QED
    BY <1>ReuseBlob, <2>5, <2>6 DEF ReuseBlob
<1>RotateFile. CASE RotateFile
  <2>1. GoodSegs(segs')
    BY <1>RotateFile, <1>f, <1>i DEF RotateFile
  <2> QED
    BY <1>RotateFile, <2>1 DEF RotateFile
<1>RotateIndex. CASE RotateIndex
  BY <1>RotateIndex, RotatedIndexGood DEF RotateIndex
<1>AppendBlob. CASE AppendBlob
  <2> DEFINE s == icache.active
             b == NextBlobId(icache)
             v == WithBlob(segs[s].val, b, op.payload)
             f == IF DOMAIN segs[s].val = {} THEN Replaced(v) ELSE Appended(segs[s], v)
  <2>1. b \in Nat /\ op.payload \in Payload
    BY <1>AppendBlob, NextBlobIdProps DEF AppendBlob, Appending
  <2>2. segs' = [segs EXCEPT ![s] = f] /\ icache' = RecordBlobAppend(icache, b)
        /\ op' = [op EXCEPT !.seg = s, !.blob = b]
    BY <1>AppendBlob DEF AppendBlob
  <2> HIDE DEF b
  <2>3. ASSUME s \in DOMAIN segs PROVE GoodSegment(f)
    <3>1. GoodSegment(segs[s]) /\ GoodBlobs(segs[s].val)
      BY <2>3 DEF GoodSegs, GoodSegment
    <3>2. GoodBlobs(v)
      BY <3>1, <2>1, WithBlobGood
    <3> HIDE DEF v
    <3> QED
      BY <3>1, <3>2, SegmentOps, SegmentReplaced
  <2> HIDE DEF f
  <2>4. GoodSegs(segs')
    <3>1. DOMAIN segs' = DOMAIN segs
      BY <2>2
    <3>2. \A t \in DOMAIN segs : segs'[t] = IF t = s THEN f ELSE segs[t]
      BY <2>2
    <3> QED
      BY <2>3, <3>1, <3>2 DEF GoodSegs
  <2>5. op' \in Op /\ op'.tail = op.tail /\ op'.payload = op.payload
    BY Zenon, <2>1, <2>2, <1>i DEF Op
  <2>6. GoodIndex(icache')
    BY <2>1, <2>2, RecordBlobAppendGood
  <2> QED
    BY <1>AppendBlob, <2>1, <2>4, <2>5, <2>6 DEF AppendBlob
<1>InsertEntry. CASE InsertEntry
  <2> DEFINE e == [payload |-> op.payload, blob |-> op.blob, refs |-> 1]
  <2>1. e \in Entry
    BY <1>InsertEntry DEF InsertEntry, Entry, Op
  <2>2. dedup' = Appended(dedup, Append(dedup.val, e))
    BY <1>InsertEntry DEF InsertEntry
  <2> HIDE DEF e
  <2>3. Append(dedup.val, e) \in Seq(Entry) /\ Len(dedup.val) + 1 \in Nat
    BY <1>a, <2>1
  <2>4. GoodDedupFile(dedup')
    BY Zenon, <2>2, <2>3, DedupOps
  <2>5. op' \in Op /\ op'.tail = op.tail /\ op'.payload = op.payload
    BY <1>InsertEntry, <2>3 DEF InsertEntry, Op
  <2> QED
    BY <1>InsertEntry, <2>4, <2>5 DEF InsertEntry
<1>AppendRecord. CASE AppendRecord
  <2> DEFINE r == [block |-> op.block, seg |-> op.seg, blob |-> op.blob,
                   payload |-> op.payload, entry |-> op.entry, active |-> TRUE]
  <2>1. r \in Record
    BY <1>AppendRecord DEF AppendRecord, Record, Op
  <2>2. blkMap' = Appended(blkMap, Append(blkMap.val, r))
    BY <1>AppendRecord DEF AppendRecord
  <2> HIDE DEF r
  <2>3. GoodMap(Append(blkMap.val, r))
    BY <1>a, <2>1, MapAppend
  <2>4. GoodMapFile(blkMap')
    BY <2>2, <2>3, MapOps
  <2> QED
    BY <1>AppendRecord, <2>4 DEF AppendRecord
<1>AppendLookup. CASE AppendLookup
  <2>1. op.block \in Nat /\ Len(blkMap.val) \in Nat
    BY <1>a DEF Op, GoodMap
  <2>2. GoodLookupFile(lookup')
    BY Zenon, <1>AppendLookup, <1>a, <2>1, WithBlobGood, LookupOps DEF AppendLookup
  <2> QED
    BY <1>AppendLookup, <2>1, <2>2, <1>e DEF AppendLookup
<1>FailCommand. CASE FailCommand
  BY <1>FailCommand, <1>e DEF FailCommand
<1>RewindFailed. CASE RewindFailed
  <2>1. GoodSegs(segs')
    <3>1. DOMAIN segs' = DOMAIN segs
          /\ \A s \in DOMAIN segs : segs'[s] \in {Synced(segs[s]), segs[s]}
      BY <1>RewindFailed DEF RewindFailed
    <3> QED
      BY <3>1, SegmentOps DEF GoodSegs
  <2>2. GoodMapFile(blkMap') /\ GoodLookupFile(lookup') /\ GoodDedupFile(dedup')
    BY <1>RewindFailed, MapOps, LookupOps, DedupOps DEF RewindFailed
  <2> QED
    BY SMTT(30), <1>RewindFailed, <2>1, <2>2 DEF RewindFailed
<1>FlushPending. CASE FlushPending
  BY <1>FlushPending DEF FlushPending
<1>SyncSegments. CASE SyncSegments
  <2>1. GoodSegs(segs')
    <3>1. DOMAIN segs' = DOMAIN segs
          /\ \A s \in DOMAIN segs : segs'[s] \in {Synced(segs[s]), segs[s]}
      BY <1>SyncSegments DEF SyncSegments
    <3> QED
      BY <3>1, SegmentOps DEF GoodSegs
  <2> QED
    BY SMTT(30), <1>SyncSegments, <2>1 DEF SyncSegments
<1>FlushIndex. CASE FlushIndex
  BY <1>FlushIndex DEF FlushIndex
<1>SyncLogs. CASE SyncLogs
  <2>1. GoodMapFile(blkMap') /\ GoodLookupFile(lookup') /\ GoodDedupFile(dedup')
    BY <1>SyncLogs, MapOps, LookupOps, DedupOps DEF SyncLogs
  <2> QED
    BY <1>SyncLogs, <2>1 DEF SyncLogs
<1>MarkClean. CASE MarkClean
  BY <1>MarkClean DEF MarkClean
<1>Kill. CASE Kill
  BY SMTT(30), <1>Kill, <1>e DEF Kill, LoseMemory
<1>KillInAppend. CASE KillInAppend
  <2>1. blkMap' \in {blkMap, TornAppend(blkMap)}
        /\ lookup' \in {lookup, TornAppend(lookup)}
        /\ dedup' \in {dedup, TornAppend(dedup)}
    BY <1>KillInAppend DEF KillInAppend
  <2>2. GoodMapFile(blkMap') /\ GoodLookupFile(lookup') /\ GoodDedupFile(dedup')
    BY <2>1, MapOps, LookupOps, DedupOps
  <2>3. GoodSegs(segs')
    <3>1. segs' = segs \/ segs' = [segs EXCEPT ![icache.active] = TornAppend(@)]
      BY <1>KillInAppend DEF KillInAppend
    <3>2. DOMAIN segs' = DOMAIN segs
          /\ \A s \in DOMAIN segs : segs'[s] \in {TornAppend(segs[s]), segs[s]}
      BY <3>1
    <3> QED
      BY <3>2, SegmentOps DEF GoodSegs
  <2> QED
    BY <1>KillInAppend, <2>2, <2>3, <1>e DEF KillInAppend, LoseMemory
<1>PowerLoss. CASE PowerLoss
  <2>1. GoodMapFile(blkMap') /\ GoodLookupFile(lookup') /\ GoodDedupFile(dedup')
    BY <1>PowerLoss, MapOps, LookupOps, DedupOps DEF PowerLoss
  <2>2. GoodSegs(segs')
    <3>1. DOMAIN segs' = DOMAIN segs
          /\ \A s \in DOMAIN segs : segs'[s] \in PowerLossOutcomes(segs[s])
      BY SMTT(30), <1>PowerLoss DEF PowerLoss
    <3> QED
      BY <3>1, SegmentOps DEF GoodSegs
  <2> QED
    BY <1>PowerLoss, <2>1, <2>2, <1>e DEF PowerLoss, LoseMemory
<1>stutter. CASE UNCHANGED vars
  BY Zenon, <1>stutter DEF vars, ReferencedSegments
<1> QED
  BY Zenon, <1>MountLayout, <1>RefuseMount, <1>RetryMount, <1>RecoverLookup, <1>RecoverSegmentZero,
     <1>RecoverIndex, <1>RecoverDedup, <1>RecoverReclaim, <1>RecoverClean, <1>Unmount,
     <1>BeginWrite, <1>ResetMap, <1>ResetLookup, <1>ResetReclaim, <1>ResetDedup,
     <1>ResetRemoveSegment, <1>ResetSegmentZero, <1>ResetIndex, <1>ResetClean,
     <1>UnmapStale, <1>UnmapDedup, <1>UnmapLookup, <1>UnmapCandidates, <1>UnmapRefresh, <1>MarkDirty,
     <1>ReuseBlob, <1>RotateFile, <1>RotateIndex, <1>AppendBlob, <1>InsertEntry,
     <1>AppendRecord, <1>AppendLookup, <1>FailCommand, <1>RewindFailed, <1>FlushPending, <1>SyncSegments,
     <1>FlushIndex, <1>SyncLogs,
     <1>MarkClean, <1>Kill, <1>KillInAppend, <1>PowerLoss, <1>stutter
  DEF Next, Mount, Recover, Reset, Unmap, Write, Flush

\* Every variable keeps its type in every behaviour of the data path, for
\* every set of payloads and every number of writes and crashes.
THEOREM TypeCorrect == Spec => []TypeOK
<1>1. Spec => []TInv
  BY InitTInv, NextTInv, PTL DEF Spec
<1> QED
  BY <1>1, TInvTypeOK, PTL

=============================================================================

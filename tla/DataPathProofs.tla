--------------------------- MODULE DataPathProofs --------------------------
(***************************************************************************)
(* No crash of the process loses a stored block, for every set of          *)
(* payloads, segment capacity, sync interval and number of writes and      *)
(* crashes.                                                                *)
(***************************************************************************)
EXTENDS DataPathTypeProofs

-----------------------------------------------------------------------------
(* No stored block is lost.  The conjuncts of StorageInvariant as           *)
(* predicates of the values they relate.                                   *)

Present(m, sg) ==
  \A i \in Active(m) :
    /\ m[i].seg \in DOMAIN sg
    /\ m[i].blob \in DOMAIN sg[m[i].seg].val
    /\ sg[m[i].seg].val[m[i].blob] = m[i].payload

Below(m, n) == \A i \in Active(m) : m[i].seg < n

DescBelow(ix) == \A s \in DOMAIN ix.desc : s < ix.next

Covers(ix, sg) ==
  \A s \in DOMAIN ix.desc \cap DOMAIN sg : \A b \in DOMAIN sg[s].val : b <= ix.desc[s].last

EmptyAt(sg, s) == s \in DOMAIN sg /\ DOMAIN sg[s].val = {}

InFlight(o, sg, n) ==
  /\ o.seg \in DOMAIN sg /\ o.seg < n
  /\ o.blob \in DOMAIN sg[o.seg].val /\ sg[o.seg].val[o.blob] = o.payload

SInv ==
  /\ Present(blkMap.val, segs) /\ Below(blkMap.val, index.next)
  /\ DescBelow(index)
  /\ icache.next = index.next /\ DOMAIN icache.desc = DOMAIN index.desc
  /\ Mounted => Covers(icache, segs)
  /\ ckpt = "clean" => Covers(index, segs)
  /\ pc \in {"w_blob", "w_rotate", "w_append"} => ckpt = "dirty"
  /\ pc \in {"r_dedup", "r_reclaim", "r_clean", "x_clean", "w_logs", "w_clean"}
       => index = icache
  /\ Mounted /\ pc \notin {"x_remove", "x_index"} => DOMAIN icache.desc \subseteq DOMAIN segs
  /\ pc \in {"x_lookup", "x_reclaim", "x_dedup", "x_remove", "x_index", "x_clean"}
       => blkMap.val = <<>>
  /\ pc = "x_index" => EmptyAt(segs, 0)
  /\ pc = "w_rotate" => EmptyAt(segs, icache.next)
  /\ pc \in {"w_dedup", "w_map"} => InFlight(op, segs, index.next)

\* SInv is StorageInvariant while the machine keeps power and no rewind keeps
\* recovery from running.
LEMMA SInvStorage == StorageInvariant <=> (Undisturbed => SInv)
<1>1. ActiveBlobsPresent <=> (Undisturbed => Present(blkMap.val, segs))
  BY DEF ActiveBlobsPresent, Present
<1>2. InFlightBlobPresent <=> InFlight(op, segs, index.next)
  BY DEF InFlightBlobPresent, InFlight
<1>3. /\ DescribesBlobs(icache) <=> Covers(icache, segs)
      /\ DescribesBlobs(index) <=> Covers(index, segs)
  BY DEF DescribesBlobs, Covers
<1>4. /\ (\A i \in Active(blkMap.val) : blkMap.val[i].seg < index.next)
           <=> Below(blkMap.val, index.next)
      /\ (\A s \in DOMAIN index.desc : s < index.next) <=> DescBelow(index)
  BY DEF Below, DescBelow
<1>5. \A s : EmptyAt(segs, s) <=> s \in DOMAIN segs /\ DOMAIN segs[s].val = {}
  BY DEF EmptyAt
<1> QED
  BY <1>1, <1>2, <1>3, <1>4, <1>5, Zenon DEF StorageInvariant, SInv

\* Nothing is required of a map without Active records.
LEMMA NothingMapped ==
  ASSUME NEW m, Active(m) = {}
  PROVE  \A sg, n : Present(m, sg) /\ Below(m, n)
BY DEF Present, Below

\* The map a reset leaves has no Active record.
LEMMA EmptyMap == Active(<<>>) = {}
BY DEF Active

\* Segments that differ only in what is synced or torn are the same here.
LEMMA SameContents ==
  ASSUME NEW sg, NEW tg, DOMAIN tg = DOMAIN sg, \A s \in DOMAIN sg : tg[s].val = sg[s].val
  PROVE  /\ \A m : Present(m, sg) => Present(m, tg)
         /\ \A ix : Covers(ix, sg) => Covers(ix, tg)
<1>1. \A m : Present(m, sg) => Present(m, tg)
  BY DEF Present
<1>2. \A ix : Covers(ix, sg) => Covers(ix, tg)
  BY DEF Covers
<1> QED
  BY <1>1, <1>2

\* A torn append leaves the contents that the segment's readers saw.
LEMMA TornAppendSame ==
  ASSUME NEW sg, NEW a
  PROVE  LET tg == [sg EXCEPT ![a] = TornAppend(@)]
         IN  DOMAIN tg = DOMAIN sg /\ \A s \in DOMAIN sg : tg[s].val = sg[s].val
<1> DEFINE tg == [sg EXCEPT ![a] = TornAppend(@)]
<1>1. DOMAIN tg = DOMAIN sg
  OBVIOUS
<1>2. \A s \in DOMAIN sg : tg[s] = sg[s] \/ tg[s] = TornAppend(sg[s])
  OBVIOUS
<1>3. \A g : TornAppend(g).val = g.val
  BY DEF TornAppend
<1> HIDE DEF tg
<1>4. \A s \in DOMAIN sg : tg[s].val = sg[s].val
  BY <1>2, <1>3
<1> QED
  BY <1>1, <1>4 DEF tg

\* A segment rewritten or created empty leaves the index a cover.
LEMMA EmptiedCovered ==
  ASSUME NEW ix, NEW sg, Covers(ix, sg), NEW n
  PROVE  Covers(ix, [s \in DOMAIN sg \cup {n} |->
                       IF s = n THEN Replaced(EmptyFunction) ELSE sg[s]])
<1>1. DOMAIN Replaced(EmptyFunction).val = {}
  BY SMTT(30) DEF Replaced, EmptyFunction
<1> QED
  BY <1>1 DEF Covers

\* An empty cartridge satisfies it.
LEMMA InitSInv == Init => SInv
<1> SUFFICES ASSUME Init PROVE SInv
  OBVIOUS
<1>1. blkMap.val = <<>>
  BY DEF Init, Replaced
<1>2. Present(blkMap.val, segs) /\ Below(blkMap.val, index.next)
  BY <1>1, EmptyMap, NothingMapped
<1>3. Covers(NewIndex, segs)
  BY DEF Init, Covers, Replaced, EmptyFunction
<1>4. DescBelow(NewIndex)
  BY SMTT(30) DEF DescBelow, NewIndex
<1> QED
  BY <1>2, <1>3, <1>4 DEF Init, SInv, Mounted

\* Appending a blob under a fresh id keeps every blob, and the index that
\* records it covers it.
LEMMA AppendBlobKeeps ==
  ASSUME NEW sg, NEW ix, GoodSegs(sg), GoodIndex(ix), Covers(ix, sg),
         DOMAIN ix.desc \subseteq DOMAIN sg, NEW p, NEW f,
         f.val = WithBlob(sg[ix.active].val, NextBlobId(ix), p)
  PROVE  /\ \A m : Present(m, sg) => Present(m, [sg EXCEPT ![ix.active] = f])
         /\ Covers(RecordBlobAppend(ix, NextBlobId(ix)), [sg EXCEPT ![ix.active] = f])
         /\ NextBlobId(ix) \in DOMAIN f.val /\ f.val[NextBlobId(ix)] = p
<1> DEFINE s  == ix.active
           b  == NextBlobId(ix)
           tg == [sg EXCEPT ![s] = f]
           jx == RecordBlobAppend(ix, b)
<1>1. /\ s \in DOMAIN ix.desc /\ s \in DOMAIN sg
      /\ \A t \in DOMAIN ix.desc : ix.desc[t].last \in Nat
  BY DEF GoodIndex, IsIndex, Descriptor
<1>2. b \in Nat /\ \A t \in DOMAIN ix.desc : ix.desc[t].last < b
  BY NextBlobIdProps
<1>3. /\ DOMAIN jx.desc = DOMAIN ix.desc
      /\ \A t \in DOMAIN ix.desc : ix.desc[t].last <= jx.desc[t].last
      /\ b <= jx.desc[s].last /\ GoodIndex(jx)
  BY <1>2, RecordBlobAppendGood
<1>4. \A t \in DOMAIN ix.desc : jx.desc[t].last \in Nat
  <2> HIDE DEF jx
  <2> QED
    BY <1>3 DEF GoodIndex, IsIndex, Descriptor
<1>5. \A t \in DOMAIN sg : DOMAIN sg[t].val \subseteq Nat
  BY Zenon DEF GoodSegs, GoodSegment, GoodBlobs, IsBlobs
<1>6. b \notin DOMAIN sg[s].val
  <2>1. ASSUME b \in DOMAIN sg[s].val PROVE FALSE
    <3>1. b <= ix.desc[s].last
      BY <1>1, <2>1 DEF Covers
    <3> QED
      BY <3>1, <1>1, <1>2
  <2> QED
    BY <2>1
<1> HIDE DEF b, jx
<1>7. /\ DOMAIN f.val = DOMAIN sg[s].val \cup {b}
      /\ f.val[b] = p
      /\ \A x \in DOMAIN sg[s].val : f.val[x] = sg[s].val[x]
  BY <1>6 DEF WithBlob, b
<1>8. DOMAIN tg = DOMAIN sg /\ tg[s] = f /\ \A t \in DOMAIN sg : t # s => tg[t] = sg[t]
  BY <1>1
<1> HIDE DEF tg
<1>9. \A m : Present(m, sg) => Present(m, tg)
  <2> SUFFICES ASSUME NEW m, Present(m, sg), NEW i \in Active(m)
               PROVE  /\ m[i].seg \in DOMAIN tg
                      /\ m[i].blob \in DOMAIN tg[m[i].seg].val
                      /\ tg[m[i].seg].val[m[i].blob] = m[i].payload
    BY SMTT(30) DEF Present
  <2>1. /\ m[i].seg \in DOMAIN sg
        /\ m[i].blob \in DOMAIN sg[m[i].seg].val
        /\ sg[m[i].seg].val[m[i].blob] = m[i].payload
    BY DEF Present
  <2>2. CASE m[i].seg = s
    BY Zenon, <2>1, <2>2, <1>7, <1>8
  <2>3. CASE m[i].seg # s
    BY SMTT(30), <2>1, <2>3, <1>8
  <2> QED
    BY Zenon, <2>2, <2>3
<1>10. Covers(jx, tg)
  <2> SUFFICES ASSUME NEW t \in DOMAIN ix.desc, NEW x \in DOMAIN tg[t].val
               PROVE  x <= jx.desc[t].last
    BY SMTT(30), <1>3 DEF Covers
  <2>1. CASE x \in DOMAIN sg[t].val
    <3>1. x <= ix.desc[t].last /\ x \in Nat
      BY SMTT(30), <2>1, <1>5 DEF Covers
    <3> QED
      BY <3>1, <1>1, <1>3, <1>4
  <2>2. CASE x \notin DOMAIN sg[t].val
    <3>1. t = s /\ x = b
      BY SMTT(30), <2>2, <1>7, <1>8
    <3> QED
      BY SMTT(30), <3>1, <1>3
  <2> QED
    BY SMTT(30), <2>1, <2>2
<1> QED
  BY Zenon, <1>7, <1>9, <1>10 DEF b, jx, tg

\* Every other step preserves it: one case per action.
LEMMA NextSInv == TInv /\ SInv /\ [Next]_vars /\ Undisturbed' => SInv'
<1> SUFFICES ASSUME TInv, SInv, [Next]_vars, powerLosses' = 0, rewinds' = 0 PROVE SInv'
  BY DEF Undisturbed
<1> USE DEF disk, mem, bound
<1>a. GoodSegs(segs) /\ GoodIndex(index) /\ GoodIndex(icache) /\ powerLosses \in Nat /\ rewinds \in Nat
      /\ GoodMap(blkMap.val) /\ GoodDedupFile(dedup)
  BY DEF TInv, GoodMapFile
<1>b. Replaced(<<>>).val = <<>> /\ DOMAIN Replaced(EmptyFunction).val = {}
  BY DEF Replaced, EmptyFunction
<1>c. \A sg, n : Present(<<>>, sg) /\ Below(<<>>, n)
  BY EmptyMap, NothingMapped
<1>d. \A f, v : Appended(f, v).val = v /\ Synced(f).val = f.val /\ TornAppend(f).val = f.val
  BY DEF Appended, Synced, TornAppend
<1>e. /\ index.next \in Nat /\ DOMAIN index.desc \subseteq Nat /\ DOMAIN segs \subseteq Nat
      /\ icache.active \in DOMAIN icache.desc
  BY <1>a DEF GoodIndex, IsIndex, GoodSegs
<1>f. \A i \in DOMAIN blkMap.val : blkMap.val[i] \in Record
  BY SMTT(30), <1>a DEF GoodMap
<1>g. /\ Present(blkMap.val, segs) /\ Below(blkMap.val, index.next) /\ DescBelow(index)
      /\ icache.next = index.next /\ DOMAIN icache.desc = DOMAIN index.desc
  BY DEF SInv
<1>MountLayout. CASE MountLayout
  <2>1. DOMAIN index.desc \subseteq DOMAIN segs
    BY SMTT(30), <1>MountLayout DEF MountLayout, LayoutReadable
  <2> QED
    BY Zenon, <1>MountLayout, <2>1 DEF SInv, Mounted, MountLayout
<1>RefuseMount. CASE RefuseMount
  BY <1>RefuseMount DEF SInv, Mounted, RefuseMount
<1>RetryMount. CASE RetryMount
  BY Zenon, <1>RetryMount DEF SInv, Mounted, RetryMount
<1>RecoverLookup. CASE RecoverLookup
  BY Zenon, <1>RecoverLookup DEF SInv, Mounted, RecoverLookup
<1>RecoverSegmentZero. CASE RecoverSegmentZero
  <2>1. Active(blkMap.val) = {}
    BY Zenon, <1>RecoverSegmentZero DEF RecoverSegmentZero, ReferencedSegments
  <2>2. Present(blkMap.val, segs')
    BY <2>1, NothingMapped
  <2>3. Covers(index, segs) => Covers(index, segs')
    BY <1>RecoverSegmentZero, EmptiedCovered DEF RecoverSegmentZero
  <2> QED
    BY Zenon, <1>RecoverSegmentZero, <2>2, <2>3 DEF SInv, Mounted, RecoverSegmentZero
<1>RecoverIndex. CASE RecoverIndex
  <2> DEFINE ix == RebuiltIndex(ReferencedSegments)
  <2>1. /\ ReferencedSegments \subseteq DOMAIN segs
        /\ ReferencedSegments = {} => 0 \in DOMAIN segs
    BY <1>RecoverIndex DEF RecoverIndex, TInv
  <2>2. /\ DOMAIN ix.desc = IF ReferencedSegments = {} THEN {0} ELSE ReferencedSegments
        /\ \A s \in DOMAIN segs : s < ix.next
        /\ \A s \in DOMAIN ix.desc : \A b \in DOMAIN segs[s].val : b <= ix.desc[s].last
    BY <1>a, <2>1, RebuiltIndexGood
  <2> HIDE DEF ix
  <2>3. DOMAIN ix.desc \subseteq DOMAIN segs
    BY <2>1, <2>2
  <2>4. Covers(ix, segs) /\ DescBelow(ix)
    BY Zenon, <2>2, <2>3 DEF Covers, DescBelow
  <2>5. Below(blkMap.val, ix.next)
    BY <1>g, <2>2 DEF Below, Present
  <2>6. index' = ix /\ icache' = ix
    BY <1>RecoverIndex DEF RecoverIndex, ix
  <2> QED
    BY Zenon, <1>RecoverIndex, <2>3, <2>4, <2>5, <2>6 DEF SInv, Mounted, RecoverIndex
<1>RecoverDedup. CASE RecoverDedup
  BY Zenon, <1>RecoverDedup DEF SInv, Mounted, RecoverDedup
<1>RecoverReclaim. CASE RecoverReclaim
  BY Zenon, <1>RecoverReclaim DEF SInv, Mounted, RecoverReclaim
<1>RecoverClean. CASE RecoverClean
  BY Zenon, <1>RecoverClean DEF SInv, Mounted, RecoverClean
<1>Unmount. CASE Unmount
  BY Zenon, <1>Unmount DEF SInv, Mounted, Unmount
<1>BeginWrite. CASE \E block \in 0..eod, p \in Payload, d \in BOOLEAN : BeginWrite(block, p, d)
  BY SMTT(30), <1>BeginWrite DEF SInv, Mounted, BeginWrite
<1>ResetMap. CASE ResetMap
  BY <1>ResetMap, <1>b, <1>c DEF SInv, Mounted, ResetMap
<1>ResetLookup. CASE ResetLookup
  BY Zenon, <1>ResetLookup DEF SInv, Mounted, ResetLookup
<1>ResetReclaim. CASE ResetReclaim
  BY SMTT(30), <1>ResetReclaim DEF SInv, Mounted, ResetReclaim
<1>ResetDedup. CASE ResetDedup
  BY <1>ResetDedup DEF SInv, Mounted, ResetDedup
<1>ResetRemoveSegment. CASE \E s \in DOMAIN segs : ResetRemoveSegment(s)
  <2>1. PICK s \in DOMAIN segs : ResetRemoveSegment(s)
    BY SMTT(30), <1>ResetRemoveSegment
  <2>2. \A ix : Covers(ix, segs) => Covers(ix, segs')
    BY <2>1 DEF ResetRemoveSegment, Covers
  <2> QED
    BY Zenon, <2>1, <2>2, <1>c DEF SInv, Mounted, ResetRemoveSegment
<1>ResetSegmentZero. CASE ResetSegmentZero
  <2>1. \A ix : Covers(ix, segs')
    BY <1>ResetSegmentZero, <1>b DEF ResetSegmentZero, Covers
  <2>2. EmptyAt(segs', 0)
    BY <1>ResetSegmentZero, <1>b DEF ResetSegmentZero, EmptyAt
  <2> QED
    BY Zenon, <1>ResetSegmentZero, <2>1, <2>2, <1>c DEF SInv, Mounted, ResetSegmentZero
<1>ResetIndex. CASE ResetIndex
  <2>1. Covers(NewIndex, segs) /\ DescBelow(NewIndex) /\ DOMAIN NewIndex.desc \subseteq DOMAIN segs
    <3>1. EmptyAt(segs, 0)
      BY <1>ResetIndex DEF ResetIndex, SInv
    <3> QED
      BY SMTT(30), <3>1 DEF Covers, DescBelow, NewIndex, EmptyAt
  <2> QED
    BY Zenon, <1>ResetIndex, <2>1, <1>c DEF SInv, Mounted, ResetIndex
<1>ResetClean. CASE ResetClean
  BY Zenon, <1>ResetClean DEF SInv, Mounted, ResetClean
<1>UnmapStale. CASE UnmapStale
  <2> DEFINE m == [i \in DOMAIN blkMap.val |->
                     IF i \in TailRecords THEN [blkMap.val[i] EXCEPT !.active = FALSE]
                                          ELSE blkMap.val[i]]
  <2>1. blkMap'.val = m
    BY <1>UnmapStale, <1>d DEF UnmapStale
  <2>2. \A i \in Active(m) : i \in Active(blkMap.val) /\ m[i] = blkMap.val[i]
    <3> SUFFICES ASSUME NEW i \in DOMAIN blkMap.val, m[i].active
                 PROVE  blkMap.val[i].active /\ m[i] = blkMap.val[i]
      BY DEF Active
    <3>1. CASE i \in TailRecords
      <4>1. m[i] = [blkMap.val[i] EXCEPT !.active = FALSE]
        BY <3>1
      <4>2. m[i].active = FALSE
        BY <4>1, <1>f DEF Record
      <4> QED
        BY <4>2
    <3>2. CASE i \notin TailRecords
      BY <3>2
    <3> QED
      BY <3>1, <3>2
  <2> HIDE DEF m
  <2>3. Present(m, segs) /\ Below(m, index.next)
    BY Zenon, <1>g, <2>2 DEF Present, Below
  <2> QED
    BY <1>UnmapStale, <2>1, <2>3 DEF SInv, Mounted, UnmapStale
<1>UnmapDedup. CASE UnmapDedup
  BY <1>UnmapDedup DEF SInv, Mounted, UnmapDedup
<1>UnmapLookup. CASE UnmapLookup
  BY Zenon, <1>UnmapLookup DEF SInv, Mounted, UnmapLookup
<1>UnmapCandidates. CASE UnmapCandidates
  BY Zenon, <1>UnmapCandidates DEF SInv, Mounted, UnmapCandidates
<1>UnmapRefresh. CASE UnmapRefresh
  BY Zenon, <1>UnmapRefresh DEF SInv, Mounted, UnmapRefresh
<1>MarkDirty. CASE MarkDirty
  BY Zenon, <1>MarkDirty DEF SInv, Mounted, MarkDirty
<1>ReuseBlob. CASE ReuseBlob
  <2>1. HitSegment \in DOMAIN index.desc
    BY <1>ReuseBlob, <1>a, HitGood DEF ReuseBlob, HitMatches
  <2>2. /\ HitSegment \in DOMAIN segs /\ HitBlob \in DOMAIN segs[HitSegment].val
        /\ segs[HitSegment].val[HitBlob] = op.payload
    BY <1>ReuseBlob DEF ReuseBlob, HitMatches, HitReadable, HasBlob
  <2>3. HitSegment < index.next
    BY <1>g, <2>1 DEF DescBelow
  <2>4. op'.seg = HitSegment /\ op'.blob = HitBlob /\ op'.payload = op.payload
    BY <1>ReuseBlob DEF ReuseBlob, TInv, Op
  <2>5. InFlight(op', segs, index.next)
    BY <2>2, <2>3, <2>4 DEF InFlight
  <2> QED
    BY <1>ReuseBlob, <2>5 DEF SInv, Mounted, ReuseBlob
<1>RotateFile. CASE RotateFile
  <2>1. Covers(icache, segs')
    <3>1. Covers(icache, segs)
      BY Zenon, <1>RotateFile DEF RotateFile, SInv, Mounted
    <3> QED
      BY <1>RotateFile, <3>1, EmptiedCovered DEF RotateFile
  <2>2. EmptyAt(segs', icache.next)
    BY SMTT(30), <1>RotateFile, <1>b DEF RotateFile, EmptyAt
  <2>3. Present(blkMap.val, segs')
    <3> SUFFICES ASSUME NEW i \in Active(blkMap.val)
                 PROVE  /\ blkMap.val[i].seg \in DOMAIN segs
                        /\ blkMap.val[i].seg # icache.next
      BY Zenon, <1>RotateFile, <1>g DEF RotateFile, Present
    <3>1. blkMap.val[i].seg \in DOMAIN segs /\ blkMap.val[i].seg < index.next
      BY <1>g DEF Present, Below
    <3> QED
      BY <3>1, <1>e, <1>g
  <2> QED
    BY Zenon, <1>RotateFile, <2>1, <2>2, <2>3 DEF SInv, Mounted, RotateFile
<1>RotateIndex. CASE RotateIndex
  <2> DEFINE ix == RotatedIndex(icache)
  <2>1. /\ DOMAIN ix.desc = DOMAIN icache.desc \cup {icache.next} /\ ix.next = icache.next + 1
        /\ \A s \in DOMAIN icache.desc : s # icache.next => ix.desc[s] = icache.desc[s]
    BY DEF RotatedIndex
  <2>2. index' = ix /\ icache' = ix
    BY SMTT(30), <1>RotateIndex DEF RotateIndex
  <2> HIDE DEF ix
  <2>3. EmptyAt(segs, icache.next)
    BY SMTT(30), <1>RotateIndex DEF RotateIndex, SInv
  <2>a. Covers(icache, segs) /\ DOMAIN icache.desc \subseteq DOMAIN segs
    BY <1>RotateIndex DEF RotateIndex, SInv, Mounted
  <2>4. Covers(ix, segs)
    BY <2>1, <2>3, <2>a DEF Covers, EmptyAt
  <2>5. DescBelow(ix)
    <3>1. \A s \in DOMAIN index.desc : s \in Nat /\ s < index.next
      BY <1>e, <1>g DEF DescBelow
    <3> QED
      BY <2>1, <3>1, <1>e, <1>g DEF DescBelow
  <2>6. Below(blkMap.val, ix.next)
    <3>1. \A i \in Active(blkMap.val) : blkMap.val[i].seg \in Nat
      BY <1>e, <1>g DEF Present
    <3> QED
      BY SMTT(30), <2>1, <3>1, <1>e, <1>g DEF Below
  <2>7. DOMAIN ix.desc \subseteq DOMAIN segs
    BY <2>1, <2>3, <2>a DEF EmptyAt
  <2> QED
    BY Zenon, <1>RotateIndex, <2>2, <2>4, <2>5, <2>6, <2>7 DEF SInv, Mounted, RotateIndex
<1>AppendBlob. CASE AppendBlob
  <2> DEFINE s == icache.active
             b == NextBlobId(icache)
             v == WithBlob(segs[s].val, b, op.payload)
             f == IF DOMAIN segs[s].val = {} THEN Replaced(v) ELSE Appended(segs[s], v)
             tg == [segs EXCEPT ![s] = f]
             ix == RecordBlobAppend(icache, b)
  <2>0. segs' = tg /\ op' = [op EXCEPT !.seg = s, !.blob = b] /\ icache' = ix
    BY <1>AppendBlob DEF AppendBlob
  <2>a. pc \in {"w_blob", "w_append"} /\ ckpt = "dirty"
    BY SMTT(30), <1>AppendBlob DEF AppendBlob, Appending, SInv
  <2>b. Covers(icache, segs) /\ DOMAIN icache.desc \subseteq DOMAIN segs
    BY SMTT(30), <2>a DEF SInv, Mounted
  <2>1. f.val = v
    BY SMTT(30), <1>d DEF Replaced
  <2> HIDE DEF f
  <2>2. /\ \A m : Present(m, segs) => Present(m, tg)
        /\ Covers(ix, tg)
        /\ b \in DOMAIN f.val /\ f.val[b] = op.payload
    BY <1>a, <2>b, <2>1, AppendBlobKeeps
  <2>3. b \in Nat
    BY <1>a, NextBlobIdProps
  <2>4. ix.next = icache.next /\ DOMAIN ix.desc = DOMAIN icache.desc
    BY <1>a, <2>3, RecordBlobAppendGood
  <2> HIDE DEF b, ix
  <2>5. op'.seg = s /\ op'.blob = b /\ op'.payload = op.payload
    BY <2>0 DEF TInv, Op
  <2>6. DOMAIN tg = DOMAIN segs /\ tg[s] = f /\ s \in DOMAIN segs
    BY <2>b, <1>e
  <2>7. InFlight(op', tg, index.next)
    BY <2>2, <2>5, <2>6, <1>e, <1>g DEF InFlight, DescBelow
  <2> HIDE DEF tg
  <2>8. DOMAIN ix.desc \subseteq DOMAIN tg
    BY <2>4, <2>6, <2>b
  <2> QED
    <3>1. pc' \in {"w_dedup", "w_map"} /\ UNCHANGED <<ckpt, index, blkMap>>
      BY <1>AppendBlob DEF AppendBlob
    <3> QED
      BY <3>1, <2>0, <2>a, <2>2, <2>4, <2>7, <2>8 DEF SInv, Mounted
<1>InsertEntry. CASE InsertEntry
  <2>1. op'.seg = op.seg /\ op'.blob = op.blob /\ op'.payload = op.payload
    BY <1>InsertEntry DEF InsertEntry, TInv, Op
  <2>2. InFlight(op', segs, index.next)
    <3>1. InFlight(op, segs, index.next)
      BY <1>InsertEntry DEF InsertEntry, SInv
    <3> QED
      BY <2>1, <3>1 DEF InFlight
  <2> QED
    BY <1>InsertEntry, <2>2 DEF SInv, Mounted, InsertEntry
<1>AppendRecord. CASE AppendRecord
  <2> DEFINE r == [block |-> op.block, seg |-> op.seg, blob |-> op.blob,
                   payload |-> op.payload, entry |-> op.entry, active |-> TRUE]
             m == Append(blkMap.val, r)
  <2>1. blkMap'.val = m
    BY Zenon, <1>AppendRecord, <1>d DEF AppendRecord
  <2>2. InFlight(op, segs, index.next)
    BY Zenon, <1>AppendRecord DEF AppendRecord, SInv
  <2>3. r.seg = op.seg /\ r.blob = op.blob /\ r.payload = op.payload
    OBVIOUS
  <2>a. r \in Record
    BY <1>AppendRecord DEF AppendRecord, TInv, CommandSteps, Record, Op
  <2> HIDE DEF r
  <2>4. \A i \in Active(m) : m[i] = r \/ (i \in Active(blkMap.val) /\ m[i] = blkMap.val[i])
    <3>1. blkMap.val \in Seq(Record)
      BY <1>a DEF GoodMap
    <3>2. \A i \in DOMAIN m : m[i] = r \/ (i \in DOMAIN blkMap.val /\ m[i] = blkMap.val[i])
      <4> DEFINE n == Len(blkMap.val)
      <4>1. n \in Nat /\ DOMAIN blkMap.val = 1..n /\ DOMAIN m = 1..(n + 1)
        BY <3>1, <2>a
      <4>2. m[n + 1] = r /\ \A i \in 1..n : m[i] = blkMap.val[i]
        BY <3>1, <2>a
      <4> HIDE DEF n, m
      <4> QED
        BY <4>1, <4>2
    <3> HIDE DEF m
    <3> QED
      BY <3>2 DEF Active
  <2> HIDE DEF m
  <2>5. Present(m, segs)
    BY Zenon, <1>g, <2>2, <2>3, <2>4 DEF Present, InFlight
  <2>6. Below(m, index.next)
    BY <1>g, <2>2, <2>3, <2>4 DEF Below, InFlight
  <2> QED
    BY Zenon, <1>AppendRecord, <2>1, <2>5, <2>6 DEF SInv, Mounted, AppendRecord
<1>AppendLookup. CASE AppendLookup
  BY Zenon, <1>AppendLookup DEF SInv, Mounted, AppendLookup
<1>FailCommand. CASE FailCommand
  BY Zenon, <1>FailCommand DEF SInv, Mounted, FailCommand
<1>RewindFailed. CASE RewindFailed
  BY <1>RewindFailed, <1>a DEF RewindFailed
<1>FlushPending. CASE FlushPending
  BY Zenon, <1>FlushPending DEF SInv, Mounted, FlushPending
<1>SyncSegments. CASE SyncSegments
  <2>1. DOMAIN segs' = DOMAIN segs /\ \A s \in DOMAIN segs : segs'[s].val = segs[s].val
    BY <1>SyncSegments, <1>d DEF SyncSegments
  <2>2. /\ Present(blkMap.val, segs') /\ Covers(icache, segs')
        /\ Covers(index, segs) => Covers(index, segs')
    <3>1. Covers(icache, segs)
      BY <1>SyncSegments DEF SyncSegments, SInv, Mounted
    <3> QED
      BY SMTT(30), <1>g, <2>1, <3>1, SameContents
  <2> QED
    BY Zenon, <1>SyncSegments, <2>1, <2>2 DEF SInv, Mounted, SyncSegments
<1>FlushIndex. CASE FlushIndex
  <2>1. DescBelow(icache)
    BY <1>g DEF DescBelow
  <2> QED
    BY Zenon, <1>FlushIndex, <2>1 DEF SInv, Mounted, FlushIndex
<1>SyncLogs. CASE SyncLogs
  BY Zenon, <1>SyncLogs, <1>d DEF SInv, Mounted, SyncLogs
<1>MarkClean. CASE MarkClean
  BY Zenon, <1>MarkClean DEF SInv, Mounted, MarkClean
<1>Kill. CASE Kill
  BY Zenon, <1>Kill DEF SInv, Mounted, Kill, LoseMemory
<1>KillInAppend. CASE KillInAppend
  <2>1. segs' = segs \/ segs' = [segs EXCEPT ![icache.active] = TornAppend(@)]
    BY <1>KillInAppend DEF KillInAppend
  <2>2. DOMAIN segs' = DOMAIN segs /\ \A s \in DOMAIN segs : segs'[s].val = segs[s].val
    <3>1. CASE segs' = segs
      BY <3>1
    <3>2. CASE segs' = [segs EXCEPT ![icache.active] = TornAppend(@)]
      BY SMTT(30), <3>2, TornAppendSame
    <3> QED
      BY <2>1, <3>1, <3>2
  <2>3. Present(blkMap.val, segs') /\ (Covers(index, segs) => Covers(index, segs'))
    BY <1>g, <2>2, SameContents
  <2>4. blkMap'.val = blkMap.val
    BY SMTT(30), <1>KillInAppend, <1>d DEF KillInAppend
  <2> QED
    BY Zenon, <1>KillInAppend, <2>3, <2>4 DEF SInv, Mounted, KillInAppend, LoseMemory
<1>PowerLoss. CASE PowerLoss
  BY <1>PowerLoss, <1>a DEF SInv, Mounted, PowerLoss
<1>stutter. CASE UNCHANGED vars
  BY Zenon, <1>stutter DEF SInv, Mounted, vars
<1> QED
  BY <1>MountLayout, <1>RefuseMount, <1>RetryMount, <1>RecoverLookup, <1>RecoverSegmentZero,
     <1>RecoverIndex, <1>RecoverDedup, <1>RecoverReclaim, <1>RecoverClean, <1>Unmount,
     <1>BeginWrite, <1>ResetMap, <1>ResetLookup, <1>ResetReclaim, <1>ResetDedup,
     <1>ResetRemoveSegment, <1>ResetSegmentZero, <1>ResetIndex, <1>ResetClean,
     <1>UnmapStale, <1>UnmapDedup, <1>UnmapLookup, <1>UnmapCandidates, <1>UnmapRefresh, <1>MarkDirty,
     <1>ReuseBlob, <1>RotateFile, <1>RotateIndex, <1>AppendBlob, <1>InsertEntry,
     <1>AppendRecord, <1>AppendLookup, <1>FailCommand, <1>RewindFailed, <1>FlushPending, <1>SyncSegments,
     <1>FlushIndex, <1>SyncLogs,
     <1>MarkClean, <1>Kill, <1>KillInAppend, <1>PowerLoss, <1>stutter
  DEF Next, Mount, Recover, Reset, Unmap, Write, Flush

\* A power failure, and a rewind that skips recovery, are never forgotten.
LEMMA DisturbanceLasts == TInv /\ [Next]_vars /\ Undisturbed' => Undisturbed
<1> SUFFICES ASSUME TInv, [Next]_vars, Undisturbed' PROVE Undisturbed
  OBVIOUS
<1>1. powerLosses \in Nat /\ rewinds \in Nat
  BY DEF TInv
<1>2. /\ powerLosses' \in {powerLosses, powerLosses + 1}
      /\ rewinds' \in {rewinds, rewinds + 1}
  BY Zenon DEF Next, Mount, Recover, Reset, Unmap, Write, Flush, vars, disk, mem, bound,
     MountLayout, RefuseMount, RetryMount, RecoverLookup, RecoverSegmentZero, RecoverIndex,
     RecoverDedup, RecoverReclaim, RecoverClean, Unmount, BeginWrite, ResetMap, ResetLookup,
     ResetReclaim, ResetDedup, ResetRemoveSegment, ResetSegmentZero, ResetIndex, ResetClean,
     UnmapStale, UnmapDedup, UnmapLookup, UnmapCandidates, UnmapRefresh, MarkDirty, ReuseBlob, RotateFile,
     RotateIndex, AppendBlob, InsertEntry, AppendRecord, AppendLookup, FailCommand,
     FlushPending, SyncSegments, FlushIndex, SyncLogs, MarkClean, Kill, KillInAppend, PowerLoss,
     RewindFailed
<1> QED
  BY <1>1, <1>2 DEF Undisturbed

\* Whatever is rotated, reset, unmapped, rebuilt or reused, and wherever the
\* process dies, the blob of every Active record is in its segment, as long
\* as the machine keeps power and no rewind after a failed write skips recovery.
THEOREM NoBlockLost == Spec => [](ActiveBlobsPresent /\ StorageInvariant)
<1> DEFINE Inv == TInv /\ (Undisturbed => SInv)
<1>1. Init => Inv
  BY InitTInv, InitSInv
<1>2. Inv /\ [Next]_vars => Inv'
  BY NextTInv, NextSInv, DisturbanceLasts
<1>3. Inv => ActiveBlobsPresent /\ StorageInvariant
  BY Zenon, SInvStorage DEF StorageInvariant, ActiveBlobsPresent
<1> QED
  BY <1>1, <1>2, <1>3, PTL DEF Spec

=============================================================================

---------------------------- MODULE OfflineReclaim --------------------------
(***************************************************************************)
(* Maintenance of an unmounted cartridge: storage/offline_reclaim.rs frees *)
(* the dead blobs of one data segment per run, between sessions in which   *)
(* the cartridge is written.  The maintenance process holds the layout     *)
(* lease, so nothing runs beside it; it can stop (killed, cancelled, an    *)
(* I/O error) between any two file operations, and whoever opens the       *)
(* layout next runs recover_dirty_state.                                   *)
(*                                                                         *)
(* The layout is one record, disk.  Unlike in DataPath, record and dedup   *)
(* entry ids are explicit, because the reclaim removes records and entries.*)
(* A write session (mount, one write, flush, unmount) is one step here, or *)
(* stops after any of its four stages; DataPath takes it apart.  A blob    *)
(* stands for its 24 byte header and its bytes and counts 1.  The epoch of *)
(* the checkpoint is left out of the scan snapshot, so that this model     *)
(* accepts every cursor the code accepts and more.                         *)
(***************************************************************************)
EXTENDS Integers, Sequences, FiniteSets, SegmentIndex

CONSTANTS
  Payload,              \* what a host may write in a block
  InitialTape,          \* the blocks on the tape at first, with or without dedup
  None,                 \* no value: no scan cursor, no candidate
  MinDeadPercent,       \* RECLAIM_MIN_DEAD_PERCENT
  HeadersPerRound,      \* MAX_HEADERS_PER_ROUND
  DescriptorsPerRound,  \* MAX_DESCRIPTORS_PER_ROUND
  MaxWrites,            \* bound: write sessions
  MaxStops              \* bound: processes that stop half-way

ASSUME ReclaimAssumption ==
  /\ None \notin Payload
  /\ InitialTape \in Seq([payload : Payload, dedup : BOOLEAN])
  /\ MinDeadPercent \in 0..100
  /\ HeadersPerRound \in Nat \ {0}
  /\ DescriptorsPerRound \in Nat \ {0}
  /\ MaxWrites \in Nat
  /\ MaxStops \in Nat

VARIABLES
  disk,      \* the files of the layout, see EmptyLayout
  cursor,    \* the scan cursor the maintenance service passes to the next run
  pc,        \* the next file operation of the process that holds the layout
  job,       \* what the running maintenance process keeps in memory
  recorded,  \* history: the highest blob id any record has used
  writes, stops

bound == <<writes, stops>>
vars  == <<disk, cursor, pc, job, recorded, bound>>

-----------------------------------------------------------------------------
(* The layout.                                                             *)

EmptyFunction == [x \in {} |-> 0]

With(f, x, v) == [y \in DOMAIN f \cup {x} |-> IF y = x THEN v ELSE f[y]]

Without(f, S) == [y \in DOMAIN f \ S |-> f[y]]

\* reset_layout_for_overwrite leaves this.
EmptyLayout ==
  [ckpt    |-> "clean",
   segs    |-> [s \in {0} |-> EmptyFunction],   \* segment -> blob id -> payload
   index   |-> NewIndex,
   map     |-> EmptyFunction,                   \* record id -> record
   lookup  |-> EmptyFunction,                   \* block -> record id
   dedup   |-> EmptyFunction,                   \* entry id -> entry
   reclaim |-> EmptyFunction]                   \* record id -> safe_to_reclaim

Active(map) == {r \in DOMAIN map : map[r].active}

Blocks(map) == {map[r].block : r \in Active(map)}

EndOfData(map) == High({b + 1 : b \in Blocks(map)})

RecordOf(map, b) == CHOOSE r \in Active(map) : map[r].block = b

\* What the host reads back.
TapeOf(map) == [b \in Blocks(map) |-> map[RecordOf(map, b)].payload]

RebuiltLookup(map) == [b \in Blocks(map) |-> RecordOf(map, b)]

References(map, e) == Cardinality({r \in Active(map) : map[r].entry = e})

HasBlob(L, s, b) == s \in DOMAIN L.segs /\ b \in DOMAIN L.segs[s]

\* locate_blob_segment_id: the descriptor whose id range covers the blob,
\* otherwise a described segment that holds it.
LocateBlobSegment(L, b) ==
  IF DescriptorForBlob(L.index, b) # {}
    THEN DescriptorForBlob(L.index, b)
    ELSE {s \in DOMAIN L.index.desc : HasBlob(L, s, b)}

\* next_record_id: one above the ids in the log, which pruning can lower.
NextRecordId(map) == High(DOMAIN map) + 1

Refreshed(candidates, lookup) ==
  [r \in candidates |-> \A b \in DOMAIN lookup : lookup[b] # r]

-----------------------------------------------------------------------------
(* A write session: the stages a stopped one leaves behind.                *)

\* write_data at block: reset at the beginning of tape, run_unmap of the tail
\* elsewhere.
Truncated(L, block) ==
  IF block >= EndOfData(L.map) THEN L
  ELSE IF block = 0 THEN EmptyLayout
  ELSE LET tail   == {r \in Active(L.map) : L.map[r].block >= block}
           map    == [r \in DOMAIN L.map |->
                        [L.map[r] EXCEPT !.active = @ /\ r \notin tail]]
           lookup == RebuiltLookup(map)
       IN  [L EXCEPT
              !.map = map, !.lookup = lookup,
              !.dedup = [e \in DOMAIN @ |->
                 [@[e] EXCEPT !.refs = @ - Cardinality({r \in tail : L.map[r].entry = e})]],
              !.reclaim = Refreshed(DOMAIN @ \cup tail, lookup)]

EntriesOf(L, p) == {e \in DOMAIN L.dedup : L.dedup[e].payload = p}

\* The dedup entry a write finds (lookup_identity), 0 for none, and where it
\* looks for the blob.
HitEntry(L, p, useDedup) == IF useDedup THEN High(EntriesOf(L, p)) ELSE 0

HitSegment(L, e) == Low(LocateBlobSegment(L, L.dedup[e].blob))

HitReadable(L, e) ==
  /\ LocateBlobSegment(L, L.dedup[e].blob) # {}
  /\ HasBlob(L, HitSegment(L, e), L.dedup[e].blob)

HitMatches(L, e) ==
  L.segs[HitSegment(L, e)][L.dedup[e].blob] = L.dedup[e].payload

\* append_data_blob, which rotates a full segment first.  Only a rotation
\* stores the index at once.
WithBlob(L, p) ==
  LET index == IF ShouldRotate(L.index) THEN RotatedIndex(L.index) ELSE L.index
      segs  == IF ShouldRotate(L.index)
                 THEN With(L.segs, index.active, EmptyFunction) ELSE L.segs
  IN  [L EXCEPT !.index = index,
                !.segs = [segs EXCEPT ![index.active] = With(@, NextBlobId(index), p)]]

\* The layout after stage n of write_logical_block: 1 the tail is dropped,
\* 2 the blob is stored or found, 3 the dedup entry, 4 the record.
Stage(n, L, block, p, useDedup) ==
  LET A     == Truncated(L, block)
      hit   == HitEntry(A, p, useDedup)
      reuse == hit # 0 /\ HitMatches(A, hit)
      B     == IF reuse THEN A ELSE WithBlob(A, p)
      seg   == IF reuse THEN HitSegment(A, hit) ELSE B.index.active
      blob  == IF reuse THEN A.dedup[hit].blob ELSE NextBlobId(B.index)
      entry == IF reuse THEN hit
               ELSE IF useDedup THEN High(DOMAIN B.dedup) + 1 ELSE 0
      C     == IF entry = 0 THEN B
               ELSE IF reuse THEN [B EXCEPT !.dedup[entry].refs = @ + 1]
               ELSE [B EXCEPT !.dedup =
                       With(@, entry, [payload |-> p, blob |-> blob, refs |-> 1])]
      D     == [C EXCEPT !.map = With(@, NextRecordId(@),
                  [block |-> block, seg |-> seg, blob |-> blob, payload |-> p,
                   entry |-> entry, active |-> TRUE])]
  IN  CASE n = 1 -> A [] n = 2 -> B [] n = 3 -> C [] n = 4 -> D

\* The lookup record, the cached index and the clean checkpoint.
Flushed(L) ==
  [L EXCEPT !.lookup = RebuiltLookup(L.map),
            !.index = LET new == {b \in DOMAIN L.segs[@.active] : b >= NextBlobId(@)}
                      IN  IF new = {} THEN @ ELSE RecordBlobAppend(@, High(new)),
            !.ckpt = "clean"]

-----------------------------------------------------------------------------
\* The blob ids the records of a layout use.
BlobIds(map) == {map[r].blob : r \in DOMAIN map}

\* The layout after the first n blocks of InitialTape were appended.
Preloaded[n \in 0..Len(InitialTape)] ==
  IF n = 0 THEN EmptyLayout
  ELSE Flushed(Stage(4, Preloaded[n - 1], n - 1, InitialTape[n].payload, InitialTape[n].dedup))

Init ==
  /\ disk = Preloaded[Len(InitialTape)]
  /\ cursor = None
  /\ pc = "down"
  /\ job = None
  /\ recorded = High(BlobIds(disk.map))
  /\ writes = 0 /\ stops = 0

\* A reset empties the layout and starts the blob ids again.
Recorded(block, map) ==
  High(BlobIds(map) \cup IF block = 0 THEN {} ELSE {recorded})

CanWrite(block) ==
  /\ pc = "down" /\ disk.ckpt = "clean" /\ writes < MaxWrites
  /\ block <= EndOfData(disk.map)
  /\ writes' = writes + 1

\* FALSE when the write finds a dedup entry whose blob is not there.
WritePossible(block, p, useDedup) ==
  LET A == Truncated(disk, block)
      e == HitEntry(A, p, useDedup)
  IN  e # 0 => HitReadable(A, e)

WriteSession(block, p, useDedup) ==
  /\ CanWrite(block) /\ WritePossible(block, p, useDedup)
  /\ disk' = Flushed(Stage(4, disk, block, p, useDedup))
  /\ recorded' = Recorded(block, disk'.map)
  /\ UNCHANGED <<cursor, pc, job, stops>>

\* The session stops after stage n, or its write fails after the first stage.
WriteStops(n, block, p, useDedup) ==
  /\ CanWrite(block) /\ stops < MaxStops
  /\ n = 1 \/ WritePossible(block, p, useDedup)
  /\ disk' = [Stage(n, disk, block, p, useDedup) EXCEPT !.ckpt = "dirty"]
  /\ recorded' = Recorded(block, disk'.map)
  /\ stops' = stops + 1
  /\ UNCHANGED <<cursor, pc, job>>

-----------------------------------------------------------------------------
(* recover_dirty_state, run by a mount or by the reclaim.                  *)

\* validate_active_blob_references_for_recovery.
ActiveBlobsValid(L) ==
  \A r \in Active(L.map) :
    LET rec == L.map[r]
    IN  HasBlob(L, rec.seg, rec.blob) /\ L.segs[rec.seg][rec.blob] = rec.payload

\* Mutant: recovery trusts the lookup log it finds.
RecoverLookupKept ==
  /\ pc = "down" /\ disk.ckpt = "dirty" /\ ActiveBlobsValid(disk)
  /\ pc' = "r_index"
  /\ UNCHANGED <<disk, cursor, job, recorded, bound>>

RecoverLookup ==
  /\ pc = "down" /\ disk.ckpt = "dirty" /\ ActiveBlobsValid(disk)
  /\ disk' = [disk EXCEPT !.lookup = RebuiltLookup(disk.map)]
  /\ pc' = "r_index"
  /\ UNCHANGED <<cursor, job, recorded, bound>>

\* rebuild_segment_index_from_blk_map.  With no Active record segment 0 is
\* written empty first; a stop between the two leaves nothing to lose.
RecoverIndex ==
  LET referenced == {disk.map[r].seg : r \in Active(disk.map)}
      described  == IF referenced = {} THEN {0} ELSE referenced
      segs       == IF referenced = {} THEN With(disk.segs, 0, EmptyFunction) ELSE disk.segs
      active     == High(described)
      scan(s)    == ScannedDescriptor(DOMAIN segs[s], Cardinality(DOMAIN segs[s]))
  IN  /\ pc = "r_index"
      /\ disk' = [disk EXCEPT
            !.segs = segs,
            !.index = [desc |-> [s \in described |->
                         IF s = active
                           THEN [scan(s) EXCEPT !.last = High(BlobIds(disk.map) \cup {@})]
                           ELSE scan(s)],
                       active |-> active,
                       next |-> High(DOMAIN segs) + 1]]
      /\ pc' = "r_dedup"
      /\ UNCHANGED <<cursor, job, recorded, bound>>

\* rebuild_ref_counts keeps the entries that nothing references.
RecoverDedup ==
  /\ pc = "r_dedup"
  /\ disk' = [disk EXCEPT !.dedup =
        [e \in DOMAIN @ |-> [@[e] EXCEPT !.refs = References(disk.map, e)]]]
  /\ pc' = "r_reclaim"
  /\ UNCHANGED <<cursor, job, recorded, bound>>

RecoverReclaim ==
  /\ pc = "r_reclaim"
  /\ disk' = [disk EXCEPT !.reclaim = Refreshed(DOMAIN @, disk.lookup)]
  /\ pc' = "r_clean"
  /\ UNCHANGED <<cursor, job, recorded, bound>>

RecoverClean ==
  /\ pc = "r_clean"
  /\ disk' = [disk EXCEPT !.ckpt = "clean"]
  /\ pc' = "down"
  /\ UNCHANGED <<cursor, job, recorded, bound>>

-----------------------------------------------------------------------------
(* The scan: collect_candidates.                                           *)

\* maintenance_snapshot: a digest of the metadata files.
Snapshot(L) == [L EXCEPT !.segs = {}]

FreshCursor(L) ==
  [snap |-> Snapshot(L), todo |-> DOMAIN L.index.desc, inSegment |-> FALSE,
   content |-> None, source |-> 0, live |-> 0, last |-> 0,
   best |-> None, eligible |-> 0]


\* active_blob_ids_for_segment.
ActiveBlobs(map, s) == {map[r].blob : r \in {q \in Active(map) : map[q].seg = s}}

\* A cursor is resumed only on the metadata it was made from.
ResumedCursor(L) ==
  IF cursor # None /\ cursor.snap = Snapshot(L) THEN cursor ELSE FreshCursor(L)

\* A run of the maintenance process on a clean layout; on a dirty one it
\* recovers first.
BeginReclaim ==
  /\ pc = "down" /\ disk.ckpt = "clean"
  /\ job' = [scan |-> ResumedCursor(disk), headers |-> 0, descriptors |-> 0,
             index |-> disk.index, segment |-> None, live |-> {}, last |-> 0]
  /\ pc' = "scan"
  /\ UNCHANGED <<disk, cursor, recorded, bound>>

\* candidate_summary_precedes: fully dead first, then the most dead blobs,
\* then the lowest segment.
Precedes(a, b) ==
  IF (a.live = 0) # (b.live = 0) THEN a.live = 0
  ELSE \/ a.source - a.live > b.source - b.live
       \/ a.source - a.live = b.source - b.live /\ a.segment < b.segment

Eligible(source, live) ==
  /\ source - live > 0
  /\ live = 0 \/ (source - live) * 100 >= source * MinDeadPercent

\* Mutant: the counts of the headers read in earlier rounds are dropped.
ScannedForgetting(c, s, batch) ==
  [c EXCEPT !.source = Cardinality(batch),
            !.live = Cardinality(batch \cap ActiveBlobs(disk.map, s)),
            !.last = High(batch \cup {@})]

\* The counts of segment s once the headers of batch are read too.
Scanned(c, s, batch) ==
  [c EXCEPT !.source = @ + Cardinality(batch),
            !.live = @ + Cardinality(batch \cap ActiveBlobs(disk.map, s)),
            !.last = High(batch \cup {@})]

\* The segment is read to its end: it may become the best candidate.
SegmentDone(c, s) ==
  LET summary == [segment |-> s, source |-> c.source, live |-> c.live, last |-> c.last]
      chosen  == Eligible(c.source, c.live)
  IN  [c EXCEPT !.todo = @ \ {s}, !.inSegment = FALSE, !.content = None,
                !.source = 0, !.live = 0, !.last = 0,
                !.eligible = IF chosen THEN @ + 1 ELSE @,
                !.best = IF chosen /\ (@ = None \/ Precedes(summary, @))
                           THEN summary ELSE @]

RoundOver ==
  \/ job.headers >= HeadersPerRound
  \/ job.descriptors >= DescriptorsPerRound

\* One descriptor of the scan loop: skipped when it is empty, restarted from
\* the first one when the segment is not the one a cursor stopped in, read as
\* far as the round allows otherwise.
ScanDescriptor ==
  LET s     == Low(job.scan.todo)
      rest  == {b \in DOMAIN disk.segs[s] : b > job.scan.last}
      room  == HeadersPerRound - job.headers
      batch == {b \in rest : Cardinality({x \in rest : x <= b}) <= room}
      read  == Scanned(job.scan, s, batch)
  IN  /\ pc = "scan" /\ job.scan.todo # {} /\ ~RoundOver
      /\ IF disk.index.desc[s].blobs = 0
           THEN job' = [job EXCEPT !.scan = SegmentDone([@ EXCEPT !.source = 0, !.live = 0], s),
                                   !.descriptors = @ + 1]
         ELSE IF job.scan.inSegment /\ job.scan.content # disk.segs[s]
           THEN job' = [job EXCEPT !.scan = FreshCursor(disk), !.headers = 0, !.descriptors = 0]
         ELSE job' = [job EXCEPT
                !.scan = IF batch = rest
                           THEN SegmentDone(read, s)
                           ELSE [read EXCEPT !.inSegment = TRUE, !.content = disk.segs[s]],
                !.headers = @ + Cardinality(batch),
                !.descriptors = @ + 1]
      /\ UNCHANGED <<disk, cursor, pc, recorded, bound>>

\* Mutant: the cursor is not passed on to the next run.
PauseScanForgetting ==
  /\ pc = "scan" /\ job.scan.todo # {} /\ RoundOver
  /\ cursor' = None
  /\ job' = None /\ pc' = "down"
  /\ UNCHANGED <<disk, recorded, bound>>

\* The round ends before the scan does: the run reports a cursor.
PauseScan ==
  /\ pc = "scan" /\ job.scan.todo # {} /\ RoundOver
  /\ cursor' = job.scan
  /\ job' = None /\ pc' = "down"
  /\ UNCHANGED <<disk, recorded, bound>>

NothingToReclaim ==
  /\ pc = "scan" /\ job.scan.todo = {} /\ job.scan.best = None
  /\ cursor' = None
  /\ job' = None /\ pc' = "down"
  /\ UNCHANGED <<disk, recorded, bound>>

\* The candidate, the space reservation and the Commit progress call.
ChooseCandidate ==
  /\ pc = "scan" /\ job.scan.todo = {} /\ job.scan.best # None
  /\ LET best == job.scan.best
     IN  job' = [job EXCEPT !.segment = best.segment, !.last = best.last,
                            !.live = ActiveBlobs(disk.map, best.segment)]
  /\ pc' = "c_dirty"
  /\ UNCHANGED <<disk, cursor, recorded, bound>>

-----------------------------------------------------------------------------
(* The commit: reclaim_one_segment_under_lease from mark_checkpoint_dirty. *)

CommitDirty ==
  /\ pc = "c_dirty"
  /\ disk' = [disk EXCEPT !.ckpt = "dirty"]
  /\ pc' = "c_prune"
  /\ UNCHANGED <<cursor, job, recorded, bound>>

\* Mutant: no Stale record is kept.
PrunedAll(map) == Without(map, DOMAIN map \ Active(map))

\* Mutant: one record per blob is kept.
PrunedPerBlob(map) ==
  Without(map, {r \in DOMAIN map : \E q \in DOMAIN map : q < r /\ map[q].blob = map[r].blob})

\* prune_metadata: the Active records, and the Stale one with the highest blob
\* id when that is above every Active one.  max_by_key takes the last of
\* several maxima; blob ids are shared only by records of the same blob, so
\* any of them bears the same id.
Pruned(map) ==
  LET stale   == DOMAIN map \ Active(map)
      ids     == {map[r].blob : r \in stale}
      witness == {r \in stale : map[r].blob = High(ids)
                              /\ \A a \in Active(map) : map[a].blob < map[r].blob}
  IN  Without(map, stale \ (IF witness = {} THEN {} ELSE {High(witness)}))

FullyDead == job.live = {} /\ job.segment # job.index.active

CommitPrune ==
  /\ pc = "c_prune"
  /\ disk' = [disk EXCEPT !.map = Pruned(@)]
  /\ pc' = IF FullyDead THEN "c_drop" ELSE "c_rewrite"
  /\ UNCHANGED <<cursor, job, recorded, bound>>

\* A dead Sealed segment: its descriptor leaves the index, then the file goes.
CommitDrop ==
  LET kept  == Without(job.index.desc, {job.segment})
      index == [job.index EXCEPT
                  !.desc = [kept EXCEPT ![job.index.active].last = High({@, job.last})]]
  IN  /\ pc = "c_drop"
      /\ job' = [job EXCEPT !.index = index]
      /\ disk' = [disk EXCEPT !.index = index]
      /\ pc' = "c_unlink"
      /\ UNCHANGED <<cursor, recorded, bound>>

CommitUnlink ==
  /\ pc = "c_unlink"
  /\ disk' = [disk EXCEPT !.segs = Without(@, {job.segment})]
  /\ pc' = "c_index"
  /\ UNCHANGED <<cursor, job, recorded, bound>>

\* Mutant: one blob too few is counted.
RewrittenDescriptorShort(d, live, last) ==
  [first |-> IF live = {} THEN 0 ELSE Low(live), last |-> High({d.last, last}),
   blobs |-> Cardinality(live) - 1]

RewrittenDescriptor(d, live, last) ==
  [first |-> IF live = {} THEN 0 ELSE Low(live), last |-> High({d.last, last}),
   blobs |-> Cardinality(live)]

\* rewrite_segment_in_place: the live blobs are staged, synced and renamed
\* over the segment; a stop before the rename leaves a stage file that
\* recovery removes.
CommitRewrite ==
  LET s == job.segment
  IN  /\ pc = "c_rewrite"
      /\ disk' = [disk EXCEPT !.segs[s] = Without(@, DOMAIN @ \ job.live)]
      /\ job' = [job EXCEPT !.index.desc[s] = RewrittenDescriptor(@, job.live, job.last)]
      /\ pc' = "c_index"
      /\ UNCHANGED <<cursor, recorded, bound>>

\* preserve_blob_id_high_water.
HighWater(index, map) ==
  [index EXCEPT !.desc[index.active].last =
     High({index.desc[s].last : s \in DOMAIN index.desc} \cup BlobIds(map))]

CommitIndex ==
  /\ pc = "c_index"
  /\ disk' = [disk EXCEPT !.index = HighWater(job.index, disk.map)]
  /\ pc' = "c_lookup"
  /\ UNCHANGED <<cursor, job, recorded, bound>>

CommitLookup ==
  /\ pc = "c_lookup"
  /\ disk' = [disk EXCEPT !.lookup = RebuiltLookup(disk.map)]
  /\ pc' = "c_dedup"
  /\ UNCHANGED <<cursor, job, recorded, bound>>

\* Mutant: entries nothing references stay, as recovery leaves them.
RecountedKeepingAll(L) ==
  [e \in DOMAIN L.dedup |-> [L.dedup[e] EXCEPT !.refs = References(L.map, e)]]

\* rebuild_dedup_refcounts: only the referenced entries are kept.
Recounted(L) ==
  [e \in {x \in DOMAIN L.dedup : References(L.map, x) > 0} |->
     [L.dedup[e] EXCEPT !.refs = References(L.map, e)]]

EntriesPresent(L) == \A r \in Active(L.map) : L.map[r].entry \in DOMAIN L.dedup \cup {0}

CommitDedup ==
  /\ pc = "c_dedup" /\ EntriesPresent(disk)
  /\ disk' = [disk EXCEPT !.dedup = Recounted(disk)]
  /\ pc' = "c_clean"
  /\ UNCHANGED <<cursor, job, recorded, bound>>

\* flush_pending_writes, and the report without a cursor.
CommitClean ==
  /\ pc = "c_clean"
  /\ disk' = [disk EXCEPT !.ckpt = "clean"]
  /\ cursor' = None
  /\ job' = None /\ pc' = "down"
  /\ UNCHANGED <<recorded, bound>>

\* The process is killed, cancelled by its service, or meets an I/O error.
Stop ==
  /\ pc # "down" /\ stops < MaxStops
  /\ stops' = stops + 1
  /\ job' = None /\ pc' = "down"
  /\ UNCHANGED <<disk, cursor, recorded, writes>>

-----------------------------------------------------------------------------
Recover == RecoverLookup \/ RecoverIndex \/ RecoverDedup \/ RecoverReclaim \/ RecoverClean

Scan == ScanDescriptor \/ PauseScan \/ NothingToReclaim \/ ChooseCandidate

Commit ==
  \/ CommitDirty \/ CommitPrune \/ CommitDrop \/ CommitUnlink \/ CommitRewrite
  \/ CommitIndex \/ CommitLookup \/ CommitDedup \/ CommitClean

Write ==
  \E block \in 0..Len(InitialTape) + MaxWrites, p \in Payload, useDedup \in BOOLEAN :
    \/ WriteSession(block, p, useDedup)
    \/ \E n \in 1..4 : WriteStops(n, block, p, useDedup)

Next == Write \/ Recover \/ BeginReclaim \/ Scan \/ Commit \/ Stop

Spec == Init /\ [][Next]_vars

\* The maintenance service starts a run again and again, and a process that
\* is not stopped takes its next step.
FairSpec == Spec /\ WF_vars(Recover \/ BeginReclaim \/ Scan \/ Commit)

-----------------------------------------------------------------------------
(* Properties.                                                             *)

\* The layout on disk, the worker's memory and the bounds are well formed.
TypeOK ==
  /\ disk.ckpt \in {"clean", "dirty"}
  /\ IsIndex(disk.index)
  /\ \A s \in DOMAIN disk.segs : disk.segs[s] \in [DOMAIN disk.segs[s] -> Payload]
  /\ \A r \in DOMAIN disk.map :
       disk.map[r] \in [block : Nat, seg : Nat, blob : Nat, payload : Payload,
                       entry : Nat, active : BOOLEAN]
  /\ \A e \in DOMAIN disk.dedup :
       disk.dedup[e] \in [payload : Payload, blob : Nat, refs : Nat]
  /\ disk.reclaim \in [DOMAIN disk.reclaim -> BOOLEAN]
  /\ pc \in {"down", "r_index", "r_dedup", "r_reclaim", "r_clean", "scan", "c_dirty",
            "c_prune", "c_drop", "c_unlink", "c_rewrite", "c_index", "c_lookup",
            "c_dedup", "c_clean"}
  /\ writes \in 0..MaxWrites /\ stops \in 0..MaxStops


\* Pruning the Stale records never lets a blob id be handed out twice: the next
\* one is above every id a record of this tape ever used, although most of
\* those records and their blobs are gone (prune_metadata keeps a witness,
\* preserve_blob_id_high_water and recovery carry it to the Active segment).
BlobIdsNeverReused == disk.ckpt = "clean" => NextBlobId(disk.index) > recorded


\* The candidates of the layout as a single uninterrupted scan would see them.
Summaries ==
  {c \in {[segment |-> s,
           source  |-> Cardinality(DOMAIN disk.segs[s]),
           live    |-> Cardinality(DOMAIN disk.segs[s] \cap ActiveBlobs(disk.map, s)),
           last    |-> High(DOMAIN disk.segs[s])] : s \in DOMAIN disk.index.desc} :
     /\ c.source > c.live
     /\ c.live = 0 \/ (c.source - c.live) * 100 >= c.source * MinDeadPercent}

\* A scan spread over several runs, with write sessions, recoveries and other
\* reclaims between them, chooses what one uninterrupted scan of the layout as
\* it is now would choose, and counts the same number of candidates.
CandidateIsBest ==
  pc = "c_dirty" =>
    /\ job.scan.best \in Summaries
    /\ \A c \in Summaries \ {job.scan.best} : Precedes(job.scan.best, c)
    /\ job.scan.eligible = Cardinality(Summaries)

\* Maintenance and recovery never change what the host reads back: only a
\* write session does (prune_metadata, rewrite_segment_in_place).
MaintenanceKeepsTape ==
  [][writes' = writes => TapeOf(disk'.map) = TapeOf(disk.map)]_vars

\* A reclaim that runs to its end leaves no dedup entry behind whose blob it
\* removed: every entry can be hit (rebuild_dedup_refcounts).
ReclaimLeavesNoDanglingEntry ==
  [][pc = "c_clean" /\ pc' = "down" /\ disk'.ckpt = "clean" =>
       \A e \in DOMAIN disk'.dedup : HitReadable(disk', e) /\ HitMatches(disk', e)]_vars

\* Once the writes and the failures are over, repeated maintenance runs free
\* every segment that is worth it and then leave the layout alone, however the
\* scan is cut into rounds.
DeadSpaceReclaimed == <>[](disk.ckpt = "clean" /\ Summaries = {})
=============================================================================

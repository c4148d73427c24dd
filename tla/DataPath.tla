------------------------------ MODULE DataPath -----------------------------
(***************************************************************************)
(* The storage engine of one mounted cartridge:                            *)
(* data-plane/src/storage/data_path.rs with the logs it drives (blk_map.rs,*)
(* map_lookup.rs, dedup.rs, reclaim.rs, segment_index.rs, metadata.rs),    *)
(* mounted and unmounted by media/mount_bridge.rs and written through      *)
(* scsi_tape/command_chain.rs write_data.                                  *)
(*                                                                         *)
(* One process owns a layout (the layout lease), and runs one command at a *)
(* time.  Each action below is one file operation of the running command,  *)
(* so that a crash can fall between any two of them.  pc names the next    *)
(* file operation.                                                         *)
(*                                                                         *)
(* Abstractions: every logical block has length 1; a payload stands for    *)
(* its bytes, its checksum and its fingerprint, all taken collision-free;  *)
(* compression, epochs and record fields no decision reads are left out;   *)
(* records and dedup entries are numbered by their position in their log   *)
(* (nothing in these operations removes one without emptying the log);     *)
(* I/O errors and the alias of segment 1 for 0 in old layouts are left     *)
(* out, and so are filemarks, which the tape state keeps beside the layout.*)
(***************************************************************************)
EXTENDS Integers, Sequences, FiniteSets, SegmentFile, SegmentIndex

CONSTANTS
  Payload,        \* what a host may write in a block
  NoPayload,      \* no command in flight
  SyncEvery,      \* sync_every_writes()
  MaxWrites,      \* bound: write commands issued
  MaxKills,       \* bound: process deaths
  MaxPowerLosses, \* bound: power failures of the machine
  MaxRewinds      \* bound: rewinds after a failed write

ASSUME DataPathAssumption ==
  /\ NoPayload \notin Payload
  /\ SyncEvery \in Nat \ {0}
  /\ MaxWrites \in Nat
  /\ MaxKills \in Nat
  /\ MaxPowerLosses \in Nat
  /\ MaxRewinds \in Nat

VARIABLES
  ckpt,      \* metadata.segment: "clean" or "dirty" (always replaced, durable)
  segs,      \* data_NNNNNN.seg: segment number -> file of (blob id -> payload)
  index,     \* segment_index.segment (always replaced, durable)
  blkMap,    \* blk_map.segment: file of the sequence of records
  lookup,    \* lookup.segment: file of (block -> record number)
  dedup,     \* dedup.segment: file of the sequence of entries
  reclaim,   \* reclaim.segment: record number -> safe_to_reclaim (durable)
  icache,    \* the segment index cached for appends, ahead of index if dirty
  pending,   \* pending_sync_writes
  eod,       \* TapeState.eod_position, in blocks
  pc,        \* the next file operation of the process
  op,        \* the write command in flight
  writes, kills, powerLosses, rewinds   \* counters of the bounds

disk  == <<ckpt, segs, index, blkMap, lookup, dedup, reclaim>>
mem   == <<icache, pending, eod, op>>
bound == <<writes, kills, powerLosses, rewinds>>
vars  == <<disk, mem, pc, bound>>

-----------------------------------------------------------------------------
NoOp == [block |-> 0, payload |-> NoPayload, dedup |-> FALSE,
         seg |-> 0, blob |-> 0, entry |-> 0, tail |-> {}]

\* Records of the block map that are Active, and the logical tape they make.
Active(map) == {i \in DOMAIN map : map[i].active}

MappedBlocks(map) == {map[i].block : i \in Active(map)}

EndOfData(map) == High({b + 1 : b \in MappedBlocks(map)})

RecordOf(map, b) == CHOOSE i \in Active(map) : map[i].block = b

\* load_blob_by_id on a data segment.
HasBlob(s, b) == s \in DOMAIN segs /\ segs[s].ok /\ b \in DOMAIN segs[s].val

\* lookup_identity: the entry inserted last for this payload.
EntriesOf(p) == {e \in DOMAIN dedup.val : dedup.val[e].payload = p}

\* locate_blob_segment_id: the descriptor whose id range covers the blob,
\* otherwise the described segment that holds it.  It reads the index file.
LocateBlobSegment(b) ==
  IF DescriptorForBlob(index, b) # {}
    THEN DescriptorForBlob(index, b)
    ELSE {s \in DOMAIN index.desc : HasBlob(s, b)}

\* rebuild_lookup_from_blk_map.
RebuiltLookup(map) == [b \in MappedBlocks(map) |-> RecordOf(map, b)]

\* refresh_reclaim_safety: a candidate is safe once no lookup points at it.
Refreshed(candidates, look) ==
  [i \in candidates |-> \A b \in DOMAIN look : look[b] # i]

\* How many Active records hold a reference on dedup entry e.
References(map, e) == Cardinality({i \in Active(map) : map[i].entry = e})

EmptyFunction == [x \in {} |-> 0]

-----------------------------------------------------------------------------
\* An unmounted cartridge as reset_layout_for_overwrite leaves it (an erase):
\* segment 0 is empty and every log holds nothing but its prefix.
Init ==
  /\ ckpt = "clean"
  /\ segs = [s \in {0} |-> Replaced(EmptyFunction)]
  /\ index = NewIndex
  /\ blkMap = Replaced(<<>>)
  /\ lookup = Replaced(EmptyFunction)
  /\ dedup = Replaced(<<>>)
  /\ reclaim = EmptyFunction
  /\ icache = NewIndex
  /\ pending = 0
  /\ eod = 0
  /\ pc = "down"
  /\ op = NoOp
  /\ writes = 0 /\ kills = 0 /\ powerLosses = 0 /\ rewinds = 0

-----------------------------------------------------------------------------
(* Mounting: attach_cartridge -> load_layout -> recover_dirty_state.       *)

\* load_layout: every described segment and every log must be well-formed.
LayoutReadable ==
  /\ \A s \in DOMAIN index.desc : s \in DOMAIN segs /\ segs[s].ok
  /\ blkMap.ok /\ lookup.ok /\ dedup.ok

\* A clean layout is used as it is, a dirty one goes through recovery.
MountLayout ==
  /\ pc = "down" /\ LayoutReadable
  /\ icache' = index
  /\ IF ckpt = "clean"
       THEN pc' = "idle" /\ eod' = EndOfData(blkMap.val)
       ELSE pc' = "r_lookup" /\ UNCHANGED eod
  /\ UNCHANGED <<disk, pending, op, bound>>

\* validate_active_blob_references_for_recovery.
ActiveBlobsValid ==
  \A i \in Active(blkMap.val) :
    LET r == blkMap.val[i]
    IN  HasBlob(r.seg, r.blob) /\ segs[r.seg].val[r.blob] = r.payload

\* The mount fails and leaves the layout as it found it.
RefuseMount ==
  /\ \/ pc = "down" /\ ~LayoutReadable
     \/ pc = "r_lookup" /\ ~ActiveBlobsValid
  /\ pc' = "refused"
  /\ icache' = index
  /\ UNCHANGED <<disk, pending, eod, op, bound>>

RetryMount ==
  /\ pc = "refused"
  /\ pc' = "down"
  /\ UNCHANGED <<disk, mem, bound>>

\* Mutant: recovery trusts the lookup log it finds.
RecoverLookupKept ==
  /\ pc = "r_lookup" /\ ActiveBlobsValid
  /\ pc' = "r_index"
  /\ UNCHANGED <<disk, mem, bound>>

\* Mutant: recovery does not validate the Active blobs.
RecoverLookupUnchecked ==
  /\ pc = "r_lookup"
  /\ lookup' = Replaced(RebuiltLookup(blkMap.val))
  /\ pc' = "r_index"
  /\ UNCHANGED <<ckpt, segs, index, blkMap, dedup, reclaim, mem, bound>>

RecoverLookup ==
  /\ pc = "r_lookup" /\ ActiveBlobsValid
  /\ lookup' = Replaced(RebuiltLookup(blkMap.val))
  /\ pc' = "r_index"
  /\ UNCHANGED <<ckpt, segs, index, blkMap, dedup, reclaim, mem, bound>>

ReferencedSegments == {blkMap.val[i].seg : i \in Active(blkMap.val)}

\* rebuild_segment_index_from_blk_map, when no record is Active: segment 0 is
\* rewritten empty before the index is.
RecoverSegmentZero ==
  /\ pc = "r_index" /\ ReferencedSegments = {}
  /\ segs' = [s \in DOMAIN segs \cup {0} |->
                IF s = 0 THEN Replaced(EmptyFunction) ELSE segs[s]]
  /\ pc' = "r_index0"
  /\ UNCHANGED <<ckpt, index, blkMap, lookup, dedup, reclaim, mem, bound>>

\* Mutant: the blob ids of Stale records are forgotten.
RebuiltIndexNoHighWater(referenced) ==
  LET described == IF referenced = {} THEN {0} ELSE referenced
  IN  [desc |-> [s \in described |->
                   ScannedDescriptor(DOMAIN segs[s].val, Cardinality(DOMAIN segs[s].val))],
       active |-> High(described),
       next |-> High(DOMAIN segs \cup described) + 1]

\* Mutant: the next segment number is the last one in use.
RebuiltIndexNextInUse(referenced) ==
  LET described == IF referenced = {} THEN {0} ELSE referenced
  IN  [desc |-> [s \in described |->
                   ScannedDescriptor(DOMAIN segs[s].val, Cardinality(DOMAIN segs[s].val))],
       active |-> High(described),
       next |-> High(described)]

\* The index rebuilt from the referenced segments; the Active descriptor
\* takes over the highest blob id any record, Active or Stale, ever used.
RebuiltIndex(referenced) ==
  LET described == IF referenced = {} THEN {0} ELSE referenced
      active    == High(described)
      highWater == High({blkMap.val[i].blob : i \in DOMAIN blkMap.val})
      scan(s)   == ScannedDescriptor(DOMAIN segs[s].val,
                                     Cardinality(DOMAIN segs[s].val))
  IN  [desc |-> [s \in described |->
                   IF s = active
                     THEN [scan(s) EXCEPT !.last = High({@, highWater})]
                     ELSE scan(s)],
       active |-> active,
       next |-> High(DOMAIN segs \cup described) + 1]

RecoverIndex ==
  /\ \/ pc = "r_index" /\ ReferencedSegments # {}
     \/ pc = "r_index0"
  /\ index' = RebuiltIndex(ReferencedSegments)
  /\ icache' = index'
  /\ pc' = "r_dedup"
  /\ UNCHANGED <<ckpt, segs, blkMap, lookup, dedup, reclaim, pending, eod, op, bound>>

\* rebuild_ref_counts: existing entries only; appended, not synced.
RecountedDedup ==
  [e \in DOMAIN dedup.val |->
     [dedup.val[e] EXCEPT !.refs = References(blkMap.val, e)]]

\* Mutant: recovery keeps the counts it finds.
RecoverDedupKept ==
  /\ pc = "r_dedup"
  /\ pc' = "r_reclaim"
  /\ UNCHANGED <<disk, mem, bound>>

RecoverDedup ==
  /\ pc = "r_dedup"
  /\ dedup' = IF RecountedDedup = dedup.val
                THEN dedup ELSE Appended(dedup, RecountedDedup)
  /\ pc' = "r_reclaim"
  /\ UNCHANGED <<ckpt, segs, index, blkMap, lookup, reclaim, mem, bound>>

RecoverReclaim ==
  /\ pc = "r_reclaim"
  /\ reclaim' = Refreshed(DOMAIN reclaim, lookup.val)
  /\ pc' = "r_clean"
  /\ UNCHANGED <<ckpt, segs, index, blkMap, lookup, dedup, mem, bound>>

\* The clean checkpoint, and hydrate_runtime_from_layout.
RecoverClean ==
  /\ pc = "r_clean"
  /\ ckpt' = "clean"
  /\ eod' = EndOfData(blkMap.val)
  /\ pc' = "idle"
  /\ UNCHANGED <<segs, index, blkMap, lookup, dedup, reclaim, icache, pending, op, bound>>

\* detach_cartridge once the pending writes are flushed, or after a failed
\* write, when nothing is flushed; the caches are discarded.
Unmount ==
  /\ \/ pc = "idle" /\ pending = 0 /\ ckpt = "clean"
     \/ pc = "failed"
  /\ pc' = "down"
  /\ icache' = index /\ pending' = 0 /\ eod' = 0 /\ op' = NoOp
  /\ UNCHANGED <<disk, bound>>

-----------------------------------------------------------------------------
(* write_data at a tape position: mark dirty, drop the tail, write.        *)

BeginWrite(block, p, useDedup) ==
  /\ pc = "idle" /\ writes < MaxWrites
  /\ block <= eod
  /\ ckpt' = "dirty"
  /\ op' = [NoOp EXCEPT !.block = block, !.payload = p, !.dedup = useDedup]
  /\ pc' = IF block >= eod THEN "w_dirty"
           ELSE IF block = 0 THEN "x_map" ELSE "u_stale"
  /\ writes' = writes + 1
  /\ UNCHANGED <<segs, index, blkMap, lookup, dedup, reclaim, icache, pending, eod,
                 kills, powerLosses, rewinds>>

(* reset_layout_for_overwrite: the write starts at the beginning of tape.  *)

\* Mutant: the map is emptied by an append that is not synced.
ResetMapAppended ==
  /\ pc = "x_map"
  /\ blkMap' = Appended(blkMap, <<>>)
  /\ pc' = "x_lookup"
  /\ UNCHANGED <<ckpt, segs, index, lookup, dedup, reclaim, mem, bound>>

ResetMap ==
  /\ pc = "x_map"
  /\ blkMap' = Replaced(<<>>)
  /\ pc' = "x_lookup"
  /\ UNCHANGED <<ckpt, segs, index, lookup, dedup, reclaim, mem, bound>>

ResetLookup ==
  /\ pc = "x_lookup"
  /\ lookup' = Replaced(EmptyFunction)
  /\ pc' = "x_reclaim"
  /\ UNCHANGED <<ckpt, segs, index, blkMap, dedup, reclaim, mem, bound>>

ResetReclaim ==
  /\ pc = "x_reclaim"
  /\ reclaim' = EmptyFunction
  /\ pc' = "x_dedup"
  /\ UNCHANGED <<ckpt, segs, index, blkMap, lookup, dedup, mem, bound>>

ResetDedup ==
  /\ pc = "x_dedup"
  /\ dedup' = Replaced(<<>>)
  /\ pc' = "x_remove"
  /\ UNCHANGED <<ckpt, segs, index, blkMap, lookup, reclaim, mem, bound>>


\* remove_data_segment_files unlinks one segment after the other.
ResetRemoveSegment(s) ==
  /\ pc = "x_remove" /\ s \in DOMAIN segs
  /\ segs' = [t \in DOMAIN segs \ {s} |-> segs[t]]
  /\ UNCHANGED <<ckpt, index, blkMap, lookup, dedup, reclaim, mem, pc, bound>>

ResetSegmentZero ==
  /\ pc = "x_remove" /\ DOMAIN segs = {}
  /\ segs' = [s \in {0} |-> Replaced(EmptyFunction)]
  /\ pc' = "x_index"
  /\ UNCHANGED <<ckpt, index, blkMap, lookup, dedup, reclaim, mem, bound>>

ResetIndex ==
  /\ pc = "x_index"
  /\ index' = NewIndex /\ icache' = NewIndex
  /\ pc' = "x_clean"
  /\ UNCHANGED <<ckpt, segs, blkMap, lookup, dedup, reclaim, pending, eod, op, bound>>

ResetClean ==
  /\ pc = "x_clean"
  /\ ckpt' = "clean"
  /\ pending' = 0 /\ eod' = 0
  /\ pc' = "w_dirty"
  /\ UNCHANGED <<segs, index, blkMap, lookup, dedup, reclaim, icache, op, bound>>

(* run_unmap of every block from the write position to the end of data.    *)

\* Mutant: the block at the write position is not dropped.
TailRecordsAfter == {i \in Active(blkMap.val) : blkMap.val[i].block > op.block}

TailRecords == {i \in Active(blkMap.val) : blkMap.val[i].block >= op.block}

\* mark_blk_map_stale_batch: one append for the whole batch.
UnmapStale ==
  /\ pc = "u_stale"
  /\ blkMap' = Appended(blkMap,
       [i \in DOMAIN blkMap.val |->
          IF i \in TailRecords THEN [blkMap.val[i] EXCEPT !.active = FALSE]
                        ELSE blkMap.val[i]])
  /\ op' = [op EXCEPT !.tail = TailRecords]
  /\ pc' = "u_dedup"
  /\ UNCHANGED <<ckpt, segs, index, lookup, dedup, reclaim, icache, pending, eod, bound>>

Dropped(e) == Cardinality({i \in op.tail : blkMap.val[i].entry = e})

UnmappedEntries == {blkMap.val[i].entry : i \in op.tail} \ {0}

\* decrement_ref_counts: one append for all of them, or an error when an
\* entry is missing or would underflow.
UnmapDedupPossible ==
  \A e \in UnmappedEntries : e \in DOMAIN dedup.val /\ Dropped(e) <= dedup.val[e].refs

UnmapDedup ==
  /\ pc = "u_dedup" /\ UnmapDedupPossible
  /\ dedup' = IF UnmappedEntries = {} THEN dedup
              ELSE Appended(dedup,
                     [e \in DOMAIN dedup.val |->
                        [dedup.val[e] EXCEPT !.refs = @ - Dropped(e)]])
  /\ pc' = "u_lookup"
  /\ UNCHANGED <<ckpt, segs, index, blkMap, lookup, reclaim, mem, bound>>

UnmapLookup ==
  /\ pc = "u_lookup"
  /\ lookup' = Replaced(RebuiltLookup(blkMap.val))
  /\ pc' = "u_reclaim"
  /\ UNCHANGED <<ckpt, segs, index, blkMap, dedup, reclaim, mem, bound>>

\* upsert_reclaim_candidates: the dropped records become candidates.
UnmapCandidates ==
  /\ pc = "u_reclaim"
  /\ reclaim' = [i \in DOMAIN reclaim \cup op.tail |->
                   IF i \in op.tail THEN Refreshed(op.tail, lookup.val)[i] ELSE reclaim[i]]
  /\ pc' = "u_refresh"
  /\ UNCHANGED <<ckpt, segs, index, blkMap, lookup, dedup, mem, bound>>

\* refresh_reclaim_safety, then the end of data moves.
UnmapRefresh ==
  /\ pc = "u_refresh"
  /\ reclaim' = Refreshed(DOMAIN reclaim, lookup.val)
  /\ eod' = op.block
  /\ pc' = "w_dirty"
  /\ UNCHANGED <<ckpt, segs, index, blkMap, lookup, dedup, icache, pending, op, bound>>

(* write_logical_block.                                                    *)

MarkDirty ==
  /\ pc = "w_dirty"
  /\ ckpt' = "dirty"
  /\ pc' = "w_blob"
  /\ UNCHANGED <<segs, index, blkMap, lookup, dedup, reclaim, mem, bound>>

\* The dedup entry of the payload, and the segment its blob is looked for in.
HitEntry == IF op.dedup THEN High(EntriesOf(op.payload)) ELSE 0

HitBlob == dedup.val[HitEntry].blob

HitSegment == Low(LocateBlobSegment(HitBlob))

HitReadable == LocateBlobSegment(HitBlob) # {} /\ HasBlob(HitSegment, HitBlob)

\* dedup_entry_matches_payload.
HitMatches == HitReadable /\ segs[HitSegment].val[HitBlob] = op.payload

\* upsert_dedup_entry of an identical payload: one more reference.
ReuseBlob ==
  /\ pc = "w_blob" /\ HitEntry # 0 /\ HitMatches
  /\ dedup' = Appended(dedup, [dedup.val EXCEPT ![HitEntry].refs = @ + 1])
  /\ op' = [op EXCEPT !.seg = HitSegment, !.blob = HitBlob, !.entry = HitEntry]
  /\ pc' = "w_map"
  /\ UNCHANGED <<ckpt, segs, index, blkMap, lookup, reclaim, icache, pending, eod, bound>>

NeedsBlob == HitEntry # 0 => (HitReadable /\ ~HitMatches)

\* prepare_active_segment_for_append: the next segment file, then the index.
RotateFile ==
  /\ pc = "w_blob" /\ NeedsBlob /\ ShouldRotate(icache)
  /\ segs' = [s \in DOMAIN segs \cup {icache.next} |->
                IF s = icache.next THEN Replaced(EmptyFunction) ELSE segs[s]]
  /\ pc' = "w_rotate"
  /\ UNCHANGED <<ckpt, index, blkMap, lookup, dedup, reclaim, mem, bound>>

RotateIndex ==
  /\ pc = "w_rotate"
  /\ index' = RotatedIndex(icache) /\ icache' = RotatedIndex(icache)
  /\ pc' = "w_append"
  /\ UNCHANGED <<ckpt, segs, blkMap, lookup, dedup, reclaim, pending, eod, op, bound>>

Appending ==
  \/ pc = "w_blob" /\ NeedsBlob /\ ~ShouldRotate(icache)
  \/ pc = "w_append"

WithBlob(content, b, p) ==
  [x \in DOMAIN content \cup {b} |-> IF x = b THEN p ELSE content[x]]

\* append_data_blob: the first blob of a segment replaces the file, later
\* ones are appended without a sync.  Only the cached index learns of it.
AppendBlob ==
  /\ Appending
  /\ LET s == icache.active
         b == NextBlobId(icache)
         v == WithBlob(segs[s].val, b, op.payload)
     IN  /\ segs' = [segs EXCEPT ![s] = IF DOMAIN segs[s].val = {}
                                          THEN Replaced(v) ELSE Appended(segs[s], v)]
         /\ op' = [op EXCEPT !.seg = s, !.blob = b]
         /\ icache' = RecordBlobAppend(icache, b)
  /\ pc' = IF op.dedup THEN "w_dedup" ELSE "w_map"
  /\ UNCHANGED <<ckpt, index, blkMap, lookup, dedup, reclaim, pending, eod, bound>>

\* upsert_dedup_entry of a new payload, insert_dedup_collision_entry.
InsertEntry ==
  /\ pc = "w_dedup"
  /\ dedup' = Appended(dedup, Append(dedup.val,
                [payload |-> op.payload, blob |-> op.blob, refs |-> 1]))
  /\ op' = [op EXCEPT !.entry = Len(dedup.val) + 1]
  /\ pc' = "w_map"
  /\ UNCHANGED <<ckpt, segs, index, blkMap, lookup, reclaim, icache, pending, eod, bound>>

\* append_blk_map_record.
AppendRecord ==
  /\ pc = "w_map"
  /\ blkMap' = Appended(blkMap, Append(blkMap.val,
                 [block |-> op.block, seg |-> op.seg, blob |-> op.blob,
                  payload |-> op.payload, entry |-> op.entry, active |-> TRUE]))
  /\ pc' = "w_lookup"
  /\ UNCHANGED <<ckpt, segs, index, lookup, dedup, reclaim, mem, bound>>

\* append_lookup_record and record_pending_write; the command is
\* acknowledged here unless the write is the SyncEvery-th pending one.
AppendLookup ==
  /\ pc = "w_lookup"
  /\ lookup' = Appended(lookup, WithBlob(lookup.val, op.block, Len(blkMap.val)))
  /\ pending' = pending + 1
  /\ eod' = op.block + 1
  /\ op' = NoOp
  /\ pc' = IF pending + 1 >= SyncEvery THEN "w_sync" ELSE "idle"
  /\ UNCHANGED <<ckpt, segs, index, blkMap, dedup, reclaim, icache, bound>>

\* A decrement or a dedup hit returns an error.  finish_write_command sets
\* requires_recovery, which stops reads and writes until the next load, and
\* discards the caches, the index that is ahead of its file included.
FailCommand ==
  /\ \/ pc = "u_dedup" /\ ~UnmapDedupPossible
     \/ pc = "w_blob" /\ HitEntry # 0 /\ ~HitReadable
  /\ pc' = "failed"
  /\ op' = NoOp
  /\ icache' = index /\ pending' = 0
  /\ UNCHANGED <<disk, eod, bound>>

\* rewind_media does not ask for requires_recovery: it syncs what the index
\* file describes and marks the layout clean, one step here because a crash
\* inside it leaves what a crash before it may leave.
RewindFailed ==
  /\ pc = "failed" /\ ckpt = "dirty" /\ rewinds < MaxRewinds
  /\ rewinds' = rewinds + 1
  /\ segs' = [s \in DOMAIN segs |->
                IF s \in DOMAIN index.desc THEN Synced(segs[s]) ELSE segs[s]]
  /\ blkMap' = Synced(blkMap) /\ lookup' = Synced(lookup) /\ dedup' = Synced(dedup)
  /\ ckpt' = "clean"
  /\ UNCHANGED <<index, reclaim, mem, pc, writes, kills, powerLosses>>

(* sync_layout_segments and the clean checkpoint.                          *)

FlushPending ==
  /\ pc = "idle" /\ (pending > 0 \/ ckpt = "dirty")
  /\ pc' = "w_sync"
  /\ UNCHANGED <<disk, mem, bound>>

\* sync_indexed_segments: the described segments.  A power failure between
\* two of these syncs has an outcome that one before them has as well.
SyncSegments ==
  /\ pc = "w_sync"
  /\ segs' = [s \in DOMAIN segs |->
                IF s \in DOMAIN icache.desc THEN Synced(segs[s]) ELSE segs[s]]
  /\ pc' = "w_index"
  /\ UNCHANGED <<ckpt, index, blkMap, lookup, dedup, reclaim, mem, bound>>

\* flush_segment_index_for_append: nothing to store unless it is dirty.
FlushIndex ==
  /\ pc = "w_index"
  /\ index' = icache
  /\ pc' = "w_logs"
  /\ UNCHANGED <<ckpt, segs, blkMap, lookup, dedup, reclaim, mem, bound>>

\* Mutant: the block map is left unsynced.
SyncLogsNotMap ==
  /\ pc = "w_logs"
  /\ lookup' = Synced(lookup) /\ dedup' = Synced(dedup)
  /\ pc' = "w_clean"
  /\ UNCHANGED <<ckpt, segs, index, blkMap, reclaim, mem, bound>>

SyncLogs ==
  /\ pc = "w_logs"
  /\ blkMap' = Synced(blkMap) /\ lookup' = Synced(lookup) /\ dedup' = Synced(dedup)
  /\ pc' = "w_clean"
  /\ UNCHANGED <<ckpt, segs, index, reclaim, mem, bound>>

MarkClean ==
  /\ pc = "w_clean"
  /\ ckpt' = "clean" /\ pending' = 0
  /\ pc' = "idle"
  /\ UNCHANGED <<segs, index, blkMap, lookup, dedup, reclaim, icache, eod, op, bound>>

-----------------------------------------------------------------------------
(* Crashes.                                                                *)

Running == pc \notin {"down", "refused"}

LoseMemory ==
  /\ pc' = "down"
  /\ pending' = 0 /\ eod' = 0 /\ op' = NoOp

\* The process dies between two file operations.  What it wrote is in the
\* operating system's cache and survives.
Kill ==
  /\ Running /\ kills < MaxKills
  /\ kills' = kills + 1
  /\ LoseMemory /\ icache' = index
  /\ UNCHANGED <<disk, writes, powerLosses, rewinds>>

\* The process dies inside an in-place append.
KillInAppend ==
  /\ Running /\ kills < MaxKills
  /\ \/ /\ pc \in {"u_stale", "w_map"}
        /\ blkMap' = TornAppend(blkMap) /\ UNCHANGED <<segs, lookup, dedup>>
     \/ /\ \/ pc = "w_dedup"
           \/ pc = "u_dedup" /\ UnmappedEntries # {} /\ UnmapDedupPossible
           \/ pc = "w_blob" /\ HitEntry # 0 /\ HitMatches
           \/ pc = "r_dedup" /\ RecountedDedup # dedup.val
        /\ dedup' = TornAppend(dedup) /\ UNCHANGED <<segs, blkMap, lookup>>
     \/ /\ pc = "w_lookup"
        /\ lookup' = TornAppend(lookup) /\ UNCHANGED <<segs, blkMap, dedup>>
     \/ /\ Appending /\ DOMAIN segs[icache.active].val # {}
        /\ segs' = [segs EXCEPT ![icache.active] = TornAppend(@)]
        /\ UNCHANGED <<blkMap, lookup, dedup>>
  /\ kills' = kills + 1
  /\ LoseMemory /\ icache' = index
  /\ UNCHANGED <<ckpt, index, reclaim, writes, powerLosses, rewinds>>

\* The machine loses power: of every file, any content since its last sync.
PowerLoss ==
  /\ powerLosses < MaxPowerLosses
  /\ powerLosses' = powerLosses + 1
  /\ \E choice \in [DOMAIN segs -> UNION {PowerLossOutcomes(segs[s]) : s \in DOMAIN segs}] :
       /\ \A s \in DOMAIN segs : choice[s] \in PowerLossOutcomes(segs[s])
       /\ segs' = choice
  /\ blkMap' \in PowerLossOutcomes(blkMap)
  /\ lookup' \in PowerLossOutcomes(lookup)
  /\ dedup' \in PowerLossOutcomes(dedup)
  /\ LoseMemory /\ icache' = index
  /\ UNCHANGED <<ckpt, index, reclaim, writes, kills, rewinds>>

-----------------------------------------------------------------------------
Mount == MountLayout \/ RefuseMount \/ RetryMount

Recover ==
  \/ RecoverLookup \/ RecoverSegmentZero \/ RecoverIndex
  \/ RecoverDedup \/ RecoverReclaim \/ RecoverClean

Reset ==
  \/ ResetMap \/ ResetLookup \/ ResetReclaim \/ ResetDedup
  \/ \E s \in DOMAIN segs : ResetRemoveSegment(s)
  \/ ResetSegmentZero \/ ResetIndex \/ ResetClean

Unmap == UnmapStale \/ UnmapDedup \/ UnmapLookup \/ UnmapCandidates \/ UnmapRefresh

Write ==
  \/ MarkDirty \/ ReuseBlob \/ RotateFile \/ RotateIndex \/ AppendBlob
  \/ InsertEntry \/ AppendRecord \/ AppendLookup \/ FailCommand

Flush == FlushPending \/ SyncSegments \/ FlushIndex \/ SyncLogs \/ MarkClean

Next ==
  \/ Mount \/ Recover \/ Unmount
  \/ \E block \in 0..eod, p \in Payload, d \in BOOLEAN : BeginWrite(block, p, d)
  \/ Reset \/ Unmap \/ Write \/ Flush \/ RewindFailed
  \/ Kill \/ KillInAppend \/ PowerLoss

Spec == Init /\ [][Next]_vars

\* A command or a recovery in progress runs on: one thread executes it and
\* nothing in it waits.  Mounting, writing, flushing and unloading are the
\* host's choice.
Progress ==
  \/ Recover \/ Reset \/ Unmap \/ Write
  \/ SyncSegments \/ FlushIndex \/ SyncLogs \/ MarkClean

FairSpec == Spec /\ WF_vars(Progress)

-----------------------------------------------------------------------------
(* Types.                                                                  *)

Record == [block : Nat, seg : Nat, blob : Nat, payload : Payload,
           entry : Nat, active : BOOLEAN]

Entry == [payload : Payload, blob : Nat, refs : Int]

IsFile(f) == f = [val |-> f.val, old |-> f.old, ok |-> f.ok] /\ f.ok \in BOOLEAN

IsBlobs(v) ==
  /\ v = [b \in DOMAIN v |-> v[b]]
  /\ DOMAIN v \subseteq Nat /\ \A b \in DOMAIN v : v[b] \in Payload

IsLookup(v) ==
  /\ v = [b \in DOMAIN v |-> v[b]]
  /\ DOMAIN v \subseteq Nat /\ \A b \in DOMAIN v : v[b] \in Nat

CommandSteps ==
  {"x_map", "x_lookup", "x_reclaim", "x_dedup", "x_remove", "x_index", "x_clean",
   "u_stale", "u_dedup", "u_lookup", "u_reclaim", "u_refresh",
   "w_dirty", "w_blob", "w_rotate", "w_append", "w_dedup", "w_map", "w_lookup"}

RecoverySteps == {"r_lookup", "r_index", "r_index0", "r_dedup", "r_reclaim", "r_clean"}

\* Every variable keeps its type, and a command in progress has a payload.
TypeOK ==
  /\ ckpt \in {"clean", "dirty"}
  /\ DOMAIN segs \subseteq Nat
  /\ \A s \in DOMAIN segs :
       IsFile(segs[s]) /\ IsBlobs(segs[s].val) /\ \A v \in segs[s].old : IsBlobs(v)
  /\ IsIndex(index) /\ IsIndex(icache)
  /\ blkMap \in FileOf(Seq(Record))
  /\ IsFile(lookup) /\ IsLookup(lookup.val) /\ \A v \in lookup.old : IsLookup(v)
  /\ dedup \in FileOf(Seq(Entry))
  /\ DOMAIN reclaim \subseteq Nat /\ reclaim \in [DOMAIN reclaim -> BOOLEAN]
  /\ pending \in Nat /\ eod \in Nat
  /\ pc \in {"down", "refused", "idle", "failed", "w_sync", "w_index", "w_logs", "w_clean"}
           \cup RecoverySteps \cup CommandSteps
  /\ pc \in CommandSteps => op.payload \in Payload
  /\ op \in [block : Nat, payload : Payload \cup {NoPayload}, dedup : BOOLEAN,
             seg : Nat, blob : Nat, entry : Nat, tail : SUBSET Nat]
  /\ writes \in Nat /\ kills \in Nat
  /\ powerLosses \in Nat /\ rewinds \in Nat

-----------------------------------------------------------------------------
(* Safety.  Most guarantees survive any number of process deaths, or one   *)
(* power failure, but not a power failure after either: recovery marks the *)
(* layout clean without syncing it.  None survives a rewind after a failed *)
(* write, which keeps recovery from running.                               *)

Undisturbed == powerLosses = 0 /\ rewinds = 0

Survivable == Undisturbed \/ (rewinds = 0 /\ powerLosses = 1 /\ kills = 0)

\* No stored block is lost to housekeeping: as long as the machine keeps
\* power and recovery is not skipped, the blob of every Active record is in the record's segment with
\* the payload that was written, whatever is rotated, reset, rebuilt or
\* reused and wherever the process dies.
ActiveBlobsPresent ==
  Undisturbed =>
    \A i \in Active(blkMap.val) :
      LET r == blkMap.val[i]
      IN  /\ r.seg \in DOMAIN segs
          /\ r.blob \in DOMAIN segs[r.seg].val
          /\ segs[r.seg].val[r.blob] = r.payload

\* The descriptors cover the blobs that are in the segments.
DescribesBlobs(ix) ==
  \A s \in DOMAIN ix.desc \cap DOMAIN segs :
    \A b \in DOMAIN segs[s].val : b <= ix.desc[s].last

Mounted == pc \notin {"down", "refused", "failed", "r_lookup", "r_index", "r_index0"}

InFlightBlobPresent ==
  /\ op.seg \in DOMAIN segs /\ op.seg < index.next
  /\ op.blob \in DOMAIN segs[op.seg].val
  /\ segs[op.seg].val[op.blob] = op.payload

\* Why ActiveBlobsPresent is never broken: segment numbers in use lie below
\* next_segment_seq, a mounted index covers every blob id in use, a clean
\* checkpoint vouches for the index file, and nothing is mapped while a
\* reset removes segments.
StorageInvariant ==
  Undisturbed =>
    /\ ActiveBlobsPresent
    /\ \A i \in Active(blkMap.val) : blkMap.val[i].seg < index.next
    /\ \A s \in DOMAIN index.desc : s < index.next
    /\ icache.next = index.next /\ DOMAIN icache.desc = DOMAIN index.desc
    /\ Mounted => DescribesBlobs(icache)
    /\ ckpt = "clean" => DescribesBlobs(index)
    /\ pc \in {"w_blob", "w_rotate", "w_append"} => ckpt = "dirty"
    /\ pc \in {"r_dedup", "r_reclaim", "r_clean", "x_clean", "w_logs", "w_clean"}
         => index = icache
    /\ Mounted /\ pc \notin {"x_remove", "x_index"} => DOMAIN icache.desc \subseteq DOMAIN segs
    /\ pc \in {"x_lookup", "x_reclaim", "x_dedup", "x_remove", "x_index", "x_clean"}
         => blkMap.val = <<>>
    /\ pc = "x_index" => 0 \in DOMAIN segs /\ DOMAIN segs[0].val = {}
    /\ pc = "w_rotate" => icache.next \in DOMAIN segs /\ DOMAIN segs[icache.next].val = {}
    /\ pc \in {"w_dedup", "w_map"} => InFlightBlobPresent

\* read_logical_block: block -> lookup -> record -> blob of that segment.
BlockReadable(b) ==
  /\ b \in DOMAIN lookup.val
  /\ lookup.val[b] \in Active(blkMap.val)
  /\ LET r == blkMap.val[lookup.val[b]]
     IN  /\ r.block = b
         /\ r.seg \in DOMAIN icache.desc /\ HasBlob(r.seg, r.blob)
         /\ segs[r.seg].val[r.blob] = r.payload

\* Between two commands every block before the end of data reads back through
\* read_logical_block, has one Active record, and nothing is mapped past it.
MountedTapeReadable ==
  (pc = "idle" /\ Survivable) =>
    /\ \A b \in 0..(eod - 1) : BlockReadable(b)
    /\ MappedBlocks(blkMap.val) = 0..(eod - 1)
    /\ DOMAIN lookup.val = 0..(eod - 1)
    /\ Cardinality(Active(blkMap.val)) = eod

\* append_blk_map_record never meets the active logical-range overlap it
\* rejects: the tail was dropped before, and recovery left no leftover.
AppendNeverConflicts ==
  (pc = "w_map" /\ Survivable) => op.block \notin MappedBlocks(blkMap.val)

\* A blob id handed out by append_data_blob is in no described segment and
\* no record, Active or Stale, ever held it, after any crash and recovery.
BlobIdsFresh ==
  (Appending /\ Survivable) =>
    /\ \A s \in DOMAIN icache.desc : NextBlobId(icache) \notin DOMAIN segs[s].val
    /\ \A i \in DOMAIN blkMap.val : blkMap.val[i].blob # NextBlobId(icache)

\* After any crash and recovery a layout can be read and written on: the whole
\* tape reads back, the next record meets no other, and its blob id is fresh.
LayoutUsable == MountedTapeReadable /\ AppendNeverConflicts /\ BlobIdsFresh

CandidatesMatch == \A i \in DOMAIN reclaim : reclaim[i] <=> i \notin Active(blkMap.val)

\* A mounted, idle layout counts the references of every dedup entry right, and
\* its reclaim candidates are safe exactly if their records are Stale: what a
\* crash left between a record and the files that follow it (run_unmap), recovery
\* has repaired.
BookkeepingFollowsMap ==
  (pc = "idle" /\ Undisturbed) =>
    /\ \A e \in DOMAIN dedup.val : dedup.val[e].refs = References(blkMap.val, e)
    /\ CandidatesMatch

PowerFails == powerLosses' > powerLosses

\* Map, lookup and every blob of the map come through a crash as they were.
TapeUntouched ==
  /\ UNCHANGED <<blkMap, lookup>>
  /\ \A i \in Active(blkMap.val) : segs'[blkMap.val[i].seg] = segs[blkMap.val[i].seg]

\* What flush_pending_writes or an unload made clean survives: a first power
\* failure that finds a clean checkpoint, in whatever step of a command,
\* loses nothing of the tape.
FlushedTapeSurvives ==
  [][(PowerFails /\ ckpt = "clean" /\ kills = 0 /\ Undisturbed) => TapeUntouched]_vars


-----------------------------------------------------------------------------
(* What the repository's documents say, and the code does not do.          *)

\* README.md "no data loss on power failure": a power failure between two
\* commands keeps every acknowledged block.
AckedBlocksSurvive ==
  [][(PowerFails /\ pc = "idle") => blkMap'.val = blkMap.val]_vars

\* test_recovery_contract.md "durable active mappings": once recovery has
\* marked the layout clean, what it recovered survives a power failure.
RecoveredTapeSurvives ==
  [][(PowerFails /\ pc = "idle" /\ ckpt = "clean") => TapeUntouched]_vars

\* test_dedup_index_contract.md "Identical payload writes MUST reuse existing
\* dedup entry": the entry write_logical_block finds leads to its blob.
DedupHitsReadable ==
  (pc = "w_blob" /\ HitEntry # 0 /\ powerLosses = 0) => HitReadable

Torn ==
  \/ ~blkMap.ok \/ ~lookup.ok \/ ~dedup.ok
  \/ \E s \in DOMAIN segs : ~segs[s].ok

\* README.md "Dirty checkpoint recovery on restart": a cartridge whose process
\* died between two file operations mounts again.
KilledLayoutMounts ==
  (pc = "refused" /\ powerLosses = 0) => Torn

\* command_chain_tests.rs "must prevent further writes until recovery": a
\* mount that accepts writes has an index that covers the stored blobs, also
\* after a write failed and the layout was loaded again.
WritesWaitForRecovery ==
  (pc = "idle" /\ powerLosses = 0) => DescribesBlobs(icache)

-----------------------------------------------------------------------------
(* The data path implements the logical tape.                              *)

\* The Active records map blocks 0..n-1; a gap has no tape.
TapeOf(map) ==
  LET active == Active(map)
  IN  [n \in 1..Cardinality(active) |->
         map[CHOOSE i \in active : map[i].block = n - 1].payload]

Tape == INSTANCE LogicalTape WITH
          tape    <- TapeOf(blkMap.val),
          maybe   <- {TapeOf(m) : m \in blkMap.old},
          damaged <- ~(blkMap.ok /\ ActiveBlobsValid)

\* Every step of write, recovery or crash is a step of the logical tape: only
\* truncating and appending change it, a process death never does, a power
\* failure brings back one of the tapes since the last sync, and a tape with
\* an unreadable block is never written to.
ImplementsLogicalTape == Tape!Spec
=============================================================================

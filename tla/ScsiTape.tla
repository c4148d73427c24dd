------------------------------ MODULE ScsiTape -----------------------------
(***************************************************************************)
(* The tape a host sees on one drive: data-plane/src/scsi_tape/            *)
(* command_chain.rs over the layout of the cartridge, loaded and unloaded  *)
(* by media/mount_bridge.rs, with filemarks and retention kept beside the  *)
(* layout by storage/runtime_state.rs.                                     *)
(*                                                                         *)
(* The layout is taken at the level of LogicalTape: its Active records     *)
(* change in one step per call, and a power failure brings back a set of   *)
(* records since the last sync.  A write or erase makes several such       *)
(* calls; each is an action, so a crash or an error falls between any two. *)
(*                                                                         *)
(* Abstractions: positions count units of which DefaultBlock make the      *)
(* default block size; the id of a record stands for its payload; the      *)
(* cartridge has one partition; reservations are in Reservation; a list of *)
(* filemarks is a bag, as no operation depends on its order.               *)
(***************************************************************************)
EXTENDS Integers, FiniteSets, Bags

CONSTANTS
  DefaultBlock,  \* BlockModeProfile::default
  Modes,         \* block modes a host selects: a fixed size, or 0 for variable
  Lengths,       \* lengths of blocks written in variable mode
  Policies,      \* retention policies an operator sets
  Capacity,      \* active_partition_capacity_limit
  MaxTransfer,   \* bound: blocks or filemarks of one command
  MaxWrites,     \* bound: blocks written
  MaxMarks,      \* bound: filemarks on the tape
  MaxFailures,   \* bound: commands that fail in the layout
  MaxCrashes,    \* bound: process deaths
  MaxPowerLosses,\* bound: power failures of the machine
  MaxFormats     \* bound: FORMAT MEDIUM commands

ASSUME ScsiTapeAssumption ==
  /\ DefaultBlock \in Nat \ {0}
  /\ Modes \subseteq Nat
  /\ Lengths \subseteq Nat \ {0}
  /\ Policies \subseteq [worm : BOOLEAN, locked : BOOLEAN]
  /\ {Capacity, MaxTransfer, MaxWrites, MaxMarks} \subseteq Nat
  /\ {MaxFailures, MaxCrashes, MaxPowerLosses, MaxFormats} \subseteq Nat

VARIABLES
  records,    \* Active records of the block map: start -> [len, id, marks]
  since,      \* the records a power failure may bring back
  ckpt,       \* the checkpoint flag
  marks,      \* filemarks.state
  retention,  \* retention.state
  loaded, pos, eod, filemarks, blocks,   \* TapeState
  mode,       \* block_mode: the fixed block size, 0 for variable
  policy,     \* retention_policy
  recovery,   \* requires_recovery
  formatted,  \* history: FORMAT MEDIUM since the last erase
  pc,         \* the next call of the running command
  op,         \* the blocks or filemarks it has yet to write
  writes, failures, crashes, powerLosses, formats   \* counters of the bounds

layout == <<records, since, ckpt, marks, retention>>
medium == <<pos, eod, filemarks, blocks>>
drive  == <<loaded, medium, mode, policy, recovery, formatted>>
bound  == <<writes, failures, crashes, powerLosses, formats>>
vars   == <<layout, drive, pc, op, bound>>

NoRecords == [s \in {} |-> 0]
NoPolicy  == [worm |-> FALSE, locked |-> FALSE]
NoOp      == [len |-> 0, left |-> 0]

Larger(a, b)  == IF a > b THEN a ELSE b
Largest(S)    == CHOOSE n \in S : \A m \in S : m <= n
Keep(f, S)    == [s \in DOMAIN f \cap S |-> f[s]]
End(f, s)     == s + f[s].len
Lens(recs)    == [s \in DOMAIN recs |-> [len |-> recs[s].len]]
Overlaps(recs, from, to) == {s \in DOMAIN recs : s < to /\ End(recs, s) > from}

Init ==
  /\ records = NoRecords /\ since = {NoRecords} /\ ckpt = "clean"
  /\ marks = EmptyBag /\ retention = NoPolicy
  /\ loaded = FALSE /\ pos = 0 /\ eod = 0
  /\ filemarks = EmptyBag /\ blocks = NoRecords
  /\ mode = DefaultBlock /\ policy = NoPolicy /\ recovery = FALSE /\ formatted = FALSE
  /\ pc = "idle" /\ op = NoOp
  /\ writes = 0 /\ failures = 0 /\ crashes = 0 /\ powerLosses = 0 /\ formats = 0

-----------------------------------------------------------------------------
(* Loading and unloading.                                                  *)

\* hydrate_runtime_from_layout, when no filemark is stored: the first record
\* that counts filemarks before it places them all, directly before it.
ReconstructedMarks(recs) ==
  LET counting == {s \in DOMAIN recs : recs[s].marks > 0}
  IN  IF counting = {} THEN EmptyBag
      ELSE LET first == CHOOSE s \in counting : \A r \in counting : s <= r
               n     == recs[first].marks
               from  == Larger(0, first - n * DefaultBlock)
           IN  SetToBag({from + k * DefaultBlock : k \in 0..(n - 1)})

HydratedMarks(recs, stored) == IF stored = EmptyBag THEN ReconstructedMarks(recs) ELSE stored

\* Mutant: the filemarks do not count for the end of data.
HydratedEndBlocksOnly(recs, fm) ==
  Largest({0} \cup {End(recs, s) : s \in DOMAIN recs})

\* The end of the last block, or of the last filemark, which is taken to be
\* as long as a block of the default mode.
HydratedEnd(recs, fm) ==
  Largest({0} \cup {End(recs, s) : s \in DOMAIN recs}
              \cup {m + DefaultBlock : m \in BagToSet(fm)})

\* attach_cartridge.  Recovery of a dirty layout keeps its Active records and
\* marks it clean without a sync.
LoadMedia ==
  /\ pc = "idle" /\ ~loaded
  /\ loaded' = TRUE /\ recovery' = FALSE
  /\ ckpt' = "clean"
  /\ filemarks' = HydratedMarks(records, marks)
  /\ blocks' = Lens(records)
  /\ pos' = 0 /\ eod' = HydratedEnd(records, filemarks')
  /\ mode' = DefaultBlock /\ policy' = retention
  /\ UNCHANGED <<records, since, marks, retention, formatted, pc, op, bound>>

\* TapeState::unmount.
Unmounted ==
  /\ loaded' = FALSE /\ pos' = 0 /\ eod' = 0
  /\ filemarks' = EmptyBag /\ blocks' = NoRecords
  /\ mode' = DefaultBlock /\ policy' = NoPolicy /\ recovery' = FALSE

\* flush_pending_writes: a clean checkpoint has nothing pending.
FlushPending ==
  /\ ckpt' = "clean"
  /\ since' = IF ckpt = "clean" THEN since ELSE {records}

\* detach_cartridge: after a failed command nothing is flushed.
UnloadMedia ==
  /\ pc = "idle" /\ loaded
  /\ IF recovery THEN UNCHANGED <<since, ckpt>> ELSE FlushPending
  /\ Unmounted
  /\ UNCHANGED <<records, marks, retention, formatted, pc, op, bound>>

\* LOAD UNLOAD on a loaded tape.
LoadLoaded ==
  /\ pc = "idle" /\ loaded
  /\ pos' = 0
  /\ UNCHANGED <<layout, loaded, eod, filemarks, blocks, mode, policy, recovery, formatted,
                 pc, op, bound>>

\* rewind_media flushes, also after a failed command.
RewindMedia ==
  /\ pc = "idle" /\ loaded
  /\ FlushPending
  /\ pos' = 0
  /\ UNCHANGED <<records, marks, retention, loaded, eod, filemarks, blocks, mode, policy,
                 recovery, formatted, pc, op, bound>>

-----------------------------------------------------------------------------
(* Commands that write.  finish_write_command ends one that met an error.  *)

Running(step) == loaded /\ pc = step

FailedCommand ==
  /\ failures < MaxFailures /\ failures' = failures + 1
  /\ recovery' = TRUE /\ pc' = "idle" /\ op' = NoOp

\* A call returned an error before it changed the layout.
FailCommand ==
  /\ loaded /\ pc # "idle"
  /\ FailedCommand
  /\ UNCHANGED <<layout, loaded, medium, mode, policy, formatted,
                 writes, crashes, powerLosses, formats>>

\* enforce_protected_access, the reservation apart.
WriteProtected == policy.worm /\ policy.locked

WriteReady == loaded /\ pc = "idle" /\ ~recovery /\ ~WriteProtected

\* Mutant: a position before the end of data is not protected.
AppendAllowedAnywhere == TRUE

\* enforce_worm_append_only.
AppendAllowed == ~(policy.worm /\ pos < eod)

\* write_data and write_fixed_blocks, up to mark_checkpoint_dirty.
BeginWrite(len, n) ==
  /\ WriteReady /\ AppendAllowed
  /\ IF mode = 0 THEN len \in Lengths /\ n = 1 ELSE len = mode
  /\ pos + n * len <= Capacity
  /\ writes + n <= MaxWrites
  /\ ckpt' = "dirty"
  /\ op' = [len |-> len, left |-> n]
  /\ pc' = IF pos < eod THEN "t_layout" ELSE "w_block"
  /\ UNCHANGED <<records, since, marks, retention, drive, bound>>

\* reset_layout_for_overwrite: every file is replaced.
ResetLayout == records' = NoRecords /\ since' = {NoRecords}

\* Mutant: only records that start in the dropped range are unmapped.
UnmapRangeStarts(from, to) ==
  /\ records' = Keep(records, DOMAIN records \ {s \in DOMAIN records : from <= s /\ s < to})
  /\ since' = since \cup {records'}

\* run_unmap: every record with a part in the range goes stale.
UnmapRange(from, to) ==
  /\ records' = Keep(records, DOMAIN records \ Overlaps(records, from, to))
  /\ since' = since \cup {records'}

TruncateLayout == IF pos = 0 THEN ResetLayout ELSE UnmapRange(pos, eod)

\* truncate_tail_before_write, up to persist_filemarks.  At the beginning of
\* tape everything goes, and the reset leaves a clean checkpoint.
TruncateTail ==
  /\ Running("t_layout")
  /\ TruncateLayout
  /\ ckpt' = IF pos = 0 THEN "clean" ELSE ckpt
  /\ filemarks' = Keep(filemarks, {m \in BagToSet(filemarks) : m < pos})
  /\ blocks' = Keep(blocks, {s \in DOMAIN blocks : End(blocks, s) <= pos})
  /\ eod' = IF pos = 0 THEN 0 ELSE eod
  /\ pc' = "t_marks"
  /\ UNCHANGED <<marks, retention, loaded, pos, mode, policy, recovery, formatted, op, bound>>



TruncateMarks ==
  /\ Running("t_marks")
  /\ marks' = filemarks
  /\ eod' = pos
  /\ pc' = "w_block"
  /\ UNCHANGED <<records, since, ckpt, retention, loaded, pos, filemarks, blocks, mode, policy,
                 recovery, formatted, op, bound>>

\* write_logical_block: append_blk_map_record refuses an overlap.
StoreBlock ==
  /\ Overlaps(records, pos, pos + op.len) = {}
  /\ records' = [s \in DOMAIN records \cup {pos} |->
                   IF s = pos THEN [len |-> op.len, id |-> writes + 1,
                                    marks |-> BagCardinality(filemarks)]
                   ELSE records[s]]
  /\ writes' = writes + 1

\* One block of the command.  The layout syncs by itself every so many
\* writes, or for every write when the mode page asks for it.
WriteBlock(sync) ==
  /\ Running("w_block")
  /\ StoreBlock
  /\ IF sync THEN ckpt' = "clean" /\ since' = {records'}
             ELSE ckpt' = "dirty" /\ since' = since \cup {records'}
  /\ blocks' = [s \in DOMAIN blocks \cup {pos} |-> IF s = pos THEN [len |-> op.len] ELSE blocks[s]]
  /\ pos' = pos + op.len /\ eod' = Larger(eod, pos')
  /\ IF op.left = 1 THEN pc' = "idle" /\ op' = NoOp
                    ELSE pc' = pc /\ op' = [op EXCEPT !.left = @ - 1]
  /\ UNCHANGED <<marks, retention, loaded, filemarks, mode, policy, recovery, formatted,
                 failures, crashes, powerLosses, formats>>

\* The overlap is refused.  It is no failure of the bound, which is to leave
\* no command stuck; the counter only shows that one happened.
RefuseOverlap ==
  /\ Running("w_block")
  /\ Overlaps(records, pos, pos + op.len) # {}
  /\ failures' = Larger(failures, 1)
  /\ recovery' = TRUE /\ pc' = "idle" /\ op' = NoOp
  /\ UNCHANGED <<layout, loaded, medium, mode, policy, formatted,
                 writes, crashes, powerLosses, formats>>

\* A call returned an error after it changed the layout.
FailTruncate ==
  /\ Running("t_layout")
  /\ TruncateLayout /\ ckpt' = "dirty"
  /\ FailedCommand
  /\ UNCHANGED <<marks, retention, loaded, medium, mode, policy, formatted,
                 writes, crashes, powerLosses, formats>>

FailWrite ==
  /\ Running("w_block")
  /\ StoreBlock /\ ckpt' = "dirty" /\ since' = since \cup {records'}
  /\ FailedCommand
  /\ UNCHANGED <<marks, retention, loaded, medium, mode, policy, formatted,
                 crashes, powerLosses, formats>>

\* logical_position_step.
Step == IF mode = 0 THEN 1 ELSE mode

\* write_filemarks drops nothing behind the position.
BeginFilemarks(n) ==
  /\ WriteReady /\ AppendAllowed
  /\ pos + n * Step <= Capacity
  /\ BagCardinality(filemarks) + n <= MaxMarks
  /\ op' = [len |-> Step, left |-> n]
  /\ pc' = "m_flush"
  /\ UNCHANGED <<layout, drive, bound>>

\* Mutant: the blocks before the filemark are not flushed.
FlushBeforeMarksSkipped ==
  /\ Running("m_flush")
  /\ ckpt' = "dirty"
  /\ pc' = "m_marks"
  /\ UNCHANGED <<records, since, marks, retention, drive, op, bound>>

\* flush_pending_writes, then mark_checkpoint_dirty.
FlushBeforeMarks ==
  /\ Running("m_flush")
  /\ since' = IF ckpt = "clean" THEN since ELSE {records}
  /\ ckpt' = "dirty"
  /\ pc' = "m_marks"
  /\ UNCHANGED <<records, marks, retention, drive, op, bound>>

\* The new filemarks in memory, then persist_filemarks.
PersistFilemarks ==
  /\ Running("m_marks")
  /\ filemarks' = filemarks (+) SetToBag({pos + k * op.len : k \in 0..(op.left - 1)})
  /\ pos' = pos + op.left * op.len /\ eod' = Larger(eod, pos')
  /\ \/ marks' = filemarks' /\ pc' = "idle" /\ op' = NoOp /\ UNCHANGED <<recovery, failures>>
     \/ marks' \in {marks, filemarks'} /\ FailedCommand
  /\ UNCHANGED <<records, since, ckpt, retention, loaded, blocks, mode, policy, formatted,
                 writes, crashes, powerLosses, formats>>

-----------------------------------------------------------------------------
(* ERASE, FORMAT MEDIUM, mode and retention.                               *)

\* enforce_worm_erase_allowed.
EraseAllowed == policy.worm => eod = 0 /\ DOMAIN blocks = {} /\ filemarks = EmptyBag

BeginErase(long) ==
  /\ WriteReady /\ EraseAllowed
  /\ pc' = IF long THEN "e_remove" ELSE "e_layout"
  /\ UNCHANGED <<layout, drive, op, bound>>

\* remove_dir_all and initialize_layout, taken as one step: nothing of a
\* tree removed half-way is needed again.
EraseRemove ==
  /\ Running("e_remove")
  /\ ResetLayout /\ ckpt' = "clean"
  /\ marks' = EmptyBag /\ retention' = NoPolicy
  /\ pc' = "e_layout"
  /\ UNCHANGED <<drive, op, bound>>

\* The reset, then TapeState::mount with the retention policy preserved.
EraseLayout ==
  /\ Running("e_layout")
  /\ ResetLayout /\ ckpt' = "clean"
  /\ pos' = 0 /\ eod' = 0 /\ filemarks' = EmptyBag /\ blocks' = NoRecords
  /\ mode' = DefaultBlock /\ formatted' = FALSE
  /\ pc' = "e_marks"
  /\ UNCHANGED <<marks, retention, loaded, policy, recovery, op, bound>>

FailErase ==
  /\ Running("e_layout")
  /\ ResetLayout /\ ckpt' = "dirty"
  /\ FailedCommand
  /\ UNCHANGED <<marks, retention, loaded, medium, mode, policy, formatted,
                 writes, crashes, powerLosses, formats>>

EraseMarks ==
  /\ Running("e_marks")
  /\ marks' = filemarks
  /\ pc' = "e_policy"
  /\ UNCHANGED <<records, since, ckpt, retention, drive, op, bound>>

ErasePolicy ==
  /\ Running("e_policy")
  /\ retention' = policy
  /\ pc' = "idle"
  /\ UNCHANGED <<records, since, ckpt, marks, drive, op, bound>>

\* format_medium_drive: the state of the drive only.
FormatMedium ==
  /\ loaded /\ pc = "idle" /\ pos = 0
  /\ eod' = 0 /\ filemarks' = EmptyBag /\ blocks' = NoRecords /\ formatted' = TRUE
  /\ formats < MaxFormats /\ formats' = formats + 1
  /\ UNCHANGED <<layout, loaded, pos, mode, policy, recovery, pc, op,
                 writes, failures, crashes, powerLosses>>

\* set_block_mode_fixed, set_block_mode_variable and MODE SELECT.
SetBlockMode(m) ==
  /\ loaded /\ pc = "idle"
  /\ mode' = m
  /\ UNCHANGED <<layout, loaded, medium, policy, recovery, formatted, pc, op, bound>>

\* set_worm_policy: when persist_retention_state fails, the drive keeps the
\* policy that the file does not have.
SetWormPolicy(p) ==
  /\ loaded /\ pc = "idle"
  /\ p.locked => p.worm
  /\ policy.locked => p.locked
  /\ policy' = p
  /\ \/ retention' = p /\ UNCHANGED failures
     \/ UNCHANGED retention /\ failures < MaxFailures /\ failures' = failures + 1
  /\ UNCHANGED <<records, since, ckpt, marks, loaded, medium, mode, recovery, formatted,
                 pc, op, writes, crashes, powerLosses, formats>>

-----------------------------------------------------------------------------
(* Reading and positioning.                                                *)

MoveTo(p) ==
  /\ pos' = p
  /\ UNCHANGED <<layout, loaded, eod, filemarks, blocks, mode, policy, recovery, formatted,
                 pc, op, bound>>

\* position_after_filemark.
AfterFilemark(m) ==
  LET later == {p \in DOMAIN blocks \cup BagToSet(filemarks) \cup {eod} : p > m}
  IN  IF later = {} THEN eod ELSE CHOOSE p \in later : \A q \in later : p <= q

\* read_data, which takes in each aligned round of read_fixed_blocks: a filemark
\* is stepped over and reported.  The block returned is the one that holds the
\* position, not only one that starts there, and the position advances by its
\* whole length, so a read from inside the last block ends behind the end of data.
ReadBlock ==
  /\ loaded /\ pc = "idle" /\ ~recovery
  /\ IF pos \in BagToSet(filemarks)
     THEN MoveTo(AfterFilemark(pos))
     ELSE \E s \in Overlaps(records, pos, pos + 1) :
            /\ mode # 0 => records[s].len = mode
            /\ MoveTo(pos + records[s].len)

\* The n-th element of S after, at or before a position.
NthAbove(S, p, n) == {q \in S : q > p /\ Cardinality({r \in S : p < r /\ r <= q}) = n}
NthFrom(S, p, n) == {q \in S : q >= p /\ Cardinality({r \in S : p <= r /\ r <= q}) = n}
NthBelow(S, p, n) == {q \in S : q < p /\ Cardinality({r \in S : q <= r /\ r < p}) = n}

\* Mutant: spacing back does not stop at the beginning of tape.
SpaceUnchecked(n) == loaded /\ pc = "idle" /\ (MoveTo(pos - n) \/ MoveTo(eod))

\* space: n times next_point or previous_point over the blocks, n filemarks
\* forward to behind the last one or back to the last one, or to either end.
Space(n) ==
  /\ loaded /\ pc = "idle"
  /\ \/ \E p \in NthAbove(DOMAIN blocks, pos, n) \cup NthBelow(DOMAIN blocks, pos, n) : MoveTo(p)
     \/ \E m \in NthFrom(BagToSet(filemarks), pos, n) : MoveTo(AfterFilemark(m))
     \/ \E m \in NthBelow(BagToSet(filemarks), pos, n) : MoveTo(m)
     \/ MoveTo(eod)
     \/ MoveTo(0)

\* is_addressable_position.
Addressable(p) ==
  \/ mode = 0
  \/ p \in {0, eod} \cup DOMAIN blocks \cup BagToSet(filemarks)
  \/ mode # 0 /\ p % mode = 0

Locate(p) ==
  /\ loaded /\ pc = "idle"
  /\ p <= eod /\ Addressable(p)
  /\ MoveTo(p)

-----------------------------------------------------------------------------
(* Crashes.                                                                *)

\* The process dies between two calls.
Kill ==
  /\ crashes < MaxCrashes /\ crashes' = crashes + 1
  /\ Unmounted /\ pc' = "idle" /\ op' = NoOp
  /\ UNCHANGED <<layout, formatted, writes, failures, powerLosses, formats>>

\* The machine loses power.  Checkpoint, filemarks and retention are replaced
\* whole and synced; of the records, what was there at or since the last sync.
PowerLoss ==
  /\ powerLosses < MaxPowerLosses /\ powerLosses' = powerLosses + 1
  /\ records' \in since /\ since' = {records'}
  /\ Unmounted /\ pc' = "idle" /\ op' = NoOp
  /\ UNCHANGED <<ckpt, marks, retention, formatted, writes, failures, crashes, formats>>

-----------------------------------------------------------------------------
WriteCommand ==
  \/ \E len \in Lengths \cup Modes \cup {DefaultBlock}, n \in 1..MaxTransfer : BeginWrite(len, n)
  \/ TruncateTail \/ TruncateMarks
  \/ \E sync \in BOOLEAN : WriteBlock(sync)
  \/ RefuseOverlap \/ FailTruncate \/ FailWrite

FilemarkCommand ==
  \/ \E n \in 1..MaxTransfer : BeginFilemarks(n)
  \/ FlushBeforeMarks \/ PersistFilemarks

EraseCommand ==
  \/ \E long \in BOOLEAN : BeginErase(long)
  \/ EraseRemove \/ EraseLayout \/ FailErase \/ EraseMarks \/ ErasePolicy

Next ==
  \/ LoadMedia \/ LoadLoaded \/ UnloadMedia \/ RewindMedia
  \/ WriteCommand \/ FilemarkCommand \/ EraseCommand \/ FailCommand
  \/ FormatMedium
  \/ \E m \in Modes : SetBlockMode(m)
  \/ \E p \in Policies : SetWormPolicy(p)
  \/ ReadBlock
  \/ \E n \in 1..MaxTransfer : Space(n)
  \/ \E p \in 0..eod : Locate(p)
  \/ Kill \/ PowerLoss

Spec == Init /\ [][Next]_vars

-----------------------------------------------------------------------------
(* Properties.  Ready: a loaded tape between two commands, no command      *)
(* since the load having failed.  FORMAT MEDIUM empties the tables of the  *)
(* drive and not the layout, so little holds from it to the next erase.    *)

Ready == loaded /\ pc = "idle" /\ ~recovery /\ ~formatted

IsRecords(f) ==
  /\ DOMAIN f \subseteq Nat
  /\ \A s \in DOMAIN f : f[s] \in [len : Nat \ {0}, id : Nat, marks : Nat]

Policy == [worm : BOOLEAN, locked : BOOLEAN]

\* Every variable keeps its type.
TypeOK ==
  /\ IsRecords(records) /\ \A r \in since : IsRecords(r)
  /\ ckpt \in {"clean", "dirty"}
  /\ IsABag(marks) /\ IsABag(filemarks)
  /\ BagToSet(marks) \cup BagToSet(filemarks) \subseteq Nat
  /\ retention \in Policy /\ policy \in Policy
  /\ {loaded, recovery, formatted} \subseteq BOOLEAN
  /\ pos \in Nat /\ eod \in Nat
  /\ DOMAIN blocks \subseteq Nat /\ \A s \in DOMAIN blocks : blocks[s] \in [len : Nat \ {0}]
  /\ mode \in Modes \cup {DefaultBlock}
  /\ pc \in {"idle", "t_layout", "t_marks", "w_block", "m_flush", "m_marks",
             "e_remove", "e_layout", "e_marks", "e_policy"}
  /\ op \in [len : Nat, left : Nat]
  /\ {writes, failures, crashes, powerLosses, formats} \subseteq Nat


\* No block and no filemark lies behind the end of data, where
\* truncate_tail_before_write and enforce_worm_append_only would not see it,
\* although a read from inside a block may leave the head behind it.
NothingBehindEndOfData ==
  (loaded /\ ~formatted) =>
    /\ \A s \in DOMAIN blocks : End(blocks, s) <= eod
    /\ \A m \in BagToSet(filemarks) : m < eod

\* write_logical_block never meets the overlap it refuses, wherever in a
\* block of another length the overwrite starts.
WritesNeverOverlap ==
  (pc = "w_block" /\ ~formatted) => Overlaps(records, pos, pos + op.len) = {}

\* On a WORM tape no command removes or replaces a block, because the end of
\* data that enforce_worm_append_only compares is right after every load; and
\* a retention lock stored beside the layout is never lifted, by policy changes,
\* an erase that removes the files, or a death inside either.
ProtectedTapeKept ==
  [][/\ (loaded /\ policy.worm /\ ~formatted /\ powerLosses' = powerLosses)
          => \A s \in DOMAIN records : s \in DOMAIN records' /\ records'[s] = records[s]
     /\ retention.locked => retention'.locked]_vars

Undisturbed == failures = 0 /\ crashes = 0 /\ powerLosses = 0 /\ ~formatted

\* A filemark is a sync point: write_filemarks flushes first, so a power
\* failure keeps every block before a stored filemark (as long as no
\* recovery ran, which leaves what it recovers unsynced).
FilemarksKeepBlocks ==
  [][(powerLosses' > powerLosses /\ Undisturbed)
       => \A s \in DOMAIN records, m \in BagToSet(marks) :
            s < m => s \in DOMAIN records' /\ records'[s] = records[s]]_vars

=============================================================================

---------------------------- MODULE SegmentFile ----------------------------
(***************************************************************************)
(* One file of a cartridge layout, as data-plane/src/storage/segment.rs    *)
(* treats it.  Every log (data segment, blk_map, lookup, dedup) is such a  *)
(* file: it is either replaced as a whole (temporary file, fsync, rename,  *)
(* fsync of the directory) or appended to in place without an fsync.       *)
(*                                                                         *)
(* A file is the record                                                    *)
(*   val  what the operating system returns when the file is read now      *)
(*   old  the contents a power failure may bring back: the last synced     *)
(*        one and every one appended since, val included                   *)
(*   ok   FALSE once header and payload disagree, which every reader       *)
(*        reports as corruption (validate, validate_segment_shape)         *)
(* Contents are compared only for equality here.                           *)
(***************************************************************************)

\* write_segment_file: atomic and durable.
Replaced(v) == [val |-> v, old |-> {v}, ok |-> TRUE]

\* append_segment_payload(_parts) with sync = false: payload, then the two
\* header copies, none of them synced.
Appended(f, v) == [val |-> v, old |-> f.old \cup {v}, ok |-> TRUE]

\* sync_segment_file / File::sync_all.
Synced(f) == [val |-> f.val, old |-> {f.val}, ok |-> f.ok]

\* The process dies between the payload write and the header write of an
\* append: the length on disk no longer matches the header.
TornAppend(f) == [val |-> f.val, old |-> f.old, ok |-> FALSE]

\* What a power failure can leave of f.  Payload and header pages reach the
\* disk in any order, so an unsynced append may also survive torn.
PowerLossOutcomes(f) ==
  {[val |-> v, old |-> {v}, ok |-> b] :
     v \in f.old, b \in IF f.old = {f.val} THEN {f.ok} ELSE BOOLEAN}

\* A file whose contents are in V.
FileOf(V) == [val : V, old : SUBSET V, ok : BOOLEAN]
=============================================================================

---------------------------- MODULE SegmentIndex ---------------------------
(***************************************************************************)
(* The index of data segments: data-plane/src/storage/segment_index.rs and *)
(* the parts of data_path.rs that consult it.  An index is                 *)
(*   desc    segment number -> [first, last, blobs], the descriptors       *)
(*   active  the number of the one Active segment (the others are Sealed)  *)
(*   next    next_segment_seq                                              *)
(* Payload bytes are counted in blobs: SegmentCap blobs fill a segment.    *)
(***************************************************************************)
EXTENDS Integers

CONSTANT SegmentCap   \* max_segment_size, in blobs

ASSUME SegmentCapAssumption == SegmentCap \in Nat \ {0}

\* The largest element of a set of naturals, 0 for the empty set.
High(S) == IF S = {} THEN 0 ELSE CHOOSE m \in S : \A x \in S : x <= m

Low(S) == CHOOSE m \in S : \A x \in S : m <= x

EmptyDescriptor == [first |-> 0, last |-> 0, blobs |-> 0]

Descriptor == [first : Nat, last : Nat, blobs : Nat]

NewIndex == [desc |-> [s \in {0} |-> EmptyDescriptor], active |-> 0, next |-> 1]

ContainsBlob(d, b) == d.first > 0 /\ d.first <= b /\ b <= d.last

DescriptorForBlob(index, b) ==
  {s \in DOMAIN index.desc : ContainsBlob(index.desc[s], b)}

NextBlobId(index) == High({index.desc[s].last : s \in DOMAIN index.desc}) + 1

ShouldRotate(index) ==
  LET d == index.desc[index.active]
  IN  d.blobs > 0 /\ d.blobs + 1 > SegmentCap

RotatedIndex(index) ==
  [desc |-> [s \in DOMAIN index.desc \cup {index.next} |->
               IF s = index.next THEN EmptyDescriptor ELSE index.desc[s]],
   active |-> index.next,
   next |-> index.next + 1]

\* record_blob_append on the Active segment.
RecordBlobAppend(index, b) ==
  [index EXCEPT !.desc[index.active] =
     [first |-> IF @.first = 0 \/ b < @.first THEN b ELSE @.first,
      last  |-> IF b > @.last THEN b ELSE @.last,
      blobs |-> @.blobs + 1]]

\* rebuild_segment_descriptor: a scan of the segment's blob headers.
ScannedDescriptor(blobs, count) ==
  [first |-> IF blobs = {} THEN 0 ELSE Low(blobs),
   last  |-> High(blobs),
   blobs |-> count]

IsIndex(index) ==
  /\ index = [desc |-> index.desc, active |-> index.active, next |-> index.next]
  /\ DOMAIN index.desc \subseteq Nat
  /\ index.desc \in [DOMAIN index.desc -> Descriptor]
  /\ index.active \in DOMAIN index.desc
  /\ index.next \in Nat
=============================================================================

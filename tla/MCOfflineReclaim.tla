--------------------------- MODULE MCOfflineReclaim -------------------------
\* Instances of OfflineReclaim for TLC.
EXTENDS OfflineReclaim

CONSTANTS pa, pb

MCPayload == {pa, pb}

\* Five blobs: a full first segment and a second one with room for a blob.
MCInitialTape ==
  << [payload |-> pa, dedup |-> TRUE], [payload |-> pb, dedup |-> FALSE],
     [payload |-> pb, dedup |-> TRUE], [payload |-> pa, dedup |-> FALSE],
     [payload |-> pb, dedup |-> FALSE] >>
=============================================================================

----------------------------- MODULE MCScsiTape ----------------------------
(***************************************************************************)
(* Small instances of ScsiTape for TLC.                                    *)
(***************************************************************************)
EXTENDS ScsiTape

\* The state without since, which nothing reads when no power fails, and without
\* the ids of the records: a step copies them or makes a fresh one, and no
\* guard reads them, so what a step does to the records is seen all the same.
WithoutIds ==
  <<[s \in DOMAIN records |-> [len |-> records[s].len, marks |-> records[s].marks]],
    ckpt, marks, retention, drive, pc, op, bound>>

EveryPolicy == [worm : BOOLEAN, locked : BOOLEAN]
=============================================================================

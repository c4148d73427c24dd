---------------------------- MODULE LogicalTape ----------------------------
(***************************************************************************)
(* What the storage engine promises of one cartridge, without segments,    *)
(* maps or checkpoints: a tape is a sequence of blocks.  A write drops the *)
(* blocks from its position on and adds its own at the end.  A power       *)
(* failure brings back one of the tapes since the last sync, whole and in  *)
(* order, or leaves a tape that is known to be damaged: damaged tapes are  *)
(* never written to.  The death of the process may damage a tape, never    *)
(* change it.                                                              *)
(***************************************************************************)
EXTENDS Integers, Sequences

CONSTANT Payload

VARIABLES
  tape,     \* the blocks, first to last
  maybe,    \* the tapes a power failure may bring back
  damaged   \* some block cannot be read any more

tapeVars == <<tape, maybe, damaged>>

Init == tape = <<>> /\ maybe = {<<>>} /\ damaged = FALSE

\* A write at the beginning of tape makes the empty tape durable at once;
\* one in the middle drops the tail without a sync.
Truncate(n) ==
  /\ tape' = SubSeq(tape, 1, n)
  /\ maybe' = IF n = 0 THEN {tape'} ELSE maybe \cup {tape'}
  /\ ~damaged /\ ~damaged'

AddBlock(p) ==
  /\ tape' = Append(tape, p)
  /\ maybe' = maybe \cup {tape'}
  /\ ~damaged /\ ~damaged'

Sync ==
  /\ maybe' = {tape}
  /\ UNCHANGED tape
  /\ ~damaged /\ ~damaged'

ProcessDeath ==
  /\ damaged' = TRUE
  /\ UNCHANGED <<tape, maybe>>

PowerFailure ==
  /\ tape' \in maybe
  /\ maybe' = {tape'}
  /\ damaged' \in {TRUE, damaged}

Next ==
  \/ \E n \in 0..(Len(tape) - 1) : Truncate(n)
  \/ \E p \in Payload : AddBlock(p)
  \/ Sync \/ ProcessDeath \/ PowerFailure

Spec == Init /\ [][Next]_tapeVars
=============================================================================

---------------------------- MODULE MCSpaceGuard ----------------------------
(***************************************************************************)
(* Three processes; a small and a large command.  The reserve is exactly   *)
(* what one admission can overlook plus what is written unreserved.        *)
(***************************************************************************)
EXTENDS SpaceGuard, TLC

\* With an allocation unit of 2, the first reserves 1 byte and the second 3.
MCCommands ==
  {[payload |-> 0, blobs |-> 1, segments |-> 0, metadata |-> 0],
   [payload |-> 1, blobs |-> 1, segments |-> 0, metadata |-> 0]}

Symmetry == Permutations(Writer)
=============================================================================

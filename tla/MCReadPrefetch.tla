--------------------------- MODULE MCReadPrefetch ---------------------------
(***************************************************************************)
(* A tape of blocks of two sizes with a filemark, so that jobs are started *)
(* for positions inside a block, on a filemark and at the end of data.     *)
(***************************************************************************)
EXTENDS ReadPrefetch

Block(start, len) == [start |-> start, len |-> len, id |-> 0]

MCTape ==
  [blocks |-> {Block(0, 2), Block(2, 1), Block(3, 1), Block(4, 2), Block(7, 1)},
   marks  |-> {6},
   end    |-> 8]
=============================================================================

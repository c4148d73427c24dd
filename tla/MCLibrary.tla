------------------------------ MODULE MCLibrary -----------------------------
(* The bounds of Library.cfg: hosts alone, with a process that dies or a   *)
(* write that fails, and hosts against management.                         *)
EXTENDS Library

Budget(commands, ops, listings, kills, failures) ==
  [command |-> commands, op |-> ops, listing |-> listings,
   kill |-> kills, failure |-> failures]

MCBudgets ==
  {Budget(3, 0, 0, 1, 1), Budget(1, 2, 1, 0, 0), Budget(1, 2, 0, 1, 0)}
=============================================================================

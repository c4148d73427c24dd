------------------------------ MODULE MCMedia ------------------------------
(***************************************************************************)
(* Two drives, a named initiator and commands without one, two cartridges, *)
(* one of them locked.  A budget pairs two of what can happen beside the   *)
(* polls of empty drives: a change of a state file meets another, a        *)
(* command, a maintenance job and a fault, and a fault meets them all.     *)
(***************************************************************************)
EXTENDS Media

Budget(moves, commands, jobs, faults) ==
  [move |-> moves, command |-> commands, job |-> jobs, fault |-> faults]

MCBudgets ==
  {Budget(2, 0, 0, 0), Budget(1, 1, 0, 0), Budget(1, 0, 1, 0), Budget(1, 0, 0, 1),
   Budget(0, 1, 0, 1), Budget(0, 0, 1, 1)}
=============================================================================

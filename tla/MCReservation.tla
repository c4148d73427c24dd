--------------------------- MODULE MCReservation ---------------------------
(***************************************************************************)
(* A small instance of Reservation for TLC.                                *)
(***************************************************************************)
EXTENDS Reservation, TLC

InitiatorSymmetry == Permutations(Initiator)
=============================================================================

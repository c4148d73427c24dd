----------------------------- MODULE MCDataPath ----------------------------
(***************************************************************************)
(* Small instances of DataPath for TLC.                                    *)
(***************************************************************************)
EXTENDS DataPath, TLC

PayloadSymmetry == Permutations(Payload)
=============================================================================

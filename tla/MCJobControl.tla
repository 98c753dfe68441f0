---------------------------- MODULE MCJobControl ----------------------------
(* Small instances of JobControl for TLC. *)
EXTENDS JobControl, TLC

ClientSymmetry == Permutations(Clients)
=============================================================================

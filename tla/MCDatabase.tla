------------------------------ MODULE MCDatabase ------------------------------
(* Small instances of Database. *)
EXTENDS Database, TLC

Symmetry == Permutations(Names)
=============================================================================

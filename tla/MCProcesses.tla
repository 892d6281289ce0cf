------------------------------ MODULE MCProcesses -----------------------------
(* Small instances of Processes. *)
EXTENDS Processes, TLC

Symmetry == Permutations(Fields) \cup Permutations(Values)
=============================================================================

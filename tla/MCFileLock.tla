------------------------------ MODULE MCFileLock ------------------------------
(***************************************************************************)
(* Two threads of one process and one of another.                          *)
(***************************************************************************)
EXTENDS FileLock

CONSTANTS t1, t2, t3, here, there

MCObjectOf == [t \in Threads |-> IF t = t3 THEN there ELSE here]
=============================================================================

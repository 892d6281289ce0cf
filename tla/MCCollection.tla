----------------------------- MODULE MCCollection -----------------------------
(***************************************************************************)
(* Small instances of Collection for TLC: u is the unique field, when      *)
(* there is one, and a and b are values with different str().              *)
(***************************************************************************)
EXTENDS Collection, TLC

CONSTANTS u, a, b

Only(f, v) == [g \in Fields |-> IF g = f THEN v ELSE Absent]
Just(v) == [g \in Fields |-> v]

MCKey == [v \in {a, b} |-> v]

\* No two different values are equal, and none is None.
MCEqClass == [v \in {a, b, Absent} |-> v]

\* a == b although str(a) # str(b), as with 1 and True.
MCEqualValues == [v \in {a, b, Absent} |-> IF v = b THEN a ELSE v]

FewNewRecs == {Only(u, a)}
MCNewRecs == {Only(u, v) : v \in Values} \cup {Just(a)}
MCPatches == {Only(f, v) : f \in Fields, v \in Values}
\* Changes of the unique field, and one value for any other.
FewPatches == {Only(u, v) : v \in Values} \cup {Only(f, a) : f \in Fields}
\* Changes of the other fields.
PlainPatches == {Only(f, a) : f \in Fields \ {u}}
MCProbes == {Only(u, a)}

Writes == {"create", "update", "delete"}
AllKinds == OpKinds
Symmetry == Permutations(Threads)

=============================================================================

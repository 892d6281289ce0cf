----------------------------- MODULE BoundedCache -----------------------------
(***************************************************************************)
(* What a collection relies on of its cache: a map from ids to records     *)
(* that holds at most CacheSize of them.  Only a put adds or changes an    *)
(* entry; a full cache gives up any one entry but the one just put.        *)
(***************************************************************************)
EXTENDS Integers, FiniteSets

CONSTANTS Ids, Recs, NoRec, CacheSize

VARIABLE cache

Cached == {i \in Ids : cache[i] # NoRec}

\* What a put of i may evict: nothing while there is room.
Evictions(i) ==
  IF Cardinality(Cached \cup {i}) <= CacheSize THEN {{}}
  ELSE {{j} : j \in Cached \ {i}}

Init == cache = [i \in Ids |-> NoRec]

Put(i, r) ==
  \E S \in Evictions(i) :
    cache' = [j \in Ids |-> IF j = i THEN r
                            ELSE IF j \in S THEN NoRec ELSE cache[j]]

Drop(S) == cache' = [i \in Ids |-> IF i \in S THEN NoRec ELSE cache[i]]

Next ==
  \/ \E i \in Ids, r \in Recs : Put(i, r)
  \/ \E S \in SUBSET Ids : Drop(S)

Spec == Init /\ [][Next]_cache
=============================================================================

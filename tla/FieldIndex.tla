------------------------------ MODULE FieldIndex ------------------------------
(***************************************************************************)
(* The inverted index of a collection (pyro_db/indexes.py) as operators.   *)
(*                                                                         *)
(* A record is the map from user fields to values; a field the record does *)
(* not have is Absent.  The index, in the code a dict                      *)
(* field -> str(value) -> [ids], is the set of triples <<field, key, id>>; *)
(* the order of a posting list is abstracted.                              *)
(***************************************************************************)
EXTENDS Integers

CONSTANTS
  Fields,      \* user field names
  Values,      \* field values
  Absent,      \* "the record does not have this field"
  NoRec,       \* None in place of a record: never written, or deleted
  Key,         \* Key[v] is str(v), under which the index files v
  EqClass,     \* EqClass[v] = EqClass[w] iff v == w in Python
  Unique       \* unique_fields of the collection

\* record.get(f) is None when f is absent, so Absent has an equality class too
\* (that of the value None, when None is among Values).
ASSUME IndexAssumption ==
  /\ Absent \notin Values
  /\ NoRec \notin [Fields -> Values \cup {Absent}]
  /\ Values \subseteq DOMAIN Key
  /\ Values \cup {Absent} \subseteq DOMAIN EqClass
  /\ Unique \subseteq Fields

Record == [Fields -> Values \cup {Absent}]

Maybe == Record \cup {NoRec}

Has(r, f) == r[f] # Absent

\* The triples record r of id i is filed under.
Postings(i, r) ==
  IF r = NoRec THEN {}
  ELSE {<<f, Key[r[f]], i>> : f \in {g \in Fields : Has(r, g)}}

\* What rebuild computes from the live records.
IndexOf(live) == UNION {Postings(i, live[i]) : i \in DOMAIN live}

\* lookup: the ids filed under f = v.
Lookup(index, f, v) == {p[3] : p \in {q \in index : q[1] = f /\ q[2] = Key[v]}}

\* check_unique raises: another id is filed under f = v.
Taken(index, f, v, exclude) == Lookup(index, f, v) \ exclude # {}

\* on_create checks every unique field the record has.
DuplicateOnCreate(index, r) ==
  \E f \in Unique : Has(r, f) /\ Taken(index, f, r[f], {})

\* on_update checks only the unique fields whose value differs, as Python
\* compares values, from that of the stored version.
DuplicateOnUpdate(index, i, old, new) ==
  \E f \in Unique :
    /\ Has(new, f)
    /\ EqClass[new[f]] # EqClass[old[f]]
    /\ Taken(index, f, new[f], {i})

\* dict.update: the fields of the patch replace those of the record.
Patched(old, patch) ==
  [f \in Fields |-> IF Has(patch, f) THEN patch[f] ELSE old[f]]

\* The record carries every field=value pair of the probe, as the index
\* compares values.
Matches(r, probe) ==
  \A f \in Fields : Has(probe, f) => Has(r, f) /\ Key[r[f]] = Key[probe[f]]
=============================================================================

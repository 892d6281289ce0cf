----------------------------- MODULE FieldValues ------------------------------
(***************************************************************************)
(* Field values as schemas and queries tell them apart: None, integers and *)
(* strings, each with its Python type.  A character is a number in the     *)
(* order of code points: digits, then capitals, then small letters.        *)
(***************************************************************************)
EXTENDS Integers, Sequences, FiniteSets

CONSTANTS
  Fields,    \* user field names
  Absent,    \* "the record does not have this field"
  None

\* A value other than None.
Value == [type : {"int", "str"}, n : Int, chars : Seq(Nat)]

IntOf(n) == [type |-> "int", n |-> n, chars |-> <<>>]
StrOf(s) == [type |-> "str", n |-> 0, chars |-> s]

\* A value other than None is of exactly one type.
Is(v, type) == v # None /\ v.type = type

SmallOf(c) == IF c \in 10 .. 19 THEN c + 10 ELSE c

Lower(s) == [k \in DOMAIN s |-> SmallOf(s[k])]

\* str(v), for integers of one digit.
Text(v) == IF Is(v, "int") THEN <<v.n>> ELSE v.chars

\* Strings compare character by character.
TextLess(s, t) ==
  \E k \in 1 .. Len(t) :
    /\ \A j \in 1 .. k - 1 : j <= Len(s) /\ s[j] = t[j]
    /\ Len(s) < k \/ s[k] < t[k]

\* v < w, for values of one type.
Less(v, w) ==
  IF Is(v, "int") THEN v.n < w.n ELSE TextLess(v.chars, w.chars)

\* record.get(f): a missing field reads as None.
Get(r, f) == IF r[f] = Absent THEN None ELSE r[f]
=============================================================================

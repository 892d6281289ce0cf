------------------------------ MODULE MCRecords -------------------------------
(***************************************************************************)
(* A small instance of Records for TLC.  age is an optional integer, tag   *)
(* is required and may be anything, role is a string with a default.       *)
(***************************************************************************)
EXTENDS Records

CONSTANTS age, tag, role, writer, batcher

One == IntOf(1)
Two == IntOf(2)
DigitOne == StrOf(<<1>>)
CapitalA == StrOf(<<10>>)
SmallA == StrOf(<<20>>)

MCSchema ==
  [f \in {age, tag, role} |->
     CASE f = age -> [Field({"int"}, FALSE, Absent) EXCEPT !.min = 1, !.max = 2]
       [] f = tag -> Field({}, TRUE, Absent)
       [] f = role -> [Field({"str"}, TRUE, SmallA)
                        EXCEPT !.shortest = 1, !.longest = 1,
                               !.limited = TRUE, !.passing = {CapitalA, SmallA}]]

Rec(x, y, z) ==
  [f \in {age, tag, role} |-> CASE f = age -> x [] f = tag -> y [] f = role -> z]

\* The last one fails on every field.
MCNewRecs ==
  {Rec(Absent, One, Absent), Rec(Two, DigitOne, Absent),
   Rec(IntOf(3), Absent, StrOf(<<10, 10>>))}

\* The last one fails on tag.
MCPatches == {Rec(None, Absent, Absent), Rec(DigitOne, None, CapitalA)}

MCPredicates ==
  {Predicate(age, "gte", Two), Predicate(age, "exists", TRUE),
   Predicate(tag, "lt", Two), Predicate(tag, "nin", {One}),
   Predicate(role, "icontains", SmallA), Predicate(role, "startswith", One)}
=============================================================================

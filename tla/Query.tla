-------------------------------- MODULE Query ---------------------------------
(***************************************************************************)
(* QueryResult (pyro_db/query.py): filter, sort, offset and limit over a   *)
(* list of records that was read before.  Nothing is evaluated until one   *)
(* of the terminal operations is called.  A predicate yields "yes", "no",  *)
(* or "raises".                                                            *)
(***************************************************************************)
EXTENDS FieldValues, Subsequence, SequencesExt

Orders == {"gt", "gte", "lt", "lte"}
Texts  == {"contains", "icontains", "startswith", "endswith"}

Predicate(field, operator, target) ==
  [field |-> field, op |-> operator, target |-> target]

Answer(holds) == IF holds THEN "yes" ELSE "no"

InOrder(operator, v, w) ==
  \/ operator \in {"gt", "gte"} /\ Less(w, v)
  \/ operator \in {"lt", "lte"} /\ Less(v, w)
  \/ operator \in {"gte", "lte"} /\ v = w

Within(s, t) == \E k \in 0 .. Len(t) : IsPrefix(s, SubSeq(t, k + 1, Len(t)))

InText(operator, s, t) ==
  CASE operator = "contains"   -> Within(s, t)
    [] operator = "icontains"  -> Within(Lower(s), Lower(t))
    [] operator = "startswith" -> IsPrefix(s, t)
    [] operator = "endswith"   -> IsSuffix(s, t)

\* Mutant: a value that is None is compared like any other.
ComparedUnguarded(operator, v, w) ==
  IF v = None \/ w = None THEN "raises"
  ELSE IF v.type # w.type THEN "raises"
  ELSE Answer(InOrder(operator, v, w))

\* gt, gte, lt, lte: None never holds, different types raise TypeError.
Compared(operator, v, w) ==
  IF v = None THEN "no"
  ELSE IF ~Is(w, v.type) THEN "raises"
  ELSE Answer(InOrder(operator, v, w))

\* _make_predicate.  The target of in and nin is a set of values, that of
\* exists a Boolean, any other a value or None.
Test(p, r) ==
  LET v == Get(r, p.field)
      w == p.target
  IN CASE p.op = "eq"     -> Answer(v = w)
       [] p.op = "ne"     -> Answer(v # w)
       [] p.op \in Orders -> Compared(p.op, v, w)
       [] p.op = "in"     -> Answer(v \in w)
       [] p.op = "nin"    -> Answer(v \notin w)
       [] p.op \in Texts  -> IF ~Is(v, "str") THEN "no"
                             ELSE IF ~Is(w, "str") THEN "raises"
                             ELSE Answer(InText(p.op, w.chars, v.chars))
       [] p.op = "exists" -> Answer((r[p.field] # Absent) = w)

\* all(p(r) for p in ps) stops at the first predicate that does not hold.
Verdict(ps, r) ==
  LET stops == {k \in DOMAIN ps : Test(ps[k], r) # "yes"}
  IN IF stops = {} THEN "yes" ELSE Test(ps[Min(stops)], r)

-----------------------------------------------------------------------------
(* Building a query *)

QueryOf(records) ==
  [records |-> records, preds |-> <<>>, key |-> None, descending |-> FALSE,
   limit |-> None, offset |-> 0]

Filter(q, ps) == [q EXCEPT !.preds = @ \o ps]
Sort(q, f, descending) == [q EXCEPT !.key = f, !.descending = descending]
Limit(q, n)  == [q EXCEPT !.limit = n]
Offset(q, n) == [q EXCEPT !.offset = n]

-----------------------------------------------------------------------------
(* Evaluating it *)

Raises(q) ==
  \E k \in DOMAIN q.records : Verdict(q.preds, q.records[k]) = "raises"

Filtered(q) ==
  Keep(q.records, {k \in DOMAIN q.records : Verdict(q.preds, q.records[k]) = "yes"})

\* _sort_val: a record without a value comes after all that have one.
ByValue(f, r, s) ==
  /\ Get(r, f) # None
  /\ Get(s, f) # None => Less(Get(r, f), Get(s, f))

ByText(f, r, s) ==
  /\ Get(r, f) # None
  /\ Get(s, f) # None => TextLess(Text(Get(r, f)), Text(Get(s, f)))

Precedes(f, key, r, s) == IF key = "text" THEN ByText(f, r, s) ELSE ByValue(f, r, s)

\* The pairs of positions of which the first comes first: list.sort(reverse=...)
\* is stable in both directions.
Ordering(s, f, key, descending) ==
  LET before(i, j) == IF descending THEN Precedes(f, key, s[j], s[i])
                      ELSE Precedes(f, key, s[i], s[j])
  IN {p \in (DOMAIN s) \X (DOMAIN s) :
        before(p[1], p[2]) \/ (~before(p[2], p[1]) /\ p[1] < p[2])}

Place(ordering, D, i) == 1 + Cardinality({j \in D : <<j, i>> \in ordering})

StableSort(s, f, key, descending) ==
  LET ordering == Ordering(s, f, key, descending)
      D == DOMAIN s
  IN [k \in D |-> s[CHOOSE i \in D : Place(ordering, D, i) = k]]

\* Two values that cannot be compared: the sort raises TypeError at some point.
Mixed(f, s) ==
  \E j, k \in DOMAIN s :
    /\ Get(s[j], f) # None /\ Get(s[k], f) # None
    /\ Get(s[j], f).type # Get(s[k], f).type

\* Mutant: descending order is ascending order reversed, ties included.
SortedReversed(q, s) ==
  LET up == StableSort(s, q.key, "value", FALSE)
  IN IF q.key = None THEN {s}
     ELSE IF q.descending THEN {Reverse(up)} ELSE {up}

FallsBack(q, s) == q.key # None /\ Mixed(q.key, s)

\* The orders a sort can leave: one, or when it has raised and left the list
\* in any order, those of the sort by text that follows.
Sorted(q, s) ==
  LET shuffled == {[k \in DOMAIN s |-> s[p[k]]] : p \in Bijection(DOMAIN s, DOMAIN s)}
  IN IF q.key = None THEN {s}
     ELSE IF FallsBack(q, s)
       THEN {StableSort(any, q.key, "text", q.descending) : any \in shuffled}
     ELSE {StableSort(s, q.key, "value", q.descending)}

\* Mutant: limit, then offset.
WindowLimitFirst(q, s) ==
  LET kept == IF q.limit = None THEN s ELSE SubSeq(s, 1, Min({q.limit, Len(s)}))
  IN SubSeq(kept, q.offset + 1, Len(kept))

\* Offset, then limit.
Window(q, s) ==
  LET rest == SubSeq(s, q.offset + 1, Len(s))
  IN IF q.limit = None THEN rest
     ELSE SubSeq(rest, 1, Min({q.limit, Len(rest)}))

\* _execute, and with it all: the lists that can be returned.
All(q) == {Window(q, s) : s \in Sorted(q, Filtered(q))}

First(s) == IF s = <<>> THEN None ELSE Head(s)

Pluck(s, f) == [k \in DOMAIN s |-> Get(s[k], f)]

\* count knows the predicates only.
Count(q) == Len(Filtered(q))

\* Mutant: exists looks at the first record only.
ExistsFirst(q) ==
  IF q.records = <<>> THEN "no" ELSE Verdict(q.preds, q.records[1])

\* exists stops at the first record that matches, or raises.
Exists(q) ==
  LET stops == {k \in DOMAIN q.records : Verdict(q.preds, q.records[k]) # "no"}
  IN IF stops = {} THEN "no" ELSE Verdict(q.preds, q.records[Min(stops)])
=============================================================================

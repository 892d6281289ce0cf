------------------------------- MODULE Records --------------------------------
(***************************************************************************)
(* What a collection with a schema stores and what queries make of it      *)
(* (pyro_db/collection.py with schema.py, storage.py and query.py).        *)
(* Writers create, update and delete one record after the other, alone or  *)
(* in the _many calls, and compact; what one does to one record under the  *)
(* collection lock is one step.  A reader goes through the collection page *)
(* by page, with a new query for each page.                                *)
(***************************************************************************)
EXTENDS Schema, Query

CONSTANTS
  Threads,
  Batchers,      \* the threads that use create_many, update_many, delete_many
  Gone,          \* in place of a record: its last line says _deleted
  MaxId,         \* bound on the ids drawn
  MaxItems,      \* bound on the items of a _many call
  PageSize,
  SchemaOf,      \* the schema of the collection
  NewRecs,       \* records passed to create
  Patches,       \* patches passed to update
  Predicates     \* field__operator=value pairs passed to filter

\* The values that fields can have, Absent and None among them.
Values ==
  {Absent, None} \cup {r[f] : r \in NewRecs \cup Patches, f \in Fields}
    \cup {SchemaOf[f].default : f \in DOMAIN SchemaOf}

Record == [Fields -> Values]

ASSUME RecordsAssumption ==
  /\ Batchers \subseteq Threads
  /\ {MaxId, MaxItems, PageSize} \subseteq Nat \ {0}
  /\ DOMAIN SchemaOf \subseteq Fields
  /\ \A f \in DOMAIN SchemaOf : IsFiniteSet(SchemaOf[f].types)
  /\ NewRecs \cup Patches \subseteq Record
  /\ Gone \notin Record
  /\ {Absent, None} \cap Nat = {}

\* None is no value or record, and queries use the operators there are.
ASSUME QueriesAssumption ==
  /\ Values \ {Absent, None} \subseteq Value
  /\ None \notin Value
  /\ None \notin [Fields \cup {"id"} -> Values \cup Nat]
  /\ \A p \in Predicates :
       p.op \in Orders \cup Texts \cup {"eq", "ne", "in", "nin", "exists"}

Ids == 1 .. MaxId

VARIABLES
  table,     \* load_all(): the last version of each id, first lines in order
  counter,   \* _IDCounter._value
  job,       \* the call each thread is in
  walk,      \* the reader's pages so far, with what became of the records
  reported,  \* what finished delete and delete_many calls have returned
  took,      \* history: the ids each thread's call has deleted so far
  told       \* history: the ids that finished calls have deleted

hist == <<took, told>>
vars == <<table, counter, job, walk, reported, hist>>

-----------------------------------------------------------------------------
(* The data file *)

At(i) == {k \in DOMAIN table : table[k].id = i}

\* Mutant: the dict entry is removed and inserted again.
AppendMoves(i, r) ==
  LET others(x) == x.id # i
  IN Append(SelectSeq(table, others), [id |-> i, rec |-> r])

\* A dict keeps a key where it was first inserted.
Append_record(i, r) ==
  IF At(i) = {} THEN Append(table, [id |-> i, rec |-> r])
  ELSE [k \in DOMAIN table |-> IF k \in At(i) THEN [id |-> i, rec |-> r]
                               ELSE table[k]]

IsLive(x) == x.rec # Gone

Live == Keep(table, {k \in DOMAIN table : IsLive(table[k])})

LiveIds == {x.id : x \in ToSet(Live)}

Stored(i) == (CHOOSE x \in ToSet(Live) : x.id = i).rec

\* A record as queries see it, with its id.
Row(x) ==
  [f \in Fields \cup {"id"} |-> IF f = "id" THEN x.id ELSE x.rec[f]]

Rows == [k \in DOMAIN Live |-> Row(Live[k])]

-----------------------------------------------------------------------------
Job(kind, todo, patch) ==
  [kind |-> kind, todo |-> todo, patch |-> patch, id |-> 0, done |-> 0]

\* No call is under way.
Idle == Job("none", <<>>, Absent)

NoWalk ==
  [on |-> FALSE, next |-> 0, seen |-> <<>>, over |-> FALSE,
   steady |-> {}, deletes |-> 0]

Init ==
  /\ table = <<>>
  /\ counter = 0
  /\ job = [t \in Threads |-> Idle]
  /\ walk = NoWalk
  /\ reported = 0
  /\ took = [t \in Threads |-> {}]
  /\ told = {}

\* One item for a plain call, several for a _many call.
Items(t, S) ==
  IF t \in Batchers THEN UNION {[1 .. n -> S] : n \in 1 .. MaxItems}
  ELSE [1 .. 1 -> S]

Busy(t, kind) == job[t].kind = kind

\* A create that has its id and has still to write the record.
Drawn(t) == Busy(t, "create") /\ job[t].id # 0

\* Ids that the calls under way may still draw.
ToDraw ==
  SumFunction([t \in Threads |->
     IF Drawn(t) THEN Len(job[t].todo) - 1
     ELSE IF Busy(t, "create") THEN Len(job[t].todo) ELSE 0])

Call(t, j) ==
  /\ job[t] = Idle
  /\ job' = [job EXCEPT ![t] = j]
  /\ UNCHANGED <<table, counter, reported>>

CallCreate(t) ==
  \E rs \in Items(t, NewRecs) :
    /\ counter + ToDraw + Len(rs) <= MaxId
    /\ Call(t, Job("create", rs, Absent))

CallUpdate(t) ==
  \E is \in Items(t, Ids), p \in Patches : Call(t, Job("update", is, p))

CallDelete(t) ==
  \E is \in Items(t, Ids) : Call(t, Job("delete", is, Absent))

\* The call raises: what it has done so far stays.
Raise(t) == job' = [job EXCEPT ![t] = Idle]

Proceed(t, by) ==
  job' = [job EXCEPT ![t].todo = Tail(@), ![t].id = 0, ![t].done = @ + by]

\* _build_record: defaults, validation, and only then an id.
BuildRecord(t) ==
  /\ Busy(t, "create")
  /\ job[t].id = 0
  /\ job[t].todo # <<>>
  /\ LET r == WithDefaults(SchemaOf, Head(job[t].todo)) IN
     IF Valid(SchemaOf, r)
       THEN /\ counter' = counter + 1
            /\ job' = [job EXCEPT ![t].id = counter + 1,
                                  ![t].todo = <<r>> \o Tail(@)]
       ELSE Raise(t) /\ UNCHANGED counter
  /\ UNCHANGED <<table, reported>>

\* _apply_create.
ApplyCreate(t) ==
  /\ Drawn(t)
  /\ table' = Append_record(job[t].id, Head(job[t].todo))
  /\ Proceed(t, 1)
  /\ UNCHANGED <<counter, reported>>

\* dict.update.
Patched(old, p) == [f \in Fields |-> IF p[f] = Absent THEN old[f] ELSE p[f]]

\* Mutant: the patch is not validated.
UpdateUnchecked(t) ==
  /\ Busy(t, "update")
  /\ job[t].todo # <<>>
  /\ LET i == Head(job[t].todo) IN
     IF i \notin LiveIds THEN Proceed(t, 0) /\ UNCHANGED table
     ELSE /\ table' = Append_record(i, Patched(Stored(i), job[t].patch))
          /\ Proceed(t, 1)
  /\ UNCHANGED <<counter, reported>>

\* _apply_update.  A record that is not there is skipped (or, by update,
\* reported: its list is at its end), a patch that is not valid ends the call.
ApplyUpdate(t) ==
  /\ Busy(t, "update")
  /\ job[t].todo # <<>>
  /\ LET i == Head(job[t].todo) IN
     IF i \notin LiveIds THEN Proceed(t, 0) /\ UNCHANGED table
     ELSE IF ~ValidPatch(SchemaOf, job[t].patch)
       THEN Raise(t) /\ UNCHANGED table
     ELSE /\ table' = Append_record(i, Patched(Stored(i), job[t].patch))
          /\ Proceed(t, 1)
  /\ UNCHANGED <<counter, reported>>

\* Mutant: ids that are not found are counted.
DeleteCountsAll(t) ==
  /\ Busy(t, "delete")
  /\ job[t].todo # <<>>
  /\ Proceed(t, 1)
  /\ table' = IF Head(job[t].todo) \in LiveIds
                THEN Append_record(Head(job[t].todo), Gone) ELSE table
  /\ UNCHANGED <<counter, reported>>

\* _apply_delete: the record is appended again, marked as deleted.
ApplyDelete(t) ==
  /\ Busy(t, "delete")
  /\ job[t].todo # <<>>
  /\ LET i == Head(job[t].todo) IN
     IF i \notin LiveIds THEN Proceed(t, 0) /\ UNCHANGED table
     ELSE table' = Append_record(i, Gone) /\ Proceed(t, 1)
  /\ UNCHANGED <<counter, reported>>

Return(t) ==
  /\ job[t] # Idle
  /\ job[t].todo = <<>>
  /\ job' = [job EXCEPT ![t] = Idle]
  /\ reported' = IF Busy(t, "delete") THEN reported + job[t].done ELSE reported
  /\ UNCHANGED <<table, counter>>

\* StorageEngine.compact keeps the live records, in the order it read them.
Compact(t) ==
  /\ job[t] = Idle
  /\ table # Live
  /\ table' = Live
  /\ UNCHANGED <<counter, job, reported>>

Writes(t) ==
  \/ CallCreate(t) \/ CallUpdate(t) \/ CallDelete(t)
  \/ BuildRecord(t) \/ ApplyCreate(t) \/ ApplyUpdate(t) \/ ApplyDelete(t)
  \/ Return(t) \/ Compact(t)

-----------------------------------------------------------------------------
(* The reader *)

\* filter().offset(walk.next).limit(PageSize)
Page == Limit(Offset(QueryOf(Rows), walk.next), PageSize)

StartWalk ==
  /\ ~walk.on
  /\ walk' = [NoWalk EXCEPT !.on = TRUE, !.steady = LiveIds]
  /\ UNCHANGED <<table, counter, job, reported, hist>>

\* The first page that is empty is the last.
NextPage ==
  /\ walk.on
  /\ ~walk.over
  /\ \E s \in All(Page) :
       walk' = [walk EXCEPT !.next = @ + PageSize,
                            !.seen = @ \o Pluck(s, "id"),
                            !.over = s = <<>>]
  /\ UNCHANGED <<table, counter, job, reported, hist>>

EndWalk ==
  /\ walk.on
  /\ walk.over
  /\ walk' = NoWalk
  /\ UNCHANGED <<table, counter, job, reported, hist>>

\* History: which records have been there all along, and how many went.
Watched ==
  walk' = IF ~walk.on \/ walk.over THEN walk
          ELSE [walk EXCEPT !.steady = @ \cap LiveIds',
                            !.deletes = @ + Cardinality(LiveIds \ LiveIds')]

\* History: which records the call has deleted, until it ends.
Credited(t) ==
  LET gone == took[t] \cup (LiveIds \ LiveIds') IN
  IF job'[t] = Idle
    THEN took' = [took EXCEPT ![t] = {}] /\ told' = told \cup gone
    ELSE took' = [took EXCEPT ![t] = gone] /\ UNCHANGED told

Next ==
  \/ \E t \in Threads : Writes(t) /\ Watched /\ Credited(t)
  \/ StartWalk \/ NextPage \/ EndWalk

Spec == Init /\ [][Next]_vars

-----------------------------------------------------------------------------
(* Properties *)

\* Whatever calls succeeded, failed, or stopped in the middle of a list, every
\* stored record satisfies the whole schema, although an update validates its
\* patch only (schema.py:7 "every create and update call is validated before
\* the record is written").
StoredValid == \A x \in ToSet(Live) : Valid(SchemaOf, x.rec)

\* A delete call counts the records it has deleted, and every id drawn is that
\* of a live record, of a create that has still to write it, or of a record that
\* one delete call, and only one, has counted (collection.py:681 "Number of
\* records actually deleted").
DeletesCounted ==
  LET drawn   == {job[t].id : t \in {u \in Threads : Drawn(u)}}
      deleted == told \cup UNION {took[t] : t \in Threads}
  IN /\ reported = Cardinality(told)
     /\ \A t \in Threads :
          Busy(t, "delete") => job[t].done = Cardinality(took[t])
     /\ 1 .. counter = LiveIds \cup drawn \cup deleted
     /\ LiveIds \cap drawn = {}
     /\ deleted \cap (LiveIds \cup drawn) = {}
     /\ \A t, u \in Threads :
          /\ told \cap took[t] = {}
          /\ t # u => /\ took[t] \cap took[u] = {}
                      /\ Drawn(t) /\ Drawn(u) => job[t].id # job[u].id

\* A reader that goes through the collection page by page, while others
\* create, update and compact, gets no record twice, and misses no more of
\* those that were there all along than there were deletes: updates and
\* compaction leave the order of the records alone, creates add at the end.
WalkSound ==
  walk.on =>
    /\ IsInjective(walk.seen)
    /\ walk.over =>
         Cardinality(walk.steady \ ToSet(walk.seen)) <= walk.deletes

TypeOf(f) == SchemaOf[f].types

\* The field has one type by the schema.
Typed(f) == f \in DOMAIN SchemaOf /\ Cardinality(TypeOf(f)) = 1

Suits(p) ==
  /\ Typed(p.field)
  /\ p.op \in Orders \cup Texts
  /\ p.target # None
  /\ p.target.type \in TypeOf(p.field)

\* If the schema gives a field one type, int or str (values of a dict field
\* have no order), a query that compares it with a value of that type never
\* raises TypeError, and a sort by it never falls back to
\* the order of str(): what updates and creates let in, missing values and
\* None included, is what the operators can compare (query.py:259 "Mixed
\* types (e.g. int and str)" cannot be there).
TypedAnswers ==
  /\ \A p \in Predicates : Suits(p) => ~Raises(Filter(QueryOf(Rows), <<p>>))
  /\ \A f \in Fields : Typed(f) => ~Mixed(f, Rows)

\* Queries on what is stored now.  They depend on the table alone.
AtRest == ~walk.on /\ \A t \in Threads : job[t] = Idle

Queries ==
  {Sort(Filter(QueryOf(Rows), c.preds), c.key, c.descending) :
     c \in [preds : [1 .. 2 -> Predicates], key : Fields \cup {None},
            descending : BOOLEAN]}

\* The pages of a query, up to an empty one, put together, are the whole of it,
\* whatever the order of the sort (query.py:265 "Offset then limit").
PagesPartition ==
  AtRest =>
    \A q \in Queries : \A s \in All(q) :
      Raises(q) \/ FallsBack(q, Filtered(q)) \/
      LET page(k) == Limit(Offset(q, (k - 1) * PageSize), PageSize)
          pages   == [k \in 1 .. Count(q) + 1 |-> CHOOSE w \in All(page(k)) : TRUE]
      IN FlattenSeq(pages) = s

\* A sorted list has the matching records, each once: those with a value in the
\* order of their values, equal values and the records without one in the order
\* of the file, in both directions; in ascending order the records without a
\* value are at the end (query.py:251 "Push None / missing to the end").  Where
\* a descending sort puts them is MissingLast's question.
SortedRight ==
  AtRest =>
    \A q \in {x \in Queries : x.key # None} : \A s \in All(q) :
      Raises(q) \/ FallsBack(q, Filtered(q)) \/
      LET value(r)   == Get(r, q.key)
          missing(r) == value(r) = None
          stored(r)  == CHOOSE k \in DOMAIN Rows : Rows[k] = r
          before(r1, r2) == IF q.descending THEN Less(value(r2), value(r1))
                            ELSE Less(value(r1), value(r2))
      IN /\ ToSet(s) = ToSet(Filtered(q))
         /\ \A j, k \in DOMAIN s :
              j < k =>
                /\ missing(s[j]) /\ missing(s[k]) => stored(s[j]) < stored(s[k])
                /\ missing(s[j]) /\ ~missing(s[k]) => q.descending
                /\ ~missing(s[j]) /\ ~missing(s[k]) =>
                     \/ before(s[j], s[k])
                     \/ ~before(s[k], s[j]) /\ stored(s[j]) < stored(s[k])

\* What the code says of itself: "Records that do not have *field* are sorted
\* to the end" (query.py:179), "regardless of direction" (query.py:251).
\* descending_sort shows that the reverse of query.py:257 brings them to the
\* front.
MissingLast ==
  AtRest =>
    \A q \in {x \in Queries : x.key # None} : \A s \in All(q) :
      \/ Raises(q) \/ FallsBack(q, Filtered(q))
      \/ \A j, k \in DOMAIN s :
           j < k /\ Get(s[j], q.key) = None => Get(s[k], q.key) = None

\* exists, count and first agree with all; where all raises, exists does not
\* answer no (query.py:321 "if at least one record matches the query").
ExistsAgrees ==
  AtRest =>
    \A q \in Queries :
      IF Raises(q) THEN Exists(q) # "no"
      ELSE /\ Exists(q) = "yes" <=> Count(q) > 0
           /\ \A s \in All(q) : Len(s) = Count(q)
           /\ \A s \in All(q) : First(s) = None <=> Exists(q) = "no"
=============================================================================

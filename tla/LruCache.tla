------------------------------- MODULE LruCache -------------------------------
(***************************************************************************)
(* The record cache (pyro_db/cache.py).  Every operation holds the cache's *)
(* own mutex from beginning to end and is one action.  The OrderedDict is  *)
(* the sequence of its entries, least recently used first.                 *)
(***************************************************************************)
EXTENDS Subsequence, SequencesExt

CONSTANTS
  Ids,
  Recs,
  NoRec,
  CacheSize,   \* max_size
  Batches,     \* the record sequences warm is called with
  MaxUses      \* bound on gets and puts

Entry == [id : Ids, rec : Recs]

\* What the theorems of LruProofs ask of the constants.
LruAssumption ==
  /\ CacheSize \in Nat \ {0}
  /\ NoRec \notin Recs
  /\ MaxUses \in Nat
  /\ Batches \subseteq Seq(Entry)

VARIABLES
  entries,   \* _store
  uses,      \* history: gets that hit, and puts, so far
  lastUse    \* history: when each id was last put, or got with a hit

vars == <<entries, uses, lastUse>>

IdsOf(es) == {e.id : e \in ToSet(es)}

Remove_id(es, S) == Keep(es, {k \in DOMAIN es : es[k].id \notin S})

\* __setitem__ on a present key keeps its place, so put moves it to the end.
PutInto(es, e) ==
  LET new == Append(Remove_id(es, {e.id}), e)
  IN  IF Len(new) > CacheSize THEN Tail(new) ELSE new

WarmInto(es, batch) ==
  LET after[k \in 0 .. Len(batch)] ==
        IF k = 0 THEN es ELSE PutInto(after[k - 1], batch[k])
  IN after[Len(batch)]

Init ==
  /\ entries = <<>>
  /\ uses = 0
  /\ lastUse = [i \in Ids |-> 0]

Use(i) ==
  /\ uses < MaxUses
  /\ uses' = uses + 1
  /\ lastUse' = [lastUse EXCEPT ![i] = uses + 1]

\* A hit moves the entry to the most recently used end; a miss changes
\* nothing but the statistics.
Get(i) ==
  /\ \E e \in ToSet(entries) :
       /\ e.id = i
       /\ entries' = Append(Remove_id(entries, {i}), e)
  /\ Use(i)

Put(i, r) ==
  /\ entries' = PutInto(entries, [id |-> i, rec |-> r])
  /\ Use(i)

\* invalidate and invalidate_many.
Invalidate(S) ==
  /\ entries' = Remove_id(entries, S)
  /\ UNCHANGED <<uses, lastUse>>

Clear ==
  /\ entries' = <<>>
  /\ UNCHANGED <<uses, lastUse>>

Next ==
  \/ \E i \in Ids : Get(i)
  \/ \E i \in Ids, r \in Recs : Put(i, r)
  \/ \E S \in SUBSET Ids : Invalidate(S)
  \/ Clear

Spec == Init /\ [][Next]_vars

-----------------------------------------------------------------------------
TypeOK ==
  /\ entries \in Seq(Entry)
  /\ Len(entries) <= CacheSize
  /\ \A k, l \in DOMAIN entries : entries[k].id = entries[l].id => k = l

\* The entry a full cache evicts, the first, is always the one whose last put
\* or hit is longest ago (cache.py:99 "Evicts the least-recently-used entry").
LeastRecentFirst ==
  \A k, l \in DOMAIN entries :
    k < l => lastUse[entries[k].id] < lastUse[entries[l].id]

\* Warming an arbitrary cache with CacheSize different records or more leaves
\* the last CacheSize of them, in their order (cache.py:158 "only the last
\* max_size records are retained").
WarmKeepsLast ==
  \A batch \in Batches :
    Cardinality(IdsOf(batch)) = Len(batch) /\ Len(batch) >= CacheSize =>
      WarmInto(entries, batch)
        = SubSeq(batch, Len(batch) - CacheSize + 1, Len(batch))

View ==
  [i \in Ids |-> IF i \in IdsOf(entries)
                 THEN (CHOOSE e \in ToSet(entries) : e.id = i).rec
                 ELSE NoRec]

\* The cache is the bounded map Collection takes it for.
Bounded == INSTANCE BoundedCache WITH cache <- View

ImplementsBoundedCache == Bounded!Spec
=============================================================================

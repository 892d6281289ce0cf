------------------------------- MODULE LruProofs -------------------------------
(***************************************************************************)
(* Theorems about LruCache, for every set of ids and records and every     *)
(* size of the cache.                                                      *)
(***************************************************************************)
EXTENDS LruCache, SubsequenceProofs

-----------------------------------------------------------------------------
(* Sequences of entries *)

Unique(es) == \A k, l \in DOMAIN es : es[k].id = es[l].id => k = l

\* The entries are in the order of their last use.
InOrder(es, used) ==
  \A k, l \in DOMAIN es : k < l => used[es[k].id] < used[es[l].id]

LEMMA SeqFacts ==
  ASSUME NEW es \in Seq(Entry)
  PROVE  /\ Len(es) \in Nat /\ DOMAIN es = 1 .. Len(es)
         /\ \A k \in DOMAIN es : es[k] \in Entry /\ es[k].id \in Ids
                                 /\ es[k].rec \in Recs
         /\ ToSet(es) \subseteq Entry
         /\ IdsOf(es) \subseteq Ids
<1>1. Len(es) \in Nat /\ DOMAIN es = 1 .. Len(es)
  BY LenProperties
<1>2. \A k \in DOMAIN es : es[k] \in Entry
  BY <1>1, ElementOfSeq
<1> QED BY <1>1, <1>2 DEF Entry, ToSet, IdsOf

\* Different ids: as many as there are entries.
LEMMA UniqueCounts ==
  ASSUME NEW es \in Seq(Entry), Unique(es)
  PROVE  IsFiniteSet(IdsOf(es)) /\ Cardinality(IdsOf(es)) = Len(es)
<1> DEFINE f == [k \in 1 .. Len(es) |-> es[k].id]
<1>1. Len(es) \in Nat /\ DOMAIN es = 1 .. Len(es)
  BY SeqFacts
<1>2. IdsOf(es) = {es[k].id : k \in 1 .. Len(es)}
  BY <1>1 DEF IdsOf, ToSet
<1>3. f \in Bijection(1 .. Len(es), IdsOf(es))
  <2>1. f \in [1 .. Len(es) -> IdsOf(es)]
    BY <1>2
  <2>2. \A k, l \in 1 .. Len(es) : f[k] = f[l] => k = l
    BY <1>1 DEF Unique
  <2>3. \A i \in IdsOf(es) : \E k \in 1 .. Len(es) : f[k] = i
    BY <1>2
  <2> HIDE DEF f
  <2> QED BY <2>1, <2>2, <2>3 DEF Bijection, Injection, Surjection, IsInjective
<1>4. ExistsBijection(1 .. Len(es), IdsOf(es))
  BY <1>3 DEF ExistsBijection
<1> QED BY <1>1, <1>4, FS_CountingElements, FS_NatBijection

\* Remove_id leaves the entries of the other ids, in their order.
LEMMA RemoveIs ==
  ASSUME NEW es \in Seq(Entry), NEW S
  PROVE  /\ Remove_id(es, S) \in Seq(Entry)
         /\ Len(Remove_id(es, S)) <= Len(es)
         /\ ToSet(Remove_id(es, S)) = {e \in ToSet(es) : e.id \notin S}
         /\ IdsOf(Remove_id(es, S)) = IdsOf(es) \ S
         /\ Unique(es) => Unique(Remove_id(es, S))
         /\ \A used : InOrder(es, used) => InOrder(Remove_id(es, S), used)
<1> DEFINE K == {k \in DOMAIN es : es[k].id \notin S}
           r == Remove_id(es, S)
<1>1. r = Keep(es, K) /\ K \in SUBSET (DOMAIN es)
  BY DEF Remove_id
<1> HIDE DEF r
<1>2. /\ r \in Seq(Entry) /\ Len(r) <= Len(es)
      /\ \A a \in DOMAIN r : Nth(K, a) \in K /\ r[a] = es[Nth(K, a)]
      /\ \A a, b \in DOMAIN r : a < b => Nth(K, a) < Nth(K, b)
      /\ \A k \in K : \E a \in DOMAIN r : r[a] = es[k]
  <2> HIDE DEF K
  <2> QED BY <1>1, KeepIs
<1>3. /\ \A a \in DOMAIN r : /\ Nth(K, a) \in DOMAIN es
                             /\ es[Nth(K, a)].id \notin S
      /\ \A k \in DOMAIN es : es[k].id \notin S => k \in K
  BY <1>2
<1> HIDE DEF K
<1>4. ToSet(r) = {e \in ToSet(es) : e.id \notin S}
  <2>1. \A a \in DOMAIN r : \E k \in DOMAIN es : r[a] = es[k] /\ es[k].id \notin S
    BY <1>2, <1>3
  <2>2. \A k \in DOMAIN es : es[k].id \notin S => \E a \in DOMAIN r : r[a] = es[k]
    BY <1>2, <1>3
  <2> QED BY <2>1, <2>2 DEF ToSet
<1>5. IdsOf(r) = IdsOf(es) \ S
  BY <1>4 DEF IdsOf
<1>6. DOMAIN r \subseteq Int
  BY <1>2, SeqFacts
<1>7. ASSUME Unique(es) PROVE Unique(r)
  <2>1. ASSUME NEW a \in DOMAIN r, NEW b \in DOMAIN r, r[a].id = r[b].id
        PROVE  a = b
    <3>1. Nth(K, a) = Nth(K, b)
      BY <1>2, <1>3, <1>7, <2>1, SMTT(30) DEF Unique
    <3>2. Nth(K, a) \in Int
      BY <1>3, SeqFacts
    <3>3. ~(a < b) /\ ~(b < a)
      BY <1>2, <3>1, <3>2
    <3> QED BY <1>6, <3>3
  <2> QED BY <2>1 DEF Unique
<1>8. ASSUME NEW used, InOrder(es, used) PROVE InOrder(r, used)
  BY <1>2, <1>3, <1>8 DEF InOrder
<1> QED BY <1>2, <1>4, <1>5, <1>7, <1>8 DEF r

LEMMA AppendIs ==
  ASSUME NEW es \in Seq(Entry), NEW e \in Entry
  PROVE  /\ Append(es, e) \in Seq(Entry)
         /\ Len(Append(es, e)) = Len(es) + 1
         /\ DOMAIN Append(es, e) = 1 .. (Len(es) + 1)
         /\ \A k \in DOMAIN es : Append(es, e)[k] = es[k]
         /\ Append(es, e)[Len(es) + 1] = e
         /\ ToSet(Append(es, e)) = ToSet(es) \cup {e}
         /\ IdsOf(Append(es, e)) = IdsOf(es) \cup {e.id}
<1> DEFINE r == Append(es, e)
           n == Len(es)
<1>1. /\ r \in Seq(Entry) /\ Len(r) = n + 1
      /\ \A k \in 1 .. n : r[k] = es[k]
      /\ r[n + 1] = e
  BY AppendProperties
<1>2. n \in Nat /\ DOMAIN es = 1 .. n
  BY SeqFacts
<1> HIDE DEF r, n
<1>3. DOMAIN r = 1 .. (n + 1)
  BY <1>1, SeqFacts
<1>4. \A k : k \in DOMAIN r <=> k \in DOMAIN es \/ k = n + 1
  BY <1>2, <1>3
<1>5. ToSet(r) = ToSet(es) \cup {e}
  BY <1>1, <1>2, <1>4 DEF ToSet
<1>6. IdsOf(r) = IdsOf(es) \cup {e.id}
  BY <1>5 DEF IdsOf
<1> QED BY <1>1, <1>2, <1>3, <1>5, <1>6 DEF r, n

-----------------------------------------------------------------------------
(* What a use of an entry does *)

\* Put at the end: the id's other entry is gone, and no id is lost.
LEMMA MovedIs ==
  ASSUME NEW es \in Seq(Entry), Unique(es), NEW e \in Entry
  PROVE  LET new == Append(Remove_id(es, {e.id}), e)
         IN  /\ new \in Seq(Entry) /\ Unique(new)
             /\ new[Len(new)] = e /\ Len(new) \in Nat /\ Len(new) >= 1
             /\ Len(new) <= Len(es) + 1
             /\ ToSet(new) = {x \in ToSet(es) : x.id # e.id} \cup {e}
             /\ IdsOf(new) = IdsOf(es) \cup {e.id}
             /\ (e.id \in IdsOf(es) => Len(new) = Len(es))
<1> DEFINE r   == Remove_id(es, {e.id})
           new == Append(r, e)
<1>1. /\ r \in Seq(Entry) /\ Len(r) <= Len(es) /\ Unique(r)
      /\ ToSet(r) = {x \in ToSet(es) : x.id \notin {e.id}}
      /\ IdsOf(r) = IdsOf(es) \ {e.id}
  BY RemoveIs
<1> HIDE DEF r
<1>2. /\ new \in Seq(Entry) /\ Len(new) = Len(r) + 1
      /\ DOMAIN new = 1 .. (Len(r) + 1)
      /\ \A k \in DOMAIN r : new[k] = r[k]
      /\ new[Len(r) + 1] = e
      /\ ToSet(new) = ToSet(r) \cup {e}
      /\ IdsOf(new) = IdsOf(r) \cup {e.id}
  BY <1>1, AppendIs
<1> HIDE DEF new
<1>3. Len(r) \in Nat /\ DOMAIN r = 1 .. Len(r) /\ Len(es) \in Nat
  BY <1>1, SeqFacts
<1>4. \A k \in DOMAIN r : r[k].id \in IdsOf(r)
  BY DEF IdsOf, ToSet
<1>5. \A k \in DOMAIN new : k \in DOMAIN r \/ k = Len(r) + 1
  BY <1>2, <1>3
<1>6. \A k \in DOMAIN r : new[k].id # e.id
  BY <1>1, <1>2, <1>4
<1>7. Unique(new)
  BY <1>1, <1>2, <1>5, <1>6 DEF Unique
<1>8. ToSet(new) = {x \in ToSet(es) : x.id # e.id} \cup {e}
  BY <1>1, <1>2
<1>9. IdsOf(new) = IdsOf(es) \cup {e.id}
  BY <1>1, <1>2
<1>10. ASSUME e.id \in IdsOf(es) PROVE Len(new) = Len(es)
  <2>1. IdsOf(new) = IdsOf(es)
    BY <1>9, <1>10
  <2>2. Cardinality(IdsOf(new)) = Len(new)
    BY <1>2, <1>7, UniqueCounts
  <2>3. Cardinality(IdsOf(es)) = Len(es)
    BY UniqueCounts
  <2> QED BY <2>1, <2>2, <2>3
<1>11. /\ new[Len(new)] = e /\ Len(new) \in Nat /\ Len(new) >= 1
       /\ Len(new) <= Len(es) + 1
  <2> HIDE DEF r, new
  <2> QED BY <1>1, <1>2, <1>3
<1> HIDE DEF r, new
<1>12. /\ new \in Seq(Entry) /\ Unique(new)
       /\ new[Len(new)] = e /\ Len(new) \in Nat /\ Len(new) >= 1
       /\ Len(new) <= Len(es) + 1
       /\ ToSet(new) = {x \in ToSet(es) : x.id # e.id} \cup {e}
       /\ IdsOf(new) = IdsOf(es) \cup {e.id}
       /\ (e.id \in IdsOf(es) => Len(new) = Len(es))
  BY <1>2, <1>7, <1>8, <1>9, <1>10, <1>11
<1> QED BY <1>12 DEF r, new

\* The use of an id is later than any before it, and its entry the last.
LEMMA MovedInOrder ==
  ASSUME NEW es \in Seq(Entry), NEW e \in Entry,
         NEW used \in [Ids -> Nat], NEW u \in Nat,
         \A i \in Ids : used[i] <= u, InOrder(es, used)
  PROVE  InOrder(Append(Remove_id(es, {e.id}), e),
                 [used EXCEPT ![e.id] = u + 1])
<1> DEFINE r    == Remove_id(es, {e.id})
           new  == Append(r, e)
           now  == [used EXCEPT ![e.id] = u + 1]
<1>1. /\ r \in Seq(Entry) /\ InOrder(r, used)
      /\ IdsOf(r) = IdsOf(es) \ {e.id}
  BY RemoveIs
<1> HIDE DEF r
<1>2. /\ DOMAIN new = 1 .. (Len(r) + 1)
      /\ \A k \in DOMAIN r : new[k] = r[k]
      /\ new[Len(r) + 1] = e
  BY <1>1, AppendIs
<1> HIDE DEF new
<1>3. /\ Len(r) \in Nat /\ DOMAIN r = 1 .. Len(r)
      /\ \A k \in DOMAIN r : r[k].id \in Ids
  BY <1>1, SeqFacts
<1>4. \A k \in DOMAIN r : r[k].id \in IdsOf(r)
  BY DEF IdsOf, ToSet
<1>5. e.id \in Ids
  BY DEF Entry
<1>6. \A k \in DOMAIN r : r[k].id # e.id
  BY <1>1, <1>4
<1>7. /\ now[e.id] = u + 1
      /\ \A k \in DOMAIN r : /\ now[r[k].id] = used[r[k].id]
                             /\ now[r[k].id] \in Nat /\ now[r[k].id] <= u
  BY <1>3, <1>5, <1>6
<1> HIDE DEF now
<1>8. ASSUME NEW k \in DOMAIN new, NEW l \in DOMAIN new, k < l
      PROVE  now[new[k].id] < now[new[l].id]
  <2>1. k \in DOMAIN r
    BY <1>2, <1>3, <1>8
  <2>2. CASE l \in DOMAIN r
    BY <1>1, <1>2, <1>7, <1>8, <2>1, <2>2 DEF InOrder
  <2>3. CASE l = Len(r) + 1
    BY <1>2, <1>7, <2>1, <2>3
  <2> QED BY <1>2, <1>3, <2>2, <2>3
<1>9. InOrder(new, now)
  BY <1>8 DEF InOrder
<1> QED BY <1>9 DEF new, now, r

\* Without its first entry.
LEMMA TailIs ==
  ASSUME NEW es \in Seq(Entry), Len(es) >= 1
  PROVE  /\ Tail(es) \in Seq(Entry) /\ Len(Tail(es)) = Len(es) - 1
         /\ \A used : InOrder(es, used) => InOrder(Tail(es), used)
         /\ Unique(es) =>
              /\ Unique(Tail(es))
              /\ ToSet(Tail(es)) = {x \in ToSet(es) : x.id # es[1].id}
<1> DEFINE t == Tail(es)
           n == Len(es)
<1>0. n \in Nat /\ DOMAIN es = 1 .. n
  BY SeqFacts
<1>1. es # <<>>
  BY <1>0
<1>2. /\ t \in Seq(Entry) /\ Len(t) = n - 1
      /\ \A k \in 1 .. Len(t) : t[k] = es[k + 1]
  BY <1>1, HeadTailProperties
<1> HIDE DEF t, n
<1>3. n >= 1
  BY DEF n
<1>4. DOMAIN t = 1 .. (n - 1)
  BY <1>2, SeqFacts
<1>5. \A k \in DOMAIN t : /\ k \in Int /\ k + 1 \in DOMAIN es /\ k + 1 # 1
                          /\ t[k] = es[k + 1]
  BY <1>0, <1>2, <1>3, <1>4
<1>6. \A k \in DOMAIN es : k # 1 => k - 1 \in DOMAIN t /\ t[k - 1] = es[k]
  BY <1>0, <1>2, <1>3, <1>4
<1>7. ASSUME NEW used, InOrder(es, used) PROVE InOrder(t, used)
  <2>1. \A k, l \in DOMAIN t : k < l => k + 1 < l + 1
    BY <1>5
  <2> QED BY <1>5, <1>7, <2>1 DEF InOrder
<1>8. ASSUME Unique(es)
      PROVE  ToSet(t) = {x \in ToSet(es) : x.id # es[1].id}
  <2>1. 1 \in DOMAIN es
    BY <1>0, <1>3
  <2>2. \A k \in DOMAIN es : k # 1 => es[k].id # es[1].id
    BY <1>8, <2>1 DEF Unique
  <2>3. \A k \in DOMAIN t : \E l \in DOMAIN es : t[k] = es[l] /\ es[l].id # es[1].id
    BY <1>5, <2>2
  <2>4. \A l \in DOMAIN es : es[l].id # es[1].id => \E k \in DOMAIN t : t[k] = es[l]
    BY <1>6
  <2> QED BY <2>3, <2>4 DEF ToSet
<1>9. ASSUME Unique(es) PROVE Unique(t)
  <2>1. ASSUME NEW k \in DOMAIN t, NEW l \in DOMAIN t, t[k].id = t[l].id
        PROVE  k = l
    <3>1. k + 1 = l + 1
      BY <1>5, <1>9, <2>1 DEF Unique
    <3> QED BY <1>5, <3>1
  <2> QED BY <2>1 DEF Unique
<1> QED BY <1>2, <1>7, <1>8, <1>9 DEF t, n

\* What a put of i may push out of a cache with the entries es.
Room(es, i) ==
  IF Cardinality(IdsOf(es) \cup {i}) <= CacheSize THEN {{}}
  ELSE {{j} : j \in IdsOf(es) \ {i}}

LEMMA PutIs ==
  ASSUME LruAssumption, NEW es \in Seq(Entry), Unique(es), Len(es) <= CacheSize, NEW e \in Entry
  PROVE  /\ PutInto(es, e) \in Seq(Entry) /\ Unique(PutInto(es, e))
         /\ Len(PutInto(es, e)) <= CacheSize
         /\ \E D \in Room(es, e.id) :
              ToSet(PutInto(es, e))
                = {x \in ToSet(es) : x.id # e.id /\ x.id \notin D} \cup {e}
<1> DEFINE new == Append(Remove_id(es, {e.id}), e)
<1>1. /\ new \in Seq(Entry) /\ Unique(new)
      /\ new[Len(new)] = e /\ Len(new) \in Nat /\ Len(new) >= 1
      /\ Len(new) <= Len(es) + 1
      /\ ToSet(new) = {x \in ToSet(es) : x.id # e.id} \cup {e}
      /\ IdsOf(new) = IdsOf(es) \cup {e.id}
  BY MovedIs
<1>2. PutInto(es, e) = IF Len(new) > CacheSize THEN Tail(new) ELSE new
  BY DEF PutInto
<1> HIDE DEF new
<1>3. Len(es) \in Nat /\ CacheSize \in Nat /\ CacheSize >= 1
  BY SeqFacts DEF LruAssumption
<1>4. Cardinality(IdsOf(es) \cup {e.id}) = Len(new)
  BY <1>1, UniqueCounts
<1>5. CASE Len(new) > CacheSize
  <2> DEFINE d == new[1].id
  <2>1. PutInto(es, e) = Tail(new)
    BY <1>2, <1>5
  <2>2. /\ Tail(new) \in Seq(Entry) /\ Len(Tail(new)) = Len(new) - 1
        /\ Unique(Tail(new))
        /\ ToSet(Tail(new)) = {x \in ToSet(new) : x.id # d}
    BY <1>1, TailIs
  <2>3. DOMAIN new = 1 .. Len(new)
    BY <1>1, SeqFacts
  <2>4. 1 \in DOMAIN new /\ Len(new) \in DOMAIN new /\ Len(new) # 1
    BY <1>1, <1>3, <1>5, <2>3
  <2>5. d # e.id
    BY <1>1, <2>4 DEF Unique
  <2>6. d \in IdsOf(new)
    BY <2>4 DEF IdsOf, ToSet
  <2>7. d \in IdsOf(es) \ {e.id}
    BY <1>1, <2>5, <2>6
  <2>8. {d} \in Room(es, e.id)
    BY <1>1, <1>3, <1>4, <1>5, <2>7 DEF Room
  <2> HIDE DEF d
  <2>9. ToSet(Tail(new)) = {x \in ToSet(es) : x.id # e.id /\ x.id \notin {d}} \cup {e}
    BY <1>1, <2>2, <2>5
  <2>10. Len(Tail(new)) <= CacheSize
    BY <1>1, <1>3, <2>2
  <2> QED BY <2>1, <2>2, <2>8, <2>9, <2>10
<1>6. CASE ~(Len(new) > CacheSize)
  <2>1. PutInto(es, e) = new /\ Len(new) <= CacheSize
    BY <1>1, <1>2, <1>3, <1>6
  <2>2. {} \in Room(es, e.id)
    BY <1>4, <2>1 DEF Room
  <2>3. ToSet(new) = {x \in ToSet(es) : x.id # e.id /\ x.id \notin {}} \cup {e}
    BY <1>1
  <2> QED BY <1>1, <2>1, <2>2, <2>3
<1> QED BY <1>5, <1>6

\* What a put leaves is in the order of the last uses too.
LEMMA PutInOrder ==
  ASSUME LruAssumption, NEW es \in Seq(Entry), Unique(es), NEW e \in Entry,
         NEW used \in [Ids -> Nat], NEW u \in Nat,
         \A i \in Ids : used[i] <= u, InOrder(es, used)
  PROVE  InOrder(PutInto(es, e), [used EXCEPT ![e.id] = u + 1])
<1> DEFINE new == Append(Remove_id(es, {e.id}), e)
           now == [used EXCEPT ![e.id] = u + 1]
<1>1. new \in Seq(Entry) /\ Len(new) >= 1
  BY MovedIs
<1>2. InOrder(new, now)
  BY MovedInOrder
<1>3. PutInto(es, e) = IF Len(new) > CacheSize THEN Tail(new) ELSE new
  BY DEF PutInto
<1> HIDE DEF new, now
<1>4. InOrder(Tail(new), now)
  BY <1>1, <1>2, TailIs
<1>5. InOrder(PutInto(es, e), now)
  BY <1>2, <1>3, <1>4
<1> QED BY <1>5 DEF now

-----------------------------------------------------------------------------
(* The types, and the order of the entries *)

\* The inductive invariant: the entries are in the order of their last uses,
\* and none of those is later than the last use of all.
LruInv ==
  /\ TypeOK
  /\ uses \in Nat
  /\ lastUse \in [Ids -> Nat]
  /\ \A i \in Ids : lastUse[i] <= uses
  /\ LeastRecentFirst

LEMMA InvParts ==
  ASSUME LruInv
  PROVE  /\ entries \in Seq(Entry) /\ Unique(entries)
         /\ Len(entries) <= CacheSize /\ Len(entries) \in Nat
         /\ InOrder(entries, lastUse)
         /\ uses \in Nat /\ lastUse \in [Ids -> Nat]
         /\ \A i \in Ids : lastUse[i] <= uses
BY SeqFacts DEF LruInv, TypeOK, LeastRecentFirst, Unique, InOrder

LEMMA PartsInv ==
  ASSUME entries' \in Seq(Entry), Unique(entries'), Len(entries') <= CacheSize,
         InOrder(entries', lastUse'), uses' \in Nat, lastUse' \in [Ids -> Nat],
         \A i \in Ids : lastUse'[i] <= uses'
  PROVE  LruInv'
BY DEF LruInv, TypeOK, LeastRecentFirst, Unique, InOrder

LEMMA UseIs ==
  ASSUME LruInv, NEW i \in Ids, Use(i)
  PROVE  /\ uses' \in Nat /\ lastUse' \in [Ids -> Nat]
         /\ lastUse' = [lastUse EXCEPT ![i] = uses + 1]
         /\ \A j \in Ids : lastUse'[j] <= uses'
BY InvParts DEF Use

\* A hit puts the entry it found at the end.
LEMMA GetIs ==
  ASSUME LruInv, NEW i \in Ids, Get(i)
  PROVE  /\ entries' \in Seq(Entry) /\ Unique(entries')
         /\ Len(entries') <= CacheSize
         /\ ToSet(entries') = ToSet(entries)
         /\ InOrder(entries', lastUse')
<1>1. PICK e \in ToSet(entries) :
        e.id = i /\ entries' = Append(Remove_id(entries, {i}), e)
  BY DEF Get
<1>2. /\ entries \in Seq(Entry) /\ Unique(entries) /\ InOrder(entries, lastUse)
      /\ Len(entries) <= CacheSize
      /\ uses \in Nat /\ lastUse \in [Ids -> Nat]
      /\ \A j \in Ids : lastUse[j] <= uses
  BY InvParts
<1>3. e \in Entry /\ e.id \in IdsOf(entries)
  BY <1>2, SeqFacts DEF IdsOf
<1>4. entries' = Append(Remove_id(entries, {e.id}), e)
  BY <1>1
<1>5. /\ entries' \in Seq(Entry) /\ Unique(entries')
      /\ Len(entries') = Len(entries)
      /\ ToSet(entries') = {x \in ToSet(entries) : x.id # e.id} \cup {e}
  BY <1>2, <1>3, <1>4, MovedIs
<1>6. \A x \in ToSet(entries) : x.id = e.id => x = e
  BY <1>2 DEF Unique, ToSet
<1>7. ToSet(entries') = ToSet(entries)
  BY <1>5, <1>6
<1>8. lastUse' = [lastUse EXCEPT ![e.id] = uses + 1]
  BY <1>1 DEF Get, Use
<1>9. InOrder(entries', lastUse')
  BY <1>2, <1>3, <1>4, <1>8, MovedInOrder
<1> QED BY <1>2, <1>5, <1>7, <1>9

LEMMA LruInvInit ==
  ASSUME LruAssumption
  PROVE  Init => LruInv
<1> SUFFICES ASSUME Init PROVE LruInv
  OBVIOUS
<1>1. entries = <<>> /\ uses = 0 /\ lastUse = [i \in Ids |-> 0]
  BY DEF Init
<1>2. entries \in Seq(Entry) /\ Len(entries) = 0 /\ DOMAIN entries = {}
  BY <1>1
<1>3. TypeOK /\ LeastRecentFirst
  BY <1>2 DEF TypeOK, LeastRecentFirst, LruAssumption
<1>4. uses \in Nat /\ lastUse \in [Ids -> Nat] /\ \A i \in Ids : lastUse[i] <= uses
  BY <1>1
<1> QED BY <1>3, <1>4 DEF LruInv

LEMMA LruInvStep ==
  ASSUME LruAssumption
  PROVE  LruInv /\ [Next]_vars => LruInv'
<1> SUFFICES ASSUME LruInv, [Next]_vars PROVE LruInv'
  OBVIOUS
<1>0. /\ entries \in Seq(Entry) /\ Unique(entries)
      /\ Len(entries) <= CacheSize /\ Len(entries) \in Nat
      /\ InOrder(entries, lastUse)
      /\ uses \in Nat /\ lastUse \in [Ids -> Nat]
      /\ \A i \in Ids : lastUse[i] <= uses
  BY InvParts
<1>1. ASSUME NEW i \in Ids, Get(i) PROVE LruInv'
  <2>1. Use(i)
    BY <1>1 DEF Get
  <2> QED BY <1>1, <2>1, GetIs, UseIs, PartsInv
<1>2. ASSUME NEW i \in Ids, NEW r \in Recs, Put(i, r) PROVE LruInv'
  <2> DEFINE e == [id |-> i, rec |-> r]
  <2>1. e \in Entry /\ e.id = i
    BY DEF Entry
  <2>2. entries' = PutInto(entries, e) /\ Use(i)
    BY <1>2 DEF Put
  <2> HIDE DEF e
  <2>3. /\ entries' \in Seq(Entry) /\ Unique(entries')
        /\ Len(entries') <= CacheSize
    BY <1>0, <2>1, <2>2, PutIs
  <2>4. lastUse' = [lastUse EXCEPT ![e.id] = uses + 1]
    BY <2>1, <2>2, UseIs
  <2>5. InOrder(entries', lastUse')
    BY <1>0, <2>1, <2>2, <2>4, PutInOrder
  <2> QED BY <2>2, <2>3, <2>5, UseIs, PartsInv
<1>3. ASSUME NEW S \in SUBSET Ids, Invalidate(S) PROVE LruInv'
  <2>1. entries' = Remove_id(entries, S) /\ uses' = uses /\ lastUse' = lastUse
    BY <1>3 DEF Invalidate
  <2>2. /\ entries' \in Seq(Entry) /\ Unique(entries')
        /\ Len(entries') <= Len(entries) /\ InOrder(entries', lastUse)
    BY <1>0, <2>1, RemoveIs
  <2>3. Len(entries') \in Nat
    BY <2>2, SeqFacts
  <2>4. Len(entries') <= CacheSize
    BY <1>0, <2>2, <2>3 DEF LruAssumption
  <2> QED BY <1>0, <2>1, <2>2, <2>4, PartsInv
<1>4. CASE Clear
  <2>1. entries' = <<>> /\ uses' = uses /\ lastUse' = lastUse
    BY <1>4 DEF Clear
  <2>2. entries' \in Seq(Entry) /\ Len(entries') = 0 /\ DOMAIN entries' = {}
    BY <2>1
  <2>3. Unique(entries') /\ InOrder(entries', lastUse')
    BY <2>2 DEF Unique, InOrder
  <2> QED BY <1>0, <2>1, <2>2, <2>3, PartsInv DEF LruAssumption
<1>5. CASE UNCHANGED vars
  BY <1>0, <1>5, PartsInv DEF vars
<1> QED BY <1>1, <1>2, <1>3, <1>4, <1>5 DEF Next

\* A cache never holds more than CacheSize entries, nor two of one id
\* (cache.py put, get, invalidate, clear).
THEOREM TypesHold ==
  ASSUME LruAssumption
  PROVE  Spec => []TypeOK
<1>1. Init => LruInv
  BY LruInvInit
<1>2. LruInv /\ [Next]_vars => LruInv'
  BY LruInvStep
<1>3. LruInv => TypeOK
  BY DEF LruInv
<1> QED BY <1>1, <1>2, <1>3, PTL DEF Spec

\* The entry a full cache evicts is always the one least recently used: every
\* other was put, or got with a hit, after it (cache.py put, get).
THEOREM EvictsLeastRecent ==
  ASSUME LruAssumption
  PROVE  Spec => []LeastRecentFirst
<1>1. Init => LruInv
  BY LruInvInit
<1>2. LruInv /\ [Next]_vars => LruInv'
  BY LruInvStep
<1>3. LruInv => LeastRecentFirst
  BY DEF LruInv
<1> QED BY <1>1, <1>2, <1>3, PTL DEF Spec

-----------------------------------------------------------------------------
(* The cache is a bounded map *)

ViewOf(es) ==
  [i \in Ids |-> IF i \in IdsOf(es)
                 THEN (CHOOSE e \in ToSet(es) : e.id = i).rec
                 ELSE NoRec]

LEMMA ViewIs ==
  ASSUME LruAssumption, NEW es \in Seq(Entry), Unique(es)
  PROVE  /\ \A e \in ToSet(es) : e.id \in Ids /\ ViewOf(es)[e.id] = e.rec
                                 /\ e.rec \in Recs /\ e.rec # NoRec
         /\ \A i \in Ids : (i \in IdsOf(es) <=> ViewOf(es)[i] # NoRec)
         /\ \A i \in Ids : ViewOf(es)[i] # NoRec =>
              \E e \in ToSet(es) : e.id = i /\ ViewOf(es)[i] = e.rec
<1>1. \A e \in ToSet(es) : e.id \in Ids /\ e.rec \in Recs /\ e.rec # NoRec
                           /\ e.id \in IdsOf(es)
  BY SeqFacts DEF Entry, IdsOf, LruAssumption
<1>2. \A e, x \in ToSet(es) : e.id = x.id => e = x
  BY DEF Unique, ToSet
<1>3. ASSUME NEW e \in ToSet(es) PROVE ViewOf(es)[e.id] = e.rec
  <2>1. (CHOOSE x \in ToSet(es) : x.id = e.id) = e
    BY <1>2
  <2> QED BY <1>1, <2>1 DEF ViewOf
<1>4. \A i \in IdsOf(es) : \E e \in ToSet(es) : e.id = i
  BY DEF IdsOf
<1>5. \A i \in Ids : i \notin IdsOf(es) => ViewOf(es)[i] = NoRec
  BY DEF ViewOf
<1> QED BY <1>1, <1>3, <1>4, <1>5

\* Two sequences of entries with the same entries, but for those of some ids.
LEMMA ViewsAgree ==
  ASSUME LruAssumption, NEW es \in Seq(Entry), Unique(es), NEW fs \in Seq(Entry), Unique(fs),
         NEW i \in Ids,
         \A e : e.id = i => (e \in ToSet(es) <=> e \in ToSet(fs))
  PROVE  ViewOf(es)[i] = ViewOf(fs)[i]
<1>1. CASE ViewOf(es)[i] # NoRec
  <2>1. PICK e \in ToSet(es) : e.id = i /\ ViewOf(es)[i] = e.rec
    BY <1>1, ViewIs
  <2>2. e \in ToSet(fs)
    BY <2>1
  <2> QED BY <2>1, <2>2, ViewIs
<1>2. CASE ViewOf(fs)[i] # NoRec
  <2>1. PICK e \in ToSet(fs) : e.id = i /\ ViewOf(fs)[i] = e.rec
    BY <1>2, ViewIs
  <2>2. e \in ToSet(es)
    BY <2>1
  <2> QED BY <2>1, <2>2, ViewIs
<1> QED BY <1>1, <1>2

LEMMA ViewGone ==
  ASSUME LruAssumption, NEW es \in Seq(Entry), Unique(es), NEW i \in Ids,
         \A e \in ToSet(es) : e.id # i
  PROVE  ViewOf(es)[i] = NoRec
BY ViewIs

LEMMA RefinesInit == Init => Bounded!Init
<1> SUFFICES ASSUME Init PROVE Bounded!Init
  OBVIOUS
<1>1. IdsOf(entries) = {}
  BY DEF Init, IdsOf, ToSet
<1> QED BY <1>1 DEF Bounded!Init, View

LEMMA RefinesStep ==
  ASSUME LruAssumption
  PROVE  LruInv /\ LruInv' /\ [Next]_vars => [Bounded!Next]_View
<1> SUFFICES ASSUME LruInv, LruInv', [Next]_vars PROVE [Bounded!Next]_View
  OBVIOUS
<1>1. /\ entries \in Seq(Entry) /\ Unique(entries) /\ Len(entries) <= CacheSize
      /\ entries' \in Seq(Entry) /\ Unique(entries')
  <2>1. entries \in Seq(Entry) /\ Unique(entries) /\ Len(entries) <= CacheSize
    BY InvParts
  <2>2. entries' \in Seq(Entry) /\ Unique(entries')
    BY DEF LruInv, TypeOK, Unique
  <2> QED BY <2>1, <2>2
<1>2. View = ViewOf(entries) /\ View' = ViewOf(entries')
  BY DEF View, ViewOf
<1>3. View' = [i \in Ids |-> View'[i]]
  BY DEF View
<1>4. ASSUME NEW i \in Ids, Get(i) PROVE View' = View
  <2>1. ToSet(entries') = ToSet(entries)
    BY <1>4, GetIs
  <2>2. IdsOf(entries') = IdsOf(entries)
    BY <2>1 DEF IdsOf
  <2> QED BY <1>2, <2>1, <2>2 DEF ViewOf
<1>5. ASSUME NEW i \in Ids, NEW r \in Recs, Put(i, r) PROVE Bounded!Put(i, r)
  <2> DEFINE e == [id |-> i, rec |-> r]
  <2>1. e \in Entry /\ e.id = i /\ e.rec = r
    BY DEF Entry
  <2>2. entries' = PutInto(entries, e)
    BY <1>5 DEF Put
  <2> HIDE DEF e
  <2>3. PICK D \in Room(entries, e.id) :
          ToSet(entries')
            = {x \in ToSet(entries) : x.id # e.id /\ x.id \notin D} \cup {e}
    BY <1>1, <2>1, <2>2, PutIs
  <2>4. Bounded!Cached = IdsOf(entries)
    <3>1. IdsOf(entries) \subseteq Ids
      BY <1>1, SeqFacts
    <3>2. \A j \in Ids : (j \in IdsOf(entries) <=> View[j] # NoRec)
      BY <1>1, <1>2, ViewIs
    <3> QED BY <3>1, <3>2 DEF Bounded!Cached
  <2>5. D \in Bounded!Evictions(i) /\ i \notin D
    <3>1. \A S : Bounded!Cardinality(S) = Cardinality(S)
      BY DEF Bounded!Cardinality, Cardinality
    <3>2. Room(entries, i) = Bounded!Evictions(i)
      BY <2>4, <3>1 DEF Bounded!Evictions, Room
    <3>3. \A E \in Room(entries, i) : i \notin E
      BY DEF Room
    <3> QED BY <2>1, <2>3, <3>2, <3>3
  <2>6. ASSUME NEW j \in Ids
        PROVE  View'[j] = IF j = i THEN r ELSE IF j \in D THEN NoRec ELSE View[j]
    <3>1. CASE j = i
      <4>1. e \in ToSet(entries')
        BY <2>3
      <4> QED BY <1>1, <1>2, <2>1, <3>1, <4>1, ViewIs
    <3>2. CASE j # i /\ j \in D
      <4>1. \A x \in ToSet(entries') : x.id # j
        BY <2>1, <2>3, <3>2
      <4> QED BY <1>1, <1>2, <3>2, <4>1, ViewGone
    <3>3. CASE j # i /\ j \notin D
      <4>1. \A x : x.id = j => (x \in ToSet(entries) <=> x \in ToSet(entries'))
        BY <2>1, <2>3, <3>3
      <4> QED BY <1>1, <1>2, <3>3, <4>1, ViewsAgree
    <3> QED BY <3>1, <3>2, <3>3
  <2>7. View' = [j \in Ids |-> IF j = i THEN r ELSE IF j \in D THEN NoRec ELSE View[j]]
    BY <1>3, <2>6
  <2> QED BY <2>5, <2>7 DEF Bounded!Put
<1>6. ASSUME NEW S \in SUBSET Ids, Invalidate(S) PROVE Bounded!Drop(S)
  <2>1. ToSet(entries') = {x \in ToSet(entries) : x.id \notin S}
    BY <1>1, <1>6, RemoveIs DEF Invalidate
  <2>2. ASSUME NEW j \in Ids
        PROVE  View'[j] = IF j \in S THEN NoRec ELSE View[j]
    <3>1. CASE j \in S
      <4>1. \A x \in ToSet(entries') : x.id # j
        BY <2>1, <3>1
      <4> QED BY <1>1, <1>2, <3>1, <4>1, ViewGone
    <3>2. CASE j \notin S
      <4>1. \A x : x.id = j => (x \in ToSet(entries) <=> x \in ToSet(entries'))
        BY <2>1, <3>2
      <4> QED BY <1>1, <1>2, <3>2, <4>1, ViewsAgree
    <3> QED BY <3>1, <3>2
  <2>3. View' = [j \in Ids |-> IF j \in S THEN NoRec ELSE View[j]]
    BY <1>3, <2>2
  <2> QED BY <2>3 DEF Bounded!Drop
<1>7. ASSUME Clear PROVE Bounded!Drop(Ids)
  <2>1. \A x \in ToSet(entries') : FALSE
    BY <1>7 DEF Clear, ToSet
  <2>2. \A j \in Ids : View'[j] = NoRec
    BY <1>1, <1>2, <2>1, ViewGone
  <2>3. View' = [j \in Ids |-> IF j \in Ids THEN NoRec ELSE View[j]]
    BY <1>3, <2>2
  <2> QED BY <2>3 DEF Bounded!Drop
<1>8. CASE UNCHANGED vars
  BY <1>2, <1>8 DEF vars
<1> QED BY <1>4, <1>5, <1>6, <1>7, <1>8 DEF Next, Bounded!Next

\* The cache is the bounded map a collection takes it for: only a put adds or
\* changes a record, and a put into a full cache gives up one other.
THEOREM BoundedCacheImplemented ==
  ASSUME LruAssumption
  PROVE  Spec => ImplementsBoundedCache
<1>1. Init => LruInv
  BY LruInvInit
<1>2. LruInv /\ [Next]_vars => LruInv'
  BY LruInvStep
<1>3. LruInv /\ LruInv' /\ [Next]_vars => [Bounded!Next]_View
  BY RefinesStep
<1> QED
  BY <1>1, <1>2, <1>3, RefinesInit, PTL
     DEF Spec, ImplementsBoundedCache, Bounded!Spec

-----------------------------------------------------------------------------
(* Warming *)

\* What the cache holds after each of the first n records of a batch.
Fills(es, batch, n, f) ==
  f = [k \in 0 .. n |-> IF k = 0 THEN es ELSE PutInto(f[k - 1], batch[k])]

LEMMA FillsExist ==
  ASSUME NEW es, NEW batch, NEW n \in Nat
  PROVE  \E f : Fills(es, batch, n, f)
<1> DEFINE M == {m \in Nat : ~ \E f : Fills(es, batch, m, f)}
<1>1. SUFFICES ASSUME M # {} PROVE FALSE
  OBVIOUS
<1>2. PICK m \in M : \A y \in M : ~(y < m)
  <2>1. M \in SUBSET Nat
    OBVIOUS
  <2> HIDE DEF M
  <2> QED BY <1>1, <2>1, LeastNumber
<1>3. m \in Nat /\ ~ \E f : Fills(es, batch, m, f)
  OBVIOUS
<1>4. m # 0
  <2> DEFINE g == [k \in 0 .. 0 |-> es]
  <2>1. Fills(es, batch, 0, g)
    BY DEF Fills
  <2> QED BY <1>3, <2>1
<1>5. PICK l \in Nat : l = m - 1
  BY <1>3, <1>4
<1>6. PICK f : Fills(es, batch, l, f)
  BY <1>2, <1>3, <1>5
<1> DEFINE g == [k \in 0 .. m |-> IF k = m THEN PutInto(f[l], batch[m]) ELSE f[k]]
<1>7. \A k \in 0 .. m :
        g[k] = IF k = 0 THEN es ELSE PutInto(g[k - 1], batch[k])
  <2> TAKE k \in 0 .. m
  <2>1. CASE k = m
    <3>1. g[l] = f[l]
      BY <1>3, <1>5
    <3> QED BY <1>3, <1>4, <1>5, <2>1, <3>1
  <2>2. CASE k # m
    <3>1. k \in 0 .. l /\ k # 0 => k - 1 \in 0 .. m /\ k - 1 # m
      BY <1>3, <1>5, <2>2
    <3>2. k \in 0 .. l
      BY <1>3, <1>5, <2>2
    <3>3. f[k] = IF k = 0 THEN es ELSE PutInto(f[k - 1], batch[k])
      BY <1>6, <3>2 DEF Fills
    <3> QED BY <2>2, <3>1, <3>2, <3>3
  <2> QED BY <2>1, <2>2
<1>8. Fills(es, batch, m, g)
  <2>1. g = [k \in 0 .. m |-> g[k]]
    OBVIOUS
  <2> HIDE DEF g
  <2> QED BY <1>7, <2>1 DEF Fills
<1> QED BY <1>3, <1>8

\* Those are what warm goes through.
Warms(es, batch, n, f) ==
  /\ WarmInto(es, batch) = f[n]
  /\ f[0] = es
  /\ \A k \in 1 .. n : f[k] = PutInto(f[k - 1], batch[k])

LEMMA WarmIs ==
  ASSUME NEW es, NEW batch, NEW n \in Nat, n = Len(batch)
  PROVE  \E f : Warms(es, batch, n, f)
<1> DEFINE after ==
      CHOOSE f : f = [k \in 0 .. Len(batch) |->
                        IF k = 0 THEN es ELSE PutInto(f[k - 1], batch[k])]
<1>1. WarmInto(es, batch) = after[n]
  BY DEF WarmInto
<1>2. after = [k \in 0 .. n |->
                 IF k = 0 THEN es ELSE PutInto(after[k - 1], batch[k])]
  BY FillsExist DEF Fills
<1> HIDE DEF after
<1>3. after[0] = es /\ \A k \in 1 .. n : after[k] = PutInto(after[k - 1], batch[k])
  BY <1>2
<1>4. Warms(es, batch, n, after)
  BY <1>1, <1>3 DEF Warms
<1> QED BY <1>4

\* The last c elements of s are those of t that end with the k-th.
EndsAs(s, c, t, k) ==
  /\ c <= Len(s)
  /\ \A j \in 0 .. c - 1 : s[Len(s) - j] = t[k - j]

\* Removing an id that the last c entries do not have leaves them the last.
LEMMA RemoveKeepsEnd ==
  ASSUME NEW es \in Seq(Entry), Unique(es), NEW i \in Ids,
         NEW c \in Nat, c <= Len(es),
         \A j \in 0 .. c - 1 : es[Len(es) - j].id # i
  PROVE  EndsAs(Remove_id(es, {i}), c, es, Len(es))
<1> DEFINE D == DOMAIN es
           K == {k \in D : es[k].id \notin {i}}
           r == Remove_id(es, {i})
<1>1. PICK n \in Nat : n = Len(es) /\ D = 1 .. n
  BY SeqFacts
<1>2. r = Keep(es, K) /\ K \in SUBSET (DOMAIN es)
  BY DEF Remove_id
<1>3. CASE \A k \in D : es[k].id # i
  <2>1. K = D
    BY <1>3
  <2>2. r = es
    BY <1>2, <2>1, KeepAll
  <2> QED BY <1>1, <2>2 DEF EndsAs
<1>4. ASSUME NEW h \in D, es[h].id = i
      PROVE  EndsAs(r, c, es, Len(es))
  <2>1. K = D \ {h}
    BY <1>4 DEF Unique
  <2>2. /\ IsFiniteSet(D) /\ Cardinality(D) = n
        /\ Cardinality(D \ {h}) = n - 1
    <3>1. IsFiniteSet(D) /\ Cardinality(D) = n
      BY <1>1, Counted
    <3> HIDE DEF D
    <3> QED BY <1>4, <3>1, FS_RemoveElement
  <2>3. Keep(es, D) = es
    BY KeepAll
  <2>4. PICK m \in 1 .. n :
          /\ es[m] = es[h]
          /\ \A a \in 1 .. n - 1 : r[a] = es[IF a < m THEN a ELSE a + 1]
    <3>1. D \in SUBSET (DOMAIN es)
      OBVIOUS
    <3>2. r = Keep(es, D \ {h})
      BY <1>2, <2>1
    <3> HIDE DEF D, K, r
    <3>3. \E m \in 1 .. Cardinality(D) :
            /\ Keep(es, D)[m] = es[h]
            /\ \A a \in 1 .. Cardinality(D) - 1 :
                 Keep(es, D \ {h})[a] = Keep(es, D)[IF a < m THEN a ELSE a + 1]
      BY <1>4, <3>1, KeepLess
    <3> QED BY <2>2, <2>3, <3>2, <3>3
  <2>5. m = h
    BY <1>1, <1>4, <2>4 DEF Unique
  <2>6. Len(r) = n - 1
    <3>1. Len(Keep(es, K)) = Cardinality(K)
      <4> HIDE DEF K, r
      <4> QED BY <1>2, KeepIs
    <3> HIDE DEF K, r, D
    <3> QED BY <1>2, <2>1, <2>2, <3>1
  <2> HIDE DEF D, K, r
  <2>7. h \in 1 .. n
    BY <1>1, <1>4
  <2>8. h <= n - c
    <3> DEFINE j == n - h
    <3>1. j \in Nat /\ n - j = h /\ (j \in 0 .. c - 1 \/ h <= n - c)
      BY <1>1, <2>7
    <3> HIDE DEF j
    <3>2. j \notin 0 .. c - 1
      BY <1>1, <1>4, <3>1
    <3> QED BY <3>1, <3>2
  <2>9. ASSUME NEW j \in 0 .. c - 1
        PROVE  r[(n - 1) - j] = es[n - j]
    <3> DEFINE a == (n - 1) - j
    <3>1. a \in 1 .. n - 1 /\ ~(a < h) /\ a + 1 = n - j
      BY <1>1, <2>7, <2>8
    <3> HIDE DEF a
    <3>2. r[a] = es[n - j]
      BY <2>4, <2>5, <3>1
    <3> QED BY <3>2 DEF a
  <2> QED BY <1>1, <2>6, <2>7, <2>8, <2>9 DEF EndsAs
<1> QED BY <1>3, <1>4

\* A put of the record that comes next in a batch of different records.
LEMMA PutAtEnd ==
  ASSUME LruAssumption, NEW es \in Seq(Entry), Unique(es), Len(es) <= CacheSize,
         NEW t \in Seq(Entry), Unique(t), NEW k \in Nat, k + 1 \in DOMAIN t,
         NEW c \in Nat, c <= k, EndsAs(es, c, t, k),
         NEW d \in Nat, d <= c + 1, d <= CacheSize
  PROVE  EndsAs(PutInto(es, t[k + 1]), d, t, k + 1)
<1> DEFINE r   == Remove_id(es, {t[k + 1].id})
           new == Append(r, t[k + 1])
           put == PutInto(es, t[k + 1])
<1>1. PICK e \in Entry : e = t[k + 1] /\ e.id \in Ids
  BY SeqFacts
<1>2. Len(es) \in Nat /\ c <= Len(es)
      /\ \A j \in 0 .. c - 1 : es[Len(es) - j] = t[k - j]
  BY SeqFacts DEF EndsAs
<1>3. \A j \in 0 .. c - 1 : es[Len(es) - j].id # e.id
  <2> TAKE j \in 0 .. c - 1
  <2>1. k - j \in DOMAIN t /\ k - j # k + 1
    BY SeqFacts
  <2> QED BY <1>1, <1>2, <2>1 DEF Unique
<1>4. EndsAs(r, c, es, Len(es))
  BY <1>1, <1>2, <1>3, RemoveKeepsEnd
<1>5. r \in Seq(Entry) /\ new \in Seq(Entry) /\ put = IF Len(new) > CacheSize THEN Tail(new) ELSE new
  BY <1>1, RemoveIs, AppendIs DEF PutInto
<1> HIDE DEF r, put
<1>6. PICK m \in Nat : m = Len(r) /\ DOMAIN r = 1 .. m
  BY <1>5, SeqFacts
<1>7. c <= m /\ \A j \in 0 .. c - 1 : r[m - j] = t[k - j]
  BY <1>2, <1>4, <1>6 DEF EndsAs
<1>8. /\ Len(new) = m + 1 /\ new[m + 1] = t[k + 1]
      /\ \A x \in 1 .. m : new[x] = r[x]
  BY <1>1, <1>5, <1>6, AppendIs
<1> HIDE DEF new
<1>9. \A j \in 0 .. d - 1 : new[(m + 1) - j] = t[(k + 1) - j]
  <2> TAKE j \in 0 .. d - 1
  <2>1. CASE j = 0
    BY <1>6, <1>8, <2>1
  <2>2. CASE j # 0
    <3>1. PICK i \in 0 .. c - 1 : i = j - 1
      BY <2>2
    <3>2. m - i = (m + 1) - j /\ k - i = (k + 1) - j /\ m - i \in 1 .. m
      BY <1>6, <1>7, <3>1
    <3>3. r[m - i] = t[k - i]
      BY <1>7, <3>1
    <3>4. new[m - i] = r[m - i]
      BY <1>8, <3>2
    <3> QED BY <3>2, <3>3, <3>4
  <2> QED BY <2>1, <2>2
<1>10. CASE Len(new) > CacheSize
  <2>1. put = Tail(new)
    BY <1>5, <1>10
  <2>2. Len(new) >= 1
    BY <1>6, <1>8
  <2>3. Len(put) = m /\ \A x \in 1 .. m : put[x] = new[x + 1]
    <3>1. new # <<>>
      BY <1>6, <1>8
    <3> QED BY <1>5, <1>6, <1>8, <2>1, <3>1, HeadTailProperties
  <2>4. d <= m
    BY <1>6, <1>8, <1>10 DEF LruAssumption
  <2>5. \A j \in 0 .. d - 1 : put[m - j] = t[(k + 1) - j]
    <3> TAKE j \in 0 .. d - 1
    <3>1. PICK x \in 1 .. m : x = m - j /\ x + 1 = (m + 1) - j
      <4>1. m - j \in 1 .. m /\ (m - j) + 1 = (m + 1) - j
        BY <1>6, <2>4
      <4> QED BY <4>1
    <3> QED BY <1>9, <2>3, <3>1
  <2> QED BY <2>3, <2>4, <2>5 DEF EndsAs, put
<1>11. CASE ~(Len(new) > CacheSize)
  <2>1. put = new
    BY <1>5, <1>11
  <2>2. d <= m + 1
    BY <1>6, <1>7
  <2> QED BY <1>8, <1>9, <2>1, <2>2 DEF EndsAs, put
<1> QED BY <1>10, <1>11

\* A batch of different records, warmed into any cache.
LEMMA Warming ==
  ASSUME LruAssumption, NEW es \in Seq(Entry), Unique(es), Len(es) <= CacheSize,
         NEW t \in Seq(Entry), Unique(t), Len(t) >= CacheSize
  PROVE  /\ WarmInto(es, t) \in Seq(Entry) /\ Len(WarmInto(es, t)) <= CacheSize
         /\ EndsAs(WarmInto(es, t), CacheSize, t, Len(t))
<1>1. PICK n \in Nat : n = Len(t) /\ DOMAIN t = 1 .. n
  BY SeqFacts
<1>1a. PICK f : Warms(es, t, n, f)
  BY <1>1, WarmIs
<1>2. /\ WarmInto(es, t) = f[n] /\ f[0] = es
      /\ \A k \in 1 .. n : f[k] = PutInto(f[k - 1], t[k])
  BY <1>1a DEF Warms
<1>3. CacheSize \in Nat /\ CacheSize >= 1
  BY DEF LruAssumption
<1> DEFINE c(k) == IF k < CacheSize THEN k ELSE CacheSize
           Good(k) == /\ f[k] \in Seq(Entry) /\ Unique(f[k])
                      /\ Len(f[k]) <= CacheSize /\ EndsAs(f[k], c(k), t, k)
           M == {m \in Nat : m <= n /\ ~Good(m)}
<1>4. M = {}
  <2>1. SUFFICES ASSUME M # {} PROVE FALSE
    OBVIOUS
  <2>2. PICK m \in M : \A y \in M : ~(y < m)
    <3>1. M \in SUBSET Nat
      OBVIOUS
    <3> HIDE DEF M
    <3> QED BY <2>1, <3>1, LeastNumber
  <2>3. m \in Nat /\ m <= n /\ ~Good(m)
    OBVIOUS
  <2>4. Good(0)
    <3>1. Len(es) \in Nat /\ c(0) = 0
      BY <1>3, SeqFacts
    <3> QED BY <1>2, <3>1 DEF EndsAs
  <2> HIDE DEF Good
  <2>5. m # 0
    BY <2>3, <2>4
  <2>6. PICK k \in Nat : k = m - 1 /\ k + 1 = m
    BY <2>3, <2>5
  <2>7. Good(k)
    BY <1>1, <2>2, <2>3, <2>6
  <2>8. f[m] = PutInto(f[k], t[k + 1]) /\ k + 1 \in DOMAIN t
    BY <1>1, <1>2, <2>3, <2>5, <2>6
  <2>9. /\ f[k] \in Seq(Entry) /\ Unique(f[k])
        /\ Len(f[k]) <= CacheSize /\ EndsAs(f[k], c(k), t, k)
    BY <2>7 DEF Good
  <2>10. /\ c(k) \in Nat /\ c(m) \in Nat /\ c(k) <= k
         /\ c(m) <= c(k) + 1 /\ c(m) <= CacheSize
    BY <1>3, <2>3, <2>6
  <2> HIDE DEF c
  <2>11. EndsAs(f[m], c(m), t, m)
    BY <2>6, <2>8, <2>9, <2>10, PutAtEnd
  <2>12. f[m] \in Seq(Entry) /\ Unique(f[m]) /\ Len(f[m]) <= CacheSize
    <3>1. PICK w : w = f[k]
      OBVIOUS
    <3>2. PICK e \in Entry : e = t[k + 1]
      BY <2>8, SeqFacts
    <3>3. /\ PutInto(w, e) \in Seq(Entry) /\ Unique(PutInto(w, e))
          /\ Len(PutInto(w, e)) <= CacheSize
      BY <2>9, <3>1, PutIs
    <3> QED BY <2>8, <3>1, <3>2, <3>3
  <2>13. Good(m)
    BY <2>11, <2>12 DEF Good
  <2> QED BY <2>3, <2>13
<1>5. Good(n) /\ c(n) = CacheSize
  BY <1>1, <1>3, <1>4
<1> QED BY <1>1, <1>2, <1>5

LEMMA DifferentIds ==
  ASSUME NEW es \in Seq(Entry), Cardinality(IdsOf(es)) = Len(es)
  PROVE  Unique(es)
<1>1. Len(es) \in Nat /\ DOMAIN es = 1 .. Len(es)
  BY LenProperties
<1>2. /\ \A k \in 1 .. Len(es) : es[k].id \in IdsOf(es)
      /\ \A i \in IdsOf(es) : \E k \in 1 .. Len(es) : es[k].id = i
  BY <1>1, Zenon DEF IdsOf, ToSet
<1> DEFINE f == [k \in 1 .. Len(es) |-> es[k].id]
<1>3. f \in Surjection(1 .. Len(es), IdsOf(es))
  <2>1. f \in [1 .. Len(es) -> IdsOf(es)]
    BY <1>2
  <2>2. \A i \in IdsOf(es) : \E k \in 1 .. Len(es) : f[k] = i
    BY <1>2
  <2> HIDE DEF f
  <2> QED BY <2>1, <2>2 DEF Surjection
<1>4. IsFiniteSet(1 .. Len(es)) /\ Cardinality(1 .. Len(es)) = Cardinality(IdsOf(es))
  BY <1>1, Counted
<1>5. \A k, l \in 1 .. Len(es) : f[k] = f[l] => k = l
  <2> HIDE DEF f
  <2>1. f \in Injection(1 .. Len(es), IdsOf(es))
    BY <1>3, <1>4, FS_SurjSameCardinalityImpliesInj
  <2> QED BY <2>1 DEF Injection, IsInjective
<1> QED BY <1>1, <1>5 DEF Unique

LEMMA WarmFromTypes ==
  ASSUME LruAssumption, TypeOK
  PROVE  WarmKeepsLast
<1> SUFFICES ASSUME NEW t \in Batches, Cardinality(IdsOf(t)) = Len(t),
                    Len(t) >= CacheSize
             PROVE  WarmInto(entries, t) = SubSeq(t, Len(t) - CacheSize + 1, Len(t))
  BY DEF WarmKeepsLast
<1>1. t \in Seq(Entry) /\ Unique(t)
  BY DifferentIds DEF LruAssumption
<1>2. PICK n \in Nat : n = Len(t)
  BY <1>1, SeqFacts
<1>3. PICK w : w = WarmInto(entries, t)
  OBVIOUS
<1>4. w \in Seq(Entry) /\ Len(w) <= CacheSize /\ EndsAs(w, CacheSize, t, n)
  BY <1>1, <1>2, <1>3, Warming DEF TypeOK, Unique
<1>5. CacheSize \in Nat /\ Len(w) = CacheSize
      /\ \A j \in 0 .. CacheSize - 1 : w[CacheSize - j] = t[n - j]
  BY <1>4, SeqFacts DEF EndsAs, LruAssumption
<1>6. PICK o \in Nat : o = n - CacheSize
  BY <1>2, <1>5
<1>7. PICK s : s = SubSeq(t, o + 1, n)
  OBVIOUS
<1>8. s \in Seq(Entry) /\ Len(s) = CacheSize /\ \A x \in 1 .. CacheSize : s[x] = t[o + x]
  BY <1>1, <1>2, <1>5, <1>6, <1>7, SuffixIs
<1>9. \A x \in 1 .. CacheSize : w[x] = t[o + x]
  <2> TAKE x \in 1 .. CacheSize
  <2> DEFINE j == CacheSize - x
  <2>1. j \in 0 .. CacheSize - 1 /\ CacheSize - j = x /\ n - j = o + x
    BY <1>2, <1>5, <1>6
  <2> HIDE DEF j
  <2> QED BY <1>5, <2>1
<1>10. w = s
  BY <1>4, <1>5, <1>8, <1>9, SeqEqual
<1> QED BY <1>2, <1>3, <1>6, <1>7, <1>10

\* Warming any cache with CacheSize different records or more leaves the last
\* CacheSize of them, in their order (cache.py:158).
THEOREM WarmingKeepsLast ==
  ASSUME LruAssumption
  PROVE  Spec => []WarmKeepsLast
<1>1. Init => LruInv
  BY LruInvInit
<1>2. LruInv /\ [Next]_vars => LruInv'
  BY LruInvStep
<1>3. LruInv => WarmKeepsLast
  BY WarmFromTypes DEF LruInv
<1> QED BY <1>1, <1>2, <1>3, PTL DEF Spec
=============================================================================

----------------------------- MODULE RecordsProofs -----------------------------
(***************************************************************************)
(* Theorems about Records, for every schema and all records, patches and   *)
(* predicates, any number of threads and any bounds.                       *)
(***************************************************************************)
EXTENDS Records, SubsequenceProofs

-----------------------------------------------------------------------------
(* The types *)

PosNat == Nat \ {0}

Line == [id : PosNat, rec : Record \cup {Gone}]

Jobs ==
  [kind  : {"none", "create", "update", "delete"},
   todo  : Seq(Record) \cup Seq(PosNat),
   patch : Record \cup {Absent},
   id    : Nat,
   done  : Nat]

\* What a call has still to do, by its kind.  Only a create has an id, that of
\* the first record of its list, which is complete and valid by then.
JobOK(j) ==
  /\ j.kind = "none" => j = Idle
  /\ j.kind = "create" => j.todo \in Seq(Record)
  /\ j.kind \in {"update", "delete"} => j.todo \in Seq(PosNat)
  /\ j.kind = "update" => j.patch \in Record
  /\ j.id # 0 => /\ j.kind = "create"
                 /\ j.todo # <<>>
                 /\ Valid(SchemaOf, Head(j.todo))

TypeInv ==
  /\ table \in Seq(Line)
  /\ counter \in Nat
  /\ job \in [Threads -> Jobs]
  /\ \A t \in Threads : JobOK(job[t])
  /\ walk \in [on : BOOLEAN, next : Nat, seen : Seq(Nat), over : BOOLEAN,
               steady : SUBSET Nat, deletes : Nat]
  /\ reported \in Nat
  /\ took \in [Threads -> SUBSET Nat]
  /\ told \in SUBSET Nat

-----------------------------------------------------------------------------
(* Every id has one line, and is that of a record or of a create to come *)

Unique(s) == \A k, l \in DOMAIN s : s[k].id = s[l].id => k = l

LineIds == {x.id : x \in ToSet(table)}

IdInv ==
  /\ Unique(table)
  /\ LineIds \subseteq 1 .. counter
  /\ \A t \in Threads : Drawn(t) => job[t].id \in (1 .. counter) \ LineIds
  /\ \A t, u \in Threads :
       Drawn(t) /\ Drawn(u) /\ job[t].id = job[u].id => t = u

\* Only a delete call has deleted anything.
TookInv ==
  /\ IsFiniteSet(told)
  /\ \A t \in Threads : IsFiniteSet(took[t])
  /\ \A t \in Threads : took[t] # {} => Busy(t, "delete")

-----------------------------------------------------------------------------
(* The reader *)

\* The records up to where the reader is, that were there all along.
Behind ==
  {Live[k].id : k \in {j \in DOMAIN Live : j <= walk.next}} \cap walk.steady

\* What the reader has seen is behind it, unless it is deleted, and what is
\* behind it unseen has got there by a delete.
WalkInv ==
  walk.on =>
    /\ IsInjective(walk.seen)
    /\ ToSet(walk.seen) \subseteq 1 .. counter
    /\ \A t \in Threads : Drawn(t) => job[t].id \notin ToSet(walk.seen)
    /\ ~walk.over =>
         /\ walk.steady \subseteq LiveIds
         /\ \A k \in DOMAIN Live :
              Live[k].id \in ToSet(walk.seen) => k <= walk.next
         /\ Cardinality(Behind \ ToSet(walk.seen)) <= walk.deletes
    /\ walk.over =>
         /\ IsFiniteSet(walk.steady \ ToSet(walk.seen))
         /\ Cardinality(walk.steady \ ToSet(walk.seen)) <= walk.deletes

-----------------------------------------------------------------------------
(* Lemmas: the live lines of a file *)

LiveAt(s) == {k \in DOMAIN s : IsLive(s[k])}

LiveOf(s) == Keep(s, LiveAt(s))

LEMMA LiveIsLiveOf == Live = LiveOf(table)
BY DEF Live, LiveOf, LiveAt

\* They are lines of the file, each once.
LEMMA LiveOfIs ==
  ASSUME NEW s \in Seq(Line)
  PROVE  /\ LiveOf(s) \in Seq(Line)
         /\ Len(LiveOf(s)) \in Nat
         /\ DOMAIN LiveOf(s) = 1 .. Len(LiveOf(s))
         /\ ToSet(LiveOf(s)) = {x \in ToSet(s) : IsLive(x)}
         /\ \A k \in DOMAIN LiveOf(s) : IsLive(LiveOf(s)[k])
         /\ Unique(s) => Unique(LiveOf(s))
<1> DEFINE K == LiveAt(s)
           r == Keep(s, K)
<1>1. K \in SUBSET (DOMAIN s)
  BY DEF LiveAt
<1>2. DOMAIN s = 1 .. Len(s) /\ Len(s) \in Nat
  BY LenProperties
<1>3. /\ r \in Seq(Line)
      /\ \A a \in DOMAIN r : Nth(K, a) \in K /\ r[a] = s[Nth(K, a)]
      /\ \A a, b \in DOMAIN r : a < b => Nth(K, a) < Nth(K, b)
      /\ \A k \in K : \E a \in DOMAIN r : r[a] = s[k]
  <2> HIDE DEF K
  <2> QED BY <1>1, KeepIs
<1>4. Len(r) \in Nat /\ DOMAIN r = 1 .. Len(r)
  BY <1>3, LenProperties
<1>5. \A k \in DOMAIN s : k \in K <=> IsLive(s[k])
  BY DEF LiveAt
<1> HIDE DEF K, r
<1>6. \A k \in DOMAIN r : IsLive(r[k])
  BY <1>1, <1>3, <1>5
<1>7. ToSet(r) = {x \in ToSet(s) : IsLive(x)}
  <2>1. \A x \in ToSet(r) : x \in ToSet(s) /\ IsLive(x)
    BY <1>1, <1>3, <1>6 DEF ToSet
  <2>2. ASSUME NEW x \in ToSet(s), IsLive(x) PROVE x \in ToSet(r)
    <3>1. PICK k \in DOMAIN s : s[k] = x
      BY DEF ToSet
    <3>2. k \in K
      BY <1>5, <2>2, <3>1
    <3>3. PICK a \in DOMAIN r : r[a] = s[k]
      BY <1>3, <3>2
    <3> QED BY <3>1, <3>3 DEF ToSet
  <2> QED BY <2>1, <2>2
<1>8. ASSUME Unique(s) PROVE Unique(r)
  <2> SUFFICES ASSUME NEW a \in DOMAIN r, NEW b \in DOMAIN r, r[a].id = r[b].id
               PROVE  a = b
    BY DEF Unique
  <2>1. /\ Nth(K, a) \in DOMAIN s /\ r[a] = s[Nth(K, a)]
        /\ Nth(K, b) \in DOMAIN s /\ r[b] = s[Nth(K, b)]
    BY <1>1, <1>3
  <2>2. Nth(K, a) = Nth(K, b)
    BY <1>8, <2>1 DEF Unique
  <2>3. a \in Int /\ b \in Int /\ Nth(K, a) \in Int
    BY <1>2, <1>4, <2>1
  <2>4. ~(a < b) /\ ~(b < a)
    BY <1>3, <2>2, <2>3
  <2> QED BY <2>3, <2>4
<1> QED BY <1>3, <1>4, <1>6, <1>7, <1>8 DEF LiveOf, r, K

\* A file of live lines only.
LEMMA LiveOfLive ==
  ASSUME NEW s \in Seq(Line), \A k \in DOMAIN s : IsLive(s[k])
  PROVE  LiveOf(s) = s
<1>1. LiveAt(s) = DOMAIN s
  BY DEF LiveAt
<1> QED BY <1>1, KeepAll DEF LiveOf

\* A new record comes last.
LEMMA LiveOfAppend ==
  ASSUME NEW s \in Seq(Line), NEW x \in Line, IsLive(x)
  PROVE  LiveOf(Append(s, x)) = Append(LiveOf(s), x)
<1> DEFINE K == LiveAt(s)
           l == Append(s, x)
           n == Len(s)
<1>1. K \in SUBSET (DOMAIN s)
  BY DEF LiveAt
<1>2. DOMAIN s = 1 .. n /\ n \in Nat
  BY LenProperties
<1>3. /\ DOMAIN l = 1 .. n + 1 /\ l[n + 1] = x
      /\ \A k \in 1 .. n : l[k] = s[k]
  BY <1>2, AppendProperties, LenProperties
<1>4. Keep(l, K \cup {n + 1}) = Append(Keep(s, K), x)
  <2> HIDE DEF K
  <2> QED BY <1>1, KeepMore
<1> HIDE DEF l, n
<1>5. LiveAt(l) = K \cup {n + 1}
  <2>1. \A k \in LiveAt(l) : k \in K \cup {n + 1}
    BY <1>2, <1>3 DEF LiveAt
  <2>2. \A k \in K \cup {n + 1} : k \in LiveAt(l)
    BY <1>2, <1>3 DEF LiveAt
  <2> QED BY <2>1, <2>2
<1> QED BY <1>4, <1>5 DEF LiveOf, l

\* The same positions of two files that have the same ids.
LEMMA SameIds ==
  ASSUME NEW s \in Seq(Line), NEW z \in Seq(Line), DOMAIN z = DOMAIN s,
         \A k \in DOMAIN s : z[k].id = s[k].id,
         NEW J \in SUBSET (DOMAIN s)
  PROVE  /\ Len(Keep(z, J)) = Len(Keep(s, J))
         /\ DOMAIN Keep(z, J) = DOMAIN Keep(s, J)
         /\ \A a \in DOMAIN Keep(s, J) : Keep(z, J)[a].id = Keep(s, J)[a].id
<1>1. /\ Len(Keep(s, J)) = Cardinality(J)
      /\ Keep(s, J) \in Seq(Line)
      /\ \A a \in DOMAIN Keep(s, J) :
           Nth(J, a) \in J /\ Keep(s, J)[a] = s[Nth(J, a)]
  BY KeepIs
<1>2. J \in SUBSET (DOMAIN z)
  OBVIOUS
<1>3. /\ Len(Keep(z, J)) = Cardinality(J)
      /\ Keep(z, J) \in Seq(Line)
      /\ \A a \in DOMAIN Keep(z, J) :
           Nth(J, a) \in J /\ Keep(z, J)[a] = z[Nth(J, a)]
  BY <1>2, KeepIs
<1>4. /\ DOMAIN Keep(s, J) = 1 .. Cardinality(J)
      /\ DOMAIN Keep(z, J) = 1 .. Cardinality(J)
  BY <1>1, <1>3, LenProperties
<1> QED BY <1>1, <1>3, <1>4

LEMMA LessLength ==
  ASSUME NEW s \in Seq(Line), NEW K \in SUBSET (DOMAIN s), NEW h \in K
  PROVE  /\ Len(Keep(s, K)) = Cardinality(K)
         /\ Cardinality(K) \in Nat
         /\ DOMAIN Keep(s, K) = 1 .. Cardinality(K)
         /\ Len(Keep(s, K \ {h})) = Cardinality(K) - 1
         /\ DOMAIN Keep(s, K \ {h}) = 1 .. Cardinality(K) - 1
<1>1. Len(s) \in Nat /\ K \in SUBSET (1 .. Len(s))
  BY LenProperties
<1>2. IsFiniteSet(K) /\ Cardinality(K) \in Nat
  BY <1>1, PositionsFinite
<1>3. Cardinality(K \ {h}) = Cardinality(K) - 1
  BY <1>2, FS_RemoveElement
<1>4. Len(Keep(s, K)) = Cardinality(K) /\ Keep(s, K) \in Seq(Line)
  BY KeepIs
<1>5. K \ {h} \in SUBSET (DOMAIN s)
  OBVIOUS
<1>6. /\ Len(Keep(s, K \ {h})) = Cardinality(K \ {h})
      /\ Keep(s, K \ {h}) \in Seq(Line)
  BY <1>5, KeepIs
<1> QED BY <1>2, <1>3, <1>4, <1>6, LenProperties

\* A line that is replaced, by one that is live and by one that is not.
LEMMA LiveAtReplaced ==
  ASSUME NEW s \in Seq(Line), NEW h \in DOMAIN s, NEW y \in Line,
         y.id = s[h].id, IsLive(s[h]), NEW z, z = [s EXCEPT ![h] = y]
  PROVE  /\ z \in Seq(Line)
         /\ DOMAIN z = DOMAIN s
         /\ \A k \in DOMAIN s : z[k].id = s[k].id
         /\ LiveAt(s) \in SUBSET (DOMAIN s) /\ h \in LiveAt(s)
         /\ IsLive(y) => LiveAt(z) = LiveAt(s)
         /\ ~IsLive(y) => LiveAt(z) = LiveAt(s) \ {h}
<1>1. /\ DOMAIN s = 1 .. Len(s) /\ Len(s) \in Nat /\ h \in 1 .. Len(s)
      /\ s \in [1 .. Len(s) -> Line]
  BY LenProperties, ElementOfSeq
<1>2. z \in [1 .. Len(s) -> Line]
  BY <1>1
<1>3. /\ z \in Seq(Line) /\ DOMAIN z = DOMAIN s
      /\ z[h] = y /\ \A k \in DOMAIN s \ {h} : z[k] = s[k]
  BY <1>1, <1>2
<1>4. \A k \in DOMAIN s : z[k].id = s[k].id
  BY <1>3
<1>5. LiveAt(s) \in SUBSET (DOMAIN s) /\ h \in LiveAt(s)
  BY DEF LiveAt
<1>6. \A k \in DOMAIN s \ {h} : k \in LiveAt(z) <=> k \in LiveAt(s)
  BY <1>3 DEF LiveAt
<1>7. h \in LiveAt(z) <=> IsLive(y)
  BY <1>3 DEF LiveAt
<1>8. LiveAt(z) \subseteq DOMAIN s
  BY <1>3 DEF LiveAt
<1>9. ASSUME IsLive(y) PROVE LiveAt(z) = LiveAt(s)
  <2>1. \A k \in DOMAIN s : k \in LiveAt(z) <=> k \in LiveAt(s)
    BY <1>5, <1>6, <1>7, <1>9
  <2> QED BY <1>5, <1>8, <2>1
<1>10. ASSUME ~IsLive(y) PROVE LiveAt(z) = LiveAt(s) \ {h}
  <2>1. \A k \in DOMAIN s : k \in LiveAt(z) <=> k \in LiveAt(s) \ {h}
    BY <1>5, <1>6, <1>7, <1>10
  <2> QED BY <1>5, <1>8, <2>1
<1> QED BY <1>3, <1>4, <1>5, <1>9, <1>10

\* The ids of the live records: as they were, if the line is live.
LEMMA LiveOfUpdated ==
  ASSUME NEW s \in Seq(Line), NEW h \in DOMAIN s, NEW y \in Line,
         y.id = s[h].id, IsLive(s[h]), IsLive(y)
  PROVE  LET u == LiveOf(s)
             v == LiveOf([s EXCEPT ![h] = y])
         IN  /\ Len(v) = Len(u)
             /\ \A k \in DOMAIN u : v[k].id = u[k].id
<1> DEFINE z == [s EXCEPT ![h] = y]
<1>1. /\ z \in Seq(Line) /\ DOMAIN z = DOMAIN s
      /\ \A k \in DOMAIN s : z[k].id = s[k].id
      /\ LiveAt(s) \in SUBSET (DOMAIN s)
      /\ LiveAt(z) = LiveAt(s)
  BY LiveAtReplaced
<1> HIDE DEF z
<1>2. /\ Len(Keep(z, LiveAt(s))) = Len(Keep(s, LiveAt(s)))
      /\ \A a \in DOMAIN Keep(s, LiveAt(s)) :
           Keep(z, LiveAt(s))[a].id = Keep(s, LiveAt(s))[a].id
  BY <1>1, SameIds
<1> QED BY <1>1, <1>2 DEF LiveOf, z

\* If it is not, those after it move up.
LEMMA LiveOfDeleted ==
  ASSUME NEW s \in Seq(Line), NEW h \in DOMAIN s, NEW y \in Line,
         y.id = s[h].id, IsLive(s[h]), ~IsLive(y)
  PROVE  LET u == LiveOf(s)
             v == LiveOf([s EXCEPT ![h] = y])
         IN  /\ Len(v) = Len(u) - 1
             /\ \E m \in DOMAIN u :
                  /\ u[m].id = s[h].id
                  /\ \A k \in DOMAIN v : v[k].id = u[IF k < m THEN k ELSE k + 1].id
<1> DEFINE z == [s EXCEPT ![h] = y]
<1>1. /\ z \in Seq(Line) /\ DOMAIN z = DOMAIN s
      /\ \A k \in DOMAIN s : z[k].id = s[k].id
      /\ LiveAt(s) \in SUBSET (DOMAIN s) /\ h \in LiveAt(s)
      /\ LiveAt(z) = LiveAt(s) \ {h}
  BY LiveAtReplaced
<1> HIDE DEF z
<1>2. PICK K : K = LiveAt(s)
  OBVIOUS
<1>3. K \in SUBSET (DOMAIN s) /\ h \in K /\ K \ {h} \in SUBSET (DOMAIN s)
  BY <1>1, <1>2
<1>4. PICK m \in 1 .. Cardinality(K) :
        /\ Keep(s, K)[m] = s[h]
        /\ \A a \in 1 .. Cardinality(K) - 1 :
             Keep(s, K \ {h})[a] = Keep(s, K)[IF a < m THEN a ELSE a + 1]
  BY <1>3, KeepLess, SMTT(30)
<1>5. /\ Len(Keep(s, K)) = Cardinality(K)
      /\ Cardinality(K) \in Nat
      /\ DOMAIN Keep(s, K) = 1 .. Cardinality(K)
      /\ Len(Keep(s, K \ {h})) = Cardinality(K) - 1
      /\ DOMAIN Keep(s, K \ {h}) = 1 .. Cardinality(K) - 1
  BY <1>3, LessLength
<1>6. /\ Len(Keep(z, K \ {h})) = Len(Keep(s, K \ {h}))
      /\ DOMAIN Keep(z, K \ {h}) = DOMAIN Keep(s, K \ {h})
      /\ \A a \in DOMAIN Keep(s, K \ {h}) :
           Keep(z, K \ {h})[a].id = Keep(s, K \ {h})[a].id
  BY <1>1, <1>3, SameIds
<1>7. LiveOf(s) = Keep(s, K) /\ LiveOf(z) = Keep(z, K \ {h})
  BY <1>1, <1>2 DEF LiveOf
<1>8. \A k \in DOMAIN LiveOf(z) :
        LiveOf(z)[k].id = LiveOf(s)[IF k < m THEN k ELSE k + 1].id
  BY <1>4, <1>5, <1>6, <1>7
<1>9. m \in DOMAIN LiveOf(s) /\ LiveOf(s)[m].id = s[h].id
  BY <1>4, <1>5, <1>7
<1>10. Len(LiveOf(z)) = Len(LiveOf(s)) - 1
  BY <1>5, <1>6, <1>7
<1> QED BY <1>8, <1>9, <1>10 DEF z

-----------------------------------------------------------------------------
(* Lemmas: what a step does to the file *)

IdsOf(s) == {x.id : x \in ToSet(s)}

\* A new record comes after all others.
Adds(x) ==
  /\ x \in Line
  /\ IsLive(x)
  /\ x.id \notin LineIds
  /\ table' = Append(table, x)

\* A live record is replaced where it stands.
Replaces(h, y) ==
  /\ h \in DOMAIN table
  /\ y \in Line
  /\ y.id = table[h].id
  /\ IsLive(table[h])
  /\ table' = [table EXCEPT ![h] = y]

LEMMA IdsAre ==
  /\ LineIds = IdsOf(table) /\ LineIds' = IdsOf(table')
  /\ Live = LiveOf(table) /\ Live' = LiveOf(table')
  /\ LiveIds = IdsOf(LiveOf(table)) /\ LiveIds' = IdsOf(LiveOf(table'))
BY DEF LineIds, IdsOf, Live, LiveOf, LiveAt, LiveIds

LEMMA IdsOfLive ==
  ASSUME NEW s \in Seq(Line)
  PROVE  /\ IdsOf(s) \in SUBSET PosNat
         /\ IdsOf(LiveOf(s)) \subseteq IdsOf(s)
         /\ \A i \in IdsOf(LiveOf(s)) :
              \E h \in DOMAIN s : s[h].id = i /\ IsLive(s[h])
         /\ \A h \in DOMAIN s : IsLive(s[h]) => s[h].id \in IdsOf(LiveOf(s))
         /\ \A i : i \in IdsOf(s) <=> \E h \in DOMAIN s : s[h].id = i
<1>1. ToSet(LiveOf(s)) = {x \in ToSet(s) : IsLive(x)}
  BY LiveOfIs
<1>2. \A h \in DOMAIN s : s[h] \in Line /\ s[h] \in ToSet(s)
  BY ElementOfSeq, LenProperties DEF ToSet
<1>3. \A x \in ToSet(s) : x.id \in PosNat /\ \E h \in DOMAIN s : s[h] = x
  BY <1>2 DEF ToSet, Line
<1>4. /\ IdsOf(s) \in SUBSET PosNat
      /\ IdsOf(LiveOf(s)) \subseteq IdsOf(s)
  BY <1>1, <1>3 DEF IdsOf
<1>5. \A i \in IdsOf(LiveOf(s)) :
        \E h \in DOMAIN s : s[h].id = i /\ IsLive(s[h])
  BY <1>1, <1>3 DEF IdsOf
<1>6. \A h \in DOMAIN s : IsLive(s[h]) => s[h].id \in IdsOf(LiveOf(s))
  BY <1>1, <1>2 DEF IdsOf
<1>7. \A i : i \in IdsOf(s) <=> \E h \in DOMAIN s : s[h].id = i
  BY <1>2, <1>3 DEF IdsOf
<1> QED BY <1>4, <1>5, <1>6, <1>7

LEMMA StoredIs ==
  ASSUME table \in Seq(Line), Unique(table),
         NEW h \in DOMAIN table, IsLive(table[h])
  PROVE  /\ table[h] \in Line /\ table[h].rec \in Record
         /\ table[h] \in ToSet(Live)
         /\ table[h].id \in LiveIds
         /\ Stored(table[h].id) = table[h].rec
<1> DEFINE i == table[h].id
<1>1. ToSet(Live) = {x \in ToSet(table) : IsLive(x)}
  BY IdsAre, LiveOfIs
<1>2. table[h] \in Line /\ table[h] \in ToSet(table)
  BY ElementOfSeq, LenProperties DEF ToSet
<1>3. table[h] \in ToSet(Live) /\ i \in LiveIds
  BY <1>1, <1>2 DEF LiveIds
<1>4. table[h].rec \in Record
  BY <1>2 DEF Line, IsLive
<1>5. ASSUME NEW x \in ToSet(Live), x.id = i PROVE x = table[h]
  <2>1. PICK k \in DOMAIN table : table[k] = x
    BY <1>1 DEF ToSet
  <2> QED BY <1>5, <2>1 DEF Unique
<1>6. (CHOOSE x \in ToSet(Live) : x.id = i) = table[h]
  BY <1>3, <1>5
<1> QED BY <1>2, <1>3, <1>4, <1>6 DEF Stored

LEMMA AppendRecordIs ==
  ASSUME table \in Seq(Line), Unique(table),
         NEW i \in PosNat, NEW r \in Record \cup {Gone}
  PROVE  LET x == [id |-> i, rec |-> r]
         IN  /\ x \in Line
             /\ i \notin LineIds => Append_record(i, r) = Append(table, x)
             /\ \A h \in DOMAIN table : table[h].id = i =>
                  Append_record(i, r) = [table EXCEPT ![h] = x]
<1> DEFINE x == [id |-> i, rec |-> r]
<1>1. x \in Line
  BY DEF Line
<1>2. ASSUME i \notin LineIds PROVE Append_record(i, r) = Append(table, x)
  <2>1. At(i) = {}
    BY <1>2, IdsAre, IdsOfLive DEF At
  <2> QED BY <2>1 DEF Append_record
<1>3. ASSUME NEW h \in DOMAIN table, table[h].id = i
      PROVE  Append_record(i, r) = [table EXCEPT ![h] = x]
  <2>1. At(i) = {h}
    BY <1>3 DEF At, Unique
  <2>2. Append_record(i, r)
          = [k \in DOMAIN table |-> IF k \in {h} THEN x ELSE table[k]]
    BY <2>1 DEF Append_record
  <2> HIDE DEF x
  <2> QED BY <2>2
<1> QED BY <1>1, <1>2, <1>3

LEMMA AddsEffect ==
  ASSUME table \in Seq(Line), Unique(table), NEW x, Adds(x)
  PROVE  /\ table' \in Seq(Line) /\ Unique(table')
         /\ LineIds' = LineIds \cup {x.id}
         /\ Live' = Append(Live, x)
         /\ ToSet(Live') = ToSet(Live) \cup {x}
         /\ LiveIds' = LiveIds \cup {x.id}
         /\ x.id \notin LiveIds
<1> DEFINE n == Len(table)
<1>1. x \in Line /\ IsLive(x) /\ x.id \notin LineIds /\ table' = Append(table, x)
  BY DEF Adds
<1>2. DOMAIN table = 1 .. n /\ n \in Nat
  BY LenProperties
<1>3. /\ table' \in Seq(Line)
      /\ DOMAIN table' = 1 .. n + 1 /\ table'[n + 1] = x
      /\ \A k \in 1 .. n : table'[k] = table[k]
  BY <1>1, <1>2, AppendProperties, LenProperties
<1> HIDE DEF n
<1>4. \A k \in DOMAIN table : table[k].id # x.id
  BY <1>1, IdsAre, IdsOfLive
<1>5. Unique(table')
  <2> SUFFICES ASSUME NEW k \in 1 .. n + 1, NEW l \in 1 .. n + 1,
                      table'[k].id = table'[l].id
               PROVE  k = l
    BY <1>3 DEF Unique
  <2>1. CASE k \in 1 .. n /\ l \in 1 .. n
    BY <1>2, <1>3, <2>1 DEF Unique
  <2>2. CASE k = n + 1 /\ l \in 1 .. n
    BY <1>2, <1>3, <1>4, <2>2
  <2>3. CASE k \in 1 .. n /\ l = n + 1
    BY <1>2, <1>3, <1>4, <2>3
  <2>4. (k \in 1 .. n \/ k = n + 1) /\ (l \in 1 .. n \/ l = n + 1)
    BY <1>2
  <2> QED BY <2>1, <2>2, <2>3, <2>4
<1>6. ToSet(table') = ToSet(table) \cup {x}
  <2>1. \A z \in ToSet(table') : z \in ToSet(table) \cup {x}
    <3> SUFFICES ASSUME NEW k \in 1 .. n + 1
                 PROVE  table'[k] \in ToSet(table) \cup {x}
      BY <1>3 DEF ToSet
    <3>1. k \in 1 .. n \/ k = n + 1
      BY <1>2
    <3> QED BY <1>2, <1>3, <3>1 DEF ToSet
  <2>2. \A z \in ToSet(table) : z \in ToSet(table')
    <3> SUFFICES ASSUME NEW k \in 1 .. n
                 PROVE  table[k] \in ToSet(table')
      BY <1>2 DEF ToSet
    <3>1. k \in 1 .. n + 1 /\ table'[k] = table[k]
      BY <1>2, <1>3
    <3> QED BY <1>3, <3>1 DEF ToSet
  <2>3. x \in ToSet(table')
    <3>1. n + 1 \in 1 .. n + 1
      BY <1>2
    <3> QED BY <1>3, <3>1 DEF ToSet
  <2> QED BY <2>1, <2>2, <2>3
<1>7. Live' = Append(Live, x)
  BY <1>1, IdsAre, LiveOfAppend
<1>8. /\ ToSet(Live) = {z \in ToSet(table) : IsLive(z)}
      /\ ToSet(Live') = {z \in ToSet(table') : IsLive(z)}
  BY <1>3, IdsAre, LiveOfIs
<1>9. ToSet(Live') = ToSet(Live) \cup {x}
  BY <1>1, <1>6, <1>8
<1>10. LineIds' = LineIds \cup {x.id} /\ LiveIds' = LiveIds \cup {x.id}
  BY <1>6, <1>9 DEF LineIds, LiveIds
<1>11. x.id \notin LiveIds
  BY <1>1, IdsAre, IdsOfLive
<1> QED BY <1>3, <1>5, <1>7, <1>9, <1>10, <1>11

LEMMA ReplacesEffect ==
  ASSUME table \in Seq(Line), Unique(table), NEW h, NEW y, Replaces(h, y)
  PROVE  /\ table' \in Seq(Line) /\ Unique(table')
         /\ LineIds' = LineIds
         /\ y.id \in LiveIds
         /\ IsLive(y) => LiveIds' = LiveIds
         /\ ~IsLive(y) => LiveIds' = LiveIds \ {y.id}
         /\ \A x \in ToSet(Live') : x \in ToSet(Live) \/ (x = y /\ IsLive(y))
<1>1. /\ h \in DOMAIN table /\ y \in Line /\ y.id = table[h].id
      /\ IsLive(table[h]) /\ table' = [table EXCEPT ![h] = y]
  BY DEF Replaces
<1>2. /\ table' \in Seq(Line) /\ DOMAIN table' = DOMAIN table
      /\ \A k \in DOMAIN table : table'[k].id = table[k].id
  BY <1>1, LiveAtReplaced
<1>3. table'[h] = y /\ \A k \in DOMAIN table \ {h} : table'[k] = table[k]
  BY <1>1
<1>4. Unique(table')
  BY <1>2 DEF Unique
<1>5. LineIds' = LineIds
  <2>1. \A i : i \in LineIds' <=> i \in LineIds
    BY <1>2, IdsAre, IdsOfLive
  <2> QED BY <2>1
<1>6. y.id \in LiveIds
  BY <1>1, IdsAre, IdsOfLive
<1>7. \A i \in LiveIds \ {y.id} : i \in LiveIds'
  <2> SUFFICES ASSUME NEW i \in LiveIds \ {y.id} PROVE i \in LiveIds'
    OBVIOUS
  <2>1. PICK k \in DOMAIN table : table[k].id = i /\ IsLive(table[k])
    BY IdsAre, IdsOfLive
  <2>2. k # h
    BY <1>1, <2>1
  <2>3. table'[k] = table[k] /\ k \in DOMAIN table'
    BY <1>2, <1>3, <2>2
  <2> QED BY <1>2, <2>1, <2>3, IdsAre, IdsOfLive
<1>8. \A i \in LiveIds' : i \in LiveIds /\ (i = y.id => IsLive(y))
  <2> SUFFICES ASSUME NEW i \in LiveIds'
               PROVE  i \in LiveIds /\ (i = y.id => IsLive(y))
    OBVIOUS
  <2>1. PICK k \in DOMAIN table' : table'[k].id = i /\ IsLive(table'[k])
    BY <1>2, IdsAre, IdsOfLive
  <2>2. CASE k = h
    BY <1>1, <1>3, <1>6, <2>1, <2>2
  <2>3. CASE k # h
    <3>1. table[k] = table'[k] /\ k \in DOMAIN table
      BY <1>2, <1>3, <2>3
    <3>2. i \in LiveIds
      BY <2>1, <3>1, IdsAre, IdsOfLive
    <3>3. i # y.id
      BY <1>1, <2>1, <2>3, <3>1 DEF Unique
    <3> QED BY <3>2, <3>3
  <2> QED BY <2>2, <2>3
<1>9. IsLive(y) => y.id \in LiveIds'
  BY <1>1, <1>2, <1>3, IdsAre, IdsOfLive
<1>10. ASSUME NEW x \in ToSet(Live')
       PROVE  x \in ToSet(Live) \/ (x = y /\ IsLive(y))
  <2>1. /\ ToSet(Live) = {z \in ToSet(table) : IsLive(z)}
        /\ ToSet(Live') = {z \in ToSet(table') : IsLive(z)}
    BY <1>2, IdsAre, LiveOfIs
  <2>2. PICK k \in DOMAIN table' : table'[k] = x
    BY <1>10, <2>1 DEF ToSet
  <2>3. IsLive(x)
    BY <1>10, <2>1
  <2>4. CASE k = h
    BY <1>3, <2>2, <2>3, <2>4
  <2>5. CASE k # h
    <3>1. table[k] = x /\ k \in DOMAIN table
      BY <1>2, <1>3, <2>2, <2>5
    <3> QED BY <2>1, <2>3, <3>1 DEF ToSet
  <2> QED BY <2>4, <2>5
<1>11. IsLive(y) => LiveIds' = LiveIds
  BY <1>7, <1>8, <1>9
<1>12. ~IsLive(y) => LiveIds' = LiveIds \ {y.id}
  BY <1>7, <1>8
<1> QED BY <1>2, <1>4, <1>5, <1>6, <1>10, <1>11, <1>12

LEMMA CompactEffect ==
  ASSUME table \in Seq(Line), Unique(table), table' = Live
  PROVE  /\ table' \in Seq(Line) /\ Unique(table')
         /\ LineIds' \subseteq LineIds
         /\ Live' = Live /\ LiveIds' = LiveIds
<1>1. /\ Live \in Seq(Line) /\ Unique(Live)
      /\ \A k \in DOMAIN Live : IsLive(Live[k])
  BY IdsAre, LiveOfIs
<1>2. LiveOf(Live) = Live
  BY <1>1, LiveOfLive
<1>3. Live' = Live
  BY <1>2, IdsAre, SMTT(30)
<1>4. LiveIds' = LiveIds
  BY <1>3, IdsAre
<1>5. LineIds' \subseteq LineIds
  BY IdsAre, IdsOfLive
<1> QED BY <1>1, <1>3, <1>4, <1>5

-----------------------------------------------------------------------------
(* Lemmas: what a step does to the calls *)

LEMMA SchemaFields == DOMAIN SchemaOf \subseteq Fields
BY RecordsAssumption

LEMMA RecordsAre ==
  /\ NewRecs \subseteq Record /\ Patches \subseteq Record
  /\ Gone \notin Record
BY RecordsAssumption

LEMMA DefaultsTyped ==
  ASSUME NEW r \in Record
  PROVE  WithDefaults(SchemaOf, r) \in Record
<1>1. \A f \in DOMAIN SchemaOf : SchemaOf[f].default \in Values
  BY DEF Values
<1>2. \A f \in Fields : r[f] \in Values
  BY DEF Record
<1> QED BY <1>1, <1>2 DEF WithDefaults, Record

LEMMA PatchedTyped ==
  ASSUME NEW r \in Record, NEW p \in Record
  PROVE  Patched(r, p) \in Record
BY DEF Patched, Record

LEMMA ItemsTyped ==
  ASSUME NEW S, NEW t, NEW is \in Items(t, S)
  PROVE  is \in Seq(S) /\ is # <<>>
<1>1. MaxItems \in Nat
  BY RecordsAssumption
<1>2. PICK n \in Nat \ {0} : is \in [1 .. n -> S]
  <2>1. CASE t \in Batchers
    BY <1>1, <2>1 DEF Items
  <2>2. CASE t \notin Batchers
    BY <2>2 DEF Items
  <2> QED BY <2>1, <2>2
<1>3. is \in Seq(S) /\ Len(is) = n
  BY <1>2
<1> QED BY <1>2, <1>3

LEMMA IdleTyped == Idle \in Jobs /\ JobOK(Idle)
BY DEF Idle, Job, Jobs, JobOK

LEMMA NewCallTyped ==
  /\ \A rs \in Seq(Record) :
       LET j == Job("create", rs, Absent) IN j \in Jobs /\ JobOK(j)
  /\ \A is \in Seq(PosNat), p \in Record :
       LET j == Job("update", is, p) IN j \in Jobs /\ JobOK(j)
  /\ \A is \in Seq(PosNat) :
       LET j == Job("delete", is, Absent) IN j \in Jobs /\ JobOK(j)
BY DEF Job, Jobs, JobOK

\* A thread goes from one call, or state of a call, to another.
LEMMA JobSet ==
  ASSUME TypeInv, NEW t \in Threads, NEW j \in Jobs, JobOK(j),
         job' = [job EXCEPT ![t] = j]
  PROVE  /\ job' \in [Threads -> Jobs]
         /\ job'[t] = j
         /\ \A u \in Threads \ {t} : job'[u] = job[u]
         /\ \A u \in Threads : JobOK(job'[u])
<1>1. job \in [Threads -> Jobs] /\ \A u \in Threads : JobOK(job[u])
  BY DEF TypeInv
<1> QED BY <1>1

Proceeded(j, by) == [j EXCEPT !.todo = Tail(@), !.id = 0, !.done = @ + by]

Built(j, r, i) == [j EXCEPT !.id = i, !.todo = <<r>> \o Tail(@)]

LEMMA ProceededIs ==
  ASSUME NEW j \in Jobs, NEW by \in Nat, JobOK(j), j.todo # <<>>, j.kind # "none"
  PROVE  LET e == Proceeded(j, by)
         IN  /\ e \in Jobs /\ JobOK(e)
             /\ e.kind = j.kind /\ e.todo = Tail(j.todo) /\ e.patch = j.patch
             /\ e.id = 0 /\ e.done = j.done + by
<1> DEFINE e == Proceeded(j, by)
<1>1. /\ j.todo \in Seq(Record) => Tail(j.todo) \in Seq(Record)
      /\ j.todo \in Seq(PosNat) => Tail(j.todo) \in Seq(PosNat)
  BY HeadTailProperties
<1>2. /\ e.kind = j.kind /\ e.todo = Tail(j.todo) /\ e.patch = j.patch
      /\ e.id = 0 /\ e.done = j.done + by
  BY DEF Jobs, Proceeded
<1>3. Tail(j.todo) \in Seq(Record) \cup Seq(PosNat) /\ j.done + by \in Nat
  BY <1>1 DEF Jobs
<1>4. e \in Jobs
  BY <1>3 DEF Jobs, Proceeded
<1> HIDE DEF e
<1>5. JobOK(e)
  BY <1>1, <1>2 DEF JobOK
<1> QED BY <1>2, <1>4, <1>5 DEF e

LEMMA BuiltIs ==
  ASSUME NEW j \in Jobs, JobOK(j), j.kind = "create", j.todo # <<>>,
         NEW r \in Record, Valid(SchemaOf, r), NEW i \in PosNat
  PROVE  LET e == Built(j, r, i)
         IN  /\ e \in Jobs /\ JobOK(e)
             /\ e.kind = "create" /\ e.patch = j.patch
             /\ e.id = i /\ e.done = j.done
<1> DEFINE e == Built(j, r, i)
           l == <<r>> \o Tail(j.todo)
<1>1. j.todo \in Seq(Record) /\ Tail(j.todo) \in Seq(Record)
  BY HeadTailProperties DEF JobOK
<1>2. l \in Seq(Record) /\ l # <<>> /\ Head(l) = r
  <2>1. <<r>> \in Seq(Record) /\ Len(<<r>>) = 1 /\ <<r>>[1] = r
    OBVIOUS
  <2>2. l \in Seq(Record) /\ Len(l) = 1 + Len(Tail(j.todo)) /\ l[1] = r
    BY <1>1, <2>1, ConcatProperties, LenProperties
  <2>3. l # <<>>
    BY <1>1, <2>2, LenProperties
  <2> HIDE DEF l
  <2> QED BY <2>2, <2>3
<1>3. e = [j EXCEPT !.id = i, !.todo = l]
  BY DEF Built
<1> HIDE DEF l, e
<1>4. /\ e.kind = "create" /\ e.patch = j.patch /\ e.todo = l
      /\ e.id = i /\ e.done = j.done
  BY <1>3 DEF Jobs
<1>5. e \in Jobs
  BY <1>2, <1>3 DEF Jobs, PosNat
<1>6. i # 0
  BY DEF PosNat
<1>7. JobOK(e)
  BY <1>2, <1>4, <1>6 DEF JobOK
<1> QED BY <1>4, <1>5, <1>7 DEF e

LEMMA ProceedIs ==
  ASSUME TypeInv, NEW t \in Threads, NEW by \in Nat, Proceed(t, by),
         job[t].todo # <<>>, job[t].kind # "none"
  PROVE  LET j == Proceeded(job[t], by)
         IN  /\ job' = [job EXCEPT ![t] = j]
             /\ j \in Jobs /\ JobOK(j)
             /\ j.kind = job[t].kind /\ j.id = 0 /\ j.done = job[t].done + by
<1>1. job \in [Threads -> Jobs] /\ job[t] \in Jobs /\ JobOK(job[t])
  BY DEF TypeInv
<1>2. job' = [job EXCEPT ![t] = Proceeded(job[t], by)]
  BY <1>1 DEF Proceed, Proceeded
<1> QED BY <1>1, <1>2, ProceededIs

\* The record a create is about to write.
LEMMA DrawnIs ==
  ASSUME TypeInv, NEW t \in Threads, Drawn(t)
  PROVE  /\ job[t].kind = "create" /\ job[t].id \in PosNat
         /\ job[t].todo \in Seq(Record) /\ job[t].todo # <<>>
         /\ Head(job[t].todo) \in Record
         /\ Valid(SchemaOf, Head(job[t].todo))
<1>1. job[t] \in Jobs /\ JobOK(job[t]) /\ job[t].kind = "create" /\ job[t].id # 0
  BY DEF TypeInv, Drawn, Busy
<1>2. job[t].todo \in Seq(Record) /\ job[t].todo # <<>>
  BY <1>1 DEF JobOK
<1>3. Head(job[t].todo) \in Record
  BY <1>2, HeadTailProperties
<1> QED BY <1>1, <1>2, <1>3 DEF JobOK, Jobs, PosNat

\* The id an update or delete is about to look for.
LEMMA TodoIs ==
  ASSUME TypeInv, NEW t \in Threads, Busy(t, "update") \/ Busy(t, "delete"),
         job[t].todo # <<>>
  PROVE  /\ job[t].todo \in Seq(PosNat) /\ Head(job[t].todo) \in PosNat
         /\ Busy(t, "update") => job[t].patch \in Record
<1>1. JobOK(job[t]) /\ (job[t].kind = "update" \/ job[t].kind = "delete")
  BY DEF TypeInv, Busy
<1>2. job[t].todo \in Seq(PosNat)
  BY <1>1 DEF JobOK
<1> QED BY <1>1, <1>2, HeadTailProperties DEF JobOK, Busy

\* _build_record, when the record is valid: the call then has an id and a
\* complete record.
LEMMA BuildIs ==
  ASSUME TypeInv, NEW t \in Threads, BuildRecord(t),
         Valid(SchemaOf, WithDefaults(SchemaOf, Head(job[t].todo)))
  PROVE  \E j \in Jobs :
           /\ job' = [job EXCEPT ![t] = j]
           /\ JobOK(j)
           /\ j.kind = "create" /\ j.id = counter + 1
           /\ counter' = counter + 1
<1> DEFINE r == WithDefaults(SchemaOf, Head(job[t].todo))
           j == Built(job[t], r, counter + 1)
<1>1. /\ job \in [Threads -> Jobs] /\ job[t] \in Jobs /\ JobOK(job[t])
      /\ counter \in Nat /\ counter + 1 \in PosNat
  BY DEF TypeInv, PosNat
<1>2. job[t].kind = "create" /\ job[t].todo \in Seq(Record) /\ job[t].todo # <<>>
  BY <1>1 DEF BuildRecord, Busy, JobOK
<1>3. Head(job[t].todo) \in Record
  BY <1>2, HeadTailProperties
<1>4. r \in Record /\ Valid(SchemaOf, r)
  BY <1>3, DefaultsTyped
<1>5. /\ counter' = counter + 1
      /\ job' = [job EXCEPT ![t].id = counter + 1, ![t].todo = <<r>> \o Tail(@)]
  BY DEF BuildRecord
<1> HIDE DEF r
<1>6. job' = [job EXCEPT ![t] = j]
  BY <1>1, <1>5 DEF Built
<1>7. /\ j \in Jobs /\ JobOK(j)
      /\ j.kind = "create" /\ j.id = counter + 1
  BY <1>1, <1>2, <1>4, BuiltIs
<1> HIDE DEF j
<1> QED BY <1>5, <1>6, <1>7

-----------------------------------------------------------------------------
(* Lemmas: what a writer's step can be *)

\* Not a step of a delete.
Quiet(t, j) ==
  /\ ~Busy(t, "delete")
  /\ reported' = reported
  /\ j.kind = "delete" => j.done = 0

Draws(t, j) ==
  /\ Quiet(t, j) /\ ~Drawn(t)
  /\ j.kind = "create" /\ j.id = counter + 1
  /\ counter' = counter + 1 /\ table' = table

Passes(t, j) ==
  /\ Quiet(t, j) /\ ~Drawn(t)
  /\ j.id = 0 /\ counter' = counter
  /\ table' = table \/ table' = Live

Creates(t, j) ==
  /\ Quiet(t, j)
  /\ j.id = 0 /\ counter' = counter
  /\ Drawn(t)
  /\ Adds([id |-> job[t].id, rec |-> Head(job[t].todo)])

Updates(t, j) ==
  /\ Quiet(t, j) /\ ~Drawn(t)
  /\ j.id = 0 /\ counter' = counter
  /\ job[t].patch \in Record /\ ValidPatch(SchemaOf, job[t].patch)
  /\ \E h \in DOMAIN table :
       Replaces(h, [id |-> table[h].id,
                    rec |-> Patched(table[h].rec, job[t].patch)])

Misses(t, j) ==
  /\ Busy(t, "delete") /\ j.kind = "delete"
  /\ j.id = 0 /\ counter' = counter /\ reported' = reported
  /\ j.done = job[t].done /\ table' = table

Deletes(t, j) ==
  /\ Busy(t, "delete") /\ j.kind = "delete"
  /\ j.id = 0 /\ counter' = counter /\ reported' = reported
  /\ j.done = job[t].done + 1
  /\ \E h \in DOMAIN table : Replaces(h, [id |-> table[h].id, rec |-> Gone])

Returns(t, j) ==
  /\ ~Drawn(t)
  /\ j = Idle /\ counter' = counter /\ table' = table
  /\ reported' = IF Busy(t, "delete") THEN reported + job[t].done ELSE reported

IsWrite(t, j) ==
  \/ Draws(t, j) \/ Passes(t, j) \/ Creates(t, j) \/ Updates(t, j)
  \/ Misses(t, j) \/ Deletes(t, j) \/ Returns(t, j)

LEMMA IdleIs ==
  /\ Idle.kind = "none" /\ Idle.id = 0 /\ Idle.todo = <<>> /\ Idle.done = 0
  /\ \A t : job[t] = Idle => \A k : Busy(t, k) => k = "none"
BY DEF Idle, Job, Busy

\* The line of a live record.
LEMMA LiveLine ==
  ASSUME table \in Seq(Line), Unique(table), NEW i \in LiveIds
  PROVE  \E h \in DOMAIN table :
           /\ table[h].id = i /\ IsLive(table[h])
           /\ table[h].rec \in Record /\ Stored(i) = table[h].rec
<1>1. PICK h \in DOMAIN table : table[h].id = i /\ IsLive(table[h])
  BY IdsAre, IdsOfLive
<1> QED BY <1>1, StoredIs

LEMMA CallIs ==
  ASSUME TypeInv, NEW t \in Threads, CallCreate(t) \/ CallUpdate(t) \/ CallDelete(t)
  PROVE  \E j \in Jobs : job' = [job EXCEPT ![t] = j] /\ JobOK(j) /\ Passes(t, j)
<1>1. Ids \subseteq PosNat
  BY RecordsAssumption DEF Ids, PosNat
<1>2. ASSUME NEW j \in Jobs, JobOK(j), Call(t, j), j.id = 0, j.done = 0
      PROVE  \E k \in Jobs : job' = [job EXCEPT ![t] = k] /\ JobOK(k) /\ Passes(t, k)
  <2>1. /\ job' = [job EXCEPT ![t] = j]
        /\ table' = table /\ counter' = counter /\ reported' = reported
        /\ job[t] = Idle
    BY <1>2 DEF Call
  <2>2. ~Busy(t, "delete") /\ ~Drawn(t)
    BY <2>1, IdleIs DEF Drawn
  <2>3. Passes(t, j)
    BY <1>2, <2>1, <2>2 DEF Passes, Quiet
  <2> QED BY <1>2, <2>1, <2>3
<1>3. CASE CallCreate(t)
  <2>1. PICK rs \in Items(t, NewRecs) : Call(t, Job("create", rs, Absent))
    BY <1>3 DEF CallCreate
  <2>2. rs \in Seq(NewRecs)
    BY <2>1, ItemsTyped
  <2>3. rs \in Seq(Record)
    BY <2>2, RecordsAre
  <2>4. /\ Job("create", rs, Absent) \in Jobs /\ JobOK(Job("create", rs, Absent))
        /\ Job("create", rs, Absent).id = 0 /\ Job("create", rs, Absent).done = 0
    BY <2>3, NewCallTyped DEF Job
  <2> QED BY <1>2, <2>1, <2>4
<1>4. CASE CallUpdate(t)
  <2>1. PICK is \in Items(t, Ids), p \in Patches : Call(t, Job("update", is, p))
    BY <1>4 DEF CallUpdate
  <2>2. is \in Seq(Ids)
    BY <2>1, ItemsTyped
  <2>3. is \in Seq(PosNat) /\ p \in Record
    BY <1>1, <2>2, RecordsAre
  <2>4. /\ Job("update", is, p) \in Jobs /\ JobOK(Job("update", is, p))
        /\ Job("update", is, p).id = 0 /\ Job("update", is, p).done = 0
    BY <2>3, NewCallTyped DEF Job
  <2> QED BY <1>2, <2>1, <2>4
<1>5. CASE CallDelete(t)
  <2>1. PICK is \in Items(t, Ids) : Call(t, Job("delete", is, Absent))
    BY <1>5 DEF CallDelete
  <2>2. is \in Seq(Ids)
    BY <2>1, ItemsTyped
  <2>3. is \in Seq(PosNat)
    BY <1>1, <2>2
  <2>4. /\ Job("delete", is, Absent) \in Jobs /\ JobOK(Job("delete", is, Absent))
        /\ Job("delete", is, Absent).id = 0 /\ Job("delete", is, Absent).done = 0
    BY <2>3, NewCallTyped DEF Job
  <2> QED BY <1>2, <2>1, <2>4
<1> QED BY <1>3, <1>4, <1>5

LEMMA DrawIs ==
  ASSUME TypeInv, NEW t \in Threads, BuildRecord(t)
  PROVE  \E j \in Jobs : /\ job' = [job EXCEPT ![t] = j] /\ JobOK(j)
                         /\ Draws(t, j) \/ Passes(t, j)
<1>1. /\ ~Busy(t, "delete") /\ ~Drawn(t)
      /\ table' = table /\ reported' = reported
  BY DEF BuildRecord, Busy, Drawn
<1>2. CASE Valid(SchemaOf, WithDefaults(SchemaOf, Head(job[t].todo)))
  <2>1. PICK j \in Jobs : /\ job' = [job EXCEPT ![t] = j] /\ JobOK(j)
                          /\ j.kind = "create" /\ j.id = counter + 1
                          /\ counter' = counter + 1
    BY <1>2, BuildIs
  <2>2. Draws(t, j)
    BY <1>1, <2>1 DEF Draws, Quiet
  <2> QED BY <2>1, <2>2
<1>3. CASE ~Valid(SchemaOf, WithDefaults(SchemaOf, Head(job[t].todo)))
  <2>1. job' = [job EXCEPT ![t] = Idle] /\ counter' = counter
    BY <1>3 DEF BuildRecord, Raise
  <2>2. Passes(t, Idle)
    BY <1>1, <2>1, IdleIs DEF Passes, Quiet
  <2> QED BY <2>1, <2>2, IdleTyped
<1> QED BY <1>2, <1>3

LEMMA CreateIs ==
  ASSUME TypeInv, IdInv, NEW t \in Threads, ApplyCreate(t)
  PROVE  \E j \in Jobs : job' = [job EXCEPT ![t] = j] /\ JobOK(j) /\ Creates(t, j)
<1> DEFINE i == job[t].id
           r == Head(job[t].todo)
           x == [id |-> i, rec |-> r]
<1>1. /\ Drawn(t) /\ table' = Append_record(i, r) /\ Proceed(t, 1)
      /\ counter' = counter /\ reported' = reported
  BY DEF ApplyCreate
<1>2. /\ job[t].kind = "create" /\ i \in PosNat
      /\ job[t].todo # <<>> /\ r \in Record
  BY <1>1, DrawnIs
<1>3. table \in Seq(Line) /\ Unique(table) /\ i \notin LineIds
  BY <1>1 DEF TypeInv, IdInv
<1> HIDE DEF i, r
<1>4. /\ x \in Line
      /\ i \notin LineIds => Append_record(i, r) = Append(table, x)
  <2>1. r \in Record \cup {Gone}
    BY <1>2
  <2> QED BY <1>2, <1>3, <2>1, AppendRecordIs
<1>5. IsLive(x) /\ x.id = i
  BY <1>2, RecordsAre DEF IsLive
<1>6. Adds(x)
  BY <1>1, <1>3, <1>4, <1>5 DEF Adds
<1> DEFINE j == Proceeded(job[t], 1)
<1>7. /\ job' = [job EXCEPT ![t] = j]
      /\ j \in Jobs /\ JobOK(j)
      /\ j.kind = job[t].kind /\ j.id = 0
  BY <1>1, <1>2, ProceedIs
<1> HIDE DEF j
<1>8. Quiet(t, j)
  BY <1>1, <1>2, <1>7 DEF Quiet, Busy
<1>9. Creates(t, j)
  BY <1>1, <1>6, <1>7, <1>8 DEF Creates, i, r
<1> QED BY <1>7, <1>9

LEMMA UpdateIs ==
  ASSUME TypeInv, IdInv, NEW t \in Threads, ApplyUpdate(t)
  PROVE  \E j \in Jobs : /\ job' = [job EXCEPT ![t] = j] /\ JobOK(j)
                         /\ Passes(t, j) \/ Updates(t, j)
<1> DEFINE i == Head(job[t].todo)
           p == job[t].patch
<1>1. /\ Busy(t, "update") /\ job[t].todo # <<>>
      /\ counter' = counter /\ reported' = reported
  BY DEF ApplyUpdate
<1>2. i \in PosNat /\ p \in Record
  BY <1>1, TodoIs
<1>3. table \in Seq(Line) /\ Unique(table)
  BY DEF TypeInv, IdInv
<1>4. job[t].kind = "update" /\ ~Busy(t, "delete") /\ ~Drawn(t)
  BY <1>1 DEF Busy, Drawn
<1>5. CASE i \notin LiveIds
  <2>1. Proceed(t, 0) /\ table' = table
    BY <1>5 DEF ApplyUpdate
  <2> DEFINE j == Proceeded(job[t], 0)
  <2>2. /\ job' = [job EXCEPT ![t] = j]
        /\ j \in Jobs /\ JobOK(j)
        /\ j.kind = job[t].kind /\ j.id = 0
    BY <1>1, <1>4, <2>1, ProceedIs
  <2> HIDE DEF j
  <2>3. Passes(t, j)
    BY <1>1, <1>4, <2>1, <2>2 DEF Passes, Quiet
  <2> QED BY <2>2, <2>3
<1>6. CASE i \in LiveIds /\ ~ValidPatch(SchemaOf, p)
  <2>1. job' = [job EXCEPT ![t] = Idle] /\ table' = table
    BY <1>6 DEF ApplyUpdate, Raise
  <2>2. Passes(t, Idle)
    BY <1>1, <1>4, <2>1, IdleIs DEF Passes, Quiet
  <2> QED BY <2>1, <2>2, IdleTyped
<1>7. CASE i \in LiveIds /\ ValidPatch(SchemaOf, p)
  <2>1. table' = Append_record(i, Patched(Stored(i), p)) /\ Proceed(t, 1)
    BY <1>7 DEF ApplyUpdate
  <2>2. PICK h \in DOMAIN table :
          /\ table[h].id = i /\ IsLive(table[h])
          /\ table[h].rec \in Record /\ Stored(i) = table[h].rec
    BY <1>3, <1>7, LiveLine
  <2> DEFINE r == Patched(table[h].rec, p)
             y == [id |-> i, rec |-> r]
             j == Proceeded(job[t], 1)
  <2>3. r \in Record
    BY <1>2, <2>2, PatchedTyped
  <2> HIDE DEF i, p, r
  <2>4. /\ y \in Line
        /\ \A k \in DOMAIN table : table[k].id = i =>
             Append_record(i, r) = [table EXCEPT ![k] = y]
    <3>1. r \in Record \cup {Gone}
      BY <2>3
    <3> QED BY <1>2, <1>3, <3>1, AppendRecordIs
  <2>5. table' = [table EXCEPT ![h] = y]
    BY <2>1, <2>2, <2>4 DEF r
  <2>6. Replaces(h, y)
    BY <2>2, <2>4, <2>5 DEF Replaces
  <2>7. /\ job' = [job EXCEPT ![t] = j]
        /\ j \in Jobs /\ JobOK(j)
        /\ j.kind = job[t].kind /\ j.id = 0
    BY <1>1, <1>4, <2>1, ProceedIs
  <2> HIDE DEF j
  <2>8. Quiet(t, j)
    BY <1>1, <1>4, <2>7 DEF Quiet
  <2>9. Replaces(h, [id |-> table[h].id,
                     rec |-> Patched(table[h].rec, job[t].patch)])
    BY <2>2, <2>6 DEF p, r
  <2>10. job[t].patch \in Record /\ ValidPatch(SchemaOf, job[t].patch)
    BY <1>2, <1>7 DEF p
  <2>11. Updates(t, j)
    BY <1>1, <1>4, <2>2, <2>7, <2>8, <2>9, <2>10 DEF Updates
  <2> QED BY <2>7, <2>11
<1> QED BY <1>5, <1>6, <1>7

LEMMA DeleteIs ==
  ASSUME TypeInv, IdInv, NEW t \in Threads, ApplyDelete(t)
  PROVE  \E j \in Jobs : /\ job' = [job EXCEPT ![t] = j] /\ JobOK(j)
                         /\ Misses(t, j) \/ Deletes(t, j)
<1> DEFINE i == Head(job[t].todo)
<1>1. /\ Busy(t, "delete") /\ job[t].todo # <<>>
      /\ counter' = counter /\ reported' = reported
  BY DEF ApplyDelete
<1>2. i \in PosNat
  BY <1>1, TodoIs
<1>3. table \in Seq(Line) /\ Unique(table)
  BY DEF TypeInv, IdInv
<1>4. job[t].kind = "delete"
  BY <1>1 DEF Busy
<1>5. CASE i \notin LiveIds
  <2>1. Proceed(t, 0) /\ table' = table
    BY <1>5 DEF ApplyDelete
  <2> DEFINE j == Proceeded(job[t], 0)
  <2>2. /\ job' = [job EXCEPT ![t] = j]
        /\ j \in Jobs /\ JobOK(j)
        /\ j.kind = job[t].kind /\ j.id = 0 /\ j.done = job[t].done + 0
    BY <1>1, <1>4, <2>1, ProceedIs
  <2>3. job[t].done \in Nat
    BY DEF TypeInv, Jobs
  <2> HIDE DEF j
  <2>4. Misses(t, j)
    BY <1>1, <1>4, <2>1, <2>2, <2>3 DEF Misses
  <2> QED BY <2>2, <2>4
<1>6. CASE i \in LiveIds
  <2>1. table' = Append_record(i, Gone) /\ Proceed(t, 1)
    BY <1>6 DEF ApplyDelete
  <2>2. PICK h \in DOMAIN table : table[h].id = i /\ IsLive(table[h])
    BY <1>3, <1>6, LiveLine
  <2> DEFINE y == [id |-> i, rec |-> Gone]
             j == Proceeded(job[t], 1)
  <2> HIDE DEF i
  <2>3. /\ y \in Line
        /\ \A k \in DOMAIN table : table[k].id = i =>
             Append_record(i, Gone) = [table EXCEPT ![k] = y]
    BY <1>2, <1>3, AppendRecordIs
  <2>4. table' = [table EXCEPT ![h] = y]
    BY <2>1, <2>2, <2>3
  <2>5. Replaces(h, y)
    BY <2>2, <2>3, <2>4 DEF Replaces
  <2>6. /\ job' = [job EXCEPT ![t] = j]
        /\ j \in Jobs /\ JobOK(j)
        /\ j.kind = job[t].kind /\ j.id = 0 /\ j.done = job[t].done + 1
    BY <1>1, <1>4, <2>1, ProceedIs
  <2> HIDE DEF j
  <2>7. Deletes(t, j)
    BY <1>1, <1>4, <2>2, <2>5, <2>6 DEF Deletes
  <2> QED BY <2>6, <2>7
<1> QED BY <1>5, <1>6

LEMMA WriteIs ==
  ASSUME TypeInv, IdInv, NEW t \in Threads, Writes(t)
  PROVE  \E j \in Jobs : job' = [job EXCEPT ![t] = j] /\ JobOK(j) /\ IsWrite(t, j)
<1>1. CASE CallCreate(t) \/ CallUpdate(t) \/ CallDelete(t)
  BY <1>1, CallIs DEF IsWrite
<1>2. CASE BuildRecord(t)
  BY <1>2, DrawIs DEF IsWrite
<1>3. CASE ApplyCreate(t)
  BY <1>3, CreateIs DEF IsWrite
<1>4. CASE ApplyUpdate(t)
  BY <1>4, UpdateIs DEF IsWrite
<1>5. CASE ApplyDelete(t)
  BY <1>5, DeleteIs DEF IsWrite
<1>6. CASE Return(t)
  <2>1. ~Drawn(t)
    <3>1. job[t].todo = <<>>
      BY <1>6 DEF Return
    <3> QED BY <3>1, DrawnIs
  <2>2. job' = [job EXCEPT ![t] = Idle] /\ Returns(t, Idle)
    BY <1>6, <2>1 DEF Return, Returns
  <2> QED BY <2>2, IdleTyped DEF IsWrite
<1>7. CASE Compact(t)
  <2>1. job[t] = Idle /\ table' = Live /\ UNCHANGED <<counter, job, reported>>
    BY <1>7 DEF Compact
  <2>2. job' = [job EXCEPT ![t] = Idle]
    BY <2>1 DEF TypeInv
  <2>3. Passes(t, Idle)
    BY <2>1, IdleIs DEF Passes, Quiet, Drawn
  <2> QED BY <2>2, <2>3, IdleTyped DEF IsWrite
<1> QED BY <1>1, <1>2, <1>3, <1>4, <1>5, <1>6, <1>7 DEF Writes

-----------------------------------------------------------------------------
(* Lemmas: a page *)

LEMMA LiveIs ==
  ASSUME table \in Seq(Line)
  PROVE  /\ Live \in Seq(Line) /\ Len(Live) \in Nat
         /\ DOMAIN Live = 1 .. Len(Live)
         /\ \A k \in DOMAIN Live : /\ Live[k].id \in PosNat
                                   /\ Live[k].rec \in Record
                                   /\ Live[k] \in ToSet(Live)
         /\ \A i : i \in LiveIds <=> \E k \in DOMAIN Live : Live[k].id = i
         /\ Unique(table) => Unique(Live)
<1>1. /\ Live \in Seq(Line) /\ Len(Live) \in Nat
      /\ DOMAIN Live = 1 .. Len(Live)
      /\ \A k \in DOMAIN Live : IsLive(Live[k])
      /\ Unique(table) => Unique(Live)
  BY IdsAre, LiveOfIs
<1>2. \A k \in DOMAIN Live : Live[k] \in Line
  BY <1>1, ElementOfSeq
<1>3. \A k \in DOMAIN Live : Live[k].id \in PosNat /\ Live[k].rec \in Record
  BY <1>1, <1>2 DEF Line, IsLive
<1>4. \A k \in DOMAIN Live : Live[k] \in ToSet(Live)
  BY DEF ToSet
<1>5. \A i : i \in LiveIds <=> \E k \in DOMAIN Live : Live[k].id = i
  BY DEF LiveIds, ToSet
<1> QED BY <1>1, <1>3, <1>4, <1>5

LineRows == {Row(x) : x \in Line}

LEMMA RowsAre ==
  ASSUME table \in Seq(Line)
  PROVE  /\ Len(Rows) = Len(Live) /\ DOMAIN Rows = 1 .. Len(Live)
         /\ Rows \in Seq(LineRows)
         /\ \A k \in DOMAIN Live : Rows[k] = Row(Live[k])
<1>1. /\ Live \in Seq(Line) /\ Len(Live) \in Nat
      /\ DOMAIN Live = 1 .. Len(Live)
  BY LiveIs
<1>2. \A k \in DOMAIN Live : Live[k] \in Line
  BY <1>1, ElementOfSeq
<1>3. Rows = [k \in 1 .. Len(Live) |-> Row(Live[k])]
  BY <1>1 DEF Rows
<1>4. Rows \in [1 .. Len(Live) -> LineRows]
  BY <1>1, <1>2, <1>3 DEF LineRows
<1> QED BY <1>1, <1>3, <1>4

LEMMA MinIs ==
  ASSUME NEW a \in Int, NEW b \in Int
  PROVE  Min({a, b}) = IF a <= b THEN a ELSE b
<1>1. \A x \in {a, b} : (\A y \in {a, b} : x <= y) => x = IF a <= b THEN a ELSE b
  OBVIOUS
<1>2. \E x \in {a, b} : \A y \in {a, b} : x <= y
  OBVIOUS
<1> QED BY <1>1, <1>2 DEF Min

LEMMA PageSizeIs == PageSize \in Nat /\ PageSize # 0 /\ PageSize # None
BY RecordsAssumption

\* A page is what comes next of the live records.
LEMMA PageIs ==
  ASSUME table \in Seq(Line), walk.next \in Nat, NEW s \in All(Page)
  PROVE  LET ids == Pluck(s, "id")
             n == Len(ids)
         IN  /\ ids \in Seq(Nat) /\ n \in Nat /\ DOMAIN ids = 1 .. n
             /\ s = <<>> <=> n = 0
             /\ n <= PageSize
             /\ \A k \in 1 .. n : /\ walk.next + k \in DOMAIN Live
                                  /\ ids[k] = Live[walk.next + k].id
             /\ \A m \in DOMAIN Live :
                  walk.next < m /\ m <= walk.next + PageSize => m - walk.next \in 1 .. n
<1> DEFINE o == walk.next
           c == Len(Live)
           q == Page
<1>1. /\ Live \in Seq(Line) /\ c \in Nat /\ DOMAIN Live = 1 .. c
      /\ \A k \in DOMAIN Live : Live[k].id \in PosNat
  BY LiveIs
<1>2. /\ Len(Rows) = c /\ DOMAIN Rows = 1 .. c
      /\ \A k \in 1 .. c : Rows[k] = Row(Live[k])
  BY <1>1, RowsAre
<1>3. /\ q.records = Rows /\ q.preds = <<>> /\ q.key = None
      /\ q.limit = PageSize /\ q.offset = o
  BY DEF Page, Limit, Offset, QueryOf
<1> HIDE DEF q, c
<1>4. Filtered(q) = Rows
  <2>1. \A r : Verdict(<<>>, r) = "yes"
    BY DEF Verdict
  <2>2. {k \in DOMAIN q.records : Verdict(q.preds, q.records[k]) = "yes"}
          = DOMAIN Rows
    BY <1>3, <2>1
  <2>3. Filtered(q) = Keep(Rows, DOMAIN Rows)
    BY <1>3, <2>2 DEF Filtered
  <2> QED BY <2>3, RowsAre, KeepAll
<1>5. s = Window(q, Rows)
  <2>1. Sorted(q, Rows) = {Rows}
    BY <1>3 DEF Sorted
  <2>2. s \in {Window(q, v) : v \in {Rows}}
    BY <1>4, <2>1 DEF All, q
  <2> QED BY <2>2
<1> DEFINE rest == SubSeq(Rows, o + 1, c)
           l == IF o <= c THEN c - o ELSE 0
           n == IF PageSize <= l THEN PageSize ELSE l
<1>6. /\ Len(rest) = l
      /\ \A k \in 1 .. l : rest[k] = Rows[o + k]
      /\ rest \in Seq(LineRows)
  <2>1. Rows \in Seq(LineRows)
    BY RowsAre
  <2>2. rest = SubSeq(Rows, o + 1, Len(Rows))
    BY <1>2
  <2> HIDE DEF rest
  <2>3. /\ rest \in Seq(LineRows)
        /\ Len(rest) = IF o <= Len(Rows) THEN Len(Rows) - o ELSE 0
        /\ \A k \in 1 .. Len(rest) : rest[k] = Rows[o + k]
    BY <2>1, <2>2, SuffixIs, SMTT(30)
  <2> QED BY <1>2, <2>3
<1>7. l \in Nat /\ n \in Nat /\ n <= l /\ n <= PageSize
  BY <1>1, PageSizeIs
<1>8. s = SubSeq(rest, 1, n)
  <2>1. s = SubSeq(rest, 1, Min({PageSize, Len(rest)}))
    BY <1>2, <1>3, <1>5, PageSizeIs DEF Window
  <2>2. PageSize \in Int /\ l \in Int
    BY <1>7, PageSizeIs
  <2>3. Min({PageSize, l}) = n
    <3> HIDE DEF l
    <3> QED BY <2>2, MinIs
  <2> QED BY <1>6, <2>1, <2>3
<1> HIDE DEF rest, l
<1>9. /\ s \in Seq(LineRows)
      /\ Len(s) = n /\ DOMAIN s = 1 .. n
      /\ \A k \in 1 .. n : s[k] = rest[k]
  <2> HIDE DEF n
  <2>1. /\ s \in Seq(LineRows) /\ Len(s) = n
        /\ \A k \in 1 .. n : s[k] = rest[k]
    BY <1>6, <1>7, <1>8, PrefixIs
  <2> QED BY <2>1, LenProperties
<1>10. \A k \in 1 .. n : o + k \in 1 .. c
  BY <1>1, <1>7 DEF l
<1>11. ASSUME NEW k \in 1 .. n PROVE Get(s[k], "id") = Live[o + k].id
  <2>1. o + k \in 1 .. c /\ k \in 1 .. l
    BY <1>7, <1>10
  <2>2. s[k] = Row(Live[o + k])
    BY <1>2, <1>6, <1>9, <2>1
  <2>3. Row(Live[o + k])["id"] = Live[o + k].id
    BY DEF Row
  <2>4. Live[o + k].id \in Nat /\ Absent \notin Nat
    BY <1>1, <2>1, RecordsAssumption DEF PosNat
  <2>5. Live[o + k].id # Absent
    BY <2>4
  <2> QED BY <2>2, <2>3, <2>5 DEF Get
<1> DEFINE ids == Pluck(s, "id")
<1>12. ids = [k \in 1 .. n |-> Get(s[k], "id")]
  BY <1>9 DEF Pluck
<1> HIDE DEF n
<1>13. ids = [k \in 1 .. n |-> Live[o + k].id]
  BY <1>11, <1>12
<1> HIDE DEF ids
<1>14. ids \in [1 .. n -> Nat]
  BY <1>1, <1>10, <1>13 DEF PosNat
<1>15. ids \in Seq(Nat) /\ Len(ids) = n /\ DOMAIN ids = 1 .. n
  BY <1>7, <1>14
<1>16. s = <<>> <=> n = 0
  BY <1>9
<1>17. ASSUME NEW m \in 1 .. c, o < m, m <= o + PageSize PROVE m - o \in 1 .. n
  BY <1>1, <1>7, <1>17, PageSizeIs DEF l, n
<1>18. \A k \in 1 .. n : o + k \in DOMAIN Live /\ ids[k] = Live[o + k].id
  BY <1>1, <1>10, <1>13
<1> QED BY <1>1, <1>7, <1>15, <1>16, <1>17, <1>18 DEF ids

-----------------------------------------------------------------------------
(* Types and ids *)

LEMMA LiveIdsAre ==
  ASSUME TypeInv, IdInv
  PROVE  /\ LiveIds \subseteq LineIds /\ LiveIds \subseteq 1 .. counter
         /\ LiveIds \in SUBSET Nat /\ IsFiniteSet(LiveIds)
         /\ \A S : IsFiniteSet(LiveIds \ S) /\ Cardinality(LiveIds \ S) \in Nat
<1>1. table \in Seq(Line) /\ counter \in Nat /\ LineIds \subseteq 1 .. counter
  BY DEF TypeInv, IdInv
<1>2. LiveIds \subseteq LineIds /\ LiveIds \in SUBSET Nat
  BY <1>1, IdsAre, IdsOfLive DEF PosNat
<1>3. IsFiniteSet(1 .. counter)
  BY <1>1, Counted
<1>4. LiveIds \subseteq 1 .. counter
  BY <1>1, <1>2
<1>5. IsFiniteSet(LiveIds)
  BY <1>3, <1>4, FS_Subset
<1>6. \A S : LiveIds \ S \subseteq LiveIds
  OBVIOUS
<1> QED BY <1>2, <1>4, <1>5, <1>6, FS_Subset, FS_CardinalityType

\* What a writer's step does to the file, with the ids.
LEMMA FileStep ==
  ASSUME TypeInv, IdInv, NEW t \in Threads, NEW j \in Jobs, IsWrite(t, j)
  PROVE  /\ table' \in Seq(Line) /\ Unique(table')
         /\ LineIds' \subseteq LineIds \/ (Creates(t, j) /\ LineIds' = LineIds \cup {job[t].id})
         /\ ~Creates(t, j) /\ ~Deletes(t, j) => LiveIds' = LiveIds
         /\ Creates(t, j) => /\ LiveIds' = LiveIds \cup {job[t].id}
                             /\ job[t].id \notin LiveIds
         /\ Deletes(t, j) => \E i \in LiveIds : LiveIds' = LiveIds \ {i}
<1>1. table \in Seq(Line) /\ Unique(table)
  BY DEF TypeInv, IdInv
<1>2. ASSUME table' = table
      PROVE  /\ table' \in Seq(Line) /\ Unique(table')
             /\ LineIds' \subseteq LineIds /\ LiveIds' = LiveIds
  BY <1>1, <1>2, IdsAre
<1>3. Creates(t, j) =>
        /\ Adds([id |-> job[t].id, rec |-> Head(job[t].todo)])
        /\ Drawn(t) /\ j.id = 0 /\ counter' = counter /\ ~Busy(t, "delete")
  BY DEF Creates, Quiet
<1>4. Deletes(t, j) => Busy(t, "delete")
  BY DEF Deletes
<1>5. CASE Draws(t, j)
  <2>1. table' = table /\ counter' = counter + 1 /\ ~Busy(t, "delete")
    BY <1>5 DEF Draws, Quiet
  <2>2. ~Creates(t, j) /\ ~Deletes(t, j)
    <3>1. counter \in Nat
      BY DEF TypeInv
    <3> QED BY <1>3, <1>4, <2>1, <3>1
  <2> QED BY <1>2, <2>1, <2>2
<1>6. CASE Creates(t, j)
  <2> DEFINE x == [id |-> job[t].id, rec |-> Head(job[t].todo)]
  <2>1. Adds(x) /\ x.id = job[t].id
    BY <1>3, <1>6
  <2> HIDE DEF x
  <2>2. /\ table' \in Seq(Line) /\ Unique(table')
        /\ LineIds' = LineIds \cup {x.id}
        /\ LiveIds' = LiveIds \cup {x.id}
        /\ x.id \notin LiveIds
    BY <1>1, <2>1, AddsEffect
  <2> QED BY <1>3, <1>4, <1>6, <2>1, <2>2
<1>7. CASE Passes(t, j) /\ ~Creates(t, j)
  <2>1. ~Busy(t, "delete") /\ (table' = table \/ table' = Live)
    BY <1>7 DEF Passes, Quiet
  <2>2. CASE table' = table
    BY <1>2, <1>4, <1>7, <2>1, <2>2
  <2>3. CASE table' = Live
    BY <1>1, <1>4, <1>7, <2>1, <2>3, CompactEffect
  <2> QED BY <2>1, <2>2, <2>3
<1>8. CASE Updates(t, j) /\ ~Creates(t, j)
  <2>1. PICK h \in DOMAIN table :
          Replaces(h, [id |-> table[h].id,
                       rec |-> Patched(table[h].rec, job[t].patch)])
    BY <1>8 DEF Updates
  <2> DEFINE y == [id |-> table[h].id,
                   rec |-> Patched(table[h].rec, job[t].patch)]
  <2>2. ~Busy(t, "delete") /\ job[t].patch \in Record
    BY <1>8 DEF Updates, Quiet
  <2>3. IsLive(y)
    <3>1. table[h].rec \in Record
      BY <1>1, <2>1, StoredIs DEF Replaces
    <3>2. y.rec \in Record
      BY <2>2, <3>1, PatchedTyped
    <3> QED BY <3>2, RecordsAre DEF IsLive
  <2>4. Replaces(h, y)
    BY <2>1
  <2> HIDE DEF y
  <2>5. /\ table' \in Seq(Line) /\ Unique(table')
        /\ LineIds' = LineIds /\ LiveIds' = LiveIds
    BY <1>1, <2>3, <2>4, ReplacesEffect
  <2> QED BY <1>4, <1>8, <2>2, <2>5
<1>9. CASE Misses(t, j)
  <2>1. /\ Busy(t, "delete") /\ table' = table /\ j.done = job[t].done
    BY <1>9 DEF Misses
  <2>2. job[t].done \in Nat
    BY DEF TypeInv, Jobs
  <2>3. ~Creates(t, j) /\ ~Deletes(t, j)
    BY <1>3, <2>1, <2>2 DEF Deletes
  <2> QED BY <1>2, <2>1, <2>3
<1>10. CASE Deletes(t, j)
  <2>1. PICK h \in DOMAIN table : Replaces(h, [id |-> table[h].id, rec |-> Gone])
    BY <1>10 DEF Deletes
  <2> DEFINE y == [id |-> table[h].id, rec |-> Gone]
  <2>2. ~IsLive(y) /\ Replaces(h, y)
    BY <2>1 DEF IsLive
  <2> HIDE DEF y
  <2>3. /\ table' \in Seq(Line) /\ Unique(table')
        /\ LineIds' = LineIds
        /\ y.id \in LiveIds /\ LiveIds' = LiveIds \ {y.id}
    BY <1>1, <2>2, ReplacesEffect
  <2> QED BY <1>3, <1>4, <1>10, <2>3
<1>11. CASE Returns(t, j)
  <2>1. table' = table /\ j.kind = "none"
    BY <1>11, IdleIs DEF Returns
  <2>2. ~Deletes(t, j)
    BY <2>1 DEF Deletes
  <2>3. ~Creates(t, j)
    <3>1. CASE Creates(t, j)
      <4> DEFINE x == [id |-> job[t].id, rec |-> Head(job[t].todo)]
      <4>1. Adds(x)
        BY <1>3, <3>1
      <4> HIDE DEF x
      <4>2. x.id \notin LiveIds /\ LiveIds' = LiveIds \cup {x.id}
        BY <1>1, <4>1, AddsEffect
      <4> QED BY <1>2, <2>1, <4>2
    <3> QED BY <3>1
  <2> QED BY <1>2, <2>1, <2>2, <2>3
<1> QED BY <1>5, <1>6, <1>7, <1>8, <1>9, <1>10, <1>11 DEF IsWrite

\* The ids of the calls after a writer's step.
LEMMA DrawnStep ==
  ASSUME TypeInv, NEW t \in Threads, NEW j \in Jobs, JobOK(j), IsWrite(t, j),
         job' = [job EXCEPT ![t] = j]
  PROVE  /\ counter' \in Nat /\ reported' \in Nat
         /\ counter' = counter \/ (Draws(t, j) /\ counter' = counter + 1)
         /\ Drawn(t)' => Draws(t, j) /\ job'[t].id = counter + 1
         /\ \A u \in Threads \ {t} : job'[u] = job[u] /\ (Drawn(u)' <=> Drawn(u))
<1>1. counter \in Nat /\ reported \in Nat /\ \A u \in Threads : job[u].done \in Nat
  BY DEF TypeInv, Jobs
<1>2. job'[t] = j /\ \A u \in Threads \ {t} : job'[u] = job[u]
  BY DEF TypeInv
<1>3. \A u \in Threads \ {t} : Drawn(u)' <=> Drawn(u)
  BY <1>2 DEF Drawn, Busy
<1>4. /\ counter' = counter \/ (Draws(t, j) /\ counter' = counter + 1)
      /\ reported' \in Nat
      /\ j.id # 0 => Draws(t, j) /\ j.id = counter + 1
  <2>1. CASE Draws(t, j)
    BY <1>1, <2>1 DEF Draws, Quiet
  <2>2. CASE Returns(t, j)
    BY <1>1, <2>2, IdleIs DEF Returns
  <2>3. CASE Passes(t, j) \/ Creates(t, j) \/ Updates(t, j)
    BY <1>1, <2>3 DEF Passes, Creates, Updates, Quiet
  <2>4. CASE Misses(t, j) \/ Deletes(t, j)
    BY <1>1, <2>4 DEF Misses, Deletes
  <2> QED BY <2>1, <2>2, <2>3, <2>4 DEF IsWrite
<1>5. Drawn(t)' => j.id # 0
  BY <1>2 DEF Drawn
<1> QED BY <1>1, <1>2, <1>3, <1>4, <1>5

LEMMA InitTyped == Init => TypeInv /\ IdInv /\ TookInv
<1> SUFFICES ASSUME Init PROVE TypeInv /\ IdInv /\ TookInv
  OBVIOUS
<1>1. /\ table = <<>> /\ counter = 0 /\ job = [t \in Threads |-> Idle]
      /\ walk = NoWalk /\ reported = 0
      /\ took = [t \in Threads |-> {}] /\ told = {}
  BY DEF Init
<1>2. TypeInv
  BY <1>1, IdleTyped DEF TypeInv, NoWalk
<1>3. \A t \in Threads : ~Drawn(t)
  BY <1>1, IdleIs DEF Drawn
<1>4. LineIds = {} /\ Unique(table)
  BY <1>1 DEF LineIds, ToSet, Unique
<1>5. IdInv
  BY <1>3, <1>4 DEF IdInv
<1>6. TookInv
  BY <1>1, FS_EmptySet DEF TookInv
<1> QED BY <1>2, <1>5, <1>6

LEMMA WatchedTyped ==
  ASSUME TypeInv, IdInv, Watched
  PROVE  walk' \in [on : BOOLEAN, next : Nat, seen : Seq(Nat), over : BOOLEAN,
                    steady : SUBSET Nat, deletes : Nat]
<1>1. walk \in [on : BOOLEAN, next : Nat, seen : Seq(Nat), over : BOOLEAN,
                steady : SUBSET Nat, deletes : Nat]
  BY DEF TypeInv
<1>2. Cardinality(LiveIds \ LiveIds') \in Nat
  BY LiveIdsAre
<1>3. walk' = walk \/
        walk' = [walk EXCEPT !.steady = @ \cap LiveIds',
                             !.deletes = @ + Cardinality(LiveIds \ LiveIds')]
  BY DEF Watched
<1> DEFINE a == walk.steady \cap LiveIds'
           b == walk.deletes + Cardinality(LiveIds \ LiveIds')
<1>4. a \in SUBSET Nat /\ b \in Nat
  BY <1>1, <1>2
<1>5. walk' = walk \/ walk' = [walk EXCEPT !.steady = a, !.deletes = b]
  BY <1>3
<1> HIDE DEF a, b
<1> QED BY <1>1, <1>4, <1>5

LEMMA CreditedTyped ==
  ASSUME TypeInv, IdInv, NEW t \in Threads, Credited(t)
  PROVE  took' \in [Threads -> SUBSET Nat] /\ told' \in SUBSET Nat
<1>1. took \in [Threads -> SUBSET Nat] /\ told \in SUBSET Nat
  BY DEF TypeInv
<1>2. LiveIds \ LiveIds' \in SUBSET Nat
  BY LiveIdsAre
<1> DEFINE gone == took[t] \cup (LiveIds \ LiveIds')
<1>3. gone \in SUBSET Nat
  BY <1>1, <1>2
<1>4. \/ took' = [took EXCEPT ![t] = {}] /\ told' = told \cup gone
      \/ took' = [took EXCEPT ![t] = gone] /\ told' = told
  BY DEF Credited
<1> HIDE DEF gone
<1> QED BY <1>1, <1>3, <1>4

\* What the reader does leaves all but its pages alone.
LEMMA ReaderIs ==
  ASSUME StartWalk \/ NextPage \/ EndWalk
  PROVE  /\ UNCHANGED <<table, counter, job, reported, hist>>
         /\ UNCHANGED <<took, told>>
         /\ LineIds' = LineIds /\ LiveIds' = LiveIds
         /\ Live' = Live
         /\ \A t \in Threads : Drawn(t)' <=> Drawn(t)
<1>1. UNCHANGED <<table, counter, job, reported, hist>>
  BY DEF StartWalk, NextPage, EndWalk
<1>2. UNCHANGED <<took, told>>
  BY <1>1 DEF hist
<1>3. Live' = Live /\ LiveIds' = LiveIds /\ LineIds' = LineIds
  BY <1>1, IdsAre
<1>4. \A t \in Threads : Drawn(t)' <=> Drawn(t)
  BY <1>1 DEF Drawn, Busy
<1> QED BY <1>1, <1>2, <1>3, <1>4

LEMMA PageTyped ==
  ASSUME TypeInv, IdInv, NextPage
  PROVE  \E s \in All(Page) :
           /\ walk' = [walk EXCEPT !.next = @ + PageSize,
                                   !.seen = @ \o Pluck(s, "id"),
                                   !.over = s = <<>>]
           /\ walk' \in [on : BOOLEAN, next : Nat, seen : Seq(Nat), over : BOOLEAN,
                         steady : SUBSET Nat, deletes : Nat]
<1>1. PICK s \in All(Page) :
        walk' = [walk EXCEPT !.next = @ + PageSize,
                             !.seen = @ \o Pluck(s, "id"),
                             !.over = s = <<>>]
  BY DEF NextPage
<1>2. /\ walk \in [on : BOOLEAN, next : Nat, seen : Seq(Nat), over : BOOLEAN,
                   steady : SUBSET Nat, deletes : Nat]
      /\ table \in Seq(Line)
  BY DEF TypeInv
<1>3. Pluck(s, "id") \in Seq(Nat)
  BY <1>2, PageIs
<1> DEFINE a == walk.next + PageSize
           b == walk.seen \o Pluck(s, "id")
           c == s = <<>>
<1>4. a \in Nat /\ b \in Seq(Nat) /\ c \in BOOLEAN
  BY <1>2, <1>3, PageSizeIs, ConcatProperties
<1>5. walk' = [walk EXCEPT !.next = a, !.seen = b, !.over = c]
  BY <1>1
<1> HIDE DEF a, b, c
<1>6. walk' \in [on : BOOLEAN, next : Nat, seen : Seq(Nat), over : BOOLEAN,
                 steady : SUBSET Nat, deletes : Nat]
  BY <1>2, <1>4, <1>5
<1> QED BY <1>1, <1>6

LEMMA TypeStep == TypeInv /\ IdInv /\ [Next]_vars => TypeInv'
<1> SUFFICES ASSUME TypeInv, IdInv, [Next]_vars PROVE TypeInv'
  OBVIOUS
<1>1. ASSUME NEW t \in Threads, Writes(t), Watched, Credited(t) PROVE TypeInv'
  <2>1. PICK j \in Jobs : job' = [job EXCEPT ![t] = j] /\ JobOK(j) /\ IsWrite(t, j)
    BY <1>1, WriteIs
  <2>2. table' \in Seq(Line)
    BY <2>1, FileStep
  <2>3. job' \in [Threads -> Jobs] /\ \A u \in Threads : JobOK(job'[u])
    BY <2>1, JobSet
  <2>4. counter' \in Nat /\ reported' \in Nat
    BY <2>1, DrawnStep
  <2>5. walk' \in [on : BOOLEAN, next : Nat, seen : Seq(Nat), over : BOOLEAN,
                   steady : SUBSET Nat, deletes : Nat]
    BY <1>1, WatchedTyped
  <2>6. took' \in [Threads -> SUBSET Nat] /\ told' \in SUBSET Nat
    BY <1>1, CreditedTyped
  <2> QED BY <2>2, <2>3, <2>4, <2>5, <2>6 DEF TypeInv, JobOK
<1>2. ASSUME StartWalk \/ NextPage \/ EndWalk PROVE TypeInv'
  <2>1. UNCHANGED <<table, counter, job, reported>> /\ UNCHANGED <<took, told>>
    BY <1>2, ReaderIs
  <2>2. walk' \in [on : BOOLEAN, next : Nat, seen : Seq(Nat), over : BOOLEAN,
                   steady : SUBSET Nat, deletes : Nat]
    <3>1. CASE StartWalk
      <4>1. walk' = [NoWalk EXCEPT !.on = TRUE, !.steady = LiveIds]
        BY <3>1 DEF StartWalk
      <4>2. LiveIds \in SUBSET Nat
        BY LiveIdsAre
      <4>3. NoWalk \in [on : BOOLEAN, next : Nat, seen : Seq(Nat), over : BOOLEAN,
                         steady : SUBSET Nat, deletes : Nat]
        BY DEF NoWalk
      <4> QED BY <4>1, <4>2, <4>3
    <3>2. CASE NextPage
      BY <3>2, PageTyped
    <3>3. CASE EndWalk
      BY <3>3 DEF EndWalk, NoWalk
    <3> QED BY <1>2, <3>1, <3>2, <3>3
  <2> QED BY <2>1, <2>2 DEF TypeInv, JobOK
<1>3. CASE UNCHANGED vars
  BY <1>3 DEF vars, hist, TypeInv, JobOK
<1> QED BY <1>1, <1>2, <1>3 DEF Next

LEMMA IdStep == TypeInv /\ IdInv /\ [Next]_vars => IdInv'
<1> SUFFICES ASSUME TypeInv, IdInv, [Next]_vars PROVE IdInv'
  OBVIOUS
<1>0. /\ LineIds \subseteq 1 .. counter /\ counter \in Nat
      /\ \A t \in Threads : Drawn(t) => /\ job[t].id \in 1 .. counter
                                        /\ job[t].id \notin LineIds
      /\ \A t, u \in Threads :
           Drawn(t) /\ Drawn(u) /\ job[t].id = job[u].id => t = u
  BY DEF IdInv, TypeInv
<1>1. ASSUME NEW t \in Threads, Writes(t) PROVE IdInv'
  <2>1. PICK j \in Jobs : job' = [job EXCEPT ![t] = j] /\ JobOK(j) /\ IsWrite(t, j)
    BY <1>1, WriteIs
  <2>2. /\ Unique(table')
        /\ LineIds' \subseteq LineIds
             \/ (Creates(t, j) /\ LineIds' = LineIds \cup {job[t].id})
    BY <2>1, FileStep
  <2>3. /\ counter' = counter \/ (Draws(t, j) /\ counter' = counter + 1)
        /\ Drawn(t)' => Draws(t, j) /\ job'[t].id = counter + 1
        /\ \A u \in Threads \ {t} : job'[u] = job[u] /\ (Drawn(u)' <=> Drawn(u))
    BY <2>1, DrawnStep
  <2>4. Creates(t, j) => Drawn(t)
    BY DEF Creates
  <2>5. LineIds' \subseteq 1 .. counter
    <3>1. CASE LineIds' \subseteq LineIds
      BY <1>0, <3>1
    <3>2. CASE Creates(t, j) /\ LineIds' = LineIds \cup {job[t].id}
      <4>1. job[t].id \in 1 .. counter
        BY <1>0, <2>4, <3>2
      <4> QED BY <1>0, <3>2, <4>1
    <3> QED BY <2>2, <3>1, <3>2
  <2>6. 1 .. counter \subseteq 1 .. counter' /\ counter' \in Nat
    BY <1>0, <2>3
  <2>7. LineIds' \subseteq 1 .. counter'
    BY <2>5, <2>6
  <2>8. Draws(t, j) => counter' = counter + 1
    BY DEF Draws
  <2>9. Drawn(t)' => job'[t].id \in (1 .. counter') \ LineIds'
    <3> SUFFICES ASSUME Drawn(t)' PROVE job'[t].id \in (1 .. counter') \ LineIds'
      OBVIOUS
    <3>1. job'[t].id = counter + 1 /\ counter' = counter + 1
      BY <2>3, <2>8
    <3>2. counter + 1 \notin 1 .. counter /\ counter + 1 \in 1 .. counter + 1
      BY <1>0
    <3> QED BY <2>5, <3>1, <3>2
  <2>10. ASSUME NEW u \in Threads \ {t}, Drawn(u)'
         PROVE  /\ Drawn(u) /\ job'[u].id = job[u].id
                /\ job'[u].id \in (1 .. counter') \ LineIds'
                /\ job'[u].id \in 1 .. counter
    <3>1. Drawn(u) /\ job'[u] = job[u]
      BY <2>3, <2>10
    <3>2. job[u].id \in 1 .. counter /\ job[u].id \notin LineIds
      BY <1>0, <3>1
    <3>3. Creates(t, j) => job[u].id # job[t].id
      BY <1>0, <2>4, <2>10, <3>1
    <3>4. job[u].id \notin LineIds'
      BY <2>2, <3>2, <3>3
    <3> QED BY <2>6, <3>1, <3>2, <3>4
  <2>11. ASSUME NEW u \in Threads, Drawn(u)'
         PROVE  job'[u].id \in (1 .. counter') \ LineIds'
    BY <2>9, <2>10, <2>11
  <2>12. ASSUME NEW u \in Threads, NEW v \in Threads,
                Drawn(u)', Drawn(v)', job'[u].id = job'[v].id
         PROVE  u = v
    <3>1. Drawn(t)' => job'[t].id \notin 1 .. counter
      BY <1>0, <2>3
    <3>2. CASE u # t /\ v # t
      BY <1>0, <2>10, <2>12, <3>2
    <3>3. CASE u = t /\ v # t
      BY <2>10, <2>12, <3>1, <3>3
    <3>4. CASE u # t /\ v = t
      BY <2>10, <2>12, <3>1, <3>4
    <3> QED BY <3>2, <3>3, <3>4
  <2>13. Unique(table)'
    BY <2>2 DEF Unique
  <2> QED BY <2>7, <2>11, <2>12, <2>13 DEF IdInv
<1>2. ASSUME StartWalk \/ NextPage \/ EndWalk PROVE IdInv'
  <2>1. /\ UNCHANGED <<table, counter, job, reported>> /\ LineIds' = LineIds
        /\ \A t \in Threads : Drawn(t)' <=> Drawn(t)
    BY <1>2, ReaderIs
  <2>2. Unique(table)' <=> Unique(table)
    BY <2>1 DEF Unique
  <2> QED BY <2>1, <2>2 DEF IdInv
<1>3. CASE UNCHANGED vars
  <2>1. UNCHANGED <<table, counter, job>>
    BY <1>3 DEF vars
  <2>2. Unique(table)' <=> Unique(table)
    BY <2>1 DEF Unique
  <2>3. LineIds' = LineIds /\ \A t \in Threads : Drawn(t)' <=> Drawn(t)
    BY <2>1 DEF LineIds, Drawn, Busy
  <2> QED BY <2>1, <2>2, <2>3 DEF IdInv
<1> QED BY <1>1, <1>2, <1>3 DEF Next

\* Every id has at most one line in the data file, ids are never drawn twice,
\* and what a create is about to write has an id of its own (collection.py
\* _IDCounter.next, _apply_create).
THEOREM RecordsTyped == Spec => [](TypeInv /\ IdInv)
<1>1. Init => TypeInv /\ IdInv
  BY InitTyped
<1>2. TypeInv /\ IdInv /\ [Next]_vars => (TypeInv /\ IdInv)'
  BY TypeStep, IdStep
<1> QED BY <1>1, <1>2, PTL DEF Spec

-----------------------------------------------------------------------------
(* What is stored is valid *)

LEMMA ValidIs ==
  ASSUME NEW r
  PROVE  /\ Valid(SchemaOf, r) <=>
              \A f \in DOMAIN SchemaOf :
                IF r[f] # Absent THEN ErrorsOf(SchemaOf[f], r[f]) = {}
                ELSE ~SchemaOf[f].required
         /\ ValidPatch(SchemaOf, r) <=>
              \A f \in DOMAIN SchemaOf :
                r[f] # Absent => ErrorsOf(SchemaOf[f], r[f]) = {}
<1>1. Valid(SchemaOf, r) <=>
        \A f \in DOMAIN SchemaOf :
          (IF r[f] # Absent THEN ErrorsOf(SchemaOf[f], r[f])
           ELSE IF SchemaOf[f].required /\ ~FALSE THEN {"missing"} ELSE {}) = {}
  BY DEF Valid, Errors
<1>2. ValidPatch(SchemaOf, r) <=>
        \A f \in DOMAIN SchemaOf :
          (IF r[f] # Absent THEN ErrorsOf(SchemaOf[f], r[f])
           ELSE IF SchemaOf[f].required /\ ~TRUE THEN {"missing"} ELSE {}) = {}
  BY DEF ValidPatch, Errors
<1> QED BY <1>1, <1>2

\* A valid record stays valid when a valid patch is put over it.
LEMMA PatchedValid ==
  ASSUME NEW r \in Record, NEW p \in Record,
         Valid(SchemaOf, r), ValidPatch(SchemaOf, p)
  PROVE  Valid(SchemaOf, Patched(r, p))
<1> DEFINE q == Patched(r, p)
<1>1. \A f \in DOMAIN SchemaOf : q[f] = IF p[f] = Absent THEN r[f] ELSE p[f]
  BY SchemaFields DEF Patched
<1> HIDE DEF q
<1>2. ASSUME NEW f \in DOMAIN SchemaOf
      PROVE  IF q[f] # Absent THEN ErrorsOf(SchemaOf[f], q[f]) = {}
             ELSE ~SchemaOf[f].required
  <2>1. CASE p[f] = Absent
    BY <1>1, <2>1, ValidIs
  <2>2. CASE p[f] # Absent
    BY <1>1, <2>2, ValidIs
  <2> QED BY <2>1, <2>2
<1>3. Valid(SchemaOf, q)
  BY <1>2, ValidIs
<1> QED BY <1>3 DEF q

LEMMA ValidStep == TypeInv /\ IdInv /\ StoredValid /\ [Next]_vars => StoredValid'
<1> SUFFICES ASSUME TypeInv, IdInv, StoredValid, [Next]_vars PROVE StoredValid'
  OBVIOUS
<1>0. /\ table \in Seq(Line) /\ Unique(table)
      /\ \A x \in ToSet(Live) : Valid(SchemaOf, x.rec)
  BY DEF TypeInv, IdInv, StoredValid
<1>1. ASSUME Live' = Live PROVE StoredValid'
  BY <1>0, <1>1 DEF StoredValid
<1>2. ASSUME NEW t \in Threads, Writes(t) PROVE StoredValid'
  <2>1. PICK j \in Jobs : job' = [job EXCEPT ![t] = j] /\ JobOK(j) /\ IsWrite(t, j)
    BY <1>2, WriteIs
  <2>2. table' = table => Live' = Live
    BY IdsAre
  <2>3. CASE Creates(t, j)
    <3> DEFINE x == [id |-> job[t].id, rec |-> Head(job[t].todo)]
    <3>1. Drawn(t) /\ Adds(x)
      BY <2>3 DEF Creates
    <3>2. Valid(SchemaOf, x.rec)
      BY <3>1, DrawnIs
    <3> HIDE DEF x
    <3>3. ToSet(Live') = ToSet(Live) \cup {x}
      BY <1>0, <3>1, AddsEffect
    <3> QED BY <1>0, <3>2, <3>3 DEF StoredValid
  <2>4. CASE Updates(t, j)
    <3>1. PICK h \in DOMAIN table :
            Replaces(h, [id |-> table[h].id,
                         rec |-> Patched(table[h].rec, job[t].patch)])
      BY <2>4 DEF Updates
    <3> DEFINE y == [id |-> table[h].id,
                     rec |-> Patched(table[h].rec, job[t].patch)]
    <3>2. job[t].patch \in Record /\ ValidPatch(SchemaOf, job[t].patch)
      BY <2>4 DEF Updates
    <3>3. table[h] \in ToSet(Live) /\ table[h].rec \in Record
      BY <1>0, <3>1, StoredIs DEF Replaces
    <3>4. Valid(SchemaOf, table[h].rec)
      BY <1>0, <3>3
    <3>5. Valid(SchemaOf, y.rec)
      BY <3>2, <3>3, <3>4, PatchedValid
    <3> HIDE DEF y
    <3>6. \A x \in ToSet(Live') : x \in ToSet(Live) \/ (x = y /\ IsLive(y))
      BY <1>0, <3>1, ReplacesEffect DEF y
    <3> QED BY <1>0, <3>5, <3>6 DEF StoredValid
  <2>5. CASE Deletes(t, j)
    <3>1. PICK h \in DOMAIN table :
            Replaces(h, [id |-> table[h].id, rec |-> Gone])
      BY <2>5 DEF Deletes
    <3> DEFINE y == [id |-> table[h].id, rec |-> Gone]
    <3>2. ~IsLive(y)
      BY DEF IsLive
    <3> HIDE DEF y
    <3>3. \A x \in ToSet(Live') : x \in ToSet(Live) \/ (x = y /\ IsLive(y))
      BY <1>0, <3>1, ReplacesEffect DEF y
    <3> QED BY <1>0, <3>2, <3>3 DEF StoredValid
  <2>6. CASE Passes(t, j)
    <3>1. Live' = Live
      BY <1>0, <2>2, <2>6, CompactEffect DEF Passes
    <3> QED BY <1>1, <3>1
  <2>7. CASE Draws(t, j) \/ Misses(t, j) \/ Returns(t, j)
    <3>1. table' = table
      BY <2>7 DEF Draws, Misses, Returns
    <3> QED BY <1>1, <2>2, <3>1
  <2> QED BY <2>1, <2>3, <2>4, <2>5, <2>6, <2>7 DEF IsWrite
<1>3. ASSUME StartWalk \/ NextPage \/ EndWalk PROVE StoredValid'
  BY <1>1, <1>3, ReaderIs
<1>4. CASE UNCHANGED vars
  <2>1. Live' = Live
    BY <1>4, IdsAre DEF vars
  <2> QED BY <1>1, <2>1
<1> QED BY <1>2, <1>3, <1>4 DEF Next

\* Every stored record satisfies the whole schema (schema.py:7 "every create
\* and update call is validated before the record is written"), although an
\* update validates its patch only and a call that raises leaves what it has
\* done: a create completes its record before it validates it, and a valid
\* patch takes no required field away.
THEOREM RecordsStoredValid == Spec => []StoredValid
<1>1. Init => StoredValid
  <2> SUFFICES ASSUME Init PROVE StoredValid
    OBVIOUS
  <2>1. TypeInv /\ table = <<>>
    BY InitTyped DEF Init
  <2>2. ToSet(Live) = {x \in ToSet(table) : IsLive(x)}
    BY <2>1, IdsAre, LiveOfIs DEF TypeInv
  <2>3. ToSet(Live) = {}
    BY <2>1, <2>2 DEF ToSet
  <2> QED BY <2>3 DEF StoredValid
<1>2. TypeInv /\ IdInv /\ StoredValid /\ [Next]_vars => StoredValid'
  BY ValidStep
<1>3. Spec => [](TypeInv /\ IdInv)
  BY RecordsTyped
<1> QED BY <1>1, <1>2, <1>3, PTL DEF Spec

-----------------------------------------------------------------------------
(* What deletes count *)

DrawnIds == {job[t].id : t \in {u \in Threads : Drawn(u)}}

DeletedIds == told \cup UNION {took[t] : t \in Threads}

\* DeletesCounted, with names for its parts.
CountInv ==
  /\ reported = Cardinality(told)
  /\ \A t \in Threads : Busy(t, "delete") => job[t].done = Cardinality(took[t])
  /\ 1 .. counter = LiveIds \cup DrawnIds \cup DeletedIds
  /\ LiveIds \cap DrawnIds = {}
  /\ DeletedIds \cap (LiveIds \cup DrawnIds) = {}
  /\ \A t, u \in Threads :
       /\ told \cap took[t] = {}
       /\ t # u => /\ took[t] \cap took[u] = {}
                   /\ Drawn(t) /\ Drawn(u) => job[t].id # job[u].id

LEMMA CountInvIs == DeletesCounted <=> CountInv
BY DEF DeletesCounted, CountInv, DrawnIds, DeletedIds

Lost == LiveIds \ LiveIds'

\* Whose account what the step deletes goes to.
Unchanged(t, j) ==
  /\ ~Busy(t, "delete") /\ reported' = reported
  /\ j.kind = "delete" => j.done = 0
  /\ told' = told /\ took[t] = {} /\ took'[t] = {} /\ Lost = {}

Told(t, j) ==
  /\ j = Idle
  /\ reported' = IF Busy(t, "delete") THEN reported + job[t].done ELSE reported
  /\ told' = told \cup took[t] /\ took'[t] = {} /\ Lost = {}

Counts(t, j) ==
  /\ Busy(t, "delete") /\ j.kind = "delete" /\ reported' = reported
  /\ told' = told
  /\ \/ j.done = job[t].done /\ took'[t] = took[t] /\ Lost = {}
     \/ /\ j.done = job[t].done + 1
        /\ \E i \in LiveIds : Lost = {i} /\ took'[t] = took[t] \cup {i}

LEMMA CreditStep ==
  ASSUME TypeInv, IdInv, TookInv, NEW t \in Threads, NEW j \in Jobs,
         JobOK(j), IsWrite(t, j), job' = [job EXCEPT ![t] = j], Credited(t)
  PROVE  /\ \A u \in Threads \ {t} : took'[u] = took[u]
         /\ Unchanged(t, j) \/ Told(t, j) \/ Counts(t, j)
<1>0. /\ took \in [Threads -> SUBSET Nat]
      /\ job'[t] = j
      /\ ~Busy(t, "delete") => took[t] = {}
  BY DEF TypeInv, TookInv
<1>1. \/ /\ j = Idle
         /\ took' = [took EXCEPT ![t] = {}]
         /\ told' = told \cup took[t] \cup Lost
      \/ /\ j # Idle
         /\ took' = [took EXCEPT ![t] = took[t] \cup Lost]
         /\ told' = told
  <2>1. CASE j = Idle
    BY <1>0, <2>1 DEF Credited, Lost
  <2>2. CASE j # Idle
    BY <1>0, <2>2 DEF Credited, Lost
  <2> QED BY <2>1, <2>2
<1>2. \A u \in Threads \ {t} : took'[u] = took[u]
  BY <1>0, <1>1
<1>3. /\ ~Creates(t, j) /\ ~Deletes(t, j) => LiveIds' = LiveIds
      /\ Creates(t, j) => LiveIds' = LiveIds \cup {job[t].id}
      /\ Deletes(t, j) => \E i \in LiveIds : LiveIds' = LiveIds \ {i}
  BY FileStep
<1>4. ~Deletes(t, j) => Lost = {}
  BY <1>3 DEF Lost
<1>5. Busy(t, "delete") => ~Quiet(t, j)
  BY DEF Quiet
<1>6. CASE Quiet(t, j)
  <2>1. ~Deletes(t, j)
    BY <1>5, <1>6 DEF Deletes
  <2>2. took[t] = {} /\ Lost = {}
    BY <1>0, <1>4, <1>6, <2>1 DEF Quiet
  <2>3. told' = told /\ took'[t] = {}
    BY <1>0, <1>1, <2>2
  <2>4. Unchanged(t, j)
    BY <1>6, <2>2, <2>3 DEF Unchanged, Quiet
  <2> QED BY <1>2, <2>4
<1>7. CASE Misses(t, j)
  <2>1. j # Idle /\ j.done = job[t].done
    BY <1>7, IdleIs DEF Misses
  <2>2. job[t].done \in Nat
    BY DEF TypeInv, Jobs
  <2>3. ~Deletes(t, j)
    BY <2>1, <2>2 DEF Deletes
  <2>4. Lost = {} /\ told' = told /\ took'[t] = took[t]
    BY <1>0, <1>1, <1>4, <2>1, <2>3
  <2>5. Counts(t, j)
    BY <1>7, <2>4 DEF Counts, Misses
  <2> QED BY <1>2, <2>5
<1>8. CASE Deletes(t, j)
  <2>1. j # Idle
    BY <1>8, IdleIs DEF Deletes
  <2>2. PICK i \in LiveIds : LiveIds' = LiveIds \ {i}
    BY <1>3, <1>8
  <2>3. Lost = {i}
    BY <2>2 DEF Lost
  <2>4. told' = told /\ took'[t] = took[t] \cup {i}
    BY <1>0, <1>1, <2>1, <2>3
  <2>5. Counts(t, j)
    BY <1>8, <2>3, <2>4 DEF Counts, Deletes
  <2> QED BY <1>2, <2>5
<1>9. CASE Returns(t, j)
  <2>1. j = Idle
    BY <1>9 DEF Returns
  <2>2. ~Deletes(t, j)
    BY <2>1, IdleIs DEF Deletes
  <2>3. told' = told \cup took[t] /\ took'[t] = {} /\ Lost = {}
    BY <1>0, <1>1, <1>4, <2>1, <2>2
  <2>4. Told(t, j)
    BY <1>9, <2>3 DEF Told, Returns
  <2> QED BY <1>2, <2>4
<1> QED BY <1>6, <1>7, <1>8, <1>9
     DEF IsWrite, Draws, Passes, Creates, Updates

LEMMA TookStep == TypeInv /\ IdInv /\ TookInv /\ [Next]_vars => TookInv'
<1> SUFFICES ASSUME TypeInv, IdInv, TookInv, [Next]_vars PROVE TookInv'
  OBVIOUS
<1>0. /\ IsFiniteSet(told) /\ \A t \in Threads : IsFiniteSet(took[t])
      /\ \A t \in Threads : took[t] # {} => Busy(t, "delete")
  BY DEF TookInv
<1>1. ASSUME NEW t \in Threads, Writes(t), Credited(t) PROVE TookInv'
  <2>1. PICK j \in Jobs : job' = [job EXCEPT ![t] = j] /\ JobOK(j) /\ IsWrite(t, j)
    BY <1>1, WriteIs
  <2>2. /\ \A u \in Threads \ {t} : took'[u] = took[u]
        /\ Unchanged(t, j) \/ Told(t, j) \/ Counts(t, j)
    BY <1>1, <2>1, CreditStep
  <2>3. job'[t] = j /\ \A u \in Threads \ {t} : job'[u] = job[u]
    BY <2>1 DEF TypeInv
  <2>4. /\ IsFiniteSet(told') /\ IsFiniteSet(took'[t])
        /\ took'[t] # {} => j.kind = "delete"
    <3>1. CASE Unchanged(t, j)
      BY <1>0, <3>1, FS_EmptySet DEF Unchanged
    <3>2. CASE Told(t, j)
      <4>1. told' = told \cup took[t] /\ took'[t] = {}
        BY <3>2 DEF Told
      <4> QED BY <1>0, <4>1, FS_EmptySet, FS_Union
    <3>3. CASE Counts(t, j)
      <4>1. /\ told' = told /\ j.kind = "delete"
            /\ took'[t] = took[t] \/ \E i : took'[t] = took[t] \cup {i}
        BY <3>3 DEF Counts
      <4> QED BY <1>0, <4>1, FS_AddElement
    <3> QED BY <2>2, <3>1, <3>2, <3>3
  <2>5. ASSUME NEW u \in Threads
        PROVE  IsFiniteSet(took'[u]) /\ (took'[u] # {} => Busy(u, "delete")')
    <3>1. CASE u = t
      BY <2>3, <2>4, <3>1 DEF Busy
    <3>2. CASE u # t
      BY <1>0, <2>2, <2>3, <3>2 DEF Busy
    <3> QED BY <3>1, <3>2
  <2> QED BY <2>4, <2>5 DEF TookInv
<1>2. ASSUME UNCHANGED <<took, told, job>> PROVE TookInv'
  BY <1>0, <1>2 DEF TookInv, Busy
<1>3. ASSUME StartWalk \/ NextPage \/ EndWalk PROVE TookInv'
  BY <1>2, <1>3, ReaderIs
<1>4. CASE UNCHANGED vars
  BY <1>2, <1>4 DEF vars, hist
<1> QED BY <1>1, <1>3, <1>4 DEF Next

\* The ids that are drawn after a writer's step.
LEMMA DrawnIdsStep ==
  ASSUME TypeInv, IdInv, NEW t \in Threads, NEW j \in Jobs,
         JobOK(j), IsWrite(t, j), job' = [job EXCEPT ![t] = j]
  PROVE  /\ Draws(t, j) => /\ counter' = counter + 1
                           /\ DrawnIds' = DrawnIds \cup {counter + 1}
         /\ Creates(t, j) => /\ counter' = counter
                             /\ job[t].id \in DrawnIds
                             /\ DrawnIds' = DrawnIds \ {job[t].id}
         /\ ~Draws(t, j) /\ ~Creates(t, j) =>
              counter' = counter /\ DrawnIds' = DrawnIds
<1>1. /\ counter' = counter \/ (Draws(t, j) /\ counter' = counter + 1)
      /\ Drawn(t)' => Draws(t, j) /\ job'[t].id = counter + 1
      /\ \A u \in Threads \ {t} : job'[u] = job[u] /\ (Drawn(u)' <=> Drawn(u))
  BY DrawnStep
<1>2. job'[t] = j /\ counter \in Nat
  BY DEF TypeInv
<1>3. \A u, v \in Threads :
        Drawn(u) /\ Drawn(v) /\ job[u].id = job[v].id => u = v
  BY DEF IdInv
<1>4. \A i : i \in DrawnIds <=> \E u \in Threads : Drawn(u) /\ job[u].id = i
  BY DEF DrawnIds
<1>5. \A i : i \in DrawnIds' <=> \E u \in Threads : Drawn(u)' /\ job'[u].id = i
  BY DEF DrawnIds
<1>6. ASSUME Draws(t, j)
      PROVE  /\ counter' = counter + 1
             /\ DrawnIds' = DrawnIds \cup {counter + 1}
  <2>1. /\ counter' = counter + 1 /\ ~Drawn(t)
        /\ j.kind = "create" /\ j.id = counter + 1
    BY <1>6 DEF Draws
  <2>2. Drawn(t)' /\ job'[t].id = counter + 1
    <3>1. counter + 1 # 0
      BY <1>2
    <3> QED BY <1>2, <2>1, <3>1 DEF Drawn, Busy
  <2>3. \A i \in DrawnIds' : i \in DrawnIds \cup {counter + 1}
    BY <1>1, <1>4, <1>5
  <2>4. \A i \in DrawnIds : i \in DrawnIds'
    BY <1>1, <1>4, <1>5, <2>1
  <2>5. counter + 1 \in DrawnIds'
    BY <1>5, <2>2
  <2> QED BY <2>1, <2>3, <2>4, <2>5
<1>7. ASSUME Creates(t, j)
      PROVE  /\ counter' = counter
             /\ job[t].id \in DrawnIds
             /\ DrawnIds' = DrawnIds \ {job[t].id}
  <2>1. counter' = counter /\ Drawn(t) /\ j.id = 0
    BY <1>7 DEF Creates
  <2>2. ~Drawn(t)'
    BY <1>2, <2>1 DEF Drawn
  <2>3. job[t].id \in DrawnIds
    BY <1>4, <2>1
  <2>4. \A i \in DrawnIds' : i \in DrawnIds /\ i # job[t].id
    BY <1>1, <1>3, <1>4, <1>5, <2>1, <2>2
  <2>5. \A i \in DrawnIds : i # job[t].id => i \in DrawnIds'
    BY <1>1, <1>4, <1>5
  <2> QED BY <2>1, <2>3, <2>4, <2>5
<1>8. ASSUME ~Draws(t, j), ~Creates(t, j)
      PROVE  counter' = counter /\ DrawnIds' = DrawnIds
  <2>1. counter' = counter /\ ~Drawn(t)'
    BY <1>1, <1>8
  <2>2. ~Drawn(t)
    BY <1>8 DEF IsWrite, Passes, Updates, Misses, Deletes, Returns, Drawn, Busy
  <2>3. \A i \in DrawnIds' : i \in DrawnIds
    BY <1>1, <1>4, <1>5, <2>1
  <2>4. \A i \in DrawnIds : i \in DrawnIds'
    BY <1>1, <1>4, <1>5, <2>2
  <2> QED BY <2>1, <2>3, <2>4
<1> QED BY <1>6, <1>7, <1>8

\* The accounts of the other calls, and what a call's own account becomes.
LEMMA AccountsStep ==
  ASSUME TypeInv, IdInv, TookInv, CountInv, NEW t \in Threads, NEW j \in Jobs,
         JobOK(j), IsWrite(t, j), job' = [job EXCEPT ![t] = j], Credited(t)
  PROVE  /\ reported' = Cardinality(told')
         /\ \A u \in Threads :
              Busy(u, "delete")' => job'[u].done = Cardinality(took'[u])
         /\ \A u, v \in Threads :
              /\ told' \cap took'[u] = {}
              /\ u # v => took'[u] \cap took'[v] = {}
         /\ DeletedIds' = DeletedIds \cup Lost
<1>1. /\ reported = Cardinality(told)
      /\ \A u \in Threads : Busy(u, "delete") => job[u].done = Cardinality(took[u])
      /\ DeletedIds \cap LiveIds = {}
      /\ \A u \in Threads : told \cap took[u] = {}
      /\ \A u, v \in Threads : u # v => took[u] \cap took[v] = {}
  BY DEF CountInv
<1>2. /\ IsFiniteSet(told) /\ \A u \in Threads : IsFiniteSet(took[u])
      /\ \A u \in Threads : took[u] # {} => Busy(u, "delete")
  BY DEF TookInv
<1>3. /\ \A u \in Threads \ {t} : took'[u] = took[u]
      /\ Unchanged(t, j) \/ Told(t, j) \/ Counts(t, j)
  BY CreditStep
<1>4. job'[t] = j /\ \A u \in Threads \ {t} : job'[u] = job[u]
  BY DEF TypeInv
<1>5. /\ \A i : i \in DeletedIds <=> i \in told \/ \E u \in Threads : i \in took[u]
      /\ \A i : i \in DeletedIds' <=> i \in told' \/ \E u \in Threads : i \in took'[u]
  BY DEF DeletedIds
<1>6. \A u \in Threads \ {t} :
        Busy(u, "delete")' => job'[u].done = Cardinality(took'[u])
  BY <1>1, <1>3, <1>4 DEF Busy
<1>7. CASE Unchanged(t, j)
  <2>1. /\ reported' = reported /\ told' = told /\ took[t] = {} /\ took'[t] = {}
        /\ Lost = {} /\ (j.kind = "delete" => j.done = 0)
    BY <1>7 DEF Unchanged
  <2>2. \A u \in Threads : took'[u] = took[u]
    BY <1>3, <2>1
  <2>3. Busy(t, "delete")' => job'[t].done = Cardinality(took'[t])
    BY <1>4, <2>1, FS_EmptySet DEF Busy
  <2>4. \A i : i \in DeletedIds' <=> i \in DeletedIds
    BY <1>5, <2>1, <2>2
  <2>5. DeletedIds' = DeletedIds \cup Lost
    BY <2>1, <2>4
  <2> QED BY <1>1, <1>6, <2>1, <2>2, <2>3, <2>5
<1>8. CASE Told(t, j)
  <2>1. /\ told' = told \cup took[t] /\ took'[t] = {} /\ Lost = {}
        /\ reported' = IF Busy(t, "delete") THEN reported + job[t].done
                       ELSE reported
        /\ j.kind = "none"
    BY <1>8, IdleIs DEF Told
  <2>2. reported' = Cardinality(told')
    <3>1. CASE Busy(t, "delete")
      <4>1. told \cap took[t] = {} /\ Cardinality(told \cap took[t]) = 0
        BY <1>1, FS_EmptySet
      <4>2. /\ Cardinality(told \cup took[t])
                 = Cardinality(told) + Cardinality(took[t])
                     - Cardinality(told \cap took[t])
            /\ Cardinality(told) \in Nat /\ Cardinality(took[t]) \in Nat
        BY <1>2, FS_Union, FS_CardinalityType
      <4> QED BY <1>1, <2>1, <3>1, <4>1, <4>2
    <3>2. CASE ~Busy(t, "delete")
      <4>1. told' = told
        BY <1>2, <2>1, <3>2
      <4> QED BY <1>1, <2>1, <3>2, <4>1
    <3> QED BY <3>1, <3>2
  <2>3. ~Busy(t, "delete")'
    BY <1>4, <2>1 DEF Busy
  <2>4. \A i : i \in DeletedIds' <=> i \in DeletedIds
    <3>1. \A i \in DeletedIds' : i \in DeletedIds
      BY <1>3, <1>5, <2>1
    <3>2. \A i \in DeletedIds : i \in DeletedIds'
      BY <1>3, <1>5, <2>1
    <3> QED BY <3>1, <3>2
  <2>5. DeletedIds' = DeletedIds \cup Lost
    BY <2>1, <2>4
  <2>6. \A u \in Threads : told' \cap took'[u] = {}
    <3>1. \A u \in Threads \ {t} : took[u] \cap took[t] = {}
      BY <1>1
    <3> QED BY <1>1, <1>3, <2>1, <3>1
  <2>7. \A u, v \in Threads : u # v => took'[u] \cap took'[v] = {}
    BY <1>1, <1>3, <2>1
  <2> QED BY <1>6, <2>2, <2>3, <2>5, <2>6, <2>7
<1>9. CASE Counts(t, j)
  <2>1. /\ Busy(t, "delete") /\ reported' = reported /\ told' = told
        /\ \/ j.done = job[t].done /\ took'[t] = took[t] /\ Lost = {}
           \/ /\ j.done = job[t].done + 1
              /\ \E i \in LiveIds : Lost = {i} /\ took'[t] = took[t] \cup {i}
    BY <1>9 DEF Counts
  <2>2. took'[t] = took[t] \cup Lost
    BY <2>1
  <2>3. \A i \in Lost : i \notin DeletedIds
    BY <1>1 DEF Lost
  <2>4. j.done = Cardinality(took'[t])
    <3>1. CASE j.done = job[t].done /\ took'[t] = took[t]
      BY <1>1, <2>1, <3>1
    <3>2. CASE \E i \in LiveIds : /\ j.done = job[t].done + 1
                                  /\ Lost = {i} /\ took'[t] = took[t] \cup {i}
      <4>1. PICK i \in LiveIds : /\ j.done = job[t].done + 1
                                 /\ Lost = {i} /\ took'[t] = took[t] \cup {i}
        BY <3>2
      <4>2. i \notin took[t]
        BY <1>5, <2>3, <4>1
      <4>3. Cardinality(took[t] \cup {i}) = Cardinality(took[t]) + 1
        BY <1>2, <4>2, FS_AddElement
      <4> QED BY <1>1, <2>1, <4>1, <4>3
    <3> QED BY <2>1, <3>1, <3>2
  <2>5. \A i : i \in DeletedIds' <=> i \in DeletedIds \cup Lost
    <3>1. \A i \in DeletedIds' : i \in DeletedIds \cup Lost
      BY <1>3, <1>5, <2>1, <2>2
    <3>2. \A i \in DeletedIds \cup Lost : i \in DeletedIds'
      BY <1>3, <1>5, <2>1, <2>2
    <3> QED BY <3>1, <3>2
  <2>6. \A u \in Threads : told' \cap took'[u] = {}
    <3>1. told \cap Lost = {}
      BY <1>5, <2>3
    <3>2. told' \cap took'[t] = {}
      BY <1>1, <2>1, <2>2, <3>1
    <3> QED BY <1>1, <1>3, <2>1, <3>2
  <2>7. \A u \in Threads \ {t} : took'[u] \cap took'[t] = {}
    <3> SUFFICES ASSUME NEW u \in Threads \ {t} PROVE took'[u] \cap took'[t] = {}
      OBVIOUS
    <3>1. took[u] \cap Lost = {}
      BY <1>5, <2>3
    <3>2. took[u] \cap took[t] = {}
      BY <1>1
    <3> QED BY <1>3, <2>2, <3>1, <3>2
  <2>8. \A u, v \in Threads : u # v => took'[u] \cap took'[v] = {}
    <3> SUFFICES ASSUME NEW u \in Threads, NEW v \in Threads, u # v
                 PROVE  took'[u] \cap took'[v] = {}
      OBVIOUS
    <3>1. CASE u = t
      BY <2>7, <3>1
    <3>2. CASE v = t
      BY <2>7, <3>2
    <3>3. CASE u # t /\ v # t
      BY <1>1, <1>3, <3>3
    <3> QED BY <3>1, <3>2, <3>3
  <2>9. \A u \in Threads :
          Busy(u, "delete")' => job'[u].done = Cardinality(took'[u])
    BY <1>4, <1>6, <2>4
  <2> QED BY <1>1, <2>1, <2>5, <2>6, <2>8, <2>9
<1> QED BY <1>3, <1>7, <1>8, <1>9

LEMMA CountStep ==
  TypeInv /\ IdInv /\ TookInv /\ DeletesCounted /\ [Next]_vars => DeletesCounted'
<1> SUFFICES ASSUME TypeInv, IdInv, TookInv, CountInv, [Next]_vars PROVE CountInv'
  BY CountInvIs DEF CountInv, DeletesCounted, DrawnIds, DeletedIds
<1>0. /\ 1 .. counter = LiveIds \cup DrawnIds \cup DeletedIds
      /\ LiveIds \cap DrawnIds = {}
      /\ DeletedIds \cap (LiveIds \cup DrawnIds) = {}
      /\ counter \in Nat
  BY DEF CountInv, TypeInv
<1>1. IdInv'
  BY IdStep
<1>2. \A u, v \in Threads :
        u # v => (Drawn(u)' /\ Drawn(v)' => job'[u].id # job'[v].id)
  BY <1>1 DEF IdInv
<1>3. ASSUME NEW t \in Threads, Writes(t), Credited(t) PROVE CountInv'
  <2>1. PICK j \in Jobs : job' = [job EXCEPT ![t] = j] /\ JobOK(j) /\ IsWrite(t, j)
    BY <1>3, WriteIs
  <2>2. /\ reported' = Cardinality(told')
        /\ \A u \in Threads :
             Busy(u, "delete")' => job'[u].done = Cardinality(took'[u])
        /\ \A u, v \in Threads :
             /\ told' \cap took'[u] = {}
             /\ u # v => took'[u] \cap took'[v] = {}
        /\ DeletedIds' = DeletedIds \cup Lost
    BY <1>3, <2>1, AccountsStep
  <2>3. /\ ~Creates(t, j) /\ ~Deletes(t, j) => LiveIds' = LiveIds
        /\ Creates(t, j) => LiveIds' = LiveIds \cup {job[t].id}
        /\ Deletes(t, j) => \E i \in LiveIds : LiveIds' = LiveIds \ {i}
    BY <2>1, FileStep
  <2>4. /\ Draws(t, j) => /\ counter' = counter + 1
                          /\ DrawnIds' = DrawnIds \cup {counter + 1}
        /\ Creates(t, j) => /\ counter' = counter
                            /\ job[t].id \in DrawnIds
                            /\ DrawnIds' = DrawnIds \ {job[t].id}
        /\ ~Draws(t, j) /\ ~Creates(t, j) =>
             counter' = counter /\ DrawnIds' = DrawnIds
    BY <2>1, DrawnIdsStep
  <2>5. /\ 1 .. counter' = LiveIds' \cup DrawnIds' \cup DeletedIds'
        /\ LiveIds' \cap DrawnIds' = {}
        /\ DeletedIds' \cap (LiveIds' \cup DrawnIds') = {}
    <3>1. CASE Draws(t, j)
      <4>1. ~Creates(t, j) /\ ~Deletes(t, j)
        BY <3>1 DEF Draws, Creates, Deletes, Quiet
      <4>2. LiveIds' = LiveIds /\ Lost = {}
        BY <2>3, <4>1 DEF Lost
      <4>3. /\ DeletedIds' = DeletedIds /\ counter' = counter + 1
            /\ DrawnIds' = DrawnIds \cup {counter + 1}
        BY <2>2, <2>4, <3>1, <4>2
      <4>4. 1 .. counter + 1 = (1 .. counter) \cup {counter + 1}
        BY <1>0
      <4>5. counter + 1 \notin 1 .. counter
        BY <1>0
      <4> QED BY <1>0, <4>2, <4>3, <4>4, <4>5
    <3>2. CASE Creates(t, j)
      <4>1. LiveIds' = LiveIds \cup {job[t].id} /\ Lost = {}
        BY <2>3, <3>2 DEF Lost
      <4> QED BY <1>0, <2>2, <2>4, <3>2, <4>1
    <3>3. CASE Deletes(t, j)
      <4>1. ~Creates(t, j) /\ ~Draws(t, j)
        BY <3>3 DEF Draws, Creates, Deletes, Quiet
      <4>2. PICK i \in LiveIds : LiveIds' = LiveIds \ {i}
        BY <2>3, <3>3
      <4>3. Lost = {i}
        BY <4>2 DEF Lost
      <4>4. /\ DeletedIds' = DeletedIds \cup {i}
            /\ counter' = counter /\ DrawnIds' = DrawnIds
        BY <2>2, <2>4, <4>1, <4>3
      <4> QED BY <1>0, <4>2, <4>4
    <3>4. CASE ~Draws(t, j) /\ ~Creates(t, j) /\ ~Deletes(t, j)
      <4>1. LiveIds' = LiveIds /\ Lost = {}
        BY <2>3, <3>4 DEF Lost
      <4>2. /\ DeletedIds' = DeletedIds
            /\ counter' = counter /\ DrawnIds' = DrawnIds
        BY <2>2, <2>4, <3>4, <4>1
      <4> QED BY <1>0, <4>1, <4>2
    <3> QED BY <3>1, <3>2, <3>3, <3>4
  <2> QED BY <1>2, <2>2, <2>5 DEF CountInv
<1>4. ASSUME UNCHANGED <<table, counter, job, reported>>, UNCHANGED <<took, told>>
      PROVE  CountInv'
  <2>1. LiveIds' = LiveIds
    BY <1>4, IdsAre
  <2>2. DrawnIds' = DrawnIds /\ DeletedIds' = DeletedIds
    BY <1>4 DEF DrawnIds, DeletedIds, Drawn, Busy
  <2>3. \A u, v \in Threads :
          /\ told \cap took[u] = {}
          /\ u # v => took[u] \cap took[v] = {}
    BY DEF CountInv
  <2>4. /\ reported' = Cardinality(told')
        /\ \A u \in Threads :
             Busy(u, "delete")' => job'[u].done = Cardinality(took'[u])
    BY <1>4 DEF CountInv, Busy
  <2> QED BY <1>0, <1>2, <1>4, <2>1, <2>2, <2>3, <2>4 DEF CountInv
<1>5. ASSUME StartWalk \/ NextPage \/ EndWalk PROVE CountInv'
  BY <1>4, <1>5, ReaderIs
<1>6. CASE UNCHANGED vars
  BY <1>4, <1>6 DEF vars, hist
<1> QED BY <1>3, <1>5, <1>6 DEF Next

\* A delete call counts the records it has deleted, each of them is counted by
\* one call only, and no id that was drawn is lost (collection.py:681 "Number
\* of records actually deleted").
THEOREM RecordsDeletesCounted == Spec => []DeletesCounted
<1>1. Init => DeletesCounted
  <2> SUFFICES ASSUME Init PROVE CountInv
    BY CountInvIs
  <2>1. /\ TypeInv /\ table = <<>> /\ counter = 0 /\ reported = 0
        /\ job = [t \in Threads |-> Idle]
        /\ took = [t \in Threads |-> {}] /\ told = {}
    BY InitTyped DEF Init
  <2>2. LiveIds = {}
    <3>1. ToSet(Live) = {x \in ToSet(table) : IsLive(x)}
      BY <2>1, IdsAre, LiveOfIs DEF TypeInv
    <3> QED BY <2>1, <3>1 DEF LiveIds, ToSet
  <2>3. \A t \in Threads : ~Drawn(t) /\ ~Busy(t, "delete")
    BY <2>1, IdleIs DEF Drawn, Busy
  <2>4. DrawnIds = {} /\ DeletedIds = {}
    BY <2>1, <2>3 DEF DrawnIds, DeletedIds
  <2>5. 1 .. counter = {}
    BY <2>1
  <2> QED BY <2>1, <2>2, <2>3, <2>4, <2>5, FS_EmptySet DEF CountInv
<1>2. Init => TookInv
  BY InitTyped
<1>3. Spec => [](TypeInv /\ IdInv)
  BY RecordsTyped
<1> QED BY <1>1, <1>2, <1>3, TookStep, CountStep, PTL DEF Spec

-----------------------------------------------------------------------------
(* What queries can compare *)

\* The value of a field that has one type by the schema, in a stored record.
LEMMA TypedValue ==
  ASSUME "id" \notin Fields, TypeInv, StoredValid,
         NEW f \in Fields, Typed(f), NEW k \in DOMAIN Rows
  PROVE  Get(Rows[k], f) = None \/ TypeOf(f) = {Get(Rows[k], f).type}
<1> DEFINE x == Live[k]
           v == x.rec[f]
<1>1. table \in Seq(Line)
  BY DEF TypeInv
<1>2. k \in DOMAIN Live /\ Rows[k] = Row(x)
  BY DEF Rows
<1>3. x \in ToSet(Live)
  BY <1>1, <1>2, LiveIs
<1>4. Valid(SchemaOf, x.rec)
  BY <1>3 DEF StoredValid
<1>5. f \in DOMAIN SchemaOf /\ Cardinality(TypeOf(f)) = 1 /\ IsFiniteSet(TypeOf(f))
  BY RecordsAssumption DEF Typed, TypeOf
<1>6. PICK T : TypeOf(f) = {T}
  BY <1>5, FS_Singleton
<1>7. Row(x)[f] = v
  BY DEF Row
<1>8. v # Absent => ErrorsOf(SchemaOf[f], v) = {}
  BY <1>4, <1>5, ValidIs
<1> HIDE DEF x, v
<1>9. v # Absent => v = None \/ v.type = T
  BY <1>6, <1>8 DEF ErrorsOf, TypeOf
<1> QED BY <1>2, <1>6, <1>7, <1>9 DEF Get

LEMMA TypedTest ==
  ASSUME "id" \notin Fields, TypeInv, StoredValid,
         NEW p \in Predicates, p.field \in Fields, Suits(p), NEW k \in DOMAIN Rows
  PROVE  Test(p, Rows[k]) # "raises"
<1> DEFINE r == Rows[k]
           f == p.field
           v == Get(r, f)
           w == p.target
<1>1. /\ Typed(f) /\ p.op \in Orders \cup Texts
      /\ w # None /\ w.type \in TypeOf(f)
  BY DEF Suits
<1>2. v = None \/ TypeOf(f) = {v.type}
  BY <1>1, TypedValue
<1> HIDE DEF r, v, w
<1>3. v # None => Is(w, v.type)
  BY <1>1, <1>2 DEF Is
<1>4. CASE p.op \in Orders
  <2>0. /\ p.op \notin Texts
        /\ p.op # "eq" /\ p.op # "ne" /\ p.op # "in" /\ p.op # "nin"
        /\ p.op # "exists"
    BY <1>4 DEF Orders, Texts
  <2>1. Test(p, r) = Compared(p.op, v, w)
    BY <1>4, <2>0 DEF Test, v, w
  <2>2. Compared(p.op, v, w) # "raises"
    BY <1>3 DEF Compared, Answer
  <2> QED BY <2>1, <2>2 DEF r
<1>5. CASE p.op \in Texts
  <2>1. Test(p, r) = IF ~Is(v, "str") THEN "no"
                     ELSE IF ~Is(w, "str") THEN "raises"
                     ELSE Answer(InText(p.op, w.chars, v.chars))
    BY <1>5 DEF Test, Orders, Texts, v, w
  <2>2. Is(v, "str") => Is(w, "str")
    BY <1>3 DEF Is
  <2> QED BY <2>1, <2>2 DEF Answer, r
<1> QED BY <1>1, <1>4, <1>5

LEMMA VerdictOfOne ==
  ASSUME NEW p, NEW r
  PROVE  Verdict(<<p>>, r) = "yes" \/ Verdict(<<p>>, r) = Test(p, r)
<1> DEFINE ps == <<p>>
           stops == {k \in DOMAIN ps : Test(ps[k], r) # "yes"}
<1>1. DOMAIN ps = {1} /\ ps[1] = p
  OBVIOUS
<1>2. stops # {} => stops = {1}
  BY <1>1
<1>3. Min({1}) = 1
  BY DEF Min
<1>4. Verdict(ps, r) = IF stops = {} THEN "yes" ELSE Test(ps[Min(stops)], r)
  BY DEF Verdict
<1> HIDE DEF stops, ps
<1>5. stops = {} \/ stops = {1}
  BY <1>2
<1> QED BY <1>1, <1>3, <1>4, <1>5 DEF ps

LEMMA TypedFromValid ==
  ASSUME "id" \notin Fields, TypeInv, StoredValid
  PROVE  TypedAnswers
<1>1. ASSUME NEW p \in Predicates, Suits(p)
      PROVE  ~Raises(Filter(QueryOf(Rows), <<p>>))
  <2>1. p.field \in Fields
    BY <1>1, SchemaFields DEF Suits, Typed
  <2> DEFINE q == Filter(QueryOf(Rows), <<p>>)
  <2>2. q.records = Rows /\ q.preds = <<p>>
    BY DEF Filter, QueryOf
  <2> HIDE DEF q
  <2>3. \A k \in DOMAIN Rows : Verdict(<<p>>, Rows[k]) # "raises"
    BY <1>1, <2>1, TypedTest, VerdictOfOne
  <2>4. ~Raises(q)
    BY <2>2, <2>3 DEF Raises
  <2> QED BY <2>4 DEF q
<1>2. ASSUME NEW f \in Fields, Typed(f) PROVE ~Mixed(f, Rows)
  <2>1. \A k \in DOMAIN Rows :
          Get(Rows[k], f) = None \/ TypeOf(f) = {Get(Rows[k], f).type}
    BY <1>2, TypedValue
  <2> QED BY <2>1 DEF Mixed
<1> QED BY <1>1, <1>2 DEF TypedAnswers

\* A query that compares a field of one type with a value of that type never
\* raises TypeError, and a sort by it never falls back to str() (query.py:259).
\* A schema that describes "id" would describe a value that no query sees:
\* _public_view puts the record's id in its place.
THEOREM RecordsTypedAnswers ==
  ASSUME "id" \notin Fields
  PROVE  Spec => []TypedAnswers
<1>1. TypeInv /\ StoredValid => TypedAnswers
  BY TypedFromValid
<1>2. Spec => [](TypeInv /\ IdInv)
  BY RecordsTyped
<1>3. Spec => []StoredValid
  BY RecordsStoredValid
<1> QED BY <1>1, <1>2, <1>3, PTL

-----------------------------------------------------------------------------
(* The reader *)

SameOrder ==
  /\ DOMAIN Live' = DOMAIN Live
  /\ \A k \in DOMAIN Live : Live'[k].id = Live[k].id

AddedLast(i) ==
  /\ DOMAIN Live' = 1 .. Len(Live) + 1
  /\ \A k \in DOMAIN Live : Live'[k].id = Live[k].id
  /\ Live'[Len(Live) + 1].id = i

MovedUp(m) ==
  /\ DOMAIN Live' = 1 .. Len(Live) - 1
  /\ \A k \in DOMAIN Live' : Live'[k].id = Live[IF k < m THEN k ELSE k + 1].id
  /\ LiveIds' = LiveIds \ {Live[m].id}

LEMMA OrderStep ==
  ASSUME TypeInv, IdInv, NEW t \in Threads, NEW j \in Jobs, IsWrite(t, j)
  PROVE  \/ SameOrder /\ LiveIds' = LiveIds
         \/ /\ Drawn(t) /\ AddedLast(job[t].id)
            /\ job[t].id \notin LiveIds /\ LiveIds' = LiveIds \cup {job[t].id}
         \/ \E m \in DOMAIN Live : MovedUp(m)
<1>0. table \in Seq(Line) /\ Unique(table)
  BY DEF TypeInv, IdInv
<1>1. Live \in Seq(Line) /\ Len(Live) \in Nat /\ DOMAIN Live = 1 .. Len(Live)
  BY <1>0, LiveIs
<1>2. /\ table' \in Seq(Line)
      /\ Live' \in Seq(Line) /\ Len(Live') \in Nat /\ DOMAIN Live' = 1 .. Len(Live')
    BY FileStep, IdsAre, LiveOfIs
<1>3. Live' = Live => SameOrder /\ LiveIds' = LiveIds
  BY DEF SameOrder, LiveIds
<1>4. table' = table => Live' = Live
  BY IdsAre
<1>5. CASE Draws(t, j) \/ Misses(t, j) \/ Returns(t, j)
  BY <1>3, <1>4, <1>5 DEF Draws, Misses, Returns
<1>6. CASE Passes(t, j)
  <2>1. Live' = Live
    BY <1>0, <1>4, <1>6, CompactEffect DEF Passes
  <2> QED BY <1>3, <2>1
<1>7. CASE Creates(t, j)
  <2> DEFINE x == [id |-> job[t].id, rec |-> Head(job[t].todo)]
  <2>1. Drawn(t) /\ Adds(x) /\ x.id = job[t].id
    BY <1>7 DEF Creates
  <2> HIDE DEF x
  <2>2. /\ Live' = Append(Live, x) /\ x \in Line
        /\ LiveIds' = LiveIds \cup {x.id} /\ x.id \notin LiveIds
    BY <1>0, <2>1, AddsEffect DEF Adds
  <2>3. /\ DOMAIN Live' = 1 .. Len(Live) + 1
        /\ \A k \in 1 .. Len(Live) : Live'[k] = Live[k]
        /\ Live'[Len(Live) + 1] = x
    BY <1>1, <2>2, AppendProperties, LenProperties
  <2>4. AddedLast(job[t].id)
    BY <1>1, <2>1, <2>3 DEF AddedLast
  <2> QED BY <2>1, <2>2, <2>4
<1>8. CASE Updates(t, j)
  <2>1. PICK h \in DOMAIN table :
          Replaces(h, [id |-> table[h].id,
                       rec |-> Patched(table[h].rec, job[t].patch)])
    BY <1>8 DEF Updates
  <2> DEFINE y == [id |-> table[h].id,
                   rec |-> Patched(table[h].rec, job[t].patch)]
  <2>2. IsLive(y)
    <3>1. table[h].rec \in Record /\ job[t].patch \in Record
      BY <1>0, <1>8, <2>1, StoredIs DEF Replaces, Updates
    <3>2. y.rec \in Record
      BY <3>1, PatchedTyped
    <3> QED BY <3>2, RecordsAre DEF IsLive
  <2>3. /\ y \in Line /\ y.id = table[h].id /\ IsLive(table[h])
        /\ table' = [table EXCEPT ![h] = y]
    BY <2>1 DEF Replaces
  <2> HIDE DEF y
  <2>4. /\ Len(LiveOf([table EXCEPT ![h] = y])) = Len(LiveOf(table))
        /\ \A k \in DOMAIN LiveOf(table) :
             LiveOf([table EXCEPT ![h] = y])[k].id = LiveOf(table)[k].id
    BY <1>0, <2>2, <2>3, LiveOfUpdated, Zenon
  <2>5. SameOrder
    BY <1>1, <1>2, <2>3, <2>4, IdsAre, Zenon DEF SameOrder
  <2>6. LiveIds' = LiveIds
    BY <1>0, <2>1, <2>2, ReplacesEffect DEF y
  <2> QED BY <2>5, <2>6
<1>9. CASE Deletes(t, j)
  <2>1. PICK h \in DOMAIN table : Replaces(h, [id |-> table[h].id, rec |-> Gone])
    BY <1>9 DEF Deletes
  <2> DEFINE y == [id |-> table[h].id, rec |-> Gone]
  <2>2. ~IsLive(y)
    BY DEF IsLive
  <2>3. /\ y \in Line /\ y.id = table[h].id /\ IsLive(table[h])
        /\ table' = [table EXCEPT ![h] = y]
    BY <2>1 DEF Replaces
  <2>4. Replaces(h, y)
    BY <2>1
  <2> HIDE DEF y
  <2>5. /\ Len(LiveOf([table EXCEPT ![h] = y])) = Len(LiveOf(table)) - 1
        /\ \E m \in DOMAIN LiveOf(table) :
             /\ LiveOf(table)[m].id = table[h].id
             /\ \A k \in DOMAIN LiveOf([table EXCEPT ![h] = y]) :
                  LiveOf([table EXCEPT ![h] = y])[k].id
                    = LiveOf(table)[IF k < m THEN k ELSE k + 1].id
    BY <1>0, <2>2, <2>3, LiveOfDeleted
  <2>6. /\ Len(Live') = Len(Live) - 1
        /\ \E m \in DOMAIN Live :
             /\ Live[m].id = table[h].id
             /\ \A k \in DOMAIN Live' :
                  Live'[k].id = Live[IF k < m THEN k ELSE k + 1].id
    BY <2>3, <2>5, IdsAre
  <2>7. LiveIds' = LiveIds \ {y.id}
    BY <1>0, <2>2, <2>4, ReplacesEffect
  <2>8. PICK m \in DOMAIN Live :
          /\ Live[m].id = table[h].id
          /\ \A k \in DOMAIN Live' :
               Live'[k].id = Live[IF k < m THEN k ELSE k + 1].id
    BY <2>6
  <2>9. MovedUp(m)
    BY <1>2, <2>3, <2>6, <2>7, <2>8 DEF MovedUp
  <2> QED BY <2>9
<1> QED BY <1>5, <1>6, <1>7, <1>8, <1>9 DEF IsWrite

LEMMA BehindIs ==
  ASSUME TypeInv, IdInv
  PROVE  /\ \A i : i \in Behind <=>
              /\ i \in walk.steady
              /\ \E k \in DOMAIN Live : k <= walk.next /\ Live[k].id = i
         /\ \A i : i \in Behind' <=>
              /\ i \in walk'.steady
              /\ \E k \in DOMAIN Live' : k <= walk'.next /\ Live'[k].id = i
         /\ \A S : /\ IsFiniteSet(Behind \ S)
                   /\ Cardinality(Behind \ S) \in Nat
<1>1. \A i : i \in Behind <=>
        /\ i \in walk.steady
        /\ \E k \in DOMAIN Live : k <= walk.next /\ Live[k].id = i
  BY DEF Behind
<1>2. \A i : i \in Behind' <=>
        /\ i \in walk'.steady
        /\ \E k \in DOMAIN Live' : k <= walk'.next /\ Live'[k].id = i
  BY DEF Behind
<1>3. table \in Seq(Line)
  BY DEF TypeInv
<1>4. \A S : Behind \ S \subseteq LiveIds
  BY <1>1, <1>3, LiveIs
<1> QED BY <1>1, <1>2, <1>4, LiveIdsAre, FS_Subset, FS_CardinalityType

\* No new id is one that the reader has seen.
LEMMA SeenStep ==
  ASSUME TypeInv, NEW t \in Threads, NEW j \in Jobs, JobOK(j), IsWrite(t, j),
         job' = [job EXCEPT ![t] = j],
         NEW S \in SUBSET (1 .. counter),
         \A u \in Threads : Drawn(u) => job[u].id \notin S
  PROVE  /\ S \in SUBSET (1 .. counter')
         /\ \A u \in Threads : Drawn(u)' => job'[u].id \notin S
<1>1. /\ counter' = counter \/ counter' = counter + 1
      /\ Drawn(t)' => job'[t].id = counter + 1
      /\ \A u \in Threads \ {t} : job'[u] = job[u] /\ (Drawn(u)' <=> Drawn(u))
  BY DrawnStep
<1>2. counter \in Nat
  BY DEF TypeInv
<1>3. counter + 1 \notin S
  BY <1>2
<1> QED BY <1>1, <1>2, <1>3

\* What a writer does while the reader is between two pages.
LEMMA WatchedIs ==
  ASSUME TypeInv, Watched
  PROVE  /\ ~walk.on \/ walk.over => walk' = walk
         /\ walk'.on = walk.on /\ walk'.over = walk.over
         /\ walk'.next = walk.next /\ walk'.seen = walk.seen
         /\ walk.on /\ ~walk.over =>
              /\ walk'.steady = walk.steady \cap LiveIds'
              /\ walk'.deletes = walk.deletes + Cardinality(Lost)
<1>1. walk \in [on : BOOLEAN, next : Nat, seen : Seq(Nat), over : BOOLEAN,
                steady : SUBSET Nat, deletes : Nat]
  BY DEF TypeInv
<1> DEFINE a == walk.steady \cap LiveIds'
           b == walk.deletes + Cardinality(Lost)
<1>2. walk' = IF ~walk.on \/ walk.over THEN walk
              ELSE [walk EXCEPT !.steady = a, !.deletes = b]
  BY DEF Watched, Lost
<1> HIDE DEF a, b
<1>3. /\ ~walk.on \/ walk.over => walk' = walk
      /\ walk'.on = walk.on /\ walk'.over = walk.over
      /\ walk'.next = walk.next /\ walk'.seen = walk.seen
      /\ walk.on /\ ~walk.over => walk'.steady = a /\ walk'.deletes = b
  BY <1>1, <1>2
<1> QED BY <1>3 DEF a, b

\* The part of WalkInv that speaks of the order of the records.
Followed ==
  /\ walk.steady \subseteq LiveIds
  /\ \A k \in DOMAIN Live :
       Live[k].id \in ToSet(walk.seen) => k <= walk.next
  /\ Cardinality(Behind \ ToSet(walk.seen)) <= walk.deletes

\* A step that leaves the records where they are, or adds one at the end.
LEMMA StayStep ==
  ASSUME TypeInv, IdInv, Followed, LiveIds \subseteq LiveIds',
         walk'.steady = walk.steady \cap LiveIds',
         walk'.deletes = walk.deletes + Cardinality(Lost),
         walk'.next = walk.next, walk'.seen = walk.seen,
         \A k \in DOMAIN Live' :
           \/ k \in DOMAIN Live /\ Live'[k].id = Live[k].id
           \/ /\ Live'[k].id \notin LiveIds
              /\ Live'[k].id \notin ToSet(walk.seen)
  PROVE  Followed'
<1> DEFINE S == ToSet(walk.seen)
<1>1. ToSet(walk'.seen) = S
  OBVIOUS
<1>2. walk.steady \subseteq LiveIds /\ walk'.steady \subseteq walk.steady
  BY DEF Followed
<1>3. walk'.steady \subseteq LiveIds'
  OBVIOUS
<1>4. \A k \in DOMAIN Live : Live[k].id \in S => k <= walk.next
  BY DEF Followed
<1>5. Cardinality(Behind \ S) <= walk.deletes
  BY DEF Followed
<1> HIDE DEF S
<1>6. \A k \in DOMAIN Live' : Live'[k].id \in S => k <= walk'.next
  BY <1>4 DEF S
<1>7. Behind' \subseteq Behind
  <2> SUFFICES ASSUME NEW i \in Behind' PROVE i \in Behind
    OBVIOUS
  <2>1. i \in walk'.steady /\ \E k \in DOMAIN Live' : k <= walk'.next /\ Live'[k].id = i
    BY BehindIs
  <2>2. PICK k \in DOMAIN Live' : k <= walk.next /\ Live'[k].id = i
    BY <2>1
  <2>3. i \in LiveIds
    BY <1>2, <2>1
  <2>4. k \in DOMAIN Live /\ Live[k].id = i
    BY <2>2, <2>3
  <2> QED BY <1>2, <2>1, <2>2, <2>4, BehindIs
<1>8. /\ IsFiniteSet(Behind \ S) /\ Cardinality(Behind \ S) \in Nat
  BY BehindIs
<1>9. Behind' \ S \in SUBSET (Behind \ S)
  BY <1>7
<1>10. Cardinality(Behind' \ S) <= Cardinality(Behind \ S)
  BY <1>8, <1>9, FS_Subset
<1>11. Cardinality(Behind' \ S) \in Nat
  BY <1>8, <1>9, FS_Subset, FS_CardinalityType
<1>12. walk.deletes \in Nat /\ Cardinality(Lost) \in Nat
  BY LiveIdsAre DEF TypeInv, Lost
<1>13. Cardinality(Behind' \ S) <= walk'.deletes
  BY <1>5, <1>8, <1>10, <1>11, <1>12
<1> QED BY <1>1, <1>3, <1>6, <1>13 DEF Followed, S

\* A delete moves those after it up by one, and so at most one of them behind
\* the reader.
LEMMA MoveStep ==
  ASSUME TypeInv, IdInv, Followed, NEW m \in DOMAIN Live, MovedUp(m),
         walk'.steady = walk.steady \cap LiveIds',
         walk'.deletes = walk.deletes + Cardinality(Lost),
         walk'.next = walk.next, walk'.seen = walk.seen
  PROVE  Followed'
<1> DEFINE S == ToSet(walk.seen)
           y == Live[walk.next + 1].id
<1>0. /\ Len(Live) \in Nat /\ DOMAIN Live = 1 .. Len(Live)
      /\ walk.next \in Nat /\ walk.deletes \in Nat
      /\ Live[m].id \in LiveIds
  BY LiveIs DEF TypeInv
<1>1. ToSet(walk'.seen) = S
  OBVIOUS
<1>2. /\ \A k \in DOMAIN Live : Live[k].id \in S => k <= walk.next
      /\ Cardinality(Behind \ S) <= walk.deletes
  BY DEF Followed
<1>3. walk'.steady \subseteq LiveIds' /\ walk'.steady \subseteq walk.steady
  OBVIOUS
<1>4. /\ DOMAIN Live' = 1 .. Len(Live) - 1
      /\ \A k \in DOMAIN Live' : Live'[k].id = Live[IF k < m THEN k ELSE k + 1].id
      /\ LiveIds' = LiveIds \ {Live[m].id}
  BY DEF MovedUp
<1> HIDE DEF S
<1>5. \A k \in DOMAIN Live' : \E h \in DOMAIN Live :
        Live'[k].id = Live[h].id /\ k <= h /\ h <= k + 1
  BY <1>0, <1>4
<1>6. \A k \in DOMAIN Live' : Live'[k].id \in S => k <= walk'.next
  <2> SUFFICES ASSUME NEW k \in DOMAIN Live', Live'[k].id \in S
               PROVE  k <= walk.next
    OBVIOUS
  <2>1. PICK h \in DOMAIN Live : Live'[k].id = Live[h].id /\ k <= h /\ h <= k + 1
    BY <1>5
  <2>2. h <= walk.next
    BY <1>2, <2>1
  <2> QED BY <1>0, <1>4, <2>1, <2>2
<1>7. Behind' \subseteq Behind \cup {y}
  <2> SUFFICES ASSUME NEW i \in Behind', i # y PROVE i \in Behind
    OBVIOUS
  <2>1. i \in walk'.steady /\ \E k \in DOMAIN Live' : k <= walk'.next /\ Live'[k].id = i
    BY BehindIs
  <2>2. PICK k \in DOMAIN Live' : k <= walk.next /\ Live'[k].id = i
    BY <2>1
  <2>3. PICK h \in DOMAIN Live : Live'[k].id = Live[h].id /\ k <= h /\ h <= k + 1
    BY <1>5
  <2>4. Live[h].id = i /\ h # walk.next + 1
    BY <2>2, <2>3
  <2>5. h <= walk.next
    BY <1>0, <1>4, <2>2, <2>3, <2>4
  <2> QED BY <1>3, <2>1, <2>4, <2>5, BehindIs
<1> HIDE DEF y
<1>8. IsFiniteSet(Behind \ S) /\ Cardinality(Behind \ S) \in Nat
  BY BehindIs
<1> DEFINE T == (Behind \ S) \cup {y}
<1>9. IsFiniteSet(T) /\ Cardinality(T) \in Nat /\ Cardinality(T) <= Cardinality(Behind \ S) + 1
  <2> DEFINE B == Behind \ S
  <2> HIDE DEF B
  <2>1. IsFiniteSet(B) /\ Cardinality(B) \in Nat
    BY <1>8 DEF B
  <2>2. /\ IsFiniteSet(B \cup {y})
        /\ Cardinality(B \cup {y}) = IF y \in B THEN Cardinality(B) ELSE Cardinality(B) + 1
    BY <2>1, FS_AddElement
  <2> QED BY <2>1, <2>2 DEF B
<1>10. Behind' \ S \in SUBSET T
  BY <1>7
<1> HIDE DEF T
<1>11. Cardinality(Behind' \ S) <= Cardinality(T) /\ Cardinality(Behind' \ S) \in Nat
  BY <1>9, <1>10, FS_Subset, FS_CardinalityType
<1>12. Lost = {Live[m].id}
  BY <1>0, <1>4 DEF Lost
<1>13. Cardinality(Lost) = 1
  BY <1>12, FS_Singleton
<1>14. Cardinality(Behind' \ S) <= walk'.deletes
  BY <1>0, <1>2, <1>8, <1>9, <1>11, <1>13
<1> QED BY <1>1, <1>3, <1>6, <1>14 DEF Followed, S

LEMMA WalkIs ==
  WalkInv <=>
    (walk.on =>
       /\ IsInjective(walk.seen)
       /\ ToSet(walk.seen) \subseteq 1 .. counter
       /\ \A t \in Threads : Drawn(t) => job[t].id \notin ToSet(walk.seen)
       /\ ~walk.over => Followed
       /\ walk.over =>
            /\ IsFiniteSet(walk.steady \ ToSet(walk.seen))
            /\ Cardinality(walk.steady \ ToSet(walk.seen)) <= walk.deletes)
BY DEF WalkInv, Followed

LEMMA FollowStep ==
  ASSUME TypeInv, IdInv, WalkInv, walk.on, ~walk.over, Watched,
         NEW t \in Threads, NEW j \in Jobs, IsWrite(t, j)
  PROVE  Followed'
<1>1. /\ Followed
      /\ \A u \in Threads : Drawn(u) => job[u].id \notin ToSet(walk.seen)
  BY WalkIs
<1>2. /\ walk'.steady = walk.steady \cap LiveIds'
      /\ walk'.deletes = walk.deletes + Cardinality(Lost)
      /\ walk'.next = walk.next /\ walk'.seen = walk.seen
  BY WatchedIs
<1>3. DOMAIN Live = 1 .. Len(Live) /\ Len(Live) \in Nat
  BY LiveIs DEF TypeInv
<1>4. CASE SameOrder /\ LiveIds' = LiveIds
  <2>1. \A k \in DOMAIN Live' : k \in DOMAIN Live /\ Live'[k].id = Live[k].id
    BY <1>4 DEF SameOrder
  <2> QED BY <1>1, <1>2, <1>4, <2>1, StayStep
<1>5. CASE /\ Drawn(t) /\ AddedLast(job[t].id)
           /\ job[t].id \notin LiveIds /\ LiveIds' = LiveIds \cup {job[t].id}
  <2> DEFINE i == job[t].id
  <2>1. i \notin LiveIds /\ i \notin ToSet(walk.seen)
    BY <1>1, <1>5
  <2>2. \A k \in DOMAIN Live' :
          \/ k \in DOMAIN Live /\ Live'[k].id = Live[k].id
          \/ Live'[k].id = i
    BY <1>3, <1>5 DEF AddedLast
  <2>3. LiveIds \subseteq LiveIds'
    BY <1>5
  <2> HIDE DEF i
  <2> QED BY <1>1, <1>2, <2>1, <2>2, <2>3, StayStep
<1>6. CASE \E m \in DOMAIN Live : MovedUp(m)
  BY <1>1, <1>2, <1>6, MoveStep
<1> QED BY <1>4, <1>5, <1>6, OrderStep

\* A writer's step.
LEMMA WriteStep ==
  ASSUME TypeInv, IdInv, WalkInv, NEW t \in Threads, Writes(t), Watched
  PROVE  WalkInv'
<1>1. PICK j \in Jobs : job' = [job EXCEPT ![t] = j] /\ JobOK(j) /\ IsWrite(t, j)
  BY WriteIs
<1>2. /\ ~walk.on \/ walk.over => walk' = walk
      /\ walk'.on = walk.on /\ walk'.over = walk.over
      /\ walk'.next = walk.next /\ walk'.seen = walk.seen
  BY WatchedIs
<1> SUFFICES ASSUME walk.on
             PROVE  /\ IsInjective(walk.seen)
                    /\ ToSet(walk.seen) \subseteq 1 .. counter'
                    /\ \A u \in Threads : Drawn(u)' => job'[u].id \notin ToSet(walk.seen)
                    /\ ~walk.over => Followed'
                    /\ walk.over =>
                         /\ IsFiniteSet(walk'.steady \ ToSet(walk.seen))
                         /\ Cardinality(walk'.steady \ ToSet(walk.seen)) <= walk'.deletes
  BY <1>2 DEF WalkInv, Followed
<1>3. /\ IsInjective(walk.seen)
      /\ ToSet(walk.seen) \in SUBSET (1 .. counter)
      /\ \A u \in Threads : Drawn(u) => job[u].id \notin ToSet(walk.seen)
      /\ walk.over =>
           /\ IsFiniteSet(walk.steady \ ToSet(walk.seen))
           /\ Cardinality(walk.steady \ ToSet(walk.seen)) <= walk.deletes
  BY WalkIs
<1>4. /\ ToSet(walk.seen) \in SUBSET (1 .. counter')
      /\ \A u \in Threads : Drawn(u)' => job'[u].id \notin ToSet(walk.seen)
  BY <1>1, <1>3, SeenStep
<1>5. ~walk.over => Followed'
  BY <1>1, FollowStep
<1>6. walk.over => walk' = walk
  BY <1>2
<1> QED BY <1>3, <1>4, <1>5, <1>6

LEMMA ToSetIs ==
  ASSUME NEW s
  PROVE  \A i : i \in ToSet(s) <=> \E k \in DOMAIN s : s[k] = i
BY DEF ToSet

\* Two pages put together, of lists without repetition that share nothing.
LEMMA SeenAndMore ==
  ASSUME NEW s \in Seq(Nat), NEW p \in Seq(Nat),
         IsInjective(s), IsInjective(p),
         \A k \in 1 .. Len(p) : p[k] \notin ToSet(s)
  PROVE  /\ IsInjective(s \o p)
         /\ ToSet(s \o p) = ToSet(s) \cup ToSet(p)
<1> DEFINE r == s \o p
           m == Len(s)
           n == Len(p)
<1>1. /\ m \in Nat /\ n \in Nat /\ DOMAIN s = 1 .. m /\ DOMAIN p = 1 .. n
      /\ r \in Seq(Nat) /\ DOMAIN r = 1 .. m + n
      /\ \A k \in 1 .. m + n : r[k] = IF k <= m THEN s[k] ELSE p[k - m]
  BY ConcatProperties, LenProperties
<1> HIDE DEF r, m, n
<1>2. \A k \in 1 .. m : k \in 1 .. m + n /\ r[k] = s[k] /\ s[k] \in ToSet(s)
  <2>1. \A k \in 1 .. m : k \in 1 .. m + n /\ r[k] = s[k]
    BY <1>1
  <2>2. \A k \in 1 .. m : s[k] \in ToSet(s)
    BY <1>1, ToSetIs
  <2> QED BY <2>1, <2>2
<1>3. \A k \in 1 .. n : m + k \in 1 .. m + n /\ r[m + k] = p[k] /\ p[k] \in ToSet(p)
  <2> SUFFICES ASSUME NEW k \in 1 .. n
               PROVE  m + k \in 1 .. m + n /\ r[m + k] = p[k] /\ p[k] \in ToSet(p)
    OBVIOUS
  <2>1. PICK h \in 1 .. m + n : h = m + k
    BY <1>1
  <2>2. ~(h <= m) /\ h - m = k
    BY <1>1, <2>1
  <2>3. r[h] = p[k]
    BY <1>1, <2>2
  <2>4. p[k] \in ToSet(p)
    BY <1>1, ToSetIs
  <2> QED BY <2>1, <2>3, <2>4
<1>4. \A k \in 1 .. m + n :
        \/ k \in 1 .. m /\ r[k] = s[k]
        \/ k - m \in 1 .. n /\ r[k] = p[k - m]
  BY <1>1
<1>5. IsInjective(r)
  <2> SUFFICES ASSUME NEW a \in 1 .. m + n, NEW b \in 1 .. m + n, r[a] = r[b]
               PROVE  a = b
    BY <1>1 DEF IsInjective
  <2>1. CASE a \in 1 .. m /\ b \in 1 .. m
    BY <1>1, <1>2, <2>1 DEF IsInjective
  <2>2. CASE a - m \in 1 .. n /\ b - m \in 1 .. n
    <3>1. p[a - m] = p[b - m]
      BY <1>1, <2>2
    <3>2. a - m = b - m
      BY <1>1, <2>2, <3>1 DEF IsInjective
    <3> QED BY <1>1, <3>2
  <2>3. CASE a \in 1 .. m /\ b - m \in 1 .. n
    <3>1. r[a] \in ToSet(s) /\ r[b] = p[b - m]
      BY <1>1, <1>2, <2>3
    <3> QED BY <2>3, <3>1 DEF n
  <2>4. CASE a - m \in 1 .. n /\ b \in 1 .. m
    <3>1. r[b] \in ToSet(s) /\ r[a] = p[a - m]
      BY <1>1, <1>2, <2>4
    <3> QED BY <2>4, <3>1 DEF n
  <2> QED BY <1>4, <2>1, <2>2, <2>3, <2>4
<1>6. \A i : i \in ToSet(r) => i \in ToSet(s) \/ i \in ToSet(p)
  <2> SUFFICES ASSUME NEW k \in 1 .. m + n
               PROVE  r[k] \in ToSet(s) \/ r[k] \in ToSet(p)
    BY <1>1, ToSetIs
  <2> QED BY <1>2, <1>3, <1>4
<1>7. \A i : i \in ToSet(s) => i \in ToSet(r)
  <2> SUFFICES ASSUME NEW k \in 1 .. m PROVE s[k] \in ToSet(r)
    BY <1>1, ToSetIs
  <2>1. k \in DOMAIN r /\ r[k] = s[k]
    BY <1>1, <1>2
  <2> QED BY <2>1, ToSetIs
<1>8. \A i : i \in ToSet(p) => i \in ToSet(r)
  <2> SUFFICES ASSUME NEW k \in 1 .. n PROVE p[k] \in ToSet(r)
    BY <1>1, ToSetIs
  <2>1. m + k \in DOMAIN r /\ r[m + k] = p[k]
    BY <1>1, <1>3
  <2> QED BY <2>1, ToSetIs
<1> QED BY <1>5, <1>6, <1>7, <1>8 DEF r

\* The next page has what no page before it had, and leaves nothing out.
LEMMA PageStep ==
  ASSUME TypeInv, IdInv, WalkInv, NextPage
  PROVE  WalkInv'
<1>1. PICK s \in All(Page) :
        walk' = [walk EXCEPT !.next = @ + PageSize,
                             !.seen = @ \o Pluck(s, "id"),
                             !.over = s = <<>>]
  BY PageTyped
<1> DEFINE ids == Pluck(s, "id")
           n == Len(ids)
           S == ToSet(walk.seen)
           I == ToSet(ids)
<1>2. /\ walk.on /\ ~walk.over
      /\ UNCHANGED <<table, counter, job>> /\ LiveIds' = LiveIds /\ Live' = Live
      /\ \A t \in Threads : Drawn(t)' <=> Drawn(t)
  BY ReaderIs DEF NextPage
<1>3. /\ walk \in [on : BOOLEAN, next : Nat, seen : Seq(Nat), over : BOOLEAN,
                   steady : SUBSET Nat, deletes : Nat]
      /\ table \in Seq(Line) /\ Unique(table)
  BY DEF TypeInv, IdInv
<1>4. /\ ids \in Seq(Nat) /\ n \in Nat /\ DOMAIN ids = 1 .. n
      /\ s = <<>> <=> n = 0
      /\ n <= PageSize
      /\ \A k \in 1 .. n : /\ walk.next + k \in DOMAIN Live
                           /\ ids[k] = Live[walk.next + k].id
      /\ \A m \in DOMAIN Live :
           walk.next < m /\ m <= walk.next + PageSize => m - walk.next \in 1 .. n
  BY <1>3, PageIs
<1>5. /\ walk'.on /\ walk'.next = walk.next + PageSize
      /\ walk'.seen = walk.seen \o ids /\ walk'.over = (s = <<>>)
      /\ walk'.steady = walk.steady /\ walk'.deletes = walk.deletes
  BY <1>1, <1>2, <1>3
<1>6. /\ IsInjective(walk.seen) /\ S \subseteq 1 .. counter
      /\ \A t \in Threads : Drawn(t) => job[t].id \notin S
      /\ Followed
  BY <1>2, WalkIs
<1>7. /\ walk.steady \subseteq LiveIds
      /\ \A k \in DOMAIN Live : Live[k].id \in S => k <= walk.next
      /\ Cardinality(Behind \ S) <= walk.deletes
  BY <1>6 DEF Followed
<1>8. /\ Len(Live) \in Nat /\ DOMAIN Live = 1 .. Len(Live) /\ Unique(Live)
      /\ \A k \in DOMAIN Live : Live[k].id \in LiveIds
      /\ \A i \in LiveIds : \E k \in DOMAIN Live : Live[k].id = i
      /\ PageSize \in Nat /\ PageSize # 0 /\ walk.next \in Nat
  BY <1>3, LiveIs, PageSizeIs
<1> HIDE DEF ids
<1>9. IsInjective(ids)
  <2> SUFFICES ASSUME NEW a \in 1 .. n, NEW b \in 1 .. n, ids[a] = ids[b]
               PROVE  a = b
    BY <1>4 DEF IsInjective
  <2>1. walk.next + a = walk.next + b
    BY <1>4, <1>8, SMTT(30) DEF Unique
  <2> QED BY <1>8, <2>1
<1>10. \A k \in 1 .. n : ids[k] \notin S
  <2> SUFFICES ASSUME NEW k \in 1 .. n, ids[k] \in S PROVE FALSE
    OBVIOUS
  <2>1. PICK h \in DOMAIN Live : h = walk.next + k
    BY <1>4
  <2>2. Live[h].id \in S
    BY <1>4, <2>1
  <2>3. h <= walk.next
    BY <1>7, <2>2
  <2> QED BY <1>4, <1>8, <2>1, <2>3
<1>11. IsInjective(walk'.seen) /\ ToSet(walk'.seen) = S \cup I
  BY <1>3, <1>4, <1>5, <1>6, <1>9, <1>10, SeenAndMore
<1>12. \A i : i \in I <=> \E k \in 1 .. n : Live[walk.next + k].id = i
  BY <1>4 DEF ToSet
<1> HIDE DEF I, S, n
<1>13. I \subseteq LiveIds
  BY <1>4, <1>8, <1>12
<1>14. LiveIds \subseteq 1 .. counter /\ \A t \in Threads : Drawn(t) => job[t].id \notin LiveIds
  BY LiveIdsAre DEF IdInv
<1>15. /\ ToSet(walk'.seen) \subseteq 1 .. counter'
       /\ \A t \in Threads : Drawn(t)' => job'[t].id \notin ToSet(walk'.seen)
  BY <1>2, <1>6, <1>11, <1>13, <1>14
<1>16. \A k \in DOMAIN Live : Live[k].id \in S \cup I => k <= walk.next + PageSize
  <2> SUFFICES ASSUME NEW k \in DOMAIN Live, Live[k].id \in I
               PROVE  k <= walk.next + PageSize
    BY <1>7, <1>8
  <2>1. PICK h \in 1 .. n : Live[walk.next + h].id = Live[k].id
    BY <1>12
  <2>2. walk.next + h = k
    BY <1>4, <1>8, <2>1 DEF Unique
  <2> QED BY <1>4, <1>8, <2>1, <2>2
\* Of what is behind the reader now, the page has all that was not before.
<1>17. \A k \in DOMAIN Live :
         k <= walk.next + PageSize => k <= walk.next \/ Live[k].id \in I
  <2> SUFFICES ASSUME NEW k \in DOMAIN Live, k <= walk.next + PageSize,
                      walk.next < k
               PROVE  Live[k].id \in I
    BY <1>8
  <2>1. k - walk.next \in 1 .. n
    BY <1>4
  <2>2. walk.next + (k - walk.next) = k
    BY <1>8
  <2> QED BY <1>12, <2>1, <2>2
<1>18. Behind' \ (S \cup I) \in SUBSET (Behind \ S)
  <2> SUFFICES ASSUME NEW i \in Behind', i \notin S \cup I PROVE i \in Behind
    OBVIOUS
  <2>1. i \in walk'.steady /\ \E k \in DOMAIN Live' : k <= walk'.next /\ Live'[k].id = i
    BY BehindIs
  <2>2. PICK k \in DOMAIN Live : k <= walk.next + PageSize /\ Live[k].id = i
    BY <1>2, <1>5, <2>1
  <2>3. k <= walk.next
    BY <1>17, <2>2
  <2> QED BY <1>5, <2>1, <2>2, <2>3, BehindIs
<1>19. IsFiniteSet(Behind \ S) /\ Cardinality(Behind \ S) \in Nat /\ walk.deletes \in Nat
  BY <1>3, BehindIs
<1>20. Cardinality(Behind' \ (S \cup I)) <= walk.deletes
  <2>1. /\ Cardinality(Behind' \ (S \cup I)) <= Cardinality(Behind \ S)
        /\ Cardinality(Behind' \ (S \cup I)) \in Nat
    BY <1>18, <1>19, FS_Subset, FS_CardinalityType
  <2> QED BY <1>7, <1>19, <2>1
<1>21. Followed'
  BY <1>2, <1>5, <1>7, <1>11, <1>16, <1>20 DEF Followed
\* An empty page is one after the last record.
<1>22. walk'.over =>
         /\ IsFiniteSet(walk'.steady \ ToSet(walk'.seen))
         /\ Cardinality(walk'.steady \ ToSet(walk'.seen)) <= walk'.deletes
  <2> SUFFICES ASSUME n = 0
               PROVE  /\ IsFiniteSet(walk.steady \ (S \cup I))
                      /\ Cardinality(walk.steady \ (S \cup I)) <= walk.deletes
    BY <1>4, <1>5, <1>11
  <2>1. \A k \in DOMAIN Live : k <= walk.next
    <3> SUFFICES ASSUME NEW k \in DOMAIN Live, walk.next < k PROVE FALSE
      BY <1>8
    <3>1. walk.next + 1 \in DOMAIN Live
      BY <1>8
    <3>2. walk.next + 1 - walk.next \in 1 .. n
      BY <1>4, <1>8, <3>1
    <3> QED BY <3>2
  <2>2. walk.steady \subseteq Behind
    BY <1>7, <1>8, <2>1, BehindIs
  <2>3. walk.steady \ (S \cup I) \in SUBSET (Behind \ S)
    BY <2>2
  <2>4. /\ IsFiniteSet(walk.steady \ (S \cup I))
        /\ Cardinality(walk.steady \ (S \cup I)) <= Cardinality(Behind \ S)
        /\ Cardinality(walk.steady \ (S \cup I)) \in Nat
    BY <1>19, <2>3, FS_Subset, FS_CardinalityType
  <2> QED BY <1>7, <1>19, <2>4
<1> QED BY <1>11, <1>15, <1>21, <1>22 DEF WalkInv, Followed

LEMMA WalkStep == TypeInv /\ IdInv /\ WalkInv /\ [Next]_vars => WalkInv'
<1> SUFFICES ASSUME TypeInv, IdInv, WalkInv, [Next]_vars PROVE WalkInv'
  OBVIOUS
<1>1. ASSUME NEW t \in Threads, Writes(t), Watched PROVE WalkInv'
  BY <1>1, WriteStep
<1>2. CASE StartWalk
  <2>1. /\ walk' = [NoWalk EXCEPT !.on = TRUE, !.steady = LiveIds]
        /\ LiveIds' = LiveIds /\ Live' = Live /\ counter' = counter
    BY <1>2, ReaderIs DEF StartWalk
  <2>2. /\ walk'.next = 0 /\ walk'.seen = <<>> /\ ~walk'.over
        /\ walk'.steady = LiveIds /\ walk'.deletes = 0
    BY <2>1 DEF NoWalk
  <2>3. ToSet(walk'.seen) = {} /\ IsInjective(walk'.seen)
    BY <2>2 DEF ToSet, IsInjective
  <2>4. Behind' = {}
    <3>1. \A k \in DOMAIN Live : ~(k <= 0)
      BY LiveIs DEF TypeInv
    <3> QED BY <2>1, <2>2, <3>1, BehindIs
  <2>5. Cardinality(Behind' \ ToSet(walk'.seen)) = 0
    BY <2>3, <2>4, FS_EmptySet
  <2> QED BY <2>1, <2>2, <2>3, <2>5 DEF WalkInv
<1>3. CASE NextPage
  BY <1>3, PageStep
<1>4. CASE EndWalk
  BY <1>4 DEF EndWalk, NoWalk, WalkInv
<1>5. CASE UNCHANGED vars
  <2>1. UNCHANGED <<table, counter, job, walk>>
    BY <1>5 DEF vars
  <2>2. LiveIds' = LiveIds /\ Live' = Live /\ Behind' = Behind
    BY <2>1, IdsAre DEF Behind
  <2> QED BY <2>1, <2>2 DEF WalkInv, Drawn, Busy
<1> QED BY <1>1, <1>2, <1>3, <1>4, <1>5 DEF Next

\* A reader that goes through the collection page by page gets no record
\* twice, and misses no more of those that were there all along than there
\* were deletes meanwhile (collection.py load_all, _apply_delete, compact;
\* query.py offset and limit).
THEOREM RecordsWalkSound == Spec => []WalkSound
<1>1. Init => WalkInv
  BY DEF Init, NoWalk, WalkInv
<1>2. WalkInv => WalkSound
  BY DEF WalkInv, WalkSound
<1>3. Spec => [](TypeInv /\ IdInv)
  BY RecordsTyped
<1> QED BY <1>1, <1>2, <1>3, WalkStep, PTL DEF Spec

-----------------------------------------------------------------------------
(* Lemmas: sorting *)

StrictOrder(R, n) ==
  /\ \A i, j \in 1 .. n : i # j => <<i, j>> \in R \/ <<j, i>> \in R
  /\ \A i, j \in 1 .. n : <<i, j>> \in R => <<j, i>> \notin R
  /\ \A i, j, k \in 1 .. n : <<i, j>> \in R /\ <<j, k>> \in R => <<i, k>> \in R

Before(R, n, i) == {j \in 1 .. n : <<j, i>> \in R}

\* What a strict order puts before a position is less for one further ahead.
LEMMA PlaceGrows ==
  ASSUME NEW n \in Nat, NEW R, StrictOrder(R, n)
  PROVE  /\ \A i \in 1 .. n : /\ IsFiniteSet(Before(R, n, i))
                              /\ Place(R, 1 .. n, i) \in 1 .. n
         /\ \A i, j \in 1 .. n :
              <<i, j>> \in R => Place(R, 1 .. n, i) < Place(R, 1 .. n, j)
<1>1. \A i : Place(R, 1 .. n, i) = 1 + Cardinality(Before(R, n, i))
  BY DEF Place, Before
<1>2. IsFiniteSet(1 .. n) /\ Cardinality(1 .. n) = n
  BY Counted
<1>3. ASSUME NEW i \in 1 .. n
      PROVE  /\ IsFiniteSet(Before(R, n, i))
             /\ Cardinality(Before(R, n, i)) \in Nat
             /\ Cardinality(Before(R, n, i)) < n
  <2> DEFINE B == Before(R, n, i)
  <2>1. B \in SUBSET (1 .. n)
    BY DEF Before
  <2>2. i \notin B
    BY DEF Before, StrictOrder
  <2> HIDE DEF B
  <2>3. IsFiniteSet(B) /\ Cardinality(B) <= n /\ (Cardinality(B) = n => B = 1 .. n)
    BY <1>2, <2>1, FS_Subset
  <2>4. Cardinality(B) \in Nat
    BY <2>3, FS_CardinalityType
  <2>5. Cardinality(B) # n
    BY <2>2, <2>3
  <2>6. Cardinality(B) < n
    BY <2>3, <2>4, <2>5
  <2> QED BY <2>3, <2>4, <2>6 DEF B
<1>4. ASSUME NEW i \in 1 .. n PROVE Place(R, 1 .. n, i) \in 1 .. n
  <2>1. PICK c \in Nat : c = Cardinality(Before(R, n, i)) /\ c < n
    BY <1>3
  <2>2. Place(R, 1 .. n, i) = 1 + c
    BY <1>1, <2>1
  <2> QED BY <2>1, <2>2
<1>5. ASSUME NEW i \in 1 .. n, NEW j \in 1 .. n, <<i, j>> \in R
      PROVE  Place(R, 1 .. n, i) < Place(R, 1 .. n, j)
  <2> DEFINE A == Before(R, n, i)
             B == Before(R, n, j)
  <2>1. \A k \in A : k \in B
    BY <1>5 DEF Before, StrictOrder
  <2>2. i \in B /\ i \notin A
    BY <1>5 DEF Before, StrictOrder
  <2>3. /\ IsFiniteSet(A) /\ IsFiniteSet(B)
        /\ Cardinality(A) \in Nat /\ Cardinality(B) \in Nat
    BY <1>3
  <2>4. Place(R, 1 .. n, i) = 1 + Cardinality(A) /\ Place(R, 1 .. n, j) = 1 + Cardinality(B)
    BY <1>1
  <2> HIDE DEF A, B
  <2>5. A \in SUBSET B /\ A # B
    BY <2>1, <2>2
  <2>6. Cardinality(A) <= Cardinality(B) /\ Cardinality(A) # Cardinality(B)
    BY <2>3, <2>5, FS_Subset
  <2> QED BY <2>3, <2>4, <2>6
<1> QED BY <1>3, <1>4, <1>5

\* The position of each place.
Placed(R, n) == [k \in 1 .. n |-> CHOOSE i \in 1 .. n : Place(R, 1 .. n, i) = k]

Arranged(p, R, n) ==
  /\ p \in [1 .. n -> 1 .. n]
  /\ \A k, l \in 1 .. n : k < l => <<p[k], p[l]>> \in R
  /\ \A i \in 1 .. n : \E k \in 1 .. n : p[k] = i

\* So every position has a place of its own, and every place a position.
LEMMA PlaceIs ==
  ASSUME NEW n \in Nat, NEW R, StrictOrder(R, n), NEW p, p = Placed(R, n)
  PROVE  Arranged(p, R, n)
<1> DEFINE D == 1 .. n
           f == [i \in D |-> Place(R, D, i)]
<1>0. \A i, j \in 1 .. n : i # j => <<i, j>> \in R \/ <<j, i>> \in R
  BY Zenon DEF StrictOrder
<1>1. f \in [D -> D]
  BY PlaceGrows
<1>2. ASSUME NEW i \in D, NEW j \in D, <<i, j>> \in R PROVE f[i] < f[j]
  <2>1. Place(R, D, i) < Place(R, D, j)
    BY <1>2, PlaceGrows
  <2> QED BY <2>1
<1>3. \A i, j \in D : i # j => <<i, j>> \in R \/ <<j, i>> \in R
  BY <1>0
<1>4. IsFiniteSet(D)
  BY Counted
<1>5. \A k \in D : p[k] = CHOOSE i \in D : f[i] = k
  BY DEF Placed
<1>6. p = [k \in D |-> p[k]]
  BY DEF Placed
<1>7. \A i, j \in D : f[i] \in Int /\ f[j] \in Int
  BY <1>1
<1> HIDE DEF f
<1>8. \A i, j \in D : f[i] = f[j] => i = j
  <2> SUFFICES ASSUME NEW i \in D, NEW j \in D, f[i] = f[j], i # j PROVE FALSE
    OBVIOUS
  <2>1. f[i] < f[j] \/ f[j] < f[i]
    BY <1>2, <1>3
  <2> QED BY <1>7, <2>1
<1> HIDE DEF D
<1>9. f \in Injection(D, D)
  BY <1>1, <1>8 DEF Injection, IsInjective
<1>10. f \in Surjection(D, D)
  BY <1>4, <1>9, FS_Injection
<1>11. \A k \in D : \E i \in D : f[i] = k
  BY <1>10 DEF Surjection
<1>12. \A k \in D : p[k] \in D /\ f[p[k]] = k
  BY <1>5, <1>11
<1>13. p \in [D -> D]
  BY <1>6, <1>12
<1>14. \A k, l \in D : k < l => <<p[k], p[l]>> \in R
  <2> SUFFICES ASSUME NEW k \in D, NEW l \in D, k < l, <<p[k], p[l]>> \notin R
               PROVE  FALSE
    OBVIOUS
  <2>1. k \in Int /\ l \in Int
    BY DEF D
  <2>2. p[k] \in D /\ p[l] \in D /\ f[p[k]] = k /\ f[p[l]] = l
    BY <1>12
  <2>3. p[k] # p[l]
    BY <2>1, <2>2
  <2>4. <<p[l], p[k]>> \in R
    BY <1>3, <2>2, <2>3
  <2>5. l < k
    BY <1>2, <2>2, <2>4
  <2> QED BY <2>1, <2>5
<1>15. ASSUME NEW i \in D PROVE \E k \in D : p[k] = i
  <2>1. f[i] \in D
    BY <1>1
  <2>2. p[f[i]] \in D /\ f[p[f[i]]] = f[i]
    BY <1>12, <2>1
  <2>3. p[f[i]] = i
    BY <1>8, <2>2
  <2> QED BY <2>1, <2>3
<1> QED BY <1>13, <1>14, <1>15 DEF D, Arranged

\* The order of texts: the first position at which they differ decides.
Differ(s, t, k) ==
  /\ \A j \in 1 .. k - 1 : j <= Len(s) /\ j <= Len(t) /\ s[j] = t[j]
  /\ k <= Len(t)
  /\ Len(s) < k \/ s[k] < t[k]

LEMMA TextLessIs ==
  ASSUME NEW s \in Seq(Int), NEW t \in Seq(Int)
  PROVE  TextLess(s, t) <=> \E k \in Nat \ {0} : Differ(s, t, k)
<1>1. Len(s) \in Nat /\ Len(t) \in Nat
  OBVIOUS
<1>2. ASSUME TextLess(s, t) PROVE \E k \in Nat \ {0} : Differ(s, t, k)
  <2>1. PICK k \in 1 .. Len(t) :
          /\ \A j \in 1 .. k - 1 : j <= Len(s) /\ s[j] = t[j]
          /\ Len(s) < k \/ s[k] < t[k]
    BY <1>2 DEF TextLess
  <2>2. k \in Nat \ {0} /\ k <= Len(t) /\ \A j \in 1 .. k - 1 : j <= Len(t)
    BY <1>1
  <2>3. Differ(s, t, k)
    BY <2>1, <2>2 DEF Differ
  <2> QED BY <2>2, <2>3
<1>3. ASSUME NEW k \in Nat \ {0}, Differ(s, t, k) PROVE TextLess(s, t)
  <2>1. k \in 1 .. Len(t)
    BY <1>1, <1>3 DEF Differ
  <2> QED BY <1>3, <2>1 DEF Differ, TextLess
<1> QED BY <1>2, <1>3

LEMMA DifferIs ==
  ASSUME NEW s \in Seq(Int), NEW t \in Seq(Int), NEW k \in Nat \ {0}
  PROVE  /\ Differ(s, t, k) =>
              /\ \A j \in Nat \ {0} : j < k => j <= Len(s) /\ j <= Len(t) /\ s[j] = t[j]
              /\ k <= Len(t) /\ t[k] \in Int
              /\ k <= Len(s) => s[k] \in Int /\ s[k] < t[k]
         /\ (/\ \A j \in Nat \ {0} : j < k => j <= Len(s) /\ j <= Len(t) /\ s[j] = t[j]
             /\ k <= Len(t)
             /\ k <= Len(s) => s[k] < t[k]) => Differ(s, t, k)
<1>1. Len(s) \in Nat /\ Len(t) \in Nat
  OBVIOUS
<1>2. \A j \in Nat \ {0} : (j < k) <=> (j \in 1 .. k - 1)
  OBVIOUS
<1>3. (k <= Len(s) => s[k] \in Int) /\ (k <= Len(t) => t[k] \in Int)
  <2>1. k <= Len(s) => k \in 1 .. Len(s)
    BY <1>1
  <2>2. k <= Len(t) => k \in 1 .. Len(t)
    BY <1>1
  <2> QED BY <2>1, <2>2, ElementOfSeq
<1>4. (Len(s) < k) <=> ~(k <= Len(s))
  BY <1>1
<1>5. \A j \in 1 .. k - 1 : j \in Nat \ {0}
  OBVIOUS
<1>6. ASSUME Differ(s, t, k)
      PROVE  /\ \A j \in Nat \ {0} : j < k => j <= Len(s) /\ j <= Len(t) /\ s[j] = t[j]
             /\ k <= Len(t) /\ t[k] \in Int
             /\ k <= Len(s) => s[k] \in Int /\ s[k] < t[k]
  BY <1>2, <1>3, <1>4, <1>6, Zenon DEF Differ
<1>7. ASSUME /\ \A j \in Nat \ {0} : j < k => j <= Len(s) /\ j <= Len(t) /\ s[j] = t[j]
             /\ k <= Len(t)
             /\ k <= Len(s) => s[k] < t[k]
      PROVE  Differ(s, t, k)
  BY <1>2, <1>4, <1>5, <1>7, Zenon DEF Differ
<1> QED BY <1>6, <1>7

LEMMA TextLessOrder ==
  ASSUME NEW s \in Seq(Int), NEW t \in Seq(Int), NEW u \in Seq(Int)
  PROVE  /\ ~(TextLess(s, t) /\ TextLess(t, s))
         /\ TextLess(s, t) => TextLess(s, u) \/ TextLess(u, t)
<1>0. /\ Len(s) \in Nat /\ Len(t) \in Nat /\ Len(u) \in Nat
      /\ \A j \in 1 .. Len(s) : s[j] \in Int
      /\ \A j \in 1 .. Len(t) : t[j] \in Int
      /\ \A j \in 1 .. Len(u) : u[j] \in Int
  BY ElementOfSeq
<1>1. ASSUME TextLess(s, t), TextLess(t, s) PROVE FALSE
  <2>1. PICK k \in Nat \ {0} : Differ(s, t, k)
    BY <1>1, TextLessIs
  <2>2. PICK l \in Nat \ {0} : Differ(t, s, l)
    BY <1>1, TextLessIs
  <2>3. /\ \A j \in Nat \ {0} : j < k => j <= Len(s) /\ j <= Len(t) /\ s[j] = t[j]
        /\ k <= Len(t) /\ t[k] \in Int
        /\ k <= Len(s) => s[k] \in Int /\ s[k] < t[k]
    BY <2>1, DifferIs
  <2>4. /\ \A j \in Nat \ {0} : j < l => j <= Len(t) /\ j <= Len(s) /\ t[j] = s[j]
        /\ l <= Len(s) /\ s[l] \in Int
        /\ l <= Len(t) => t[l] \in Int /\ t[l] < s[l]
    BY <2>2, DifferIs
  <2>5. CASE k < l
    <3>1. k <= Len(s) /\ t[k] = s[k]
      BY <2>4, <2>5
    <3>2. s[k] \in Int /\ s[k] < t[k]
      BY <2>3, <3>1
    <3> QED BY <3>1, <3>2
  <2>6. CASE l < k
    <3>1. l <= Len(t) /\ s[l] = t[l]
      BY <2>3, <2>6
    <3>2. t[l] \in Int /\ t[l] < s[l]
      BY <2>4, <3>1
    <3> QED BY <3>1, <3>2
  <2>7. CASE k = l
    <3>1. k <= Len(s) /\ k <= Len(t)
      BY <2>3, <2>4, <2>7
    <3>2. s[k] \in Int /\ t[k] \in Int /\ s[k] < t[k]
      BY <2>3, <3>1
    <3>3. t[k] < s[k]
      BY <2>4, <2>7, <3>1
    <3> QED BY <3>2, <3>3
  <2> QED BY <2>5, <2>6, <2>7
<1>2. ASSUME TextLess(s, t) PROVE TextLess(s, u) \/ TextLess(u, t)
  <2>1. PICK k \in Nat \ {0} : Differ(s, t, k)
    BY <1>2, TextLessIs
  <2>2. /\ \A j \in Nat \ {0} : j < k => j <= Len(s) /\ j <= Len(t) /\ s[j] = t[j]
        /\ k <= Len(t) /\ t[k] \in Int
        /\ k <= Len(s) => s[k] \in Int /\ s[k] < t[k]
    BY <2>1, DifferIs
  \* The first position up to k where u is not as s.
  <2> DEFINE Same(j) == j <= Len(u) /\ j <= Len(s) /\ u[j] = s[j]
             M == {j \in Nat : 1 <= j /\ j <= k /\ ~Same(j)}
  <2>3. CASE M = {}
    <3>1. ASSUME NEW j \in Nat \ {0}, j <= k PROVE Same(j)
      <4> HIDE DEF Same
      <4>1. 1 <= j
        OBVIOUS
      <4> QED BY <2>3, <3>1, <4>1
    <3>2. k <= Len(s) /\ u[k] = s[k]
      BY <3>1
    <3>3. u[k] < t[k]
      BY <2>2, <3>2
    <3>4. ASSUME NEW j \in Nat \ {0}, j < k
          PROVE  j <= Len(u) /\ j <= Len(t) /\ u[j] = t[j]
      <4>1. j <= k
        BY <3>4
      <4> QED BY <2>2, <3>1, <3>4, <4>1
    <3>5. Differ(u, t, k)
      BY <2>2, <3>3, <3>4, DifferIs
    <3> QED BY <3>5, TextLessIs
  <2>4. CASE M # {}
    <3>1. PICK m \in M : \A y \in M : ~(y < m)
      BY <2>4, LeastNumber
    <3>2. m \in Nat \ {0} /\ m <= k /\ ~Same(m)
      BY <3>1
    <3>3. ASSUME NEW j \in Nat \ {0}, j < m PROVE Same(j)
      <4>1. j \in Nat /\ 1 <= j /\ j <= k
        BY <3>2, <3>3
      <4>2. j \notin M
        BY <3>1, <3>3
      <4> HIDE DEF Same
      <4> QED BY <4>1, <4>2
    <3> HIDE DEF M
    <3>4. \A j \in Nat \ {0} : j < m => j <= Len(u) /\ j <= Len(s) /\ u[j] = s[j]
      BY <3>3
    <3>5. ASSUME NEW j \in Nat \ {0}, j < m PROVE j <= Len(t) /\ s[j] = t[j]
      <4>1. j < k
        BY <3>2, <3>5
      <4> QED BY <2>2, <4>1
    <3>6. \A j \in Nat \ {0} : j < m => j <= Len(u) /\ j <= Len(t) /\ u[j] = t[j]
      BY <3>4, <3>5
    <3>7. \A j \in Nat \ {0} : j < m => j <= Len(s) /\ j <= Len(u) /\ s[j] = u[j]
      BY <3>4
    <3>8. m <= Len(t)
      BY <1>0, <2>2, <3>2
    <3>9. CASE ~(m <= Len(u))
      <4>1. Differ(u, t, m)
        BY <3>2, <3>6, <3>8, <3>9, DifferIs
      <4> QED BY <3>2, <4>1, TextLessIs
    <3>10. CASE m <= Len(u) /\ ~(m <= Len(s))
      <4>1. Differ(s, u, m)
        BY <3>2, <3>7, <3>10, DifferIs
      <4> QED BY <3>2, <4>1, TextLessIs
    <3>11. CASE m <= Len(u) /\ m <= Len(s)
      <4>1. u[m] \in Int /\ s[m] \in Int
        <5>1. m \in 1 .. Len(u) /\ m \in 1 .. Len(s)
          BY <1>0, <3>2, <3>11
        <5> QED BY <1>0, <5>1
      <4>2. s[m] < u[m] \/ u[m] < s[m]
        <5>1. u[m] # s[m]
          BY <3>2, <3>11
        <5> QED BY <4>1, <5>1
      <4>3. CASE s[m] < u[m]
        <5>1. Differ(s, u, m)
          BY <3>2, <3>7, <3>11, <4>3, DifferIs
        <5> QED BY <3>2, <5>1, TextLessIs
      <4>4. CASE u[m] < s[m]
        <5>1. u[m] < t[m]
          <6>1. CASE m < k
            BY <2>2, <3>2, <4>4, <6>1
          <6>2. CASE m = k
            <7>1. k <= Len(s)
              BY <3>11, <6>2
            <7>2. s[k] < t[k] /\ t[k] \in Int
              BY <2>2, <7>1
            <7>3. s[m] < t[m] /\ t[m] \in Int
              BY <6>2, <7>2
            <7>4. \A a, b, c \in Int : a < b /\ b < c => a < c
              OBVIOUS
            <7> QED BY <4>1, <4>4, <7>3, <7>4
          <6> QED BY <3>2, <6>1, <6>2
        <5>2. Differ(u, t, m)
          BY <3>2, <3>6, <3>8, <5>1, DifferIs
        <5> QED BY <3>2, <5>2, TextLessIs
      <4> QED BY <4>2, <4>3, <4>4
    <3> QED BY <3>9, <3>10, <3>11
  <2> QED BY <2>3, <2>4
<1> QED BY <1>1, <1>2

\* The values of one type, and any values by their text.
LEMMA ValueOrder ==
  ASSUME None \notin Value, NEW v \in Value, NEW w \in Value, NEW x \in Value
  PROVE  /\ Text(v) \in Seq(Int)
         /\ ~(TextLess(Text(v), Text(w)) /\ TextLess(Text(w), Text(v)))
         /\ TextLess(Text(v), Text(w)) =>
              TextLess(Text(v), Text(x)) \/ TextLess(Text(x), Text(w))
         /\ v.type = w.type /\ w.type = x.type =>
              /\ ~(Less(v, w) /\ Less(w, v))
              /\ Less(v, w) => Less(v, x) \/ Less(x, w)
<1>1. \A y \in Value : y # None /\ y.n \in Int /\ y.chars \in Seq(Int)
  <2>1. \A y \in Value : y # None /\ y.n \in Int /\ y.chars \in Seq(Nat)
    BY DEF Value
  <2>2. \A y \in Value : y.chars \in Seq(Int)
    BY <2>1, SeqMonotonic
  <2> QED BY <2>1, <2>2
<1>2. \A y \in Value : Text(y) \in Seq(Int)
  <2> SUFFICES ASSUME NEW y \in Value PROVE Text(y) \in Seq(Int)
    OBVIOUS
  <2>1. y.n \in Int /\ y.chars \in Seq(Int)
    BY <1>1
  <2>2. <<y.n>> \in Seq(Int)
    BY <2>1
  <2> QED BY <2>1, <2>2 DEF Text
<1>3. /\ ~(TextLess(Text(v), Text(w)) /\ TextLess(Text(w), Text(v)))
      /\ TextLess(Text(v), Text(w)) =>
           TextLess(Text(v), Text(x)) \/ TextLess(Text(x), Text(w))
  BY <1>2, TextLessOrder
<1>4. ASSUME v.type = w.type, w.type = x.type
      PROVE  /\ ~(Less(v, w) /\ Less(w, v))
             /\ Less(v, w) => Less(v, x) \/ Less(x, w)
  <2>1. CASE v.type = "int"
    <3>1. /\ Less(v, w) <=> v.n < w.n
          /\ Less(w, v) <=> w.n < v.n
          /\ Less(v, x) <=> v.n < x.n
          /\ Less(x, w) <=> x.n < w.n
      BY <1>1, <1>4, <2>1 DEF Less, Is
    <3> QED BY <1>1, <3>1
  <2>2. CASE v.type # "int"
    <3>1. /\ Less(v, w) <=> TextLess(v.chars, w.chars)
          /\ Less(w, v) <=> TextLess(w.chars, v.chars)
          /\ Less(v, x) <=> TextLess(v.chars, x.chars)
          /\ Less(x, w) <=> TextLess(x.chars, w.chars)
      BY <1>1, <1>4, <2>2 DEF Less, Is
    <3> QED BY <1>1, <3>1, TextLessOrder
  <2> QED BY <2>1, <2>2
<1> QED BY <1>2, <1>3, <1>4

\* What a sort compares of a record.
Sortable(f, key, r) == Get(r, f) = None \/ Get(r, f) \in Value

Alike(f, key, r, s) ==
  \/ key = "text"
  \/ Get(r, f) = None \/ Get(s, f) = None
  \/ Get(r, f).type = Get(s, f).type

LEMMA PrecedesWeak ==
  ASSUME None \notin Value, NEW f, NEW key, NEW r, NEW s, NEW u,
         Sortable(f, key, r), Sortable(f, key, s), Sortable(f, key, u),
         Alike(f, key, r, s), Alike(f, key, s, u), Alike(f, key, r, u)
  PROVE  /\ ~(Precedes(f, key, r, s) /\ Precedes(f, key, s, r))
         /\ Precedes(f, key, r, s) => Precedes(f, key, r, u) \/ Precedes(f, key, u, s)
<1> DEFINE v == Get(r, f)
           w == Get(s, f)
           x == Get(u, f)
<1>1. /\ v = None \/ v \in Value
      /\ w = None \/ w \in Value
      /\ x = None \/ x \in Value
  BY DEF Sortable
<1>2. CASE key = "text"
  <2>1. /\ Precedes(f, key, r, s) <=> v # None /\ (w # None => TextLess(Text(v), Text(w)))
        /\ Precedes(f, key, s, r) <=> w # None /\ (v # None => TextLess(Text(w), Text(v)))
        /\ Precedes(f, key, r, u) <=> v # None /\ (x # None => TextLess(Text(v), Text(x)))
        /\ Precedes(f, key, u, s) <=> x # None /\ (w # None => TextLess(Text(x), Text(w)))
    BY <1>2 DEF Precedes, ByText
  <2> HIDE DEF v, w, x
  <2>2. \A a, b, c \in Value :
          /\ ~(TextLess(Text(a), Text(b)) /\ TextLess(Text(b), Text(a)))
          /\ TextLess(Text(a), Text(b)) =>
               TextLess(Text(a), Text(c)) \/ TextLess(Text(c), Text(b))
    BY ValueOrder
  <2> QED BY <1>1, <2>1, <2>2
<1>3. CASE key # "text"
  <2>1. /\ Precedes(f, key, r, s) <=> v # None /\ (w # None => Less(v, w))
        /\ Precedes(f, key, s, r) <=> w # None /\ (v # None => Less(w, v))
        /\ Precedes(f, key, r, u) <=> v # None /\ (x # None => Less(v, x))
        /\ Precedes(f, key, u, s) <=> x # None /\ (w # None => Less(x, w))
    BY <1>3 DEF Precedes, ByValue
  <2>2. /\ v = None \/ w = None \/ v.type = w.type
        /\ w = None \/ x = None \/ w.type = x.type
        /\ v = None \/ x = None \/ v.type = x.type
    BY <1>3 DEF Alike
  <2> HIDE DEF v, w, x
  <2>3. \A a, b \in Value : a.type = b.type => ~(Less(a, b) /\ Less(b, a))
    BY ValueOrder
  <2>4. \A a, b, c \in Value :
          a.type = b.type /\ b.type = c.type =>
            (Less(a, b) => Less(a, c) \/ Less(c, b))
    BY ValueOrder
  <2>5. ~(Precedes(f, key, r, s) /\ Precedes(f, key, s, r))
    BY <1>1, <2>1, <2>2, <2>3
  <2>6. Precedes(f, key, r, s) => Precedes(f, key, r, u) \/ Precedes(f, key, u, s)
    BY <1>1, <2>1, <2>2, <2>4
  <2> QED BY <2>5, <2>6
<1> QED BY <1>2, <1>3

\* Ties broken by the position.
LEMMA WeakToStrict ==
  ASSUME NEW n \in Nat, NEW B, NEW R,
         \A i, j \in 1 .. n : ~(<<i, j>> \in B /\ <<j, i>> \in B),
         \A i, j, k \in 1 .. n : <<i, j>> \in B => <<i, k>> \in B \/ <<k, j>> \in B,
         \A i, j \in 1 .. n :
           <<i, j>> \in R <=> <<i, j>> \in B \/ (<<j, i>> \notin B /\ i < j)
  PROVE  StrictOrder(R, n)
<1>1. ASSUME NEW i \in 1 .. n, NEW j \in 1 .. n, i # j
      PROVE  <<i, j>> \in R \/ <<j, i>> \in R
  <2>1. i < j \/ j < i
    BY <1>1
  <2> QED BY <2>1
<1>2. ASSUME NEW i \in 1 .. n, NEW j \in 1 .. n, <<i, j>> \in R
      PROVE  <<j, i>> \notin R
  <2>1. ~(i < j /\ j < i)
    OBVIOUS
  <2> QED BY <1>2, <2>1
<1>3. ASSUME NEW i \in 1 .. n, NEW j \in 1 .. n, NEW k \in 1 .. n,
             <<i, j>> \in R, <<j, k>> \in R
      PROVE  <<i, k>> \in R
  <2>1. i < j /\ j < k => i < k
    OBVIOUS
  <2>2. <<k, j>> \notin B /\ <<j, i>> \notin B
    BY <1>3
  <2>3. <<k, i>> \notin B
    BY <2>2
  <2>4. CASE <<i, j>> \in B
    BY <2>2, <2>4
  <2>5. CASE <<j, k>> \in B
    BY <2>2, <2>5
  <2>6. CASE <<i, j>> \notin B /\ <<j, k>> \notin B
    <3>1. i < j /\ j < k
      BY <1>3, <2>6
    <3> QED BY <2>1, <2>3, <3>1
  <2> QED BY <2>4, <2>5, <2>6
<1> QED BY <1>1, <1>2, <1>3 DEF StrictOrder

Comparable(s, f, key) ==
  /\ \A k \in DOMAIN s : Sortable(f, key, s[k])
  /\ \A k, l \in DOMAIN s : Alike(f, key, s[k], s[l])

\* One record goes before another in the direction of the sort.
Ahead(s, f, key, descending, i, j) ==
  IF descending THEN Precedes(f, key, s[j], s[i]) ELSE Precedes(f, key, s[i], s[j])

LEMMA OrderingIs ==
  ASSUME NEW s, NEW f, NEW key, NEW descending,
         NEW i \in DOMAIN s, NEW j \in DOMAIN s
  PROVE  <<i, j>> \in Ordering(s, f, key, descending) <=>
           \/ Ahead(s, f, key, descending, i, j)
           \/ ~Ahead(s, f, key, descending, j, i) /\ i < j
<1>1. <<i, j>> \in (DOMAIN s) \X (DOMAIN s) /\ <<i, j>>[1] = i /\ <<i, j>>[2] = j
  OBVIOUS
<1> QED BY <1>1 DEF Ordering, Ahead

LEMMA OrderingStrict ==
  ASSUME None \notin Value, NEW T, NEW s \in Seq(T), NEW f, NEW key, NEW descending,
         Comparable(s, f, key)
  PROVE  StrictOrder(Ordering(s, f, key, descending), Len(s))
<1> DEFINE n == Len(s)
           R == Ordering(s, f, key, descending)
           A(i, j) == Ahead(s, f, key, descending, i, j)
           B == {p \in (1 .. n) \X (1 .. n) : A(p[1], p[2])}
<1>1. n \in Nat /\ DOMAIN s = 1 .. n
  BY LenProperties
<1>2. \A i, j, k \in 1 .. n :
        /\ ~(Precedes(f, key, s[i], s[j]) /\ Precedes(f, key, s[j], s[i]))
        /\ Precedes(f, key, s[i], s[j]) =>
             Precedes(f, key, s[i], s[k]) \/ Precedes(f, key, s[k], s[j])
  BY <1>1, PrecedesWeak DEF Comparable
<1>3. \A i, j, k \in 1 .. n : /\ ~(A(i, j) /\ A(j, i))
                              /\ A(i, j) => A(i, k) \/ A(k, j)
  BY <1>2 DEF Ahead
<1>4. ASSUME NEW i \in 1 .. n, NEW j \in 1 .. n
      PROVE  <<i, j>> \in R <=> A(i, j) \/ (~A(j, i) /\ i < j)
  <2>1. i \in DOMAIN s /\ j \in DOMAIN s
    BY <1>1
  <2> QED BY <2>1, OrderingIs
<1> HIDE DEF R, n
<1>5. ASSUME NEW i \in 1 .. n, NEW j \in 1 .. n
      PROVE  <<i, j>> \in B <=> A(i, j)
  <2>1. <<i, j>> \in (1 .. n) \X (1 .. n) /\ <<i, j>>[1] = i /\ <<i, j>>[2] = j
    OBVIOUS
  <2> QED BY <2>1
<1> HIDE DEF B
<1>6. /\ \A i, j \in 1 .. n : ~(<<i, j>> \in B /\ <<j, i>> \in B)
      /\ \A i, j, k \in 1 .. n : <<i, j>> \in B => <<i, k>> \in B \/ <<k, j>> \in B
      /\ \A i, j \in 1 .. n :
           <<i, j>> \in R <=> <<i, j>> \in B \/ (<<j, i>> \notin B /\ i < j)
  BY <1>3, <1>4, <1>5
<1>7. StrictOrder(R, n)
  BY <1>1, <1>6, WeakToStrict
<1> QED BY <1>7 DEF R, n

\* r has the elements of s, each in its place by the order of their positions.
PutInOrder(s, r, R, p) ==
  Arranged(p, R, Len(s)) /\ \A k \in 1 .. Len(s) : r[k] = s[p[k]]

LEMMA PutInOrderIs ==
  ASSUME NEW T, NEW s \in Seq(T), NEW R, StrictOrder(R, Len(s)),
         NEW p, p = Placed(R, Len(s)),
         NEW r, r = [k \in 1 .. Len(s) |-> s[p[k]]]
  PROVE  r \in Seq(T) /\ Len(r) = Len(s) /\ PutInOrder(s, r, R, p)
<1>1. PICK n \in Nat : n = Len(s) /\ DOMAIN s = 1 .. n
  BY LenProperties
<1>2. Arranged(p, R, n)
  BY <1>1, PlaceIs
<1>3. \A k \in 1 .. n : p[k] \in 1 .. n
  BY <1>2 DEF Arranged
<1>4. \A k \in 1 .. n : s[p[k]] \in T
  BY <1>1, <1>3, ElementOfSeq
<1>5. r = [k \in 1 .. n |-> s[p[k]]]
  BY <1>1
<1>6. r \in [1 .. n -> T] /\ \A k \in 1 .. n : r[k] = s[p[k]]
  BY <1>4, <1>5
<1>7. r \in Seq(T) /\ Len(r) = n
  BY <1>1, <1>6
<1>8. PutInOrder(s, r, R, p)
  BY <1>1, <1>2, <1>6 DEF PutInOrder
<1> QED BY <1>1, <1>7, <1>8

LEMMA StableSortDef ==
  ASSUME NEW s, NEW f, NEW key, NEW descending, NEW D, D = DOMAIN s,
         NEW R, R = Ordering(s, f, key, descending)
  PROVE  StableSort(s, f, key, descending)
           = [k \in D |-> s[CHOOSE i \in D : Place(R, D, i) = k]]
BY DEF StableSort

\* A stable sort puts every element in one place, by the order.
LEMMA StableSortIs ==
  ASSUME None \notin Value, NEW T, NEW s \in Seq(T), NEW f, NEW key, NEW descending,
         Comparable(s, f, key)
  PROVE  LET r == StableSort(s, f, key, descending)
         IN  /\ r \in Seq(T) /\ Len(r) = Len(s)
             /\ \E p : PutInOrder(s, r, Ordering(s, f, key, descending), p)
<1>1. PICK R : R = Ordering(s, f, key, descending)
  OBVIOUS
<1>2. PICK D : D = DOMAIN s /\ D = 1 .. Len(s)
  BY LenProperties
<1>3. StrictOrder(R, Len(s))
  BY <1>1, OrderingStrict
<1>4. PICK r : r = StableSort(s, f, key, descending)
  OBVIOUS
<1>5. r = [k \in D |-> s[CHOOSE i \in D : Place(R, D, i) = k]]
  BY <1>1, <1>2, <1>4, StableSortDef, SMTT(30)
<1>6. PICK p : p = Placed(R, Len(s))
  OBVIOUS
<1>7. p = [k \in D |-> CHOOSE i \in D : Place(R, D, i) = k]
  BY <1>2, <1>6 DEF Placed
<1>8. r = [k \in 1 .. Len(s) |-> s[p[k]]]
  BY <1>2, <1>5, <1>7
<1>9. r \in Seq(T) /\ Len(r) = Len(s) /\ PutInOrder(s, r, R, p)
  BY <1>3, <1>6, <1>8, PutInOrderIs
<1> QED BY <1>1, <1>4, <1>9

-----------------------------------------------------------------------------
(* What queries answer *)

LiveRows == {Row(x) : x \in [id : PosNat, rec : Record]}

LEMMA LiveRowsAre ==
  ASSUME table \in Seq(Line)
  PROVE  /\ Rows \in Seq(LiveRows)
         /\ Len(Rows) \in Nat /\ DOMAIN Rows = 1 .. Len(Rows)
<1>1. /\ Len(Rows) = Len(Live) /\ DOMAIN Rows = 1 .. Len(Live)
      /\ \A k \in DOMAIN Live : Rows[k] = Row(Live[k])
  BY RowsAre
<1>2. /\ Live \in Seq(Line) /\ Len(Live) \in Nat /\ DOMAIN Live = 1 .. Len(Live)
      /\ \A k \in DOMAIN Live : Live[k].id \in PosNat /\ Live[k].rec \in Record
  BY LiveIs
<1>3. \A k \in DOMAIN Live : Live[k] \in [id : PosNat, rec : Record]
  <2> SUFFICES ASSUME NEW k \in DOMAIN Live
               PROVE  Live[k] \in [id : PosNat, rec : Record]
    OBVIOUS
  <2>1. PICK x \in Line : x = Live[k]
    BY <1>2, ElementOfSeq
  <2>2. x.id \in PosNat /\ x.rec \in Record
    BY <1>2, <2>1
  <2>3. x = [id |-> x.id, rec |-> x.rec]
    BY DEF Line
  <2>4. x \in [id : PosNat, rec : Record]
    BY <2>2, <2>3
  <2> QED BY <2>1, <2>4
<1>4. \A k \in 1 .. Len(Live) : Rows[k] \in LiveRows
  BY <1>1, <1>2, <1>3 DEF LiveRows
<1>5. Rows = [k \in 1 .. Len(Live) |-> Rows[k]]
  BY <1>1 DEF Rows
<1>6. Rows \in [1 .. Len(Live) -> LiveRows]
  BY <1>4, <1>5
<1> QED BY <1>1, <1>2, <1>6

\* No two rows are the same: each has the id of its line.
LEMMA RowsDiffer ==
  ASSUME table \in Seq(Line), Unique(table)
  PROVE  \A k, l \in DOMAIN Rows : Rows[k] = Rows[l] => k = l
<1>1. /\ DOMAIN Rows = DOMAIN Live
      /\ \A k \in DOMAIN Live : Rows[k] = Row(Live[k])
  BY RowsAre, LiveIs
<1>2. \A k, l \in DOMAIN Live : Live[k].id = Live[l].id => k = l
  BY LiveIs DEF Unique
<1>3. \A x : Row(x)["id"] = x.id
  BY DEF Row
<1> QED BY <1>1, <1>2, <1>3

LEMMA RowValue ==
  ASSUME "id" \notin Fields, NEW r \in LiveRows, NEW f \in Fields
  PROVE  Get(r, f) = None \/ Get(r, f) \in Value
<1>1. PICK x \in [id : PosNat, rec : Record] : r = Row(x)
  BY DEF LiveRows
<1>2. x.rec \in [Fields -> Values]
  BY <1>1 DEF Record
<1>3. r[f] = x.rec[f]
  BY <1>1 DEF Row
<1>4. r[f] \in Values
  BY <1>2, <1>3
<1>5. \A v \in Values : v = Absent \/ v = None \/ v \in Value
  BY QueriesAssumption
<1> QED BY <1>4, <1>5 DEF Get

LEMMA NoneIsNone ==
  /\ None \notin Value
  /\ None \notin LiveRows
<1>1. None \notin Value
  BY QueriesAssumption
<1>2. LiveRows \subseteq [Fields \cup {"id"} -> Values \cup Nat]
  <2> SUFFICES ASSUME NEW x \in [id : PosNat, rec : Record]
               PROVE  Row(x) \in [Fields \cup {"id"} -> Values \cup Nat]
    BY DEF LiveRows
  <2>1. x.id \in Nat /\ \A f \in Fields : x.rec[f] \in Values
    BY DEF PosNat, Record
  <2>2. \A f \in Fields \cup {"id"} :
          (IF f = "id" THEN x.id ELSE x.rec[f]) \in Values \cup Nat
    BY <2>1
  <2> QED BY <2>2 DEF Row
<1>3. None \notin LiveRows
  BY <1>2, QueriesAssumption
<1> QED BY <1>1, <1>3

LEMMA MinOf ==
  ASSUME NEW S \in SUBSET Nat, S # {}
  PROVE  Min(S) \in S
<1>1. PICK m \in S : \A y \in S : ~(y < m)
  BY LeastNumber
<1>2. \A y \in S : m <= y
  BY <1>1
<1> QED BY <1>1, <1>2 DEF Min

LEMMA TestAnswers ==
  ASSUME NEW p \in Predicates, NEW r
  PROVE  Test(p, r) \in {"yes", "no", "raises"}
<1> DEFINE v == Get(r, p.field)
           w == p.target
           A == {"yes", "no", "raises"}
<1>1. \A b : Answer(b) \in A
  BY DEF Answer
<1>2. p.op \in Orders \cup Texts \cup {"eq", "ne", "in", "nin", "exists"}
  BY QueriesAssumption
<1>3. Compared(p.op, v, w) \in A
  BY <1>1 DEF Compared
<1>4. ("exists" \notin Orders) /\ ("exists" \notin Texts)
  BY DEF Orders, Texts
<1>5. Orders \cap (Texts \cup {"eq", "ne", "in", "nin", "exists"}) = {}
  BY DEF Orders, Texts
<1>6. Texts \cap {"eq", "ne", "in", "nin", "exists"} = {}
  BY DEF Texts
<1> HIDE DEF A
<1>7. CASE p.op \in Orders
  <2>1. Test(p, r) = Compared(p.op, v, w)
    BY <1>5, <1>7 DEF Test
  <2> QED BY <1>3, <2>1 DEF A
<1>8. CASE p.op \in Texts
  <2>1. Test(p, r) = IF ~Is(v, "str") THEN "no"
                     ELSE IF ~Is(w, "str") THEN "raises"
                     ELSE Answer(InText(p.op, w.chars, v.chars))
    BY <1>5, <1>6, <1>8 DEF Test
  <2> QED BY <1>1, <2>1 DEF A
<1>9. CASE p.op \in {"eq", "ne", "in", "nin", "exists"}
  <2>1. p.op \notin Orders /\ p.op \notin Texts
    BY <1>5, <1>6, <1>9
  <2>2. CASE p.op = "eq"
    <3>1. Test(p, r) = Answer(v = w)
      BY <2>1, <2>2 DEF Test
    <3> QED BY <1>1, <3>1 DEF A
  <2>3. CASE p.op = "ne"
    <3>1. Test(p, r) = Answer(v # w)
      BY <2>1, <2>3 DEF Test
    <3> QED BY <1>1, <3>1 DEF A
  <2>4. CASE p.op = "in"
    <3>1. Test(p, r) = Answer(v \in w)
      BY <2>1, <2>4 DEF Test
    <3> QED BY <1>1, <3>1 DEF A
  <2>5. CASE p.op = "nin"
    <3>1. Test(p, r) = Answer(v \notin w)
      BY <2>1, <2>5 DEF Test
    <3> QED BY <1>1, <3>1 DEF A
  <2>6. CASE p.op = "exists"
    <3>1. Test(p, r) = Answer((r[p.field] # Absent) = w)
      BY <2>1, <2>6 DEF Test
    <3> QED BY <1>1, <3>1 DEF A
  <2> QED BY <1>9, <2>2, <2>3, <2>4, <2>5, <2>6
<1> QED BY <1>2, <1>7, <1>8, <1>9

LEMMA VerdictAnswers ==
  ASSUME NEW ps \in Seq(Predicates), NEW r
  PROVE  Verdict(ps, r) \in {"yes", "no", "raises"}
<1> DEFINE stops == {k \in DOMAIN ps : Test(ps[k], r) # "yes"}
<1>1. DOMAIN ps = 1 .. Len(ps) /\ Len(ps) \in Nat
      /\ \A k \in DOMAIN ps : ps[k] \in Predicates
  BY LenProperties, ElementOfSeq
<1>2. stops \in SUBSET Nat /\ stops \subseteq DOMAIN ps
  BY <1>1
<1>3. Verdict(ps, r) = IF stops = {} THEN "yes" ELSE Test(ps[Min(stops)], r)
  BY DEF Verdict
<1> HIDE DEF stops
<1>4. stops # {} => Min(stops) \in DOMAIN ps
  BY <1>2, MinOf
<1>5. stops # {} => Test(ps[Min(stops)], r) \in {"yes", "no", "raises"}
  BY <1>1, <1>4, TestAnswers
<1> QED BY <1>3, <1>5

LEMMA Shuffled ==
  ASSUME NEW l \in Seq(LiveRows), NEW p \in Bijection(DOMAIN l, DOMAIN l),
         NEW r, r = [k \in DOMAIN l |-> l[p[k]]]
  PROVE  r \in Seq(LiveRows) /\ Len(r) = Len(l)
<1>1. PICK n \in Nat : n = Len(l) /\ DOMAIN l = 1 .. n
  BY LenProperties
<1>2. p \in [1 .. n -> 1 .. n]
  BY <1>1 DEF Bijection, Injection
<1>3. \A k \in 1 .. n : l[p[k]] \in LiveRows
  BY <1>1, <1>2, ElementOfSeq
<1>4. r \in [1 .. n -> LiveRows]
  BY <1>1, <1>3
<1> QED BY <1>1, <1>4

LEMMA LiveComparable ==
  ASSUME "id" \notin Fields, NEW l \in Seq(LiveRows), NEW f \in Fields
  PROVE  /\ Comparable(l, f, "text")
         /\ ~Mixed(f, l) => Comparable(l, f, "value")
<1>1. \A k \in DOMAIN l : l[k] \in LiveRows
  BY LenProperties, ElementOfSeq
<1>2. \A k \in DOMAIN l : Get(l[k], f) = None \/ Get(l[k], f) \in Value
  BY <1>1, RowValue
<1>3. \A key : \A k \in DOMAIN l : Sortable(f, key, l[k])
  BY <1>2 DEF Sortable
<1>4. \A k, m \in DOMAIN l : Alike(f, "text", l[k], l[m])
  BY DEF Alike
<1>5. ~Mixed(f, l) => \A k, m \in DOMAIN l : Alike(f, "value", l[k], l[m])
  BY DEF Alike, Mixed
<1> QED BY <1>3, <1>4, <1>5 DEF Comparable

\* The lists that a query can sort its records into.
LEMMA SortedIs ==
  ASSUME "id" \notin Fields, NEW q, NEW l \in Seq(LiveRows),
         q.key \in Fields \cup {None}, NEW s \in Sorted(q, l)
  PROVE  /\ s \in Seq(LiveRows) /\ Len(s) = Len(l)
         /\ q.key # None /\ ~FallsBack(q, l) =>
              \E p : PutInOrder(l, s, Ordering(l, q.key, "value", q.descending), p)
<1>1. CASE q.key = None
  BY <1>1 DEF Sorted
<1>2. CASE q.key # None /\ FallsBack(q, l)
  <2>1. q.key \in Fields
    BY <1>2
  <2>2. PICK any \in {[k \in DOMAIN l |-> l[p[k]]] : p \in Bijection(DOMAIN l, DOMAIN l)} :
          s = StableSort(any, q.key, "text", q.descending)
    BY <1>2 DEF Sorted
  <2>3. PICK p \in Bijection(DOMAIN l, DOMAIN l) : any = [k \in DOMAIN l |-> l[p[k]]]
    BY <2>2
  <2>4. any \in Seq(LiveRows) /\ Len(any) = Len(l)
    BY <2>3, Shuffled
  <2>5. Comparable(any, q.key, "text")
    BY <2>1, <2>4, LiveComparable
  <2>6. s \in Seq(LiveRows) /\ Len(s) = Len(any)
    BY <2>2, <2>4, <2>5, StableSortIs, NoneIsNone
  <2> QED BY <1>2, <2>4, <2>6
<1>3. CASE q.key # None /\ ~FallsBack(q, l)
  <2>1. q.key \in Fields /\ ~Mixed(q.key, l)
    BY <1>3 DEF FallsBack
  <2>2. s = StableSort(l, q.key, "value", q.descending)
    BY <1>3 DEF Sorted
  <2>3. Comparable(l, q.key, "value")
    BY <2>1, LiveComparable
  <2>4. /\ s \in Seq(LiveRows) /\ Len(s) = Len(l)
        /\ \E p : PutInOrder(l, s, Ordering(l, q.key, "value", q.descending), p)
    BY <2>2, <2>3, StableSortIs, NoneIsNone
  <2> QED BY <2>4
<1> QED BY <1>1, <1>2, <1>3

Whole(q) == q.limit = None /\ q.offset = 0

LEMMA WindowWhole ==
  ASSUME NEW q, Whole(q), NEW T, NEW s \in Seq(T)
  PROVE  Window(q, s) = s
<1>1. PICK r : r = SubSeq(s, 0 + 1, Len(s))
  OBVIOUS
<1>2. r \in Seq(T) /\ Len(r) = Len(s) /\ \A k \in 1 .. Len(r) : r[k] = s[0 + k]
  BY <1>1, SuffixIs, LenProperties
<1>3. \A k \in 1 .. Len(r) : r[k] = s[k]
  BY <1>2
<1>4. r = s
  BY <1>2, <1>3, SeqEqual
<1> QED BY <1>1, <1>4 DEF Window, Whole

\* A function of a first segment of the numbers is a sequence.
LEMMA SegmentIs ==
  ASSUME NEW T, NEW n \in Nat, NEW f \in [1 .. n -> T]
  PROVE  f \in Seq(T)
OBVIOUS

\* A query of the properties: what it reads, and that it has no window.
LEMMA QueryIs ==
  ASSUME NEW q \in Queries
  PROVE  /\ q.records = Rows /\ q.preds \in Seq(Predicates)
         /\ q.key \in Fields \cup {None} /\ Whole(q)
         /\ {"limit", "offset"} \subseteq DOMAIN q
<1>1. PICK c \in [preds : [1 .. 2 -> Predicates], key : Fields \cup {None},
                   descending : BOOLEAN] :
        q = Sort(Filter(QueryOf(Rows), c.preds), c.key, c.descending)
  BY DEF Queries
<1>2. PICK ps \in Seq(Predicates) : ps = c.preds
  <2>1. c.preds \in [1 .. 2 -> Predicates] /\ 2 \in Nat
    OBVIOUS
  <2>2. c.preds \in Seq(Predicates)
    BY <2>1, SegmentIs
  <2> QED BY <2>2
<1>3. PICK rows : rows = Rows
  OBVIOUS
<1> DEFINE q0 == Filter(QueryOf(rows), ps)
<1>4. /\ q0.records = rows /\ q0.preds = <<>> \o ps
      /\ q0.limit = None /\ q0.offset = 0
      /\ DOMAIN q0 = {"records", "preds", "key", "descending", "limit", "offset"}
  BY DEF Filter, QueryOf
<1>5. <<>> \o ps = ps
  BY <1>2, ConcatEmptySeq
<1> HIDE DEF q0
<1>6. q = [q0 EXCEPT !.key = c.key, !.descending = c.descending]
  BY <1>1, <1>2, <1>3 DEF q0, Sort
<1>7. /\ q.records = q0.records /\ q.preds = q0.preds /\ q.key = c.key
      /\ q.limit = q0.limit /\ q.offset = q0.offset
      /\ DOMAIN q = DOMAIN q0
  BY <1>4, <1>6
<1> QED BY <1>2, <1>3, <1>4, <1>5, <1>7 DEF Whole

Matching(q) == {k \in DOMAIN q.records : Verdict(q.preds, q.records[k]) = "yes"}

LEMMA FilteredIs ==
  ASSUME table \in Seq(Line), NEW q \in Queries
  PROVE  /\ Matching(q) \in SUBSET (DOMAIN Rows)
         /\ Filtered(q) = Keep(Rows, Matching(q))
         /\ Filtered(q) \in Seq(LiveRows)
         /\ Len(Filtered(q)) = Cardinality(Matching(q))
         /\ IsFiniteSet(Matching(q))
         /\ Count(q) = Cardinality(Matching(q)) /\ Count(q) \in Nat
<1>1. q.records = Rows /\ Rows \in Seq(LiveRows)
      /\ Len(Rows) \in Nat /\ DOMAIN Rows = 1 .. Len(Rows)
  BY QueryIs, LiveRowsAre
<1> DEFINE K == Matching(q)
<1>2. K \in SUBSET (DOMAIN Rows)
  BY <1>1 DEF Matching
<1>3. Filtered(q) = Keep(Rows, K)
  BY <1>1 DEF Filtered, Matching
<1> HIDE DEF K
<1>4. Filtered(q) \in Seq(LiveRows) /\ Len(Filtered(q)) = Cardinality(K)
  BY <1>1, <1>2, <1>3, KeepIs
<1>5. IsFiniteSet(K) /\ Cardinality(K) \in Nat
  BY <1>1, <1>2, PositionsFinite
<1> QED BY <1>2, <1>3, <1>4, <1>5 DEF K, Count

\* What all returns, of a query that has no window.
LEMMA AllIs ==
  ASSUME "id" \notin Fields, table \in Seq(Line), NEW q \in Queries, NEW s \in All(q)
  PROVE  /\ s \in Sorted(q, Filtered(q))
         /\ s \in Seq(LiveRows) /\ Len(s) = Len(Filtered(q))
<1>1. PICK r \in Sorted(q, Filtered(q)) : s = Window(q, r)
  BY DEF All
<1>2. Filtered(q) \in Seq(LiveRows) /\ q.key \in Fields \cup {None} /\ Whole(q)
  BY FilteredIs, QueryIs
<1>3. r \in Seq(LiveRows) /\ Len(r) = Len(Filtered(q))
  BY <1>2, SortedIs
<1>4. s = r
  BY <1>1, <1>2, <1>3, WindowWhole
<1> QED BY <1>3, <1>4

\* The verdict of a query on a row, and where exists stops.
LEMMA ExistsIs ==
  ASSUME table \in Seq(Line), NEW q \in Queries
  PROVE  /\ Raises(q) => Exists(q) # "no"
         /\ ~Raises(q) => /\ Matching(q) = {} => Exists(q) = "no"
                          /\ Matching(q) # {} => Exists(q) = "yes"
<1> DEFINE V(k) == Verdict(q.preds, q.records[k])
           D == DOMAIN q.records
           stops == {k \in D : V(k) # "no"}
<1>1. \A k : V(k) \in {"yes", "no", "raises"}
  BY QueryIs, VerdictAnswers
<1>2. D \in SUBSET Nat
  BY QueryIs, LiveRowsAre
<1>3. Exists(q) = IF stops = {} THEN "no" ELSE V(Min(stops))
  BY DEF Exists
<1>4. Raises(q) <=> \E k \in D : V(k) = "raises"
  BY DEF Raises
<1>5. \A k : k \in Matching(q) <=> k \in D /\ V(k) = "yes"
  BY DEF Matching
<1> HIDE DEF V, D
<1>6. stops # {} => Min(stops) \in stops
  BY <1>2, MinOf
<1>7. stops # {} => Min(stops) \in D /\ V(Min(stops)) # "no"
  BY <1>6
<1>8. \A k \in D : V(k) # "no" => stops # {}
  OBVIOUS
<1> HIDE DEF stops
<1>9. Raises(q) => Exists(q) # "no"
  BY <1>3, <1>4, <1>7, <1>8
<1>10. ASSUME ~Raises(q), Matching(q) = {} PROVE Exists(q) = "no"
  <2>1. stops = {}
    BY <1>1, <1>4, <1>5, <1>7, <1>10
  <2> QED BY <1>3, <2>1
<1>11. ASSUME ~Raises(q), Matching(q) # {} PROVE Exists(q) = "yes"
  <2>1. stops # {}
    BY <1>5, <1>8, <1>11
  <2>2. V(Min(stops)) \in {"yes", "no", "raises"}
    BY <1>1
  <2> QED BY <1>3, <1>4, <1>7, <1>11, <2>1, <2>2
<1> QED BY <1>9, <1>10, <1>11

LEMMA ExistsFromTypes ==
  ASSUME "id" \notin Fields, TypeInv
  PROVE  ExistsAgrees
<1>1. table \in Seq(Line)
  BY DEF TypeInv
<1>2. SUFFICES ASSUME NEW q \in Queries, ~Raises(q)
               PROVE  /\ Exists(q) = "yes" <=> Count(q) > 0
                      /\ \A s \in All(q) : Len(s) = Count(q)
                      /\ \A s \in All(q) : First(s) = None <=> Exists(q) = "no"
  BY <1>1, ExistsIs DEF ExistsAgrees
<1>3. /\ Count(q) = Cardinality(Matching(q)) /\ Count(q) \in Nat
      /\ Len(Filtered(q)) = Count(q) /\ IsFiniteSet(Matching(q))
  BY <1>1, FilteredIs
<1>4. Matching(q) = {} <=> Count(q) = 0
  BY <1>3, FS_EmptySet
<1>5. /\ Matching(q) = {} => Exists(q) = "no"
      /\ Matching(q) # {} => Exists(q) = "yes"
  BY <1>1, <1>2, ExistsIs
<1>6. Exists(q) = "yes" <=> Count(q) > 0
  BY <1>3, <1>4, <1>5
<1>7. ASSUME NEW s \in All(q)
      PROVE  Len(s) = Count(q) /\ (First(s) = None <=> Exists(q) = "no")
  <2>1. s \in Seq(LiveRows) /\ Len(s) = Count(q)
    BY <1>1, <1>3, AllIs
  <2>2. s = <<>> <=> Count(q) = 0
    BY <2>1, EmptySeq
  <2>3. s # <<>> => Head(s) \in LiveRows
    BY <2>1
  <2>4. First(s) = None <=> s = <<>>
    BY <2>3, NoneIsNone DEF First
  <2> QED BY <1>4, <1>5, <2>1, <2>2, <2>4
<1> QED BY <1>6, <1>7

\* exists, count and first agree with all, and where all raises, exists does
\* not answer no (query.py:321 "if at least one record matches the query").
THEOREM RecordsExistsAgrees ==
  ASSUME "id" \notin Fields
  PROVE  Spec => []ExistsAgrees
<1>1. TypeInv => ExistsAgrees
  BY ExistsFromTypes
<1>2. Spec => [](TypeInv /\ IdInv)
  BY RecordsTyped
<1> QED BY <1>1, <1>2, PTL

\* Where a row of the filtered list is in the collection.
LEMMA FilteredRow ==
  ASSUME table \in Seq(Line), Unique(table), NEW q \in Queries,
         NEW a \in DOMAIN Filtered(q)
  PROVE  /\ Filtered(q)[a] = Rows[Nth(Matching(q), a)]
         /\ Nth(Matching(q), a) \in DOMAIN Rows
         /\ (CHOOSE k \in DOMAIN Rows : Rows[k] = Filtered(q)[a]) = Nth(Matching(q), a)
<1>1. /\ Matching(q) \in SUBSET (DOMAIN Rows)
      /\ Filtered(q) = Keep(Rows, Matching(q)) /\ Rows \in Seq(LiveRows)
  BY FilteredIs, LiveRowsAre
<1>2. /\ Nth(Matching(q), a) \in Matching(q)
      /\ Filtered(q)[a] = Rows[Nth(Matching(q), a)]
  BY <1>1, KeepIs
<1>3. \A k, l \in DOMAIN Rows : Rows[k] = Rows[l] => k = l
  BY RowsDiffer
<1> DEFINE h == Nth(Matching(q), a)
<1>4. h \in DOMAIN Rows /\ Filtered(q)[a] = Rows[h]
  BY <1>1, <1>2
<1> HIDE DEF h
<1>5. (CHOOSE k \in DOMAIN Rows : Rows[k] = Rows[h]) = h
  BY <1>3, <1>4
<1> QED BY <1>4, <1>5 DEF h

LEMMA SortedFromTypes ==
  ASSUME "id" \notin Fields, TypeInv, IdInv
  PROVE  SortedRight
<1>1. table \in Seq(Line) /\ Unique(table)
  BY DEF TypeInv, IdInv
<1> DEFINE Spot(r) == CHOOSE k \in DOMAIN Rows : Rows[k] = r
           Goes(q, r1, r2) == IF q.descending THEN ByValue(q.key, r2, r1)
                              ELSE ByValue(q.key, r1, r2)
<1>2. ASSUME NEW q \in Queries, q.key # None, NEW s \in All(q),
             ~FallsBack(q, Filtered(q))
      PROVE  /\ ToSet(s) = ToSet(Filtered(q))
             /\ \A j, k \in DOMAIN s :
                  j < k => \/ Goes(q, s[j], s[k])
                           \/ /\ ~Goes(q, s[k], s[j])
                              /\ Spot(s[j]) < Spot(s[k])
  <2>1. PICK l : l = Filtered(q)
    OBVIOUS
  <2>2. l \in Seq(LiveRows) /\ q.key \in Fields \cup {None}
    BY <1>1, <2>1, FilteredIs, QueryIs
  <2>3. s \in Sorted(q, l) /\ s \in Seq(LiveRows) /\ Len(s) = Len(l)
    BY <1>1, <2>1, AllIs
  <2>4. PICK R : R = Ordering(l, q.key, "value", q.descending)
    OBVIOUS
  <2>5. \E p : PutInOrder(l, s, R, p)
    BY <1>2, <2>1, <2>2, <2>3, <2>4, SortedIs
  <2>6. PICK p : PutInOrder(l, s, R, p)
    BY <2>5
  <2>7. PICK n \in Nat : n = Len(l) /\ DOMAIN l = 1 .. n /\ DOMAIN s = 1 .. n
    BY <2>2, <2>3, LenProperties
  <2>8. /\ p \in [1 .. n -> 1 .. n]
        /\ \A k \in 1 .. n : s[k] = l[p[k]]
        /\ \A j, k \in 1 .. n : j < k => <<p[j], p[k]>> \in R
        /\ \A i \in 1 .. n : \E k \in 1 .. n : p[k] = i
    BY <2>6, <2>7 DEF PutInOrder, Arranged
  <2>9. ToSet(s) = ToSet(l)
    <3>1. \A i : i \in ToSet(s) <=> \E k \in 1 .. n : s[k] = i
      BY <2>7, ToSetIs
    <3>2. \A i : i \in ToSet(l) <=> \E k \in 1 .. n : l[k] = i
      BY <2>7, ToSetIs
    <3>3. \A i : i \in ToSet(s) => i \in ToSet(l)
      BY <2>8, <3>1, <3>2
    <3>4. ASSUME NEW i, i \in ToSet(l)
          PROVE  i \in ToSet(s)
      <4>1. PICK k \in 1 .. n : l[k] = i
        BY <3>2, <3>4
      <4>2. PICK m \in 1 .. n : p[m] = k
        BY <2>8
      <4>3. s[m] = i
        BY <2>8, <4>1, <4>2
      <4> QED BY <3>1, <4>3
    <3> QED BY <3>3, <3>4
  <2>10. ASSUME NEW j \in 1 .. n, NEW k \in 1 .. n, j < k
         PROVE  \/ Goes(q, s[j], s[k])
                \/ ~Goes(q, s[k], s[j]) /\ Spot(s[j]) < Spot(s[k])
    <3>1. PICK a \in 1 .. n : a = p[j] /\ s[j] = l[a]
      BY <2>8
    <3>2. PICK b \in 1 .. n : b = p[k] /\ s[k] = l[b]
      BY <2>8
    <3>3. <<a, b>> \in R
      BY <2>8, <2>10, <3>1, <3>2
    <3>4. \/ Ahead(l, q.key, "value", q.descending, a, b)
          \/ ~Ahead(l, q.key, "value", q.descending, b, a) /\ a < b
      BY <2>4, <2>7, <3>3, OrderingIs
    <3>5. /\ Ahead(l, q.key, "value", q.descending, a, b) <=> Goes(q, l[a], l[b])
          /\ Ahead(l, q.key, "value", q.descending, b, a) <=> Goes(q, l[b], l[a])
      BY DEF Ahead, Precedes
    <3>6. a < b => Spot(l[a]) < Spot(l[b])
      <4>1. /\ Spot(l[a]) = Nth(Matching(q), a)
            /\ Spot(l[b]) = Nth(Matching(q), b)
        BY <1>1, <2>1, <2>7, FilteredRow
      <4>2. /\ Matching(q) \in SUBSET (DOMAIN Rows) /\ l = Keep(Rows, Matching(q))
            /\ Rows \in Seq(LiveRows)
        BY <1>1, <2>1, FilteredIs, LiveRowsAre
      <4>3. a < b => Nth(Matching(q), a) < Nth(Matching(q), b)
        BY <2>7, <4>2, KeepIs
      <4> QED BY <4>1, <4>3
    <3> HIDE DEF Goes, Spot
    <3> QED BY <3>1, <3>2, <3>4, <3>5, <3>6
  <2> HIDE DEF Goes, Spot
  <2>11. \A j, k \in DOMAIN s :
           j < k => \/ Goes(q, s[j], s[k])
                    \/ ~Goes(q, s[k], s[j]) /\ Spot(s[j]) < Spot(s[k])
    BY <2>7, <2>10
  <2> QED BY <2>1, <2>9, <2>11
<1>3. ASSUME NEW q \in {x \in Queries : x.key # None}, NEW s \in All(q)
      PROVE  Raises(q) \/ FallsBack(q, Filtered(q)) \/
               /\ ToSet(s) = ToSet(Filtered(q))
               /\ \A j, k \in DOMAIN s :
                    j < k => \/ Goes(q, s[j], s[k])
                             \/ /\ ~Goes(q, s[k], s[j])
                                /\ Spot(s[j]) < Spot(s[k])
  BY <1>2, <1>3
<1>4. ASSUME NEW q \in {x \in Queries : x.key # None}, NEW r1, NEW r2
      PROVE  /\ Get(r1, q.key) # None /\ Get(r2, q.key) # None =>
                  (Goes(q, r1, r2) <=> IF q.descending
                                       THEN Less(Get(r2, q.key), Get(r1, q.key))
                                       ELSE Less(Get(r1, q.key), Get(r2, q.key)))
             /\ Get(r1, q.key) = None /\ Get(r2, q.key) = None => ~Goes(q, r1, r2)
             /\ Get(r1, q.key) = None /\ Get(r2, q.key) # None /\ ~q.descending =>
                  ~Goes(q, r1, r2) /\ Goes(q, r2, r1)
  BY DEF ByValue
<1> HIDE DEF Goes
<1>5. ASSUME NEW q \in {x \in Queries : x.key # None}, NEW s \in All(q),
             ~Raises(q), ~FallsBack(q, Filtered(q)),
             NEW j \in DOMAIN s, NEW k \in DOMAIN s, j < k
      PROVE  /\ Get(s[j], q.key) = None /\ Get(s[k], q.key) = None =>
                  Spot(s[j]) < Spot(s[k])
             /\ Get(s[j], q.key) = None /\ ~(Get(s[k], q.key) = None) => q.descending
             /\ ~(Get(s[j], q.key) = None) /\ ~(Get(s[k], q.key) = None) =>
                  \/ IF q.descending THEN Less(Get(s[k], q.key), Get(s[j], q.key))
                     ELSE Less(Get(s[j], q.key), Get(s[k], q.key))
                  \/ /\ ~(IF q.descending THEN Less(Get(s[j], q.key), Get(s[k], q.key))
                          ELSE Less(Get(s[k], q.key), Get(s[j], q.key)))
                     /\ Spot(s[j]) < Spot(s[k])
  <2>1. Goes(q, s[j], s[k]) \/ (~Goes(q, s[k], s[j]) /\ Spot(s[j]) < Spot(s[k]))
    BY <1>3, <1>5
  <2> HIDE DEF Spot
  <2> QED BY <1>4, <2>1
<1>6. ASSUME NEW q \in {x \in Queries : x.key # None}, NEW s \in All(q),
             ~Raises(q), ~FallsBack(q, Filtered(q))
      PROVE  ToSet(s) = ToSet(Filtered(q))
  BY <1>3, <1>6
<1> QED BY <1>5, <1>6 DEF SortedRight

\* A sort that does not fall back to str() is by value, stable in both
\* directions, loses no record and invents none, and when it is ascending
\* leaves the records without a value at the end (query.py:251).
THEOREM RecordsSortedRight ==
  ASSUME "id" \notin Fields
  PROVE  Spec => []SortedRight
<1>1. TypeInv /\ IdInv => SortedRight
  BY SortedFromTypes
<1>2. Spec => [](TypeInv /\ IdInv)
  BY RecordsTyped
<1> QED BY <1>1, <1>2, PTL

-----------------------------------------------------------------------------
(* Pages *)

\* A page of a query differs from it in the window only.
LEMMA PagedIs ==
  ASSUME NEW q \in Queries, NEW o, NEW size, NEW pg, pg = Limit(Offset(q, o), size)
  PROVE  /\ pg.records = q.records /\ pg.preds = q.preds
         /\ pg.key = q.key /\ pg.descending = q.descending
         /\ pg.offset = o /\ pg.limit = size
<1>1. {"limit", "offset"} \subseteq DOMAIN q
  BY QueryIs
<1> QED BY <1>1 DEF Limit, Offset

\* What the window of a page leaves of a list.
Cut(s, o, size, w) ==
  /\ Len(w) = IF o + size <= Len(s) THEN size
              ELSE IF o <= Len(s) THEN Len(s) - o ELSE 0
  /\ \A j \in 1 .. Len(w) : w[j] = s[o + j]

LEMMA CutIs ==
  ASSUME NEW T, NEW s \in Seq(T), NEW o \in Nat, NEW size \in Nat, size # None,
         NEW pg, pg.offset = o, pg.limit = size
  PROVE  Window(pg, s) \in Seq(T) /\ Cut(s, o, size, Window(pg, s))
<1>1. PICK n \in Nat : n = Len(s)
  BY LenProperties
<1>2. PICK rest : rest = SubSeq(s, o + 1, Len(s))
  OBVIOUS
<1>3. /\ rest \in Seq(T)
      /\ Len(rest) = IF o <= n THEN n - o ELSE 0
      /\ \A k \in 1 .. Len(rest) : rest[k] = s[o + k]
  <2>1. /\ rest \in Seq(T)
        /\ Len(rest) = IF o <= Len(s) THEN Len(s) - o ELSE 0
        /\ \A k \in 1 .. Len(rest) : rest[k] = s[o + k]
    BY <1>2, SuffixIs
  <2> QED BY <1>1, <2>1
<1>4. PICK m \in Nat : m = Len(rest)
  BY <1>3, LenProperties
<1> DEFINE l == IF size <= m THEN size ELSE m
<1>5. Min({size, m}) = l
  <2>1. size \in Int /\ m \in Int
    OBVIOUS
  <2> QED BY <2>1, MinIs
<1>6. PICK w : w = SubSeq(rest, 1, l)
  OBVIOUS
<1>7. l \in Nat /\ l <= Len(rest)
  BY <1>4
<1>8. Window(pg, s) = w
  BY <1>2, <1>4, <1>5, <1>6 DEF Window
<1> HIDE DEF l
<1>9. w \in Seq(T) /\ Len(w) = l /\ \A k \in 1 .. l : w[k] = rest[k]
  BY <1>3, <1>6, <1>7, PrefixIs, SMTT(30)
<1>10. Len(w) = IF o + size <= n THEN size ELSE IF o <= n THEN n - o ELSE 0
  BY <1>1, <1>3, <1>4, <1>9 DEF l
<1>11. \A j \in 1 .. Len(w) : w[j] = s[o + j]
  <2>1. \A j \in 1 .. l : j \in 1 .. Len(rest)
    BY <1>4, <1>7
  <2> QED BY <1>3, <1>9, <2>1
<1> QED BY <1>1, <1>8, <1>9, <1>10, <1>11 DEF Cut

\* Where a sort does not fall back, there is one list, and every page of the
\* query is cut out of it.
LEMMA PageCut ==
  ASSUME "id" \notin Fields, table \in Seq(Line),
         NEW q \in Queries, ~FallsBack(q, Filtered(q)), NEW s \in All(q),
         NEW o \in Nat, NEW size \in Nat, size # None
  PROVE  /\ s \in Seq(LiveRows) /\ Len(s) = Count(q)
         /\ (CHOOSE w \in All(Limit(Offset(q, o), size)) : TRUE) \in Seq(LiveRows)
         /\ Cut(s, o, size, CHOOSE w \in All(Limit(Offset(q, o), size)) : TRUE)
<1>1. PICK pg : pg = Limit(Offset(q, o), size)
  OBVIOUS
<1>2. /\ pg.records = q.records /\ pg.preds = q.preds
      /\ pg.key = q.key /\ pg.descending = q.descending
      /\ pg.offset = o /\ pg.limit = size
  BY <1>1, PagedIs
<1>3. PICK l : l = Filtered(q)
  OBVIOUS
<1>4. Filtered(pg) = l
  BY <1>2, <1>3 DEF Filtered
<1>5. s \in Sorted(q, l) /\ s \in Seq(LiveRows) /\ Len(s) = Len(l)
  BY <1>3, AllIs
<1>6. Sorted(q, l) = {s} /\ Sorted(pg, l) = {s}
  <2>1. ~(q.key # None /\ Mixed(q.key, l))
    BY <1>3 DEF FallsBack
  <2>2. PICK u : u = IF q.key = None THEN l
                     ELSE StableSort(l, q.key, "value", q.descending)
    OBVIOUS
  <2>3. Sorted(q, l) = {u} /\ Sorted(pg, l) = {u}
    BY <1>2, <2>1, <2>2 DEF Sorted, FallsBack
  <2> QED BY <1>5, <2>3
<1>7. All(pg) = {Window(pg, s)}
  BY <1>4, <1>6 DEF All
<1>8. PICK c : c = Window(pg, s)
  OBVIOUS
<1>9. (CHOOSE w \in All(pg) : TRUE) = c
  BY <1>7, <1>8
<1>10. c \in Seq(LiveRows) /\ Cut(s, o, size, c)
  BY <1>2, <1>5, <1>8, CutIs
<1>11. Count(q) = Len(l)
  BY <1>3 DEF Count
<1> QED BY <1>1, <1>5, <1>9, <1>10, <1>11

\* What FlattenSeq has put together after each of n sequences.
Joins(seqs, n, f) ==
  f = [i \in 1 .. n |-> IF i = 1 THEN seqs[i] ELSE f[i - 1] \o seqs[i]]

LEMMA JoinsExist ==
  ASSUME NEW seqs, NEW n \in Nat
  PROVE  \E f : Joins(seqs, n, f)
<1> DEFINE M == {m \in Nat : ~ \E f : Joins(seqs, m, f)}
<1>1. SUFFICES ASSUME M # {} PROVE FALSE
  OBVIOUS
<1>2. PICK m \in M : \A y \in M : ~(y < m)
  <2>1. M \in SUBSET Nat
    OBVIOUS
  <2> HIDE DEF M
  <2> QED BY <1>1, <2>1, LeastNumber
<1>3. m \in Nat /\ ~ \E f : Joins(seqs, m, f)
  OBVIOUS
<1>4. m # 0
  <2> DEFINE g == [i \in 1 .. 0 |-> {}]
  <2>1. Joins(seqs, 0, g)
    BY DEF Joins
  <2> QED BY <1>3, <2>1
<1>5. PICK l \in Nat : l = m - 1
  BY <1>3, <1>4
<1>6. PICK f : Joins(seqs, l, f)
  BY <1>2, <1>3, <1>5
<1> DEFINE g == [i \in 1 .. m |->
                   IF i # m THEN f[i]
                   ELSE IF m = 1 THEN seqs[m] ELSE f[l] \o seqs[m]]
<1>7. \A i \in 1 .. m :
        g[i] = IF i = 1 THEN seqs[i] ELSE g[i - 1] \o seqs[i]
  <2> TAKE i \in 1 .. m
  <2>1. CASE i = m /\ m = 1
    BY <2>1
  <2>2. CASE i = m /\ m # 1
    <3>1. l \in 1 .. m /\ l # m /\ l = i - 1
      BY <1>3, <1>4, <1>5, <2>2
    <3>2. g[l] = f[l]
      BY <3>1
    <3>3. g[i] = f[l] \o seqs[i]
      BY <2>2
    <3> HIDE DEF g
    <3> QED BY <2>2, <3>1, <3>2, <3>3
  <2>3. CASE i # m
    <3>1. i \in 1 .. l
      BY <1>3, <1>5, <2>3
    <3>2. f[i] = IF i = 1 THEN seqs[i] ELSE f[i - 1] \o seqs[i]
      BY <1>6, <3>1 DEF Joins
    <3>3. i # 1 => i - 1 \in 1 .. m /\ i - 1 # m
      BY <1>3, <1>5, <3>1
    <3> QED BY <2>3, <3>2, <3>3
  <2> QED BY <2>1, <2>2, <2>3
<1>8. Joins(seqs, m, g)
  <2>1. g = [i \in 1 .. m |-> g[i]]
    OBVIOUS
  <2> HIDE DEF g
  <2> QED BY <1>7, <2>1 DEF Joins
<1> QED BY <1>3, <1>8

Flattens(seqs, n, f) ==
  /\ FlattenSeq(seqs) = f[n]
  /\ f[1] = seqs[1]
  /\ \A i \in 2 .. n : f[i] = f[i - 1] \o seqs[i]

LEMMA FlattenIs ==
  ASSUME NEW seqs, NEW n \in Nat, n # 0, n = Len(seqs)
  PROVE  \E f : Flattens(seqs, n, f)
<1> DEFINE flat == CHOOSE f : Joins(seqs, n, f)
<1>1. FlattenSeq(seqs) = flat[n]
  BY DEF FlattenSeq, Joins
<1>2. Joins(seqs, n, flat)
  BY JoinsExist
<1> HIDE DEF flat
<1>3. /\ \A i \in 1 .. n :
           flat[i] = IF i = 1 THEN seqs[i] ELSE flat[i - 1] \o seqs[i]
      /\ 1 \in 1 .. n
      /\ \A i \in 2 .. n : i \in 1 .. n /\ i # 1
  <2>1. \A i \in 1 .. n :
          flat[i] = IF i = 1 THEN seqs[i] ELSE flat[i - 1] \o seqs[i]
    BY <1>2, Zenon DEF Joins
  <2>2. 1 \in 1 .. n /\ \A i \in 2 .. n : i \in 1 .. n /\ i # 1
    OBVIOUS
  <2> QED BY <2>1, <2>2
<1>4. Flattens(seqs, n, flat)
  BY <1>1, <1>3 DEF Flattens
<1> QED BY <1>4

\* The first o elements of a list, or all there are.
Upto(s, o, w) ==
  /\ Len(w) = IF o <= Len(s) THEN o ELSE Len(s)
  /\ \A j \in 1 .. Len(w) : w[j] = s[j]

LEMMA UptoMore ==
  ASSUME NEW T, NEW s \in Seq(T), NEW o \in Nat, NEW size \in Nat,
         NEW v \in Seq(T), Upto(s, o, v), NEW w \in Seq(T), Cut(s, o, size, w)
  PROVE  v \o w \in Seq(T) /\ Upto(s, o + size, v \o w)
<1>1. PICK n \in Nat : n = Len(s)
  BY LenProperties
<1>2. PICK a \in Nat : a = Len(v)
  BY LenProperties
<1>3. PICK b \in Nat : b = Len(w)
  BY LenProperties
<1>3a. /\ a = IF o <= n THEN o ELSE n
       /\ b = IF o + size <= n THEN size ELSE IF o <= n THEN n - o ELSE 0
       /\ \A i \in 1 .. a : v[i] = s[i]
       /\ \A j \in 1 .. b : w[j] = s[o + j]
  BY <1>1, <1>2, <1>3 DEF Upto, Cut
<1>4. PICK u : u = v \o w
  OBVIOUS
<1>5. /\ u \in Seq(T) /\ Len(u) = a + b
      /\ \A i \in 1 .. a + b : u[i] = IF i <= a THEN v[i] ELSE w[i - a]
  <2>1. /\ v \o w \in Seq(T) /\ Len(v \o w) = Len(v) + Len(w)
        /\ \A i \in 1 .. Len(v) + Len(w) :
             (v \o w)[i] = IF i <= Len(v) THEN v[i] ELSE w[i - Len(v)]
    BY ConcatProperties
  <2> QED BY <1>2, <1>3, <1>4, <2>1
<1>6. a + b = IF o + size <= n THEN o + size ELSE n
  <2>1. CASE o + size <= n
    BY <1>3a, <2>1
  <2>2. CASE ~(o + size <= n) /\ o <= n
    BY <1>3a, <2>2
  <2>3. CASE ~(o <= n)
    BY <1>3a, <2>3
  <2> QED BY <2>1, <2>2, <2>3
<1>7. ASSUME NEW i \in 1 .. a + b PROVE u[i] = s[i]
  <2>1. CASE i <= a
    <3>1. i \in 1 .. a
      BY <1>2, <1>7, <2>1
    <3>2. u[i] = v[i]
      BY <1>5, <1>7, <2>1
    <3>3. v[i] = s[i]
      BY <1>3a, <3>1
    <3> QED BY <3>2, <3>3
  <2>2. CASE ~(i <= a)
    <3> DEFINE j == i - a
    <3>1. j \in 1 .. b /\ (b # 0 => o + j = i)
      BY <1>3a, <1>7, <2>2
    <3> HIDE DEF j
    <3>2. b # 0
      BY <3>1
    <3>3. w[j] = s[o + j]
      BY <1>3a, <3>1
    <3>4. u[i] = w[j]
      BY <1>5, <1>7, <2>2 DEF j
    <3> QED BY <3>1, <3>2, <3>3, <3>4
  <2> QED BY <2>1, <2>2
<1> QED BY <1>1, <1>4, <1>5, <1>6, <1>7 DEF Upto

LEMMA Multiples ==
  ASSUME NEW n \in Nat, NEW size \in Nat, size # 0
  PROVE  /\ n * size \in Nat
         /\ (n + 1) * size = n * size + size
         /\ n <= n * size
<1>1. n * size \in Nat /\ (n + 1) * size = n * size + size
  OBVIOUS
<1>2. n * (size - 1) >= 0 /\ n * size = n * (size - 1) + n
  OBVIOUS
<1> QED BY <1>1, <1>2

\* As many pages as the list has elements, and one more, are all of it.
LEMMA CutsJoin ==
  ASSUME NEW T, NEW s \in Seq(T), NEW n \in Nat, n = Len(s),
         NEW size \in Nat, size # 0, NEW pages, Len(pages) = n + 1,
         \A k \in 1 .. n + 1 :
           pages[k] \in Seq(T) /\ Cut(s, (k - 1) * size, size, pages[k])
  PROVE  FlattenSeq(pages) = s
<1>1. PICK l \in Nat : l = n + 1
  OBVIOUS
<1>2. PICK f : Flattens(pages, l, f)
  BY <1>1, FlattenIs
<1>3. /\ FlattenSeq(pages) = f[l] /\ f[1] = pages[1]
      /\ \A i \in 2 .. l : f[i] = f[i - 1] \o pages[i]
  BY <1>2 DEF Flattens
<1> DEFINE Good(k) == f[k] \in Seq(T) /\ Upto(s, k * size, f[k])
           M == {m \in Nat : 1 <= m /\ m <= l /\ ~Good(m)}
<1>4. M = {}
  <2>1. SUFFICES ASSUME M # {} PROVE FALSE
    OBVIOUS
  <2>2. PICK m \in M : \A y \in M : ~(y < m)
    <3>1. M \in SUBSET Nat
      OBVIOUS
    <3> HIDE DEF M
    <3> QED BY <2>1, <3>1, LeastNumber
  <2>3. m \in Nat /\ 1 <= m /\ m <= l /\ ~Good(m)
    OBVIOUS
  <2>4. PICK k \in Nat : k = m - 1 /\ k + 1 = m
    <3>1. m - 1 \in Nat /\ (m - 1) + 1 = m
      BY <2>3
    <3> QED BY <3>1
  <2>5. PICK o \in Nat : o = k * size /\ o + size = m * size
    BY <2>4, Multiples
  <2>6. PICK w \in Seq(T) : w = pages[m] /\ Cut(s, o, size, w)
    <3>1. m \in 1 .. n + 1 /\ (m - 1) * size = o
      BY <1>1, <2>3, <2>4, <2>5
    <3> QED BY <3>1
  <2>7. CASE m = 1
    <3>1. o = 0 /\ f[m] = w
      BY <1>3, <2>4, <2>5, <2>6, <2>7
    <3>2. Upto(s, o + size, w)
      BY <2>6, <3>1 DEF Cut, Upto
    <3> QED BY <2>3, <2>5, <3>1, <3>2
  <2>8. CASE m # 1
    <3>1. Good(k)
      BY <2>2, <2>3, <2>4, <2>8
    <3>2. PICK v \in Seq(T) : v = f[k] /\ Upto(s, o, v)
      BY <2>5, <3>1
    <3>3. f[m] = v \o w
      <4>1. m \in 2 .. l
        BY <1>1, <2>3, <2>8
      <4>2. f[m] = f[m - 1] \o pages[m]
        BY <1>3, <4>1
      <4> QED BY <2>4, <2>6, <3>2, <4>2
    <3>4. v \o w \in Seq(T) /\ Upto(s, o + size, v \o w)
      BY <2>6, <3>2, UptoMore
    <3> QED BY <2>3, <2>5, <3>3, <3>4
  <2> QED BY <2>7, <2>8
<1>5. Good(l)
  <2>1. l \in Nat /\ 1 <= l /\ l <= l
    BY <1>1
  <2> HIDE DEF Good
  <2> QED BY <1>4, <2>1
<1>6. PICK v \in Seq(T) : v = f[l] /\ Upto(s, l * size, v)
  BY <1>5
<1>7. n <= l * size
  <2>1. l <= l * size /\ l * size \in Nat
    BY Multiples
  <2> QED BY <1>1, <2>1
<1>8. Len(v) = n /\ \A j \in 1 .. n : v[j] = s[j]
  <2>1. PICK o \in Nat : o = l * size
    BY Multiples
  <2> QED BY <1>6, <1>7, <2>1 DEF Upto
<1>9. v = s
  BY <1>8, SeqEqual
<1> QED BY <1>3, <1>6, <1>9

LEMMA PagesFromTypes ==
  ASSUME "id" \notin Fields, TypeInv
  PROVE  PagesPartition
<1>1. table \in Seq(Line)
  BY DEF TypeInv
<1>2. ASSUME NEW q \in Queries, NEW s \in All(q), ~FallsBack(q, Filtered(q))
      PROVE  LET page(k) == Limit(Offset(q, (k - 1) * PageSize), PageSize)
                 pages == [k \in 1 .. Count(q) + 1 |-> CHOOSE w \in All(page(k)) : TRUE]
             IN  FlattenSeq(pages) = s
  <2> DEFINE page(k) == Limit(Offset(q, (k - 1) * PageSize), PageSize)
             pages == [k \in 1 .. Count(q) + 1 |-> CHOOSE w \in All(page(k)) : TRUE]
  <2>1. PICK n \in Nat : n = Count(q)
    BY <1>1, FilteredIs
  <2>2. s \in Seq(LiveRows) /\ Len(s) = n
    BY <1>1, <1>2, <2>1, AllIs DEF Count
  <2>3. PageSize \in Nat /\ PageSize # 0 /\ PageSize # None
    BY PageSizeIs
  <2>4. ASSUME NEW k \in 1 .. n + 1
        PROVE  /\ pages[k] \in Seq(LiveRows)
               /\ Cut(s, (k - 1) * PageSize, PageSize, pages[k])
    <3>1. PICK o \in Nat : o = (k - 1) * PageSize
      <4>1. PICK j \in Nat : j = k - 1
        OBVIOUS
      <4> QED BY <2>3, <4>1, Multiples
    <3>2. pages[k] = CHOOSE w \in All(Limit(Offset(q, o), PageSize)) : TRUE
      BY <2>1, <3>1
    <3> HIDE DEF pages
    <3> QED BY <1>1, <1>2, <2>3, <3>1, <3>2, PageCut
  <2>5. Len(pages) = n + 1
    <3>1. DOMAIN pages = 1 .. n + 1
      BY <2>1
    <3> HIDE DEF pages
    <3>2. pages = [k \in 1 .. n + 1 |-> pages[k]]
      BY <2>4, <3>1 DEF pages
    <3> QED BY <2>1, <2>4, <3>2, SegmentIs, LenProperties
  <2> HIDE DEF pages
  <2>6. FlattenSeq(pages) = s
    <3>1. \A k \in 1 .. n + 1 :
            /\ pages[k] \in Seq(LiveRows)
            /\ Cut(s, (k - 1) * PageSize, PageSize, pages[k])
      BY <2>4
    <3>2. PICK size \in Nat : size = PageSize /\ size # 0
      BY <2>3
    <3>3. \A k \in 1 .. n + 1 :
            pages[k] \in Seq(LiveRows) /\ Cut(s, (k - 1) * size, size, pages[k])
      BY <3>1, <3>2
    <3> QED BY <2>2, <2>5, <3>2, <3>3, CutsJoin
  <2> QED BY <2>6 DEF pages
<1> QED BY <1>2 DEF PagesPartition

\* The pages of a query, put together, are the whole of it, whatever the order
\* of the sort (query.py:265).
THEOREM RecordsPagesPartition ==
  ASSUME "id" \notin Fields
  PROVE  Spec => []PagesPartition
<1>1. TypeInv => PagesPartition
  BY PagesFromTypes
<1>2. Spec => [](TypeInv /\ IdInv)
  BY RecordsTyped
<1> QED BY <1>1, <1>2, PTL
=============================================================================

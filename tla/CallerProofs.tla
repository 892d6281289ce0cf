----------------------------- MODULE CallerProofs -----------------------------
(***************************************************************************)
(* What the callers of a collection rely on: theorems for every set of     *)
(* threads, fields and values and every bound.                             *)
(***************************************************************************)
EXTENDS CollectionProofs, LogCompaction, Lookup, Transaction, WellFoundedInduction

-----------------------------------------------------------------------------
(* Recovery puts every pending entry into the data file, and a collection  *)
(* implements the record store of RecordStore: all of it where no write    *)
(* raises, and all but the records in doubt with writes that raise and     *)
(* with Database.compact_all.                                              *)

\* Entry k of log w is the last one for its id among the first n.
LastAmong(w, k, n) == \A m \in k + 1 .. n : w[m].id # w[k].id

\* n entries have been replayed: the rest is still to come, and what is stored
\* under an id is what the last of those n entries for it says.
Done(n) ==
  /\ Len(wal) = n + Len(rq)
  /\ \A k \in 1 .. Len(rq) : rq[k] = wal[n + k]
  /\ \A k \in 1 .. n : LastAmong(wal, k, n) => data[wal[k].id] = wal[k].rec

ReplayInv ==
  /\ ~dataTorn /\ ~walTorn
  /\ mode = "replay" => \E n \in 0 .. Len(wal) : Done(n)
  /\ mode \in {"reindex", "checkpoint"} =>
       \A k \in 1 .. Len(wal) :
         LastAmong(wal, k, Len(wal)) => data[wal[k].id] = wal[k].rec

-----------------------------------------------------------------------------
(* Without unique fields, no write is rejected, and none fails. *)

NoLoss == ~Torn /\ MaxErrors = 0 /\ Unique = {}

EntryOf(t) == [id |-> op[t].id, rec |-> op[t].new]

\* What the log holds wherever the thread in the lock is, and what it is about
\* to write.
InLog(t) ==
  LET o == op[t] IN
  /\ pc[t] \in {"log", "rewrite", "clear", "fill", "evict"} => wal = <<>>
  /\ pc[t] \in {"unindex", "reindex", "append", "cache"} => wal = <<EntryOf(t)>>
  /\ pc[t] = "cache" => data[o.id] = o.new
  /\ pc[t] = "checkpoint" =>
       wal = <<>> \/ (o.id \in Ids /\ wal = <<EntryOf(t)>> /\ data[o.id] = o.new)
  /\ pc[t] = "log" /\ o.kind \in {"update", "delete"} => data[o.id] # NoRec
  /\ pc[t] = "log" /\ o.kind = "update" => o.new = Patched(data[o.id], o.arg)
  /\ pc[t] = "log" /\ o.kind = "delete" => o.new = NoRec

LogInv ==
  /\ mode = "up" /\ lock = Free => wal = <<>>
  /\ \A t \in Threads : InLog(t)

-----------------------------------------------------------------------------
(* The data file d once the log w has been replayed into it *)

EntriesFor(w, i) == {k \in DOMAIN w : w[k].id = i}

After(d, w) ==
  [i \in Ids |->
     IF EntriesFor(w, i) = {} THEN d[i]
     ELSE w[CHOOSE k \in EntriesFor(w, i) : \A j \in EntriesFor(w, i) : j <= k].rec]

LEMMA RecoveredIs == Recovered = After(data, wal)
  BY DEF Recovered, Durable, Pending, After, EntriesFor

LEMMA RecoveredBecomes == Recovered' = After(data', wal')
  BY DEF Recovered, Durable, Pending, After, EntriesFor

\* The last of some entries of a log: the one with the least distance to the
\* end.
LEMMA LastExists ==
  ASSUME NEW n \in Nat, NEW K \in SUBSET (1 .. n), K # {}
  PROVE  \E k \in K : \A j \in K : j <= k
<1> DEFINE R == OpToRel(<, Nat)
           T == {x \in Nat : n - x \in K}
<1>1. T \subseteq Nat /\ T # {}
  <2>1. PICK k \in K : TRUE
    OBVIOUS
  <2>2. n - k \in Nat /\ n - (n - k) = k
    BY <2>1
  <2> QED BY <2>1, <2>2
<1>2. PICK x \in T : \A y \in T : ~(<<y, x>> \in R)
  BY <1>1, NatLessThanWellFounded, WFMin
<1>3. \A y \in T : ~(y < x)
  BY <1>2 DEF OpToRel
<1>4. ASSUME NEW j \in K PROVE j <= n - x
  <2>1. n - j \in Nat /\ n - (n - j) = j
    BY <1>4
  <2>2. n - j \in T
    BY <1>4, <2>1
  <2> QED BY <1>3, <1>4, <2>2
<1> QED BY <1>4

LEMMA AfterNone ==
  ASSUME NEW d \in [Ids -> Maybe]
  PROVE  After(d, <<>>) = d
  BY DEF After, EntriesFor

LEMMA AfterOne ==
  ASSUME NEW d \in [Ids -> Maybe], NEW e \in Entry
  PROVE  After(d, <<e>>) = [d EXCEPT ![e.id] = e.rec]
<1>1. \A i \in Ids : EntriesFor(<<e>>, i) = IF i = e.id THEN {1} ELSE {}
  BY DEF EntriesFor
<1>2. (CHOOSE k \in {1} : \A j \in {1} : j <= k) = 1
  OBVIOUS
<1>3. <<e>>[1] = e
  OBVIOUS
<1>4. ASSUME NEW i \in Ids
      PROVE  After(d, <<e>>)[i] = IF i = e.id THEN e.rec ELSE d[i]
  BY <1>1, <1>2, <1>3 DEF After
<1>5. After(d, <<e>>) = [i \in Ids |-> IF i = e.id THEN e.rec ELSE d[i]]
  BY <1>4 DEF After
<1> QED BY <1>5

\* What is stored under an id with a pending entry does not matter.
LEMMA AfterStore ==
  ASSUME NEW d \in [Ids -> Maybe], NEW w, NEW i \in Ids, NEW r,
         NEW k \in DOMAIN w, w[k].id = i
  PROVE  After([d EXCEPT ![i] = r], w) = After(d, w)
<1>1. EntriesFor(w, i) # {}
  BY DEF EntriesFor
<1> QED BY <1>1 DEF After

\* Where every id has the record of its last entry, replaying changes nothing.
LEMMA AfterAll ==
  ASSUME NEW d \in [Ids -> Maybe], NEW w \in Seq(Entry),
         \A k \in 1 .. Len(w) : LastAmong(w, k, Len(w)) => d[w[k].id] = w[k].rec
  PROVE  After(d, w) = d
<1>1. Len(w) \in Nat /\ DOMAIN w = 1 .. Len(w)
  BY LenProperties
<1>2. ASSUME NEW i \in Ids, EntriesFor(w, i) # {}
      PROVE  After(d, w)[i] = d[i]
  <2>1. EntriesFor(w, i) \in SUBSET (1 .. Len(w))
    BY <1>1 DEF EntriesFor
  <2>2. \E k \in EntriesFor(w, i) : \A j \in EntriesFor(w, i) : j <= k
    BY <1>1, <1>2, <2>1, LastExists
  <2>3. PICK k : /\ k = (CHOOSE c \in EntriesFor(w, i) :
                           \A j \in EntriesFor(w, i) : j <= c)
                 /\ k \in EntriesFor(w, i)
                 /\ \A j \in EntriesFor(w, i) : j <= k
    BY <2>2
  <2>4. k \in 1 .. Len(w) /\ w[k].id = i
    BY <1>1, <2>3 DEF EntriesFor
  <2>5. ASSUME NEW m \in k + 1 .. Len(w) PROVE w[m].id # i
    <3>1. m \in 1 .. Len(w) /\ ~(m <= k)
      BY <1>1, <2>4
    <3> QED BY <1>1, <2>3, <3>1 DEF EntriesFor
  <2>6. LastAmong(w, k, Len(w))
    BY <2>4, <2>5 DEF LastAmong
  <2>7. d[i] = w[k].rec
    BY <2>4, <2>6
  <2>8. After(d, w)[i] = w[k].rec
    BY <1>2, <2>3 DEF After
  <2> QED BY <2>7, <2>8
<1>3. ASSUME NEW i \in Ids, EntriesFor(w, i) = {}
      PROVE  After(d, w)[i] = d[i]
  BY <1>3 DEF After
<1>4. \A i \in Ids : After(d, w)[i] = d[i]
  BY <1>2, <1>3
<1>5. After(d, w) = [i \in Ids |-> After(d, w)[i]]
  BY DEF After
<1> QED BY <1>4, <1>5

-----------------------------------------------------------------------------
(* Recovery *)

\* One more of l entries: numbers apart from sequences.
LEMMA OneMore ==
  ASSUME NEW l \in Nat, NEW n \in 0 .. l, NEW a \in Nat, l = n + a, a >= 1
  PROVE  /\ l = n + 1 + (a - 1)
         /\ n + 1 \in 0 .. l /\ n + 1 \in 1 .. l
         /\ \A k \in 1 .. n + 1 : k \in 1 .. l /\ (k \in 1 .. n \/ k = n + 1)
  OBVIOUS

\* The next entry is replayed.
LEMMA ReplayOne ==
  ASSUME TypeInv, ReplayInv, Replay
  PROVE  \E n \in 0 .. Len(wal) : Done(n)'
<1> USE DEF TypeInv, TypeOK, FilesOK, MemoryOK
<1>1. /\ mode = "replay" /\ rq # <<>> /\ rq' = Tail(rq) /\ wal' = wal
      /\ wal \in Seq(Entry) /\ rq \in Seq(Entry)
  BY DEF Replay, walv
<1>2. PICK n \in 0 .. Len(wal) : Done(n)
  BY <1>1 DEF ReplayInv
<1>3. Len(wal) \in Nat /\ Len(rq) \in Nat /\ Len(rq) >= 1
  BY <1>1, LenProperties, EmptySeq
<1>4. Len(wal) = n + Len(rq)
  BY <1>2 DEF Done
<1>5. /\ Len(wal) = n + 1 + (Len(rq) - 1)
      /\ n + 1 \in 0 .. Len(wal) /\ n + 1 \in 1 .. Len(wal)
      /\ \A k \in 1 .. n + 1 : k \in 1 .. Len(wal) /\ (k \in 1 .. n \/ k = n + 1)
  BY <1>3, <1>4, OneMore
<1>6. /\ Len(rq') = Len(rq) - 1
      /\ \A k \in 1 .. Len(rq') : rq'[k] = rq[k + 1]
  BY <1>1, HeadTailProperties
<1>7. \A k \in 1 .. Len(rq') : rq'[k] = wal[n + 1 + k]
  <2> SUFFICES ASSUME NEW k \in 1 .. Len(rq') PROVE rq'[k] = wal[n + 1 + k]
    OBVIOUS
  <2>1. k + 1 \in 1 .. Len(rq) /\ n + (k + 1) = n + 1 + k
    BY <1>3, <1>6
  <2>2. rq[k + 1] = wal[n + (k + 1)]
    BY <1>2, <2>1 DEF Done
  <2> QED BY <1>6, <2>1, <2>2
<1>8. Head(rq) = wal[n + 1] /\ wal[n + 1] \in Entry
  <2>1. Head(rq) = rq[1] /\ 1 \in 1 .. Len(rq)
    BY <1>1, <1>3
  <2>2. rq[1] = wal[n + 1]
    BY <1>2, <2>1 DEF Done
  <2> QED BY <1>1, <1>5, <2>1, <2>2, ElementOfSeq
<1>9. /\ data'[wal[n + 1].id] = wal[n + 1].rec
      /\ \A i \in Ids : i # wal[n + 1].id => data'[i] = data[i]
  BY <1>8 DEF Replay, Append_data, ReplayInv, Entry, datav
<1>10. ASSUME NEW k \in 1 .. n + 1, LastAmong(wal, k, n + 1)
       PROVE  data'[wal[k].id] = wal[k].rec
  <2>1. CASE k = n + 1
    BY <1>9, <2>1
  <2>2. CASE k \in 1 .. n
    <3>1. n + 1 \in k + 1 .. n + 1 /\ \A m \in k + 1 .. n : m \in k + 1 .. n + 1
      BY <2>2
    <3>2. wal[n + 1].id # wal[k].id /\ LastAmong(wal, k, n)
      BY <1>10, <3>1 DEF LastAmong
    <3>3. wal[k].id \in Ids
      <4>1. wal[k] \in Entry
        BY <1>1, <1>5, ElementOfSeq
      <4> QED BY <4>1 DEF Entry
    <3>4. data[wal[k].id] = wal[k].rec
      BY <1>2, <2>2, <3>2 DEF Done
    <3> QED BY <1>9, <3>2, <3>3, <3>4
  <2> QED BY <1>5, <2>1, <2>2
<1>11. Done(n + 1)'
  <2>1. \A k \in 1 .. n + 1 : LastAmong(wal, k, n + 1) =>
          data'[wal[k].id] = wal[k].rec
    BY <1>10
  <2>2. Len(wal) = n + 1 + Len(rq')
    BY <1>5, <1>6
  <2> QED BY <1>1, <1>7, <2>1, <2>2 DEF Done
<1> QED BY <1>5, <1>11

LEMMA ReplayStep ==
  ASSUME ~Torn
  PROVE  TypeInv /\ FreshInv /\ ReplayInv /\ [Next]_vars => ReplayInv'
<1> SUFFICES ASSUME TypeInv, FreshInv, ReplayInv, [Next]_vars PROVE ReplayInv'
  OBVIOUS
<1> USE DEF TypeInv, TypeOK, FilesOK, MemoryOK
<1>1. CASE UNCHANGED vars
  BY <1>1 DEF vars, datav, walv, runv, ReplayInv, Done
<1>2. CASE Next
  <2>1. ~dataTorn' /\ ~walTorn'
    BY <1>2, TornStep DEF ReplayInv
  <2>2. CASE mode' \in {"up", "down"}
    BY <2>1, <2>2 DEF ReplayInv
  <2>3. ASSUME NEW t \in Threads, Starts(t) \/ Steps(t) \/ Fail(t)
        PROVE  mode' = "up"
    BY <2>3, ThreadsUp
  <2>4. CASE Close \/ Crash \/ LoseIndex \/ RecoverCheckpoint
    BY <2>2, <2>4 DEF Close, Crash, Down, LoseIndex, runv, RecoverCheckpoint
  <2>5. CASE Open
    <3>1. rq' = wal /\ wal' = wal /\ mode' \in {"up", "replay"}
      BY <2>5 DEF Open, walv
    <3>2. Len(wal) \in Nat
      BY LenProperties
    <3>3. Done(0)'
      BY <3>1, <3>2 DEF Done
    <3> QED BY <2>1, <3>1, <3>2, <3>3 DEF ReplayInv
  <2>6. CASE Replay
    BY <2>1, <2>6, ReplayOne DEF ReplayInv, Replay, walv
  <2>7. CASE Replayed
    <3>1. /\ UNCHANGED <<data, wal, rq>> /\ rq = <<>>
          /\ mode = "replay" /\ mode' = "reindex"
      BY <2>7 DEF Replayed, datav, walv
    <3>2. PICK n \in 0 .. Len(wal) : Done(n)
      BY <3>1 DEF ReplayInv
    <3>3. n = Len(wal)
      <4>1. Len(wal) = n + 0 /\ Len(wal) \in Nat
        BY <3>1, <3>2, LenProperties DEF Done
      <4> QED BY <4>1
    <3> QED BY <2>1, <3>1, <3>2, <3>3 DEF Done, LastAmong, ReplayInv
  <2>8. CASE RecoverIndex
    BY <2>1, <2>8 DEF RecoverIndex, datav, walv, ReplayInv, LastAmong
  <2> QED
    BY <1>2, <2>2, <2>3, <2>4, <2>5, <2>6, <2>7, <2>8 DEF Next, Recovers
<1> QED BY <1>1, <1>2

LEMMA ReplayInit == Init => ReplayInv
  BY DEF Init, ReplayInv

\* When recovery is done with its replay, the data file holds what the log said
\* it should (wal.py:7 "any operation that was logged but not yet flushed to
\* the data file is re-applied"), for logs of any length, with any number of
\* entries for one id, rejected ones included, and however often the recovery
\* was cut short by a crash and begun again.
THEOREM RecoveryLands ==
  ASSUME ~Torn
  PROVE  Spec => []ReplayLands
<1>1. Init => TypeInv /\ FreshInv /\ ReplayInv
  BY TypeInit, FreshInit, ReplayInit
<1>2. TypeInv /\ FreshInv /\ ReplayInv /\ [Next]_vars
        => (TypeInv /\ FreshInv /\ ReplayInv)'
  BY TypeStep, FreshStep, ReplayStep
<1>3. TypeInv /\ ReplayInv => ReplayLands
  BY RecoveredIs, AfterAll DEF TypeInv, TypeOK, FilesOK, ReplayInv, ReplayLands
<1> QED BY <1>1, <1>2, <1>3, PTL DEF Spec

-----------------------------------------------------------------------------
(* The log of a collection whose writes are neither rejected nor fail: it  *)
(* holds the entry of the write at work, and nothing else.                 *)

LEMMA LogInvInit == Init => LogInv
  BY DEF Init, LogInv, InLog

\* Steps outside the lock change neither the log nor the data file.
LEMMA OutsideLog ==
  ASSUME LogInv, NEW t \in Threads, UNCHANGED <<data, wal, mode, lock>>,
         pc'[t] \notin Inside,
         \A u \in Threads \ {t} : pc'[u] = pc[u] /\ op'[u] = op[u]
  PROVE  LogInv'
<1>1. \A u \in Threads \ {t} : InLog(u)'
  BY DEF LogInv, InLog, EntryOf
<1>2. InLog(t)'
  BY DEF InLog, Inside
<1> QED BY <1>1, <1>2 DEF LogInv

\* Steps inside the lock: nobody else is there.
LEMMA InsideLog ==
  ASSUME LogInv, NEW t \in Threads,
         \A u \in Threads \ {t} : pc[u] \notin Inside,
         \A u \in Threads \ {t} : pc'[u] = pc[u] /\ op'[u] = op[u],
         lock' = Free => wal' = <<>>,
         InLog(t)'
  PROVE  LogInv'
<1>1. \A u \in Threads \ {t} : InLog(u)'
  BY DEF InLog, Inside
<1> QED BY <1>1 DEF LogInv

LEMMA OutsideStepLog ==
  ASSUME TypeInv, FreshInv, LogInv, NEW t \in Threads,
         \/ Starts(t) \/ NotFound(t) \/ Answer(t)
         \/ ReadRecord(t) \/ FillCache(t) \/ LoadLive(t)
  PROVE  LogInv'
<1> USE DEF TypeInv, TypeOK, ThreadsOK, Goto, Inside, datav, walv, runv
<1>1. CASE Starts(t)
  <2>1. CASE CallCreate(t)
    BY <2>1, OutsideLog DEF CallCreate
  <2>2. CASE CallUpdate(t)
    BY <2>2, OutsideLog DEF CallUpdate
  <2>3. CASE CallDelete(t)
    BY <2>3, OutsideLog DEF CallDelete
  <2>4. CASE CallMaintenance(t)
    BY <2>4, OutsideLog DEF CallMaintenance
  <2>5. CASE CallGet(t)
    BY <2>5, OutsideLog DEF CallGet
  <2>6. CASE CallFind(t)
    BY <2>6, OutsideLog DEF CallFind
  <2> QED BY <1>1, <2>1, <2>2, <2>3, <2>4, <2>5, <2>6 DEF Starts
<1>2. CASE NotFound(t) \/ Answer(t)
  BY <1>2, OutsideLog DEF NotFound, Answer, Leave
<1>3. CASE ReadRecord(t)
  BY <1>3, OutsideLog DEF ReadRecord
<1>4. CASE FillCache(t)
  BY <1>4, OutsideLog DEF FillCache
<1>5. CASE LoadLive(t)
  BY <1>5, OutsideLog DEF LoadLive
<1> QED BY <1>1, <1>2, <1>3, <1>4, <1>5

LEMMA AcquireLog ==
  ASSUME TypeInv, FreshInv, LockInv, LogInv, NEW t \in Threads,
         AcquireCreate(t) \/ AcquireExisting(t) \/ AcquireMaintenance(t)
  PROVE  LogInv'
<1> USE CollectionAssumption DEF TypeInv, TypeOK, ThreadsOK
<1>1. /\ lock = Free /\ lock' = t /\ mode = "up"
      /\ \A u \in Threads : pc[u] \notin Inside
      /\ UNCHANGED <<data, wal>>
      /\ pc'[t] \in {"log", "rewrite", "clear"}
      /\ \A u \in Threads \ {t} : pc'[u] = pc[u] /\ op'[u] = op[u]
  BY StepUp
     DEF AcquireCreate, AcquireExisting, AcquireMaintenance, Goto, LockInv,
         datav, walv, runv
<1>2. wal' = <<>> /\ lock' # Free
  BY <1>1 DEF LogInv
<1>3. InLog(t)'
  <2>1. CASE AcquireCreate(t)
    BY <1>1, <1>2, <2>1 DEF AcquireCreate, InLog
  <2>2. CASE AcquireExisting(t)
    <3> DEFINE i == op[t].id
               new == IF op[t].kind = "update" THEN Patched(data[i], op[t].arg)
                      ELSE NoRec
               r == Request(op[t].kind, i, op[t].arg, new, {})
    <3>1. /\ op'[t] = [r EXCEPT !.old = data[i]]
          /\ op[t].kind \in {"update", "delete"}
          /\ data[i] # NoRec
      BY <2>2 DEF AcquireExisting
    <3>2. /\ [r EXCEPT !.old = data[i]].id = i
          /\ [r EXCEPT !.old = data[i]].kind = op[t].kind
          /\ [r EXCEPT !.old = data[i]].arg = op[t].arg
          /\ [r EXCEPT !.old = data[i]].new = new
      BY DEF Request
    <3> QED BY <1>1, <1>2, <3>1, <3>2 DEF InLog
  <2>3. CASE AcquireMaintenance(t)
    BY <1>1, <1>2, <2>3 DEF AcquireMaintenance, Goto, InLog
  <2> QED BY <2>1, <2>2, <2>3
<1> QED BY <1>1, <1>2, <1>3, InsideLog

LEMMA HolderLog ==
  ASSUME NoLoss, TypeInv, FreshInv, LockInv, ReplayInv, LogInv, NEW t \in Threads,
         \/ LogWrite(t) \/ Reject(t) \/ Unindex(t) \/ Reindex(t)
         \/ AppendRecord(t) \/ CacheWrite(t) \/ Checkpoint(t)
         \/ Rewrite(t) \/ ClearIndex(t) \/ FillIndex(t) \/ ClearCache(t)
  PROVE  LogInv'
<1> USE CollectionAssumption DEF TypeInv, TypeOK, ThreadsOK
<1>1. /\ pc[t] \in Inside /\ lock = t /\ lock # Free
      /\ ~dataTorn /\ ~walTorn
      /\ \A u \in Threads \ {t} : pc[u] \notin Inside
      /\ \A u \in Threads \ {t} : pc'[u] = pc[u] /\ op'[u] = op[u]
  <2>1. pc[t] \in Inside
    BY DEF LogWrite, Reject, Unindex, Reindex, AppendRecord, CacheWrite,
           Checkpoint, Rewrite, ClearIndex, FillIndex, ClearCache, Inside
  <2>2. \A u \in Threads \ {t} : pc'[u] = pc[u] /\ op'[u] = op[u]
    BY DEF LogWrite, Reject, Unindex, Reindex, AppendRecord, CacheWrite,
           Checkpoint, Rewrite, ClearIndex, FillIndex, ClearCache, Release,
           Leave, Goto
  <2> QED BY <2>1, <2>2 DEF LockInv, ReplayInv
<1>2. InLog(t)
  BY DEF LogInv
<1>3. CASE LogWrite(t)
  <2>1. wal = <<>> /\ wal' = <<EntryOf(t)>>
    BY <1>1, <1>2, <1>3 DEF LogWrite, Append_wal, InLog, EntryOf
  <2>2. pc'[t] = "unindex" /\ op' = op /\ lock' = lock
    BY <1>3 DEF LogWrite, Goto
  <2>3. InLog(t)'
    BY <2>1, <2>2 DEF InLog, EntryOf
  <2> QED BY <1>1, <2>2, <2>3, InsideLog
<1>4. CASE Reject(t)
  BY <1>4 DEF Reject, Duplicate, DuplicateOnCreate, DuplicateOnUpdate, NoLoss
<1>5. CASE Unindex(t) \/ Reindex(t)
  <2>1. /\ pc[t] \in {"unindex", "reindex"} /\ pc'[t] \in {"reindex", "append"}
        /\ UNCHANGED <<op, wal, data, lock>>
    BY <1>5 DEF Unindex, Reindex, Goto, datav, walv
  <2>2. InLog(t)'
    BY <1>2, <2>1 DEF InLog, EntryOf
  <2> QED BY <1>1, <2>1, <2>2, InsideLog
<1>6. CASE AppendRecord(t)
  <2>1. /\ pc[t] = "append" /\ pc'[t] = "cache" /\ UNCHANGED <<op, wal, lock>>
        /\ op[t].id \in Ids
        /\ data' = [data EXCEPT ![op[t].id] = op[t].new]
    BY <1>1, <1>6 DEF AppendRecord, Append_data, Goto, walv, OpOK
  <2>2. InLog(t)'
    BY <1>2, <2>1 DEF InLog, EntryOf, FilesOK
  <2> QED BY <1>1, <2>1, <2>2, InsideLog
<1>7. CASE CacheWrite(t)
  <2>1. /\ pc[t] = "cache" /\ pc'[t] = "checkpoint" /\ op[t].id \in Ids
        /\ UNCHANGED <<op, wal, data, lock>>
    BY <1>7 DEF CacheWrite, Goto, datav, walv, OpOK
  <2>2. InLog(t)'
    BY <1>2, <2>1 DEF InLog, EntryOf
  <2> QED BY <1>1, <2>1, <2>2, InsideLog
<1>8. CASE Checkpoint(t)
  <2>1. wal' = <<>> /\ pc'[t] = "idle"
    BY <1>1, <1>8 DEF Checkpoint, Log_checkpoint, Release, Leave, Goto
  <2>2. InLog(t)'
    BY <2>1 DEF InLog
  <2> QED BY <1>1, <2>1, <2>2, InsideLog
<1>9. CASE Rewrite(t) \/ ClearIndex(t) \/ FillIndex(t) \/ ClearCache(t)
  <2>1. /\ wal = <<>> /\ wal' = <<>>
        /\ pc'[t] \in {"clear", "fill", "evict", "checkpoint", "idle"}
    BY <1>2, <1>9
       DEF Rewrite, ClearIndex, FillIndex, ClearCache, Release, Leave, Goto,
           InLog, walv
  <2>2. InLog(t)'
    BY <2>1 DEF InLog
  <2> QED BY <1>1, <2>1, <2>2, InsideLog
<1> QED BY <1>3, <1>4, <1>5, <1>6, <1>7, <1>8, <1>9

LEMMA RunLog ==
  ASSUME TypeInv, FreshInv, ReplayInv, LogInv,
         Close \/ Crash \/ LoseIndex \/ Open \/ Recovers
  PROVE  LogInv'
<1>1. CASE Close \/ Crash
  <2>1. mode' = "down" /\ \A t \in Threads : pc'[t] = "idle"
    BY <1>1 DEF Close, Crash, Down
  <2> QED BY <2>1 DEF LogInv, InLog
<1>2. CASE LoseIndex \/ Open \/ Recovers
  <2>1. \A t \in Threads : pc[t] = "idle" /\ pc'[t] = "idle"
    BY <1>2
       DEF LoseIndex, Open, Recovers, Replay, Replayed, RecoverIndex,
           RecoverCheckpoint, thrv, FreshInv
  <2>2. mode' = "up" => wal' = <<>>
    BY <1>2
       DEF LoseIndex, Open, Recovers, Replay, Replayed, RecoverIndex, runv,
           RecoverCheckpoint, Log_checkpoint, walv, ReplayInv
  <2> QED BY <2>1, <2>2 DEF LogInv, InLog
<1> QED BY <1>1, <1>2

LEMMA LogInvStep ==
  ASSUME NoLoss
  PROVE  TypeInv /\ FreshInv /\ LockInv /\ ReplayInv /\ LogInv /\ [Next]_vars
           => LogInv'
<1> SUFFICES ASSUME TypeInv, FreshInv, LockInv, ReplayInv, LogInv, [Next]_vars
             PROVE  LogInv'
  OBVIOUS
<1>1. CASE UNCHANGED vars
  BY <1>1 DEF vars, datav, walv, runv, thrv, LogInv, InLog, EntryOf
<1>2. ASSUME NEW t \in Threads, Starts(t) PROVE LogInv'
  BY <1>2, OutsideStepLog
<1>3. ASSUME NEW t \in Threads, Steps(t) PROVE LogInv'
  BY <1>3, OutsideStepLog, AcquireLog, HolderLog DEF Steps
<1>4. ASSUME NEW t \in Threads, Fail(t) PROVE FALSE
  BY <1>4 DEF Fail, NoLoss, TypeInv, TypeOK, MemoryOK
<1> QED BY <1>1, <1>2, <1>3, <1>4, RunLog DEF Next

-----------------------------------------------------------------------------
(* The record store *)

BaseInv == TypeInv /\ FreshInv /\ LockInv /\ ReplayInv

StoreInv == BaseInv /\ LogInv

\* The ids drawn and not yet written are those of the fresh creates.
LEMMA DrawnIs == Drawn = {op[t].id : t \in {u \in Threads : IsFresh(u)}}
  BY DEF Drawn, IsFresh

LEMMA DrawnBecomes == Drawn' = {op'[t].id : t \in {u \in Threads : IsFresh(u)'}}
  BY DEF Drawn, IsFresh

\* A step of t that leaves its create where it was, if it is in one.
LEMMA DrawnSame ==
  ASSUME NEW t \in Threads,
         \A u \in Threads \ {t} : pc'[u] = pc[u] /\ op'[u] = op[u],
         IsFresh(t) <=> IsFresh(t)',
         IsFresh(t) => op'[t].id = op[t].id
  PROVE  Drawn' = Drawn
<1>1. \A u \in Threads : IsFresh(u)' <=> IsFresh(u)
  BY DEF IsFresh
<1>2. \A u \in Threads : IsFresh(u) => op'[u].id = op[u].id
  OBVIOUS
<1> QED BY <1>1, <1>2, DrawnIs, DrawnBecomes

StoreSame == UNCHANGED <<Recovered, counter, Drawn>>

LEMMA SameSteps == StoreSame => [Store!Next]_Store!vars
  BY DEF StoreSame, Store!vars

LEMMA RecoveredSame ==
  ASSUME UNCHANGED <<data, wal>>
  PROVE  Recovered' = Recovered
  BY RecoveredIs, RecoveredBecomes

LEMMA CallStore ==
  ASSUME BaseInv, NEW t \in Threads, Starts(t)
  PROVE  [Store!Next]_Store!vars
<1> USE DEF BaseInv, TypeInv, TypeOK, ThreadsOK, datav, walv
<1>1. CASE CallCreate(t)
  <2>1. PICK r \in NewRecs :
          op' = [op EXCEPT ![t] = Request("create", counter + 1, r, r, {})]
    BY <1>1 DEF CallCreate
  <2>2. /\ op'[t].kind = "create" /\ op'[t].id = counter + 1
        /\ pc'[t] = "acquire" /\ pc[t] = "idle"
        /\ \A u \in Threads \ {t} : pc'[u] = pc[u] /\ op'[u] = op[u]
    BY <1>1, <2>1, RequestFields DEF CallCreate, CallWrite, Call, Goto
  <2>3. /\ ~IsFresh(t) /\ IsFresh(t)'
        /\ \A u \in Threads \ {t} : IsFresh(u)' <=> IsFresh(u)
    BY <2>2 DEF IsFresh
  <2>4. Drawn' = Drawn \cup {counter + 1}
    BY <2>2, <2>3, DrawnIs, DrawnBecomes
  <2>5. counter < MaxId /\ counter' = counter + 1 /\ Recovered' = Recovered
    BY <1>1, RecoveredSame DEF CallCreate
  <2>6. Store!Issue
    BY <2>4, <2>5 DEF Store!Issue
  <2> QED BY <2>6 DEF Store!Next
<1>2. CASE CallUpdate(t) \/ CallDelete(t) \/ CallMaintenance(t) \/ CallGet(t)
           \/ CallFind(t)
  <2>1. /\ pc[t] = "idle" /\ op'[t].kind # "create"
        /\ \A u \in Threads \ {t} : pc'[u] = pc[u] /\ op'[u] = op[u]
        /\ UNCHANGED <<data, wal, counter>>
    BY <1>2, RequestFields
       DEF CallUpdate, CallDelete, CallMaintenance, CallGet, CallFind,
           CallWrite, Call, Goto
  <2>2. ~IsFresh(t) /\ ~IsFresh(t)'
    BY <2>1 DEF IsFresh
  <2>3. Drawn' = Drawn /\ Recovered' = Recovered
    BY <2>1, <2>2, DrawnSame, RecoveredSame
  <2> QED BY <2>1, <2>3, SameSteps DEF StoreSame
<1> QED BY <1>1, <1>2 DEF Starts

\* Steps that neither draw an id, nor log, nor store anything.
LEMMA QuietStore ==
  ASSUME BaseInv, NEW t \in Threads,
         \/ AcquireCreate(t) \/ AcquireExisting(t) \/ NotFound(t)
         \/ Reject(t) \/ Unindex(t) \/ Reindex(t) \/ CacheWrite(t)
         \/ AcquireMaintenance(t) \/ Rewrite(t) \/ ClearIndex(t)
         \/ FillIndex(t) \/ ClearCache(t)
         \/ ReadRecord(t) \/ FillCache(t) \/ LoadLive(t) \/ Answer(t)
  PROVE  [Store!Next]_Store!vars
<1> USE DEF BaseInv, TypeInv, TypeOK, ThreadsOK
<1>1. UNCHANGED <<data, wal, counter>>
  BY DEF AcquireCreate, AcquireExisting, NotFound, Reject, Unindex, Reindex,
         CacheWrite, AcquireMaintenance, Rewrite, ClearIndex, FillIndex,
         ClearCache, ReadRecord, FillCache, LoadLive, Answer, datav, walv
<1>2. \A u \in Threads \ {t} : pc'[u] = pc[u] /\ op'[u] = op[u]
  BY DEF AcquireCreate, AcquireExisting, NotFound, Reject, Unindex, Reindex,
         CacheWrite, AcquireMaintenance, Rewrite, ClearIndex, FillIndex,
         ClearCache, ReadRecord, FillCache, LoadLive, Answer, Release, Leave,
         Goto
<1>3. CASE AcquireCreate(t)
  BY <1>1, <1>2, <1>3, DrawnSame, RecoveredSame, SameSteps
     DEF AcquireCreate, Goto, IsFresh, StoreSame
<1>4. op[t].kind = "create" => pc[t] \in CreatePcs
  BY DEF FreshInv
<1>5. CASE ~AcquireCreate(t)
  <2>1. ~IsFresh(t)
    BY <1>4, <1>5
       DEF AcquireExisting, NotFound, Reject, Unindex, Reindex,
           CacheWrite, AcquireMaintenance, Rewrite, ClearIndex, FillIndex,
           ClearCache, ReadRecord, FillCache, LoadLive, Answer, IsFresh
  <2>2. pc'[t] \in {"acquire", "log"} => op'[t].kind # "create"
    <3>1. CASE AcquireExisting(t)
      <4> DEFINE i == op[t].id
                 new == IF op[t].kind = "update" THEN Patched(data[i], op[t].arg)
                        ELSE NoRec
                 r == Request(op[t].kind, i, op[t].arg, new, {})
      <4>1. /\ op'[t] = [r EXCEPT !.old = data[i]]
            /\ op[t].kind \in {"update", "delete"}
        BY <3>1 DEF AcquireExisting
      <4>2. [r EXCEPT !.old = data[i]].kind = op[t].kind
        BY DEF Request
      <4> QED BY <4>1, <4>2
    <3>2. CASE ~AcquireExisting(t)
      BY <1>5, <3>2
         DEF NotFound, Reject, Unindex, Reindex, CacheWrite,
             AcquireMaintenance, Rewrite, ClearIndex, FillIndex, ClearCache,
             ReadRecord, FillCache, LoadLive, Answer, Release, Leave, Goto
    <3> QED BY <3>1, <3>2
  <2>3. ~IsFresh(t)'
    BY <2>2 DEF IsFresh
  <2> QED
    BY <1>1, <1>2, <2>1, <2>3, DrawnSame, RecoveredSame, SameSteps DEF StoreSame
<1> QED BY <1>3, <1>5

\* The step at which a write takes effect.
LEMMA LogStore ==
  ASSUME StoreInv, NEW t \in Threads, LogWrite(t)
  PROVE  [Store!Next]_Store!vars
<1> USE DEF StoreInv, BaseInv, TypeInv, TypeOK, ThreadsOK
<1> DEFINE i == op[t].id
           r == op[t].new
<1>1. /\ pc[t] = "log" /\ pc'[t] = "unindex" /\ UNCHANGED <<op, data, counter>>
      /\ \A u \in Threads \ {t} : pc'[u] = pc[u]
      /\ wal = <<>> /\ wal' = <<EntryOf(t)>>
  <2>1. /\ pc[t] = "log" /\ pc'[t] = "unindex" /\ UNCHANGED <<op, data, counter>>
        /\ \A u \in Threads \ {t} : pc'[u] = pc[u]
    BY DEF LogWrite, Goto, datav
  <2>2. wal = <<>> /\ ~walTorn
    BY <2>1 DEF LogInv, InLog, ReplayInv
  <2>3. wal' = Append(wal, EntryOf(t))
    BY <2>2 DEF LogWrite, Append_wal, EntryOf
  <2> QED BY <2>1, <2>2, <2>3
<1>2. /\ op[t].kind \in WriteKinds /\ i \in Ids /\ r \in Maybe
      /\ data \in [Ids -> Maybe] /\ EntryOf(t) \in Entry
      /\ EntryOf(t).id = i /\ EntryOf(t).rec = r
  BY <1>1 DEF OpOK, FilesOK, Ops, Entry, EntryOf
<1>3. Recovered = data
  BY <1>1, <1>2, RecoveredIs, AfterNone
<1>4. Recovered' = [Recovered EXCEPT ![i] = r]
  <2>1. After(data, <<EntryOf(t)>>) = [data EXCEPT ![i] = r]
    BY <1>2, AfterOne
  <2> QED BY <1>1, <1>3, <2>1, RecoveredBecomes
<1>5. i \in Store!Ids
  BY <1>2 DEF Ids, Store!Ids
<1>6. CASE op[t].kind = "create"
  <2>1. IsFresh(t) /\ ~IsFresh(t)' /\ \A u \in Threads \ {t} : IsFresh(u)' <=> IsFresh(u)
    BY <1>1, <1>6 DEF IsFresh
  <2>2. \A u \in Threads \ {t} : IsFresh(u) => op[u].id # i
    BY <2>1 DEF FreshInv
  <2>3. i \in Drawn /\ Drawn' = Drawn \ {i}
    BY <1>1, <2>1, <2>2, DrawnIs, DrawnBecomes
  <2>4. ~Known(i)
    BY <2>1 DEF Known
  <2>5. Recovered[i] = NoRec
    BY <1>2, <1>3, <2>4 DEF FreshInv
  <2>6. r \in Record
    BY <1>6 DEF OpOK
  <2>7. Store!Insert(i, r)
    BY <1>1, <1>4, <2>3, <2>5 DEF Store!Insert
  <2> QED BY <1>5, <2>6, <2>7 DEF Store!Next, Store!Record, Record
<1>7. CASE op[t].kind # "create"
  <2>1. Drawn' = Drawn
    BY <1>1, <1>7, DrawnSame DEF IsFresh
  <2>2. data[i] # NoRec
    BY <1>1, <1>2, <1>7 DEF LogInv, InLog, WriteKinds
  <2>3. CASE op[t].kind = "update"
    <3>1. r = Patched(data[i], op[t].arg) /\ op[t].arg \in Record
      BY <1>1, <2>3 DEF LogInv, InLog, OpOK
    <3>2. Store!Update(i, op[t].arg)
      BY <1>1, <1>3, <1>4, <2>1, <2>2, <3>1
         DEF Store!Update, Store!Patched, Store!Has, Patched, Has
    <3> QED BY <1>5, <3>1, <3>2 DEF Store!Next, Store!Record, Record
  <2>4. CASE op[t].kind = "delete"
    <3>1. r = NoRec
      BY <1>1, <2>4 DEF LogInv, InLog
    <3>2. Store!Delete(i)
      BY <1>1, <1>3, <1>4, <2>1, <2>2, <3>1 DEF Store!Delete
    <3> QED BY <1>5, <3>2 DEF Store!Next
  <2> QED BY <1>2, <1>7, <2>3, <2>4 DEF WriteKinds
<1> QED BY <1>6, <1>7

\* The steps after it store what is logged, and forget it in the log.
LEMMA FileStore ==
  ASSUME StoreInv, NEW t \in Threads, AppendRecord(t) \/ Checkpoint(t)
  PROVE  [Store!Next]_Store!vars
<1> USE DEF StoreInv, BaseInv, TypeInv, TypeOK, ThreadsOK
<1>1. /\ ~IsFresh(t) /\ ~IsFresh(t)' /\ counter' = counter
      /\ \A u \in Threads \ {t} : pc'[u] = pc[u] /\ op'[u] = op[u]
  BY DEF AppendRecord, Checkpoint, Release, Leave, Goto, IsFresh
<1>2. Drawn' = Drawn
  BY <1>1, DrawnSame
<1>3. data \in [Ids -> Maybe] /\ ~dataTorn /\ ~walTorn /\ InLog(t)
  BY DEF FilesOK, ReplayInv, LogInv
<1>4. ASSUME op[t].id \in Ids
      PROVE  EntryOf(t) \in Entry /\ EntryOf(t).id = op[t].id
             /\ EntryOf(t).rec = op[t].new
  BY <1>4 DEF EntryOf, Entry, Ops
<1>5. CASE AppendRecord(t)
  <2>1. /\ op[t].id \in Ids /\ wal = <<EntryOf(t)>> /\ wal' = wal
        /\ data' = [data EXCEPT ![op[t].id] = op[t].new]
    BY <1>3, <1>5 DEF AppendRecord, Append_data, InLog, OpOK, walv
  <2>2. 1 \in DOMAIN wal /\ wal[1].id = op[t].id
    BY <1>4, <2>1
  <2>3. Recovered' = Recovered
    BY <1>3, <2>1, <2>2, RecoveredIs, RecoveredBecomes, AfterStore
  <2> QED BY <1>1, <1>2, <2>3, SameSteps DEF StoreSame
<1>6. CASE Checkpoint(t)
  <2>1. wal' = <<>> /\ data' = data /\ pc[t] = "checkpoint"
    BY <1>3, <1>6 DEF Checkpoint, Log_checkpoint, datav
  <2>2. Recovered' = data
    BY <1>3, <2>1, RecoveredBecomes, AfterNone
  <2>3. Recovered = data
    <3>1. CASE wal = <<>>
      BY <1>3, <3>1, RecoveredIs, AfterNone
    <3>2. CASE /\ op[t].id \in Ids /\ wal = <<EntryOf(t)>>
               /\ data[op[t].id] = op[t].new
      <4>1. After(data, wal) = [data EXCEPT ![op[t].id] = op[t].new]
        BY <1>3, <1>4, <3>2, AfterOne
      <4> QED BY <1>3, <3>2, <4>1, RecoveredIs
    <3> QED BY <1>3, <2>1, <3>1, <3>2 DEF InLog
  <2> QED BY <1>1, <1>2, <2>2, <2>3, SameSteps DEF StoreSame
<1> QED BY <1>5, <1>6

\* A process that ends forgets the creates that had drawn an id; recovery
\* changes nothing that is durable.
LEMMA RunStore ==
  ASSUME BaseInv, Close \/ Crash \/ LoseIndex \/ Open \/ Recovers
  PROVE  [Store!Next]_Store!vars
<1> USE DEF BaseInv, TypeInv, TypeOK
<1>1. CASE Close \/ Crash
  <2>1. Down
    BY <1>1 DEF Close, Crash
  <2>2. UNCHANGED <<data, wal, counter>> /\ \A t \in Threads : op'[t].kind = "none"
    BY <2>1, NoOpType DEF Down
  <2>3. Drawn' = {}
    BY <2>2 DEF Drawn
  <2>4. Store!Forget
    BY <2>2, <2>3, RecoveredSame DEF Store!Forget
  <2> QED BY <2>4 DEF Store!Next
<1>2. CASE LoseIndex \/ Open \/ Recovers
  <2>1. UNCHANGED <<counter, pc, op>>
    BY <1>2
       DEF LoseIndex, Open, Recovers, Replay, Replayed, RecoverIndex,
           RecoverCheckpoint, thrv
  <2>2. Drawn' = Drawn
    BY <2>1 DEF Drawn
  <2>3. Recovered' = Recovered
    <3>1. CASE LoseIndex \/ Open \/ Replayed \/ RecoverIndex
      BY <3>1, RecoveredSame
         DEF LoseIndex, Open, Replayed, RecoverIndex, datav, walv
    <3>2. CASE Replay
      <4>1. PICK n \in 0 .. Len(wal) : Done(n)
        BY <3>2 DEF Replay, ReplayInv
      <4>2. /\ wal \in Seq(Entry) /\ rq \in Seq(Entry) /\ rq # <<>>
            /\ data \in [Ids -> Maybe] /\ wal' = wal
        BY <3>2 DEF Replay, FilesOK, MemoryOK, walv
      <4>3. Len(wal) \in Nat /\ Len(rq) \in Nat /\ Len(rq) >= 1
            /\ DOMAIN wal = 1 .. Len(wal)
        BY <4>2, LenProperties, EmptySeq
      <4>4. n + 1 \in DOMAIN wal
        BY <4>1, <4>3, OneMore DEF Done
      <4>5. Head(rq) = wal[n + 1] /\ wal[n + 1].id \in Ids
        <5>1. Head(rq) = rq[1] /\ 1 \in 1 .. Len(rq)
          BY <4>2, <4>3
        <5>2. rq[1] = wal[n + 1]
          BY <4>1, <5>1 DEF Done
        <5>3. wal[n + 1] \in Entry
          BY <4>2, <4>3, <4>4, ElementOfSeq
        <5> QED BY <5>1, <5>2, <5>3 DEF Entry
      <4>6. \/ data' = data
            \/ data' = [data EXCEPT ![wal[n + 1].id] = wal[n + 1].rec]
        BY <3>2, <4>5 DEF Replay, Append_data, datav
      <4>7. After([data EXCEPT ![wal[n + 1].id] = wal[n + 1].rec], wal)
              = After(data, wal)
        BY <4>2, <4>4, <4>5, AfterStore
      <4> QED BY <4>2, <4>6, <4>7, RecoveredIs, RecoveredBecomes
    <3>3. CASE RecoverCheckpoint
      <4>1. wal' = <<>> /\ data' = data
        BY <3>3 DEF RecoverCheckpoint, Log_checkpoint, ReplayInv, datav
      <4>2. Recovered = data
        BY <3>3, RecoveredIs, AfterAll DEF RecoverCheckpoint, ReplayInv, FilesOK
      <4> QED BY <4>1, <4>2, RecoveredBecomes, AfterNone DEF FilesOK
    <3> QED BY <1>2, <3>1, <3>2, <3>3 DEF Recovers
  <2> QED BY <2>1, <2>2, <2>3, SameSteps DEF StoreSame
<1> QED BY <1>1, <1>2

LEMMA StoreInit == Init => Store!Init
<1> SUFFICES ASSUME Init PROVE Store!Init
  OBVIOUS
<1>1. data = [i \in Ids |-> NoRec] /\ wal = <<>> /\ counter = 0
  BY DEF Init
<1>2. Recovered = data
  BY <1>1, MaybeFacts, RecoveredIs, AfterNone
<1>3. Drawn = {}
  BY NoOpType DEF Init, Drawn
<1> QED BY <1>1, <1>2, <1>3 DEF Store!Init, Store!Ids, Ids

LEMMA StoreStep ==
  ASSUME NoLoss
  PROVE  StoreInv /\ [Next]_vars => StoreInv' /\ [Store!Next]_Store!vars
<1> SUFFICES ASSUME StoreInv, [Next]_vars
             PROVE  StoreInv' /\ [Store!Next]_Store!vars
  OBVIOUS
<1>1. StoreInv'
  BY TypeStep, FreshStep, LockStep, ReplayStep, LogInvStep
     DEF StoreInv, BaseInv, NoLoss
<1>2. CASE UNCHANGED vars
  <2>1. UNCHANGED <<data, wal, counter, pc, op>>
    BY <1>2 DEF vars, datav, walv, thrv
  <2> QED BY <1>1, <2>1, RecoveredSame, SameSteps DEF Drawn, StoreSame
<1>3. ASSUME NEW t \in Threads, Steps(t) PROVE [Store!Next]_Store!vars
  BY <1>3, QuietStore, LogStore, FileStore DEF Steps, StoreInv
<1>4. ASSUME NEW t \in Threads, Fail(t) PROVE FALSE
  BY <1>4 DEF Fail, NoLoss, StoreInv, BaseInv, TypeInv, TypeOK, MemoryOK
<1> QED BY <1>1, <1>2, <1>3, <1>4, CallStore, RunStore DEF Next, StoreInv

LEMMA SpecStore ==
  ASSUME NoLoss
  PROVE  Spec => []StoreInv /\ Store!Spec
<1>1. Init => StoreInv /\ Store!Init
  BY TypeInit, FreshInit, LockInit, ReplayInit, LogInvInit, StoreInit
     DEF StoreInv, BaseInv
<1> QED BY <1>1, StoreStep, PTL DEF Spec, Store!Spec

\* A collection implements the record store (collection.py and wal.py:7
\* together): every operation takes effect once, when its entry is logged, and
\* no crash, close, replay, compaction or cache undoes, repeats or tears it.
\* Without torn lines, I/O errors and unique fields: with the last two a write
\* the caller was told had failed is in the log, and recovery repeats it.
THEOREM CollectionImplementsStore ==
  ASSUME NoLoss
  PROVE  Spec => ImplementsStore
  BY SpecStore DEF ImplementsStore

-----------------------------------------------------------------------------
(* compact_all, and writes that raise: the log may come to say something   *)
(* else of a record than what was written last.  It does so only for the   *)
(* records in doubt.                                                       *)

Writing == {"unindex", "reindex", "append"}

\* t has logged its version of i and not yet stored it.
Written(t, i) == pc[t] \in Writing /\ op[t].id = i

\* A recovery would leave of i what is stored, or what is about to be.
Settled(i) ==
  mode = "up" =>
    /\ \A t \in Threads : Written(t, i) => Recovered[i] = op[t].new
    /\ (\A t \in Threads : ~Written(t, i)) => Recovered[i] = data[i]

\* What update and delete are about to log is made from what is stored.
FromStored(t) ==
  LET o == op[t] IN
  pc[t] = "log" =>
    /\ o.kind # "create" => data[o.id] # NoRec
    /\ o.kind = "update" => o.new = Patched(data[o.id], o.arg)
    /\ o.kind = "delete" => o.new = NoRec

DoubtInv ==
  /\ phase # "none" => compactor # Free /\ mode = "up"
  /\ pending \in Seq(Entry)
  /\ \A i \in doubt \cup IdsIn(pending) : i \in Ids /\ Known(i)
  /\ \A i \in Ids \ doubt : Settled(i)
  /\ \A t \in Threads : FromStored(t)

\* One more entry in the log: it decides about its id, and about no other.
LEMMA AfterAppend ==
  ASSUME NEW d \in [Ids -> Maybe], NEW w \in Seq(Entry), NEW e \in Entry
  PROVE  After(d, Append(w, e)) = [After(d, w) EXCEPT ![e.id] = e.rec]
<1> DEFINE v == Append(w, e)
           n == Len(w)
<1>1. /\ n \in Nat /\ DOMAIN w = 1 .. n /\ DOMAIN v = 1 .. n + 1
      /\ v[n + 1] = e /\ \A k \in 1 .. n : v[k] = w[k]
  BY AppendProperties, LenProperties
<1> HIDE DEF v, n
<1>2. ASSUME NEW i \in Ids, i # e.id
      PROVE  After(d, v)[i] = After(d, w)[i]
  <2>1. EntriesFor(v, i) = EntriesFor(w, i)
    BY <1>1, <1>2 DEF EntriesFor
  <2>2. CASE EntriesFor(w, i) = {}
    BY <2>1, <2>2 DEF After
  <2>3. CASE EntriesFor(w, i) # {}
    <3>1. EntriesFor(w, i) \in SUBSET (1 .. n)
      BY <1>1 DEF EntriesFor
    <3>2. \E k \in EntriesFor(w, i) : \A j \in EntriesFor(w, i) : j <= k
      BY <1>1, <2>3, <3>1, LastExists
    <3>3. PICK k : /\ k = (CHOOSE c \in EntriesFor(w, i) :
                             \A j \in EntriesFor(w, i) : j <= c)
                   /\ k \in EntriesFor(w, i)
      BY <3>2
    <3>4. After(d, w)[i] = w[k].rec
      BY <2>3, <3>3 DEF After
    <3>5. After(d, v)[i] = v[k].rec
      BY <2>1, <2>3, <3>3 DEF After
    <3>6. v[k] = w[k]
      BY <1>1, <3>1, <3>3
    <3> QED BY <3>4, <3>5, <3>6
  <2> QED BY <2>2, <2>3
<1>3. e.id \in Ids /\ After(d, v)[e.id] = e.rec
  <2>1. e.id \in Ids
    BY DEF Entry
  <2>2. n + 1 \in EntriesFor(v, e.id)
    BY <1>1 DEF EntriesFor
  <2>3. \A j \in EntriesFor(v, e.id) : j \in Nat /\ j <= n + 1
    BY <1>1 DEF EntriesFor
  <2>4. (CHOOSE k \in EntriesFor(v, e.id) :
           \A j \in EntriesFor(v, e.id) : j <= k) = n + 1
    BY <1>1, <2>2, <2>3
  <2> QED BY <1>1, <2>1, <2>2, <2>4 DEF After
<1>4. /\ After(d, v) = [i \in Ids |-> After(d, v)[i]]
      /\ After(d, w) = [i \in Ids |-> After(d, w)[i]]
  BY DEF After
<1> HIDE DEF After
<1>5. After(d, v) = [After(d, w) EXCEPT ![e.id] = e.rec]
  BY <1>2, <1>3, <1>4
<1> QED BY <1>5 DEF v

\* What is stored under one id matters to no other.
LEMMA AfterPut ==
  ASSUME NEW d \in [Ids -> Maybe], NEW w, NEW i \in Ids, NEW r
  PROVE  /\ \A j \in Ids \ {i} : After([d EXCEPT ![i] = r], w)[j] = After(d, w)[j]
         /\ After([d EXCEPT ![i] = r], w)[i] \in {After(d, w)[i], r}
  BY DEF After

LEMMA AfterAbsent ==
  ASSUME NEW d, NEW w, NEW i \in Ids \ IdsIn(w)
  PROVE  After(d, w)[i] = d[i]
  BY DEF After, EntriesFor, IdsIn

-----------------------------------------------------------------------------
(* What the steps of the collection do to the records that are not in      *)
(* doubt                                                                   *)

\* A step that changes no such record, and no id.
Apart ==
  /\ UNCHANGED <<counter, Drawn>>
  /\ \A i \in Ids \ doubt : Recovered'[i] = Recovered[i]

LEMMA ApartDoubt == Apart => InDoubt
  BY DEF Apart, InDoubt

LEMMA StoreOrApart == [Store!Next]_Store!vars => Store!Next \/ Apart
  BY DEF Store!vars, Apart

\* An entry has been logged.
LEMMA EntryStore ==
  ASSUME BaseInv, DoubtInv, NEW t \in Threads,
         pc[t] = "log", pc'[t] \notin {"acquire", "log"},
         Append_wal(EntryOf(t)), UNCHANGED <<data, counter>>,
         \A u \in Threads \ {t} : pc'[u] = pc[u] /\ op'[u] = op[u]
  PROVE  /\ Recovered' = [Recovered EXCEPT ![op[t].id] = op[t].new]
         /\ Store!Next \/ Apart
<1> USE DEF BaseInv, TypeInv, TypeOK, ThreadsOK
<1> DEFINE i == op[t].id
           r == op[t].new
<1>1. wal' = Append(wal, EntryOf(t))
  BY DEF ReplayInv, Append_wal
<1>2. /\ op[t].kind \in WriteKinds /\ i \in Ids /\ r \in Maybe
      /\ data \in [Ids -> Maybe] /\ wal \in Seq(Entry) /\ EntryOf(t) \in Entry
      /\ EntryOf(t).id = i /\ EntryOf(t).rec = r
  BY DEF OpOK, FilesOK, Ops, Entry, EntryOf
<1>3. Recovered' = [Recovered EXCEPT ![i] = r]
  BY <1>1, <1>2, AfterAppend, RecoveredIs, RecoveredBecomes
<1>4. i \notin doubt => Recovered[i] = data[i]
  <2>1. \A u \in Threads : ~Written(u, i)
    BY DEF Written, Writing, LockInv, Inside
  <2>2. mode = "up"
    BY StepUp
  <2> QED BY <1>2, <2>1, <2>2 DEF DoubtInv, Settled
<1>5. i \in Store!Ids
  BY <1>2 DEF Ids, Store!Ids
<1>6. CASE op[t].kind = "create"
  <2>1. IsFresh(t) /\ ~IsFresh(t)' /\ \A u \in Threads \ {t} : IsFresh(u)' <=> IsFresh(u)
    BY <1>6 DEF IsFresh
  <2>2. \A u \in Threads \ {t} : IsFresh(u) => op[u].id # i
    BY <2>1 DEF FreshInv
  <2>3. i \in Drawn /\ Drawn' = Drawn \ {i}
    BY <2>1, <2>2, DrawnIs, DrawnBecomes
  <2>4. ~Known(i)
    BY <2>1 DEF Known
  <2>5. i \notin doubt
    BY <2>4 DEF DoubtInv
  <2>6. Recovered[i] = NoRec
    BY <1>2, <1>4, <2>4, <2>5 DEF FreshInv
  <2>7. r \in Record
    BY <1>6 DEF OpOK
  <2>8. Store!Insert(i, r)
    BY <1>3, <2>3, <2>6 DEF Store!Insert
  <2>9. Store!Next
    BY <1>5, <2>7, <2>8 DEF Store!Next, Store!Record, Record
  <2> QED BY <1>3, <2>9
<1>7. CASE op[t].kind # "create"
  <2>1. Drawn' = Drawn
    BY <1>7, DrawnSame DEF IsFresh
  <2>2. /\ data[i] # NoRec
        /\ op[t].kind = "update" => r = Patched(data[i], op[t].arg)
        /\ op[t].kind = "delete" => r = NoRec
    BY <1>7 DEF DoubtInv, FromStored
  <2>3. CASE i \in doubt
    BY <1>3, <2>1, <2>3 DEF Apart
  <2>4. CASE i \notin doubt /\ op[t].kind = "update"
    <3>1. op[t].arg \in Record
      BY <2>4 DEF OpOK
    <3>2. Store!Update(i, op[t].arg)
      BY <1>3, <1>4, <2>1, <2>2, <2>4
         DEF Store!Update, Store!Patched, Store!Has, Patched, Has
    <3>3. Store!Next
      BY <1>5, <3>1, <3>2 DEF Store!Next, Store!Record, Record
    <3> QED BY <1>3, <3>3
  <2>5. CASE i \notin doubt /\ op[t].kind = "delete"
    <3>1. Store!Delete(i)
      BY <1>3, <1>4, <2>1, <2>2, <2>5 DEF Store!Delete
    <3>2. Store!Next
      BY <1>5, <3>1 DEF Store!Next
    <3> QED BY <1>3, <3>2
  <2> QED BY <1>2, <1>7, <2>3, <2>4, <2>5 DEF WriteKinds
<1> QED BY <1>6, <1>7

\* A record has been stored.
LEMMA PutStore ==
  ASSUME BaseInv, DoubtInv, NEW t \in Threads, pc[t] = "append",
         Append_data(op[t].id, op[t].new), wal' = wal
  PROVE  /\ \A i \in Ids \ doubt : Recovered'[i] = Recovered[i]
         /\ op[t].id \in Ids \ doubt => Recovered'[op[t].id] = op[t].new
         /\ data' = [data EXCEPT ![op[t].id] = op[t].new]
<1> USE DEF BaseInv, TypeInv, TypeOK, ThreadsOK
<1> DEFINE i == op[t].id
           r == op[t].new
<1>1. i \in Ids /\ data \in [Ids -> Maybe] /\ data' = [data EXCEPT ![i] = r]
  BY DEF OpOK, WriteKinds, FilesOK, ReplayInv, Append_data
<1>2. i \notin doubt => Recovered[i] = r
  <2>1. mode = "up" /\ Written(t, i)
    BY StepUp DEF Written, Writing
  <2> QED BY <1>1, <2>1 DEF DoubtInv, Settled
<1>3. /\ \A j \in Ids \ {i} : Recovered'[j] = Recovered[j]
      /\ Recovered'[i] \in {Recovered[i], r}
  <2>1. /\ Recovered = After(data, wal)
        /\ Recovered' = After([data EXCEPT ![i] = r], wal)
    BY <1>1, RecoveredIs, RecoveredBecomes
  <2> HIDE DEF i, r
  <2>2. /\ \A j \in Ids \ {i} : After([data EXCEPT ![i] = r], wal)[j] = After(data, wal)[j]
        /\ After([data EXCEPT ![i] = r], wal)[i] \in {After(data, wal)[i], r}
    BY <1>1, AfterPut
  <2> QED BY <2>1, <2>2
<1> QED BY <1>1, <1>2, <1>3

\* The log has been emptied by the thread in the lock.
LEMMA EmptyStore ==
  ASSUME BaseInv, DoubtInv, NEW t \in Threads, pc[t] = "checkpoint",
         Log_checkpoint, data' = data
  PROVE  wal' = <<>> /\ \A i \in Ids \ doubt : Recovered'[i] = Recovered[i]
<1> USE DEF BaseInv, TypeInv, TypeOK, ThreadsOK
<1>1. wal' = <<>> /\ data \in [Ids -> Maybe]
  BY DEF Log_checkpoint, ReplayInv, FilesOK
<1>2. Recovered' = data
  BY <1>1, RecoveredBecomes, AfterNone
<1>3. mode = "up" /\ \A u \in Threads, i \in Ids : ~Written(u, i)
  BY StepUp DEF Written, Writing, LockInv, Inside
<1> QED BY <1>1, <1>2, <1>3 DEF DoubtInv, Settled

LEMMA FileEffect ==
  ASSUME BaseInv, DoubtInv, NEW t \in Threads,
         LogWrite(t) \/ AppendRecord(t) \/ Checkpoint(t)
  PROVE  Store!Next \/ Apart
<1> USE DEF BaseInv, TypeInv, TypeOK, ThreadsOK, datav, walv
<1>1. CASE LogWrite(t)
  BY <1>1, EntryStore DEF LogWrite, Goto, EntryOf
<1>2. CASE AppendRecord(t) \/ Checkpoint(t)
  <2>1. /\ ~IsFresh(t) /\ ~IsFresh(t)' /\ counter' = counter
        /\ \A u \in Threads \ {t} : pc'[u] = pc[u] /\ op'[u] = op[u]
    BY <1>2 DEF AppendRecord, Checkpoint, Release, Leave, Goto, IsFresh
  <2>2. Drawn' = Drawn
    BY <2>1, DrawnSame
  <2>3. \A i \in Ids \ doubt : Recovered'[i] = Recovered[i]
    BY <1>2, PutStore, EmptyStore DEF AppendRecord, Checkpoint
  <2> QED BY <2>1, <2>2, <2>3 DEF Apart
<1> QED BY <1>1, <1>2

LEMMA FailEffect ==
  ASSUME BaseInv, DoubtInv, NEW t \in Threads, Fail(t)
  PROVE  Store!Next \/ Apart
<1> USE DEF BaseInv, TypeInv, TypeOK, ThreadsOK, datav, walv
<1>1. /\ counter' = counter /\ ~IsFresh(t)'
      /\ pc'[t] = "idle" /\ op'[t].kind = "none"
      /\ \A u \in Threads \ {t} : pc'[u] = pc[u] /\ op'[u] = op[u]
  BY NoOpType DEF Fail, Release, Leave, Goto, IsFresh
<1>2. CASE UNCHANGED <<data, wal>>
  <2>1. \A u \in Threads : IsFresh(u)' => IsFresh(u) /\ op'[u].id = op[u].id
    BY <1>1 DEF IsFresh
  <2>2. Drawn' \in SUBSET Drawn
    BY <2>1, DrawnIs, DrawnBecomes
  <2>3. Store!Forget
    BY <1>1, <1>2, <2>2, RecoveredSame DEF Store!Forget
  <2> QED BY <2>3 DEF Store!Next
<1>3. CASE pc[t] = "log" /\ Append_wal(EntryOf(t)) /\ data' = data
  BY <1>1, <1>3, EntryStore
<1>4. CASE pc[t] = "append" /\ Append_data(op[t].id, op[t].new) /\ wal' = wal
  BY <1>1, <1>4, PutStore, DrawnSame DEF Apart, IsFresh
<1>5. CASE pc[t] = "checkpoint" /\ Log_checkpoint /\ data' = data
  BY <1>1, <1>5, EmptyStore, DrawnSame DEF Apart, IsFresh
<1> QED BY <1>2, <1>3, <1>4, <1>5 DEF Fail, EntryOf

LEMMA NextEffect ==
  ASSUME BaseInv, DoubtInv, Next
  PROVE  Store!Next \/ Apart
<1>1. ASSUME NEW t \in Threads, Starts(t) PROVE Store!Next \/ Apart
  BY <1>1, CallStore, StoreOrApart
<1>2. ASSUME NEW t \in Threads, Steps(t) PROVE Store!Next \/ Apart
  BY <1>2, QuietStore, StoreOrApart, FileEffect DEF Steps
<1>3. ASSUME NEW t \in Threads, Fail(t) PROVE Store!Next \/ Apart
  BY <1>3, FailEffect
<1> QED BY <1>1, <1>2, <1>3, RunStore, StoreOrApart DEF Next

-----------------------------------------------------------------------------
(* Ids stay known *)

LEMMA KnownIs ==
  ASSUME NEW i
  PROVE  Known(i) <=> i <= counter /\ i \notin Drawn
  BY DrawnIs DEF Known

LEMMA KnownBecomes ==
  ASSUME NEW i
  PROVE  Known(i)' <=> i <= counter' /\ i \notin Drawn'
  BY DrawnBecomes DEF Known

LEMMA KnownKept ==
  ASSUME TypeInv, NEW i \in Ids, Known(i),
         Store!Next \/ UNCHANGED <<counter, Drawn>>
  PROVE  Known(i)'
<1>1. counter \in Nat /\ i \in Nat /\ i <= counter /\ i \notin Drawn
  BY KnownIs, CollectionAssumption DEF TypeInv, TypeOK, FilesOK, Ids
<1>2. CASE UNCHANGED <<counter, Drawn>>
  BY <1>1, <1>2, KnownBecomes
<1>3. CASE Store!Issue
  BY <1>1, <1>3, KnownBecomes DEF Store!Issue
<1>4. CASE Store!Next /\ ~Store!Issue
  <2>1. counter' = counter /\ Drawn' \subseteq Drawn
    BY <1>4
       DEF Store!Next, Store!Forget, Store!Insert, Store!Update, Store!Delete
  <2> QED BY <1>1, <2>1, KnownBecomes
<1> QED BY <1>2, <1>3, <1>4

LEMMA KnownStep ==
  ASSUME BaseInv, DoubtInv, [Next]_vars, NEW i \in Ids, Known(i)
  PROVE  Known(i)'
<1>1. CASE UNCHANGED vars
  BY <1>1 DEF vars, thrv, Known, IsFresh
<1>2. CASE Next
  BY <1>2, NextEffect, KnownKept DEF Apart, BaseInv
<1> QED BY <1>1, <1>2

-----------------------------------------------------------------------------
(* Records stay settled *)

\* A step that neither stores record i nor logs it, of a thread that is at
\* work on it before the step iff it is afterwards.
LEMMA SettledSame ==
  ASSUME NEW i \in Ids, Settled(i), mode = "up", NEW t \in Threads,
         \A u \in Threads \ {t} : pc'[u] = pc[u] /\ op'[u] = op[u],
         data'[i] = data[i], Recovered'[i] = Recovered[i],
         Written(t, i)' <=> Written(t, i),
         Written(t, i) => op'[t].new = op[t].new
  PROVE  Settled(i)'
<1>1. \A u \in Threads : Written(u, i)' <=> Written(u, i)
  BY DEF Written
<1>2. \A u \in Threads : Written(u, i) => op'[u].new = op[u].new
  OBVIOUS
<1> QED BY <1>1, <1>2 DEF Settled

\* With an empty log and nobody at work, every record is settled.
LEMMA Emptied ==
  ASSUME TypeInv', LockInv', wal' = <<>>, lock' = Free, NEW i \in Ids
  PROVE  Settled(i)'
<1>1. \A t \in Threads : ~Written(t, i)'
  BY CollectionAssumption DEF LockInv, Written, Writing, Inside
<1>2. Recovered' = data'
  BY RecoveredBecomes, AfterNone DEF TypeInv, TypeOK, FilesOK
<1> QED BY <1>1, <1>2 DEF Settled

LEMMA StartsSettled ==
  ASSUME BaseInv, NEW i \in Ids, Settled(i), NEW t \in Threads, Starts(t)
  PROVE  Settled(i)'
<1> USE DEF BaseInv, TypeInv, TypeOK, ThreadsOK, datav, walv
<1>1. mode = "up" /\ pc[t] = "idle"
  BY ThreadsUp, StartsIdle
<1>2. \A u \in Threads \ {t} : pc'[u] = pc[u] /\ op'[u] = op[u]
  BY OthersSame
<1>3. UNCHANGED <<data, wal>>
  BY DEF Starts, CallCreate, CallUpdate, CallDelete, CallMaintenance,
         CallGet, CallFind
<1>4. pc'[t] \notin Writing
  BY DEF Starts, CallCreate, CallUpdate, CallDelete, CallMaintenance,
         CallGet, CallFind, Goto, Writing
<1>5. ~Written(t, i) /\ ~Written(t, i)'
  BY <1>1, <1>4 DEF Written, Writing
<1> QED BY <1>1, <1>2, <1>3, <1>5, RecoveredSame, SettledSame

\* Steps that neither log nor store anything.
LEMMA QuietSettled ==
  ASSUME BaseInv, NEW i \in Ids, Settled(i), NEW t \in Threads,
         i \notin Refused(t),
         \/ AcquireCreate(t) \/ AcquireExisting(t) \/ NotFound(t)
         \/ Reject(t) \/ Unindex(t) \/ Reindex(t) \/ CacheWrite(t)
         \/ AcquireMaintenance(t) \/ Rewrite(t) \/ ClearIndex(t)
         \/ FillIndex(t) \/ ClearCache(t)
         \/ ReadRecord(t) \/ FillCache(t) \/ LoadLive(t) \/ Answer(t)
  PROVE  Settled(i)'
<1> USE DEF BaseInv, TypeInv, TypeOK, ThreadsOK
<1>1. mode = "up" /\ \A u \in Threads \ {t} : pc'[u] = pc[u] /\ op'[u] = op[u]
  BY ThreadsUp, OthersSame DEF Steps
<1>2. UNCHANGED <<data, wal>>
  BY DEF AcquireCreate, AcquireExisting, NotFound, Reject, Unindex, Reindex,
         CacheWrite, AcquireMaintenance, Rewrite, ClearIndex, FillIndex,
         ClearCache, ReadRecord, FillCache, LoadLive, Answer, datav, walv
<1>3. CASE Unindex(t) \/ Reindex(t)
  <2>1. /\ pc[t] \in Writing /\ pc'[t] \in Writing /\ op' = op
    BY <1>3 DEF Unindex, Reindex, Goto, Writing
  <2>2. Written(t, i)' <=> Written(t, i)
    BY <2>1 DEF Written
  <2> QED BY <1>1, <1>2, <2>1, <2>2, RecoveredSame, SettledSame
<1>4. CASE Reject(t)
  <2>1. pc[t] = "unindex" /\ Duplicate(op[t]) /\ pc'[t] = "idle"
    BY <1>4 DEF Reject, Release, Leave, Goto
  <2>2. i # op[t].id
    BY <2>1 DEF Refused
  <2>3. ~Written(t, i) /\ ~Written(t, i)'
    BY <2>1, <2>2 DEF Written, Writing
  <2> QED BY <1>1, <1>2, <2>3, RecoveredSame, SettledSame
<1>5. CASE ~Unindex(t) /\ ~Reindex(t) /\ ~Reject(t)
  <2>1. pc[t] \notin Writing /\ pc'[t] \notin Writing
    BY <1>5
       DEF AcquireCreate, AcquireExisting, NotFound, CacheWrite,
           AcquireMaintenance, Rewrite, ClearIndex, FillIndex, ClearCache,
           ReadRecord, FillCache, LoadLive, Answer, Release, Leave, Goto,
           Writing
  <2>2. ~Written(t, i) /\ ~Written(t, i)'
    BY <2>1 DEF Written
  <2> QED BY <1>1, <1>2, <2>2, RecoveredSame, SettledSame
<1> QED BY <1>3, <1>4, <1>5

LEMMA FileSettled ==
  ASSUME BaseInv, DoubtInv, TypeInv', LockInv', NEW i \in Ids \ doubt,
         NEW t \in Threads, LogWrite(t) \/ AppendRecord(t) \/ Checkpoint(t)
  PROVE  Settled(i)'
<1> USE DEF BaseInv, TypeInv, TypeOK, ThreadsOK, datav, walv
<1>1. /\ mode = "up" /\ Settled(i)
      /\ \A u \in Threads \ {t} : pc'[u] = pc[u] /\ op'[u] = op[u]
  BY ThreadsUp, OthersSame DEF Steps, DoubtInv
<1>2. \A u \in Threads \ {t} : ~Written(u, i)'
  <2>1. pc[t] \in Inside
    BY DEF LogWrite, AppendRecord, Checkpoint, Inside
  <2> QED BY <1>1, <2>1 DEF LockInv, Written, Writing, Inside
<1>3. CASE LogWrite(t)
  <2>1. pc[t] = "log" /\ pc'[t] = "unindex" /\ op' = op /\ data' = data
    BY <1>3 DEF LogWrite, Goto
  <2>2. /\ Recovered' = [Recovered EXCEPT ![op[t].id] = op[t].new]
        /\ op[t].id \in Ids
    BY <1>1, <1>3, <2>1, EntryStore DEF LogWrite, EntryOf, OpOK, WriteKinds
  <2>3. Recovered'[i] = IF i = op[t].id THEN op[t].new ELSE Recovered[i]
    BY <2>2 DEF Recovered
  <2>4. CASE i = op[t].id
    <3>1. Written(t, i)'
      BY <2>1, <2>4 DEF Written, Writing
    <3> QED BY <1>2, <2>1, <2>3, <2>4, <3>1 DEF Settled
  <2>5. CASE i # op[t].id
    <3>1. ~Written(t, i) /\ ~Written(t, i)'
      BY <2>1, <2>5 DEF Written
    <3> QED BY <1>1, <2>1, <2>3, <2>5, <3>1, SettledSame
  <2> QED BY <2>4, <2>5
<1>4. CASE AppendRecord(t)
  <2>1. pc[t] = "append" /\ pc'[t] = "cache" /\ op' = op
    BY <1>4 DEF AppendRecord, Goto
  <2>2. /\ Recovered'[i] = Recovered[i]
        /\ i = op[t].id => Recovered'[i] = op[t].new
        /\ data' = [data EXCEPT ![op[t].id] = op[t].new]
    BY <1>4, PutStore DEF AppendRecord
  <2>3. ~Written(t, i)'
    BY <2>1 DEF Written, Writing
  <2>4. CASE i = op[t].id
    <3>1. data'[i] = op[t].new
      BY <2>2, <2>4 DEF FilesOK
    <3> QED BY <1>2, <2>2, <2>3, <2>4, <3>1 DEF Settled
  <2>5. CASE i # op[t].id
    <3>1. ~Written(t, i) /\ data'[i] = data[i]
      BY <2>2, <2>5 DEF Written, FilesOK
    <3> QED BY <1>1, <2>2, <2>3, <3>1, SettledSame
  <2> QED BY <2>4, <2>5
<1>5. CASE Checkpoint(t)
  BY <1>5, EmptyStore, Emptied DEF Checkpoint, Release
<1> QED BY <1>3, <1>4, <1>5

LEMMA FailSettled ==
  ASSUME BaseInv, DoubtInv, TypeInv', LockInv', NEW i \in Ids \ doubt,
         NEW t \in Threads, Fail(t), i \notin Raising(t)
  PROVE  Settled(i)'
<1> USE DEF BaseInv, TypeInv, TypeOK, ThreadsOK, datav, walv
<1>1. /\ pc[t] \in {"log", "reindex", "append", "checkpoint", "rewrite", "fill"}
      /\ pc'[t] = "idle" /\ lock' = Free /\ counter' = counter
      /\ \A u \in Threads \ {t} : pc'[u] = pc[u] /\ op'[u] = op[u]
  BY DEF Fail, Release, Leave, Goto
<1>2. mode = "up" /\ Settled(i)
  BY ThreadsUp DEF DoubtInv
<1>3. ~Written(t, i) /\ ~Written(t, i)'
  BY <1>1 DEF Written, Writing, Raising
<1>4. CASE UNCHANGED <<data, wal>>
  BY <1>1, <1>2, <1>3, <1>4, RecoveredSame, SettledSame
<1>5. CASE pc[t] = "log" /\ Append_wal(EntryOf(t)) /\ data' = data
  <2>1. Recovered' = [Recovered EXCEPT ![op[t].id] = op[t].new]
    BY <1>1, <1>5, EntryStore
  <2>2. i # op[t].id
    BY <1>5 DEF Raising
  <2>3. Recovered'[i] = Recovered[i]
    BY <2>1, <2>2 DEF Recovered
  <2> QED BY <1>1, <1>2, <1>3, <1>5, <2>3, SettledSame
<1>6. CASE pc[t] = "append" /\ Append_data(op[t].id, op[t].new) /\ wal' = wal
  <2>1. /\ Recovered'[i] = Recovered[i]
        /\ data' = [data EXCEPT ![op[t].id] = op[t].new]
    BY <1>6, PutStore
  <2>2. i # op[t].id
    BY <1>6 DEF Raising
  <2>3. data'[i] = data[i]
    BY <2>1, <2>2 DEF FilesOK
  <2> QED BY <1>1, <1>2, <1>3, <2>1, <2>3, SettledSame
<1>7. CASE pc[t] = "checkpoint" /\ Log_checkpoint /\ data' = data
  BY <1>1, <1>7, EmptyStore, Emptied
<1> QED BY <1>4, <1>5, <1>6, <1>7 DEF Fail, EntryOf

LEMMA RunSettled ==
  ASSUME BaseInv, TypeInv', LockInv', NEW i \in Ids,
         Close \/ Crash \/ LoseIndex \/ Open \/ Recovers
  PROVE  Settled(i)'
<1>1. mode' = "up" => wal' = <<>> /\ lock' = Free
  BY DEF Close, Crash, Down, LoseIndex, Open, Recovers, Replay, Replayed,
         RecoverIndex, RecoverCheckpoint, Log_checkpoint, ReplayInv, BaseInv,
         LockInv, runv, thrv, walv
<1> QED BY <1>1, Emptied DEF Settled

-----------------------------------------------------------------------------
(* What a write logs is made from what is stored *)

LEMMA FromStoredStep ==
  ASSUME BaseInv, \A t \in Threads : FromStored(t), Next
  PROVE  \A t \in Threads : FromStored(t)'
<1> USE DEF BaseInv, TypeInv, TypeOK, ThreadsOK, datav
<1>1. ASSUME NEW t \in Threads, Starts(t) \/ Steps(t) \/ Fail(t),
             pc[t] # "append", ~AcquireExisting(t)
      PROVE  \A u \in Threads : FromStored(u)'
  <2>1. \A u \in Threads \ {t} : pc'[u] = pc[u] /\ op'[u] = op[u]
    BY <1>1, OthersSame DEF Fail, Release, Leave, Goto
  <2>2. data' = data
    <3>1. CASE Starts(t)
      BY <3>1
         DEF Starts, CallCreate, CallUpdate, CallDelete, CallMaintenance,
             CallGet, CallFind
    <3>2. CASE Steps(t) \/ Fail(t)
      BY <1>1, <3>2
         DEF Steps, AcquireCreate, NotFound, LogWrite, Reject, Unindex,
             Reindex, AppendRecord, CacheWrite, Checkpoint,
             AcquireMaintenance, Rewrite, ClearIndex, FillIndex, ClearCache,
             ReadRecord, FillCache, LoadLive, Answer, Fail
    <3> QED BY <1>1, <3>1, <3>2
  <2>3. pc'[t] = "log" => op'[t].kind = "create"
    <3>1. CASE Starts(t)
      BY <3>1
         DEF Starts, CallCreate, CallUpdate, CallDelete, CallMaintenance,
             CallGet, CallFind, Goto
    <3>2. CASE Steps(t) \/ Fail(t)
      BY <1>1, <3>2
         DEF Steps, AcquireCreate, NotFound, LogWrite, Reject, Unindex,
             Reindex, AppendRecord, CacheWrite, Checkpoint,
             AcquireMaintenance, Rewrite, ClearIndex, FillIndex, ClearCache,
             ReadRecord, FillCache, LoadLive, Answer, Fail, Release, Leave,
             Goto
    <3> QED BY <1>1, <3>1, <3>2
  <2>4. FromStored(t)'
    BY <2>3 DEF FromStored, WriteKinds
  <2> QED BY <2>1, <2>2, <2>4 DEF FromStored
<1>2. ASSUME NEW t \in Threads, Steps(t) \/ Fail(t), pc[t] = "append"
      PROVE  \A u \in Threads : FromStored(u)'
  <2>1. pc'[t] # "log"
    BY <1>2, AppendOnly DEF AppendRecord, Fail, Release, Leave, Goto
  <2>2. \A u \in Threads \ {t} : pc'[u] = pc[u] /\ pc[u] # "log"
    BY <1>2, OthersSame DEF Fail, Release, Leave, Goto, LockInv, Inside
  <2> QED BY <2>1, <2>2 DEF FromStored
<1>3. ASSUME NEW t \in Threads, AcquireExisting(t)
      PROVE  \A u \in Threads : FromStored(u)'
  <2>1. /\ data' = data
        /\ \A u \in Threads \ {t} : pc'[u] = pc[u] /\ op'[u] = op[u]
    BY <1>3 DEF AcquireExisting, Goto
  <2> DEFINE i == op[t].id
             new == IF op[t].kind = "update" THEN Patched(data[i], op[t].arg)
                    ELSE NoRec
             r == Request(op[t].kind, i, op[t].arg, new, {})
  <2>2. /\ op'[t] = [r EXCEPT !.old = data[i]]
        /\ op[t].kind \in {"update", "delete"}
        /\ data[i] # NoRec
    BY <1>3 DEF AcquireExisting
  <2>3. /\ [r EXCEPT !.old = data[i]].id = i
        /\ [r EXCEPT !.old = data[i]].kind = op[t].kind
        /\ [r EXCEPT !.old = data[i]].arg = op[t].arg
        /\ [r EXCEPT !.old = data[i]].new = new
    BY DEF Request
  <2>4. FromStored(t)'
    BY <2>1, <2>2, <2>3 DEF FromStored
  <2> QED BY <2>1, <2>4 DEF FromStored
<1>4. CASE Close \/ Crash \/ LoseIndex \/ Open \/ Recovers
  <2>1. \A u \in Threads : pc'[u] = "idle"
    BY <1>4
       DEF Close, Crash, Down, LoseIndex, Open, Recovers, Replay, Replayed,
           RecoverIndex, RecoverCheckpoint, thrv, FreshInv
  <2> QED BY <2>1 DEF FromStored
<1> QED BY <1>1, <1>2, <1>3, <1>4, StartsIdle DEF Next, Steps

-----------------------------------------------------------------------------
(* The steps of the collection with compact_all *)

\* A step of the collection that puts some ids in doubt, or none.
LEMMA NextDoubt ==
  ASSUME ~Torn, BaseInv, DoubtInv, Next, NEW ids, Doubts(ids),
         \A i \in ids : i \in Ids /\ Known(i)',
         \A i \in Ids \ (doubt \cup ids) : TypeInv' /\ LockInv' => Settled(i)',
         phase' # "none" => compactor' # Free /\ mode' = "up",
         pending' \in {pending, <<>>}
  PROVE  /\ BaseInv' /\ DoubtInv'
         /\ Store!Next \/ InDoubt
<1>1. BaseInv'
  BY TypeStep, FreshStep, LockStep, ReplayStep DEF BaseInv
<1>2. pending' \in Seq(Entry) /\ IdsIn(pending') \subseteq IdsIn(pending)
  <2>1. IdsIn(<<>>) = {} /\ <<>> \in Seq(Entry)
    BY DEF IdsIn
  <2> QED BY <2>1 DEF DoubtInv
<1>3. doubt' \subseteq doubt \cup ids
  BY DEF Doubts
<1>4. \A i \in doubt' \cup IdsIn(pending') : i \in Ids /\ Known(i)'
  BY <1>2, <1>3, KnownStep DEF DoubtInv
<1>5. ASSUME NEW i \in Ids \ doubt' PROVE Settled(i)'
  <2>1. CASE wal' = <<>> /\ lock' = Free
    BY <1>1, <2>1, Emptied DEF BaseInv
  <2>2. CASE ~(wal' = <<>> /\ lock' = Free)
    BY <1>1, <1>5, <2>2 DEF Doubts, BaseInv
  <2> QED BY <2>1, <2>2
<1>6. \A t \in Threads : FromStored(t)'
  BY FromStoredStep DEF DoubtInv
<1>7. IdsIn(pending)' = IdsIn(pending')
  BY DEF IdsIn
<1>8. DoubtInv'
  BY <1>2, <1>4, <1>5, <1>6, <1>7 DEF DoubtInv
<1> QED BY <1>1, <1>8, NextEffect, ApartDoubt

\* The log is replaced by the entries read.
LEMMA ReplaceDoubt ==
  ASSUME BaseInv, DoubtInv, NEW t \in Threads, ReplaceLog(t)
  PROVE  BaseInv' /\ DoubtInv' /\ InDoubt
<1> USE DEF BaseInv, datav, idxv, thrv, runv
<1>1. /\ wal' = pending /\ walTorn' = FALSE /\ phase # "none"
      /\ UNCHANGED <<data, dataTorn, diskIdx, memIdx, cache, counter, lock, pc,
                     op, mode, rq, restarts, errors>>
      /\ compactor' = Free /\ phase' = "none" /\ pending' = <<>>
      /\ Doubts(Late)
  BY DEF ReplaceLog, LeaveCompactAll
<1>2. mode = "up" /\ pending \in Seq(Entry)
  BY <1>1 DEF DoubtInv
<1>3. TypeInv'
  BY <1>1, <1>2 DEF TypeInv, TypeOK, FilesOK, MemoryOK, ThreadsOK, OpOK
<1>4. LockInv' /\ ReplayInv'
  BY <1>1, <1>2 DEF LockInv, ReplayInv
<1>5. \A i : Known(i)' <=> Known(i)
  BY <1>1 DEF Known, IsFresh
<1>6. FreshInv'
  <2>1. \A k \in DOMAIN pending : Known(pending[k].id)
    BY DEF DoubtInv, IdsIn
  <2> QED BY <1>1, <1>5, <2>1 DEF FreshInv, Owned, IsFresh
<1>7. doubt' \subseteq doubt \cup IdsIn(pending) \cup IdsIn(wal)
  BY <1>1 DEF Doubts, Late
<1>8. \A i \in IdsIn(wal) : i \in Ids /\ Known(i)
  <2>1. \A k \in DOMAIN wal : wal[k] \in Entry
    BY ElementOfSeq, LenProperties DEF TypeInv, TypeOK, FilesOK
  <2> QED BY <2>1 DEF FreshInv, IdsIn, Entry
<1>9. \A i \in doubt' \cup IdsIn(pending') : i \in Ids /\ Known(i)'
  <2>1. IdsIn(pending') = {}
    BY <1>1 DEF IdsIn
  <2> QED BY <1>5, <1>7, <1>8, <2>1 DEF DoubtInv
<1>10. ASSUME NEW i \in Ids \ (doubt \cup doubt')
       PROVE  Recovered'[i] = Recovered[i]
  <2>1. CASE wal' = <<>> /\ lock' = Free
    <3>1. \A u \in Threads : ~Written(u, i)
      BY <1>1, <2>1, CollectionAssumption
         DEF LockInv, Written, Writing, Inside
    <3>2. Recovered[i] = data[i]
      BY <1>2, <1>10, <3>1 DEF DoubtInv, Settled
    <3>3. Recovered' = data
      BY <1>1, <1>3, <2>1, RecoveredBecomes, AfterNone
         DEF TypeInv, TypeOK, FilesOK
    <3> QED BY <3>2, <3>3
  <2>2. CASE ~(wal' = <<>> /\ lock' = Free)
    <3>1. i \notin Late
      BY <1>1, <1>10, <2>2 DEF Doubts
    <3>2. CASE pending = wal
      BY <1>1, <3>2, RecoveredSame
    <3>3. CASE pending # wal
      <4>1. i \in Ids \ IdsIn(pending) /\ i \in Ids \ IdsIn(wal)
        BY <3>1, <3>3 DEF Late
      <4>2. After(data, wal)[i] = data[i] /\ After(data, pending)[i] = data[i]
        BY <4>1, AfterAbsent
      <4> QED BY <1>1, <4>2, RecoveredIs, RecoveredBecomes
    <3> QED BY <3>2, <3>3
  <2> QED BY <2>1, <2>2
<1>11. ASSUME NEW i \in Ids \ doubt' PROVE Settled(i)'
  <2>1. CASE wal' = <<>> /\ lock' = Free
    BY <1>3, <1>4, <2>1, Emptied
  <2>2. CASE ~(wal' = <<>> /\ lock' = Free)
    <3>1. i \notin doubt
      BY <1>1, <1>11, <2>2 DEF Doubts
    <3>2. Recovered'[i] = Recovered[i] /\ Settled(i)
      BY <1>10, <1>11, <3>1 DEF DoubtInv
    <3> QED BY <1>1, <3>2 DEF Settled, Written
  <2> QED BY <2>1, <2>2
<1>12. \A u \in Threads : FromStored(u)'
  BY <1>1 DEF DoubtInv, FromStored
<1>13. IdsIn(pending)' = IdsIn(pending')
  BY DEF IdsIn
<1>14. DoubtInv'
  BY <1>1, <1>9, <1>11, <1>12, <1>13 DEF DoubtInv
<1>15. UNCHANGED <<counter, Drawn>>
  BY <1>1 DEF Drawn
<1> QED BY <1>3, <1>4, <1>6, <1>10, <1>14, <1>15 DEF InDoubt

\* A write that raises leaves an id in doubt that is in use.
LEMMA RefusedKnown ==
  ASSUME BaseInv, DoubtInv, NEW t \in Threads, Steps(t), NEW i \in Refused(t)
  PROVE  i \in Ids /\ Known(i)'
<1>1. pc[t] = "unindex" /\ i = op[t].id
  BY DEF Refused
<1>2. i \in Ids /\ Known(i)
  BY <1>1 DEF BaseInv, TypeInv, OpOK, WriteKinds, FreshInv, Owned
<1> QED BY <1>2, KnownStep DEF Next

LEMMA RaisingKnown ==
  ASSUME BaseInv, DoubtInv, NEW t \in Threads, Fail(t), NEW i \in Raising(t)
  PROVE  i \in Ids /\ Known(i)'
<1> USE DEF BaseInv, TypeInv, TypeOK, ThreadsOK
<1>1. pc[t] \in {"log", "reindex", "append"} /\ i = op[t].id
  BY DEF Raising
<1>2. i \in Ids
  BY <1>1 DEF OpOK, WriteKinds
<1>3. CASE IsFresh(t)
  <2>1. i <= counter /\ \A u \in Threads \ {t} : IsFresh(u) => op[u].id # i
    BY <1>1, <1>3 DEF FreshInv
  <2>2. /\ counter' = counter /\ ~IsFresh(t)'
        /\ \A u \in Threads \ {t} : pc'[u] = pc[u] /\ op'[u] = op[u]
    BY NoOpType DEF Fail, Release, Leave, Goto, IsFresh
  <2> QED BY <1>2, <2>1, <2>2 DEF Known, IsFresh
<1>4. CASE ~IsFresh(t)
  <2>1. Known(i)
    BY <1>1, <1>4 DEF FreshInv, Owned, IsFresh
  <2> QED BY <1>2, <2>1, KnownStep DEF Next
<1> QED BY <1>3, <1>4

LEMMA StepsSettled ==
  ASSUME BaseInv, DoubtInv, TypeInv', LockInv', NEW i \in Ids \ doubt,
         NEW t \in Threads, Steps(t), i \notin Refused(t)
  PROVE  Settled(i)'
  BY QuietSettled, FileSettled DEF Steps, DoubtInv

LEMMA DoubtInit == LogInit => BaseInv /\ DoubtInv /\ Store!Init
<1> SUFFICES ASSUME LogInit PROVE BaseInv /\ DoubtInv /\ Store!Init
  OBVIOUS
<1>1. BaseInv /\ Store!Init
  BY TypeInit, FreshInit, LockInit, ReplayInit, StoreInit DEF LogInit, BaseInv
<1>2. \A t \in Threads : pc[t] = "idle"
  BY DEF LogInit, Init
<1>3. Recovered = data
  BY <1>1, RecoveredIs, AfterNone
     DEF LogInit, Init, BaseInv, TypeInv, TypeOK, FilesOK
<1>4. doubt = {} /\ pending = <<>> /\ phase = "none" /\ IdsIn(pending) = {}
  BY DEF LogInit, IdsIn
<1> QED
  BY <1>1, <1>2, <1>3, <1>4 DEF DoubtInv, Settled, Written, Writing, FromStored

LEMMA DoubtStep ==
  ASSUME ~Torn
  PROVE  BaseInv /\ DoubtInv /\ [LogNext]_lvars
           => /\ BaseInv' /\ DoubtInv'
              /\ [Store!Next \/ InDoubt]_lvars
<1> SUFFICES ASSUME BaseInv, DoubtInv, [LogNext]_lvars
             PROVE  /\ BaseInv' /\ DoubtInv'
                    /\ [Store!Next \/ InDoubt]_lvars
  OBVIOUS
<1> DEFINE Good == BaseInv' /\ DoubtInv' /\ (Store!Next \/ InDoubt)
<1> USE DEF logc
<1>1. CASE UNCHANGED <<vars, doubt>> /\ pending' \in {pending, wal}
           /\ (phase' # "none" => compactor' # Free /\ mode = "up")
  <2>1. BaseInv'
    BY <1>1, TypeStep, FreshStep, LockStep, ReplayStep DEF BaseInv
  <2>2. UNCHANGED <<data, wal, counter, pc, op, mode>>
    BY <1>1 DEF vars, datav, walv, thrv, runv
  <2>3. \A i : Known(i)' <=> Known(i)
    BY <2>2 DEF Known, IsFresh
  <2>4. \A i \in IdsIn(wal) : i \in Ids /\ Known(i)
    <3>1. wal \in Seq(Entry)
      BY DEF BaseInv, TypeInv, TypeOK, FilesOK
    <3>2. \A k \in DOMAIN wal : wal[k] \in Entry
      BY <3>1, ElementOfSeq, LenProperties
    <3> QED BY <3>2 DEF FreshInv, IdsIn, Entry, BaseInv
  <2>5. /\ pending' \in Seq(Entry)
        /\ \A i \in doubt' \cup IdsIn(pending') : i \in Ids /\ Known(i)'
    BY <1>1, <2>3, <2>4 DEF DoubtInv, BaseInv, TypeInv, TypeOK, FilesOK
  <2>6. IdsIn(pending)' = IdsIn(pending') /\ Recovered' = Recovered
    BY <2>2, RecoveredSame DEF IdsIn
  <2>7. \A i \in Ids \ doubt' : Settled(i)'
    BY <1>1, <2>2, <2>6 DEF DoubtInv, Settled, Written
  <2>8. \A t \in Threads : FromStored(t)'
    BY <2>2 DEF DoubtInv, FromStored
  <2>9. DoubtInv'
    BY <1>1, <2>2, <2>5, <2>6, <2>7, <2>8 DEF DoubtInv
  <2>10. InDoubt
    BY <2>2, <2>6 DEF InDoubt, Drawn
  <2> QED BY <2>1, <2>9, <2>10
<1>2. ASSUME NEW t \in Threads, CallCompactAll(t) PROVE Good
  <2>1. Starts(t)
    BY <1>2 DEF CallCompactAll, CallMaintenance, Starts
  <2>2. /\ compactor' = t /\ phase' = "compact" /\ pending' = pending
        /\ Doubts({}) /\ t # Free
    BY <1>2, CollectionAssumption DEF CallCompactAll
  <2>3. mode' = "up"
    BY <2>1, ThreadsUp DEF BaseInv
  <2>4. \A i \in Ids \ doubt : Settled(i)'
    BY <2>1, StartsSettled DEF DoubtInv
  <2> QED BY <2>1, <2>2, <2>3, <2>4, NextDoubt DEF Next
<1>3. ASSUME NEW t \in Threads, ReadLog(t)
      PROVE  /\ UNCHANGED <<vars, doubt>> /\ pending' \in {pending, wal}
             /\ (phase' # "none" => compactor' # Free /\ mode = "up")
  BY <1>3 DEF ReadLog, DoubtInv
<1>4. ASSUME NEW t \in Threads, ReplaceLog(t) PROVE Good
  BY <1>4, ReplaceDoubt
<1>5. ASSUME NEW t \in Threads, Starts(t), Doubts({}), UNCHANGED logc
      PROVE  Good
  <2>1. mode' = "up" /\ mode = "up"
    BY <1>5, ThreadsUp DEF BaseInv
  <2>2. \A i \in Ids \ doubt : Settled(i)'
    BY <1>5, StartsSettled DEF DoubtInv
  <2>3. phase' # "none" => compactor' # Free /\ mode' = "up"
    BY <1>5, <2>1 DEF DoubtInv
  <2> QED BY <1>5, <2>2, <2>3, NextDoubt DEF Next
<1>6. ASSUME NEW t \in Threads, LogSteps(t) PROVE Good
  <2>1. Steps(t) /\ Doubts(Refused(t)) /\ UNCHANGED logc
    BY <1>6 DEF LogSteps
  <2>2. mode' = "up" /\ mode = "up"
    BY <2>1, ThreadsUp DEF BaseInv
  <2>3. phase' # "none" => compactor' # Free /\ mode' = "up"
    BY <2>1, <2>2 DEF DoubtInv
  <2>4. \A i \in Refused(t) : i \in Ids /\ Known(i)'
    BY <2>1, RefusedKnown
  <2>5. \A i \in Ids \ (doubt \cup Refused(t)) :
          TypeInv' /\ LockInv' => Settled(i)'
    BY <2>1, StepsSettled
  <2> QED BY <2>1, <2>3, <2>4, <2>5, NextDoubt DEF Next
<1>7. ASSUME NEW t \in Threads, Fail(t), Doubts(Raising(t)),
             IF t = compactor THEN LeaveCompactAll ELSE UNCHANGED logc
      PROVE  Good
  <2>1. mode' = "up" /\ mode = "up"
    BY <1>7, ThreadsUp DEF BaseInv
  <2>2. /\ phase' # "none" => compactor' # Free /\ mode' = "up"
        /\ pending' \in {pending, <<>>}
    BY <1>7, <2>1 DEF DoubtInv, LeaveCompactAll
  <2>3. \A i \in Raising(t) : i \in Ids /\ Known(i)'
    BY <1>7, RaisingKnown
  <2>4. \A i \in Ids \ (doubt \cup Raising(t)) :
          TypeInv' /\ LockInv' => Settled(i)'
    BY <1>7, FailSettled
  <2> QED BY <1>7, <2>2, <2>3, <2>4, NextDoubt DEF Next
<1>8. ASSUME Close \/ Crash \/ LoseIndex \/ Open \/ Recovers, Doubts({}),
             phase' = "none", pending' \in {pending, <<>>}
      PROVE  Good
  <2>1. \A i \in Ids : TypeInv' /\ LockInv' => Settled(i)'
    BY <1>8, RunSettled
  <2> QED BY <1>8, <2>1, NextDoubt DEF Next
<1>9. CASE compactor = Free /\ Close /\ Doubts({}) /\ UNCHANGED logc
  BY <1>8, <1>9 DEF DoubtInv
<1>10. CASE Crash /\ Doubts({}) /\ LeaveCompactAll
  BY <1>8, <1>10 DEF LeaveCompactAll
<1>11. CASE (LoseIndex \/ Open \/ Recovers) /\ Doubts({}) /\ UNCHANGED logc
  <2>1. mode # "up"
    BY <1>11
       DEF LoseIndex, Open, Recovers, Replay, Replayed, RecoverIndex,
           RecoverCheckpoint
  <2> QED BY <1>8, <1>11, <2>1 DEF DoubtInv
<1>12. CASE UNCHANGED lvars
  BY <1>1, <1>12 DEF lvars, DoubtInv
<1>13. CASE LogNext
  BY <1>1, <1>2, <1>3, <1>4, <1>5, <1>6, <1>7, <1>9, <1>10, <1>11, <1>13
     DEF LogNext, LogRecovers
<1> QED BY <1>12, <1>13

\* With compact_all, rejected writes and I/O errors, at any size: a recovery
\* at any moment brings back what the last operation left of every record
\* outside doubt, each operation taking effect once, when it is logged
\* (collection.py and wal.py:7).  Nothing is asked of the threads between the
\* reading and the replacing of the log: what a writer appends there is what
\* puts its record in doubt, as does a write that raises once logged; and all
\* doubt ends with the next moment at which the log is empty and the lock is
\* free.  Torn lines are left out.
THEOREM CompactAllKeepsStore ==
  ASSUME ~Torn
  PROVE  LogSpec => StoreOutsideDoubt
<1>1. LogInit => BaseInv /\ DoubtInv /\ Store!Init
  BY DoubtInit
<1>2. BaseInv /\ DoubtInv /\ [LogNext]_lvars
        => /\ (BaseInv /\ DoubtInv)'
           /\ [Store!Next \/ InDoubt]_lvars
  BY DoubtStep
<1> QED BY <1>1, <1>2, PTL DEF LogSpec, StoreOutsideDoubt

-----------------------------------------------------------------------------
(* What get(field=value) returns, and when it may miss a record that is    *)
(* there.  The index is asked without the lock, so that it may be ahead of *)
(* the data file, by the write of the one thread that is about to append,  *)
(* or behind it, by the record whose postings are being exchanged.         *)

\* get() takes exactly one field=value pair.
OneField ==
  \A p \in Probes, f, g \in Fields : Has(p, f) /\ Has(p, g) => f = g

\* r is a record with the field=value pair of probe p.
HasValue(r, p) == r # NoRec /\ Matches(r, p)

\* Record i is about to be given, or to lose, the value of p.
Gains(i, p) ==
  \E u \in Threads : pc[u] = "append" /\ op[u].id = i /\ HasValue(op[u].new, p)

Loses(i, p) ==
  \E u \in Threads : pc[u] = "append" /\ op[u].id = i /\ ~HasValue(op[u].new, p)

\* What the thread has been told by the index holds up to the write that is
\* about to be appended.
Told(t) ==
  /\ \A i \in op[t].ids : i \in seen[t] \/ Gains(i, op[t].arg)
  /\ \A i \in steady[t] :
       i \in op[t].ids \/ i \in unsettled[t] \/ Loses(i, op[t].arg)

Follows(t) ==
  op[t].kind = "find" =>
    /\ pc[t] \in {"load", "found", "missed"}
    /\ steady[t] \subseteq Matching(t) /\ Matching(t) \subseteq seen[t]
    /\ pc[t] = "load" => Told(t)
    /\ pc[t] = "found" => op[t].id \in seen[t]
    /\ pc[t] = "missed" => steady[t] \subseteq unsettled[t]

LookInv ==
  \A t \in Threads : Follows(t) /\ (pc[t] = "load" => op[t].kind = "find")

LEMMA LookInit == Init => LookInv
  BY NoOpType DEF Init, LookInv, Follows

-----------------------------------------------------------------------------
(* What the index answers *)

\* An exact index answers with the records that match.
LEMMA LookupExact ==
  ASSUME NEW live \in [Ids -> Maybe], NEW p \in Record, NEW f \in Fields,
         Has(p, f), \A g \in Fields : Has(p, g) => g = f, NEW i \in Ids
  PROVE  i \in Lookup(IndexOf(live), f, p[f]) <=> HasValue(live[i], p)
<1>1. ASSUME i \in Lookup(IndexOf(live), f, p[f])
      PROVE  HasValue(live[i], p)
  <2>1. PICK q \in IndexOf(live) : q[1] = f /\ q[2] = Key[p[f]] /\ q[3] = i
    BY <1>1 DEF Lookup
  <2>2. PICK j \in Ids : q \in Postings(j, live[j])
    BY <2>1 DEF IndexOf
  <2>3. j = i
    BY <2>1, <2>2, PostingsOwn
  <2>4. live[i] # NoRec /\ Has(live[i], f) /\ Key[live[i][f]] = Key[p[f]]
    BY <2>1, <2>2, <2>3 DEF Postings
  <2> QED BY <2>4 DEF HasValue, Matches
<1>2. ASSUME HasValue(live[i], p)
      PROVE  i \in Lookup(IndexOf(live), f, p[f])
  <2>1. live[i] # NoRec /\ Has(live[i], f) /\ Key[live[i][f]] = Key[p[f]]
    BY <1>2 DEF HasValue, Matches
  <2> QED BY <2>1, FiledUnder
<1> QED BY <1>1, <1>2

\* Without the postings of one record it says the same of every other.
LEMMA LookupWithout ==
  ASSUME NEW index, NEW r, NEW j, NEW i, i # j, NEW f, NEW v
  PROVE  i \in Lookup(index \ Postings(j, r), f, v) <=> i \in Lookup(index, f, v)
<1>1. \A q \in index : q[3] = i => q \notin Postings(j, r)
  BY PostingsOwn
<1> QED BY <1>1 DEF Lookup

\* At the moment of the call, wherever the thread in the lock is.
LEMMA Asked ==
  ASSUME TypeInv, LockInv, IndexInv, mode = "up",
         NEW p \in Record, NEW f \in Fields,
         Has(p, f), \A g \in Fields : Has(p, g) => g = f, NEW i \in Ids
  PROVE  /\ i \in Lookup(memIdx, f, p[f]) =>
              HasValue(data[i], p) \/ Gains(i, p)
         /\ HasValue(data[i], p) =>
              i \in Lookup(memIdx, f, p[f]) \/ i \in Unsettled \/ Loses(i, p)
<1> USE DEF TypeInv, TypeOK, FilesOK, ThreadsOK
<1>1. CASE memIdx = IndexOf(data)
  BY <1>1, LookupExact
<1>2. ASSUME NEW u \in Threads, pc[u] = "reindex"
      PROVE  /\ i \in Lookup(memIdx, f, p[f]) => HasValue(data[i], p)
             /\ HasValue(data[i], p) =>
                  i \in Lookup(memIdx, f, p[f]) \/ i \in Unsettled
  <2>1. /\ memIdx = IndexOf(data) \ Postings(op[u].id, op[u].old)
        /\ op[u].old = data[op[u].id]
    BY <1>2 DEF IndexInv, Held, Reads, Without
  <2>2. CASE op[u].id = i
    <3>1. i \in Unsettled
      BY <1>2, <2>2 DEF Unsettled
    <3>2. i \in Lookup(memIdx, f, p[f]) => i \in Lookup(IndexOf(data), f, p[f])
      BY <2>1 DEF Lookup
    <3> QED BY <3>1, <3>2, LookupExact
  <2>3. CASE op[u].id # i
    BY <2>1, <2>3, LookupWithout, LookupExact
  <2> QED BY <2>2, <2>3
<1>3. ASSUME NEW u \in Threads, pc[u] = "append"
      PROVE  /\ i \in Lookup(memIdx, f, p[f]) =>
                  HasValue(data[i], p) \/ Gains(i, p)
             /\ HasValue(data[i], p) =>
                  i \in Lookup(memIdx, f, p[f]) \/ Loses(i, p)
  <2> DEFINE j == op[u].id
             r == op[u].new
             new == [data EXCEPT ![j] = r]
  <2>1. j \in Ids /\ r \in Maybe
    BY <1>3 DEF OpOK, Ops
  <2>2. memIdx = IndexOf(new)
    <3>1. memIdx = (IndexOf(data) \ Postings(j, data[j])) \cup Postings(j, r)
      BY <1>3 DEF IndexInv, Held, Reads, With, Without
    <3> QED BY <2>1, <3>1, IndexOfExcept
  <2>3. /\ new \in [Ids -> Maybe] /\ new[j] = r
        /\ i # j => new[i] = data[i]
    BY <2>1
  <2> HIDE DEF new
  <2>4. i \in Lookup(memIdx, f, p[f]) <=> HasValue(new[i], p)
    BY <2>2, <2>3, LookupExact
  <2>5. CASE i = j
    BY <1>3, <2>3, <2>4, <2>5 DEF Gains, Loses
  <2>6. CASE i # j
    BY <2>3, <2>4, <2>6
  <2> QED BY <2>5, <2>6
<1>4. ASSUME NEW u \in Threads, pc[u] = "fill"
      PROVE  i \notin Lookup(memIdx, f, p[f]) /\ i \in Unsettled
  BY <1>4 DEF IndexInv, Held, Lookup, Unsettled
<1>5. CASE lock = Free
  BY <1>1, <1>5 DEF IndexInv, Exact
<1>6. CASE lock # Free
  <2>1. lock \in Threads /\ pc[lock] \in Inside /\ Held(lock)
    BY <1>6 DEF LockInv, IndexInv
  <2>2. CASE pc[lock] \in {"reindex", "append", "fill"}
    BY <1>2, <1>3, <1>4, <2>1, <2>2
  <2>3. CASE pc[lock] \notin {"reindex", "append", "fill"}
    BY <1>1, <2>1, <2>3 DEF Held, Exact, Inside
  <2> QED BY <2>2, <2>3
<1> QED BY <1>5, <1>6

-----------------------------------------------------------------------------
(* Steps *)

\* The history of a lookup that is under way and goes on.
LEMMA Recorded ==
  ASSUME LookupNext, NEW t \in Threads, op'[t].kind = "find"
  PROVE  /\ pc[t] # "idle" =>
              /\ steady'[t] = steady[t] \cap Matching(t)'
              /\ seen'[t] = seen[t] \cup Matching(t)'
              /\ unsettled'[t] = unsettled[t]
         /\ pc[t] = "idle" =>
              /\ steady'[t] = Matching(t)'
              /\ seen'[t] = Matching(t)'
              /\ unsettled'[t] = Unsettled
  BY DEF LookupNext, Follow

LEMMA MatchingIs ==
  ASSUME NEW t \in Threads
  PROVE  /\ Matching(t) = {i \in Ids : HasValue(data[i], op[t].arg)}
         /\ Matching(t)' = {i \in Ids : HasValue(data'[i], op'[t].arg)}
  BY DEF Matching, HasValue

\* A step of another thread that appends nothing.
LEMMA OtherLook ==
  ASSUME LookInv, LookupNext, NEW t \in Threads, NEW u \in Threads \ {t},
         data' = data, pc[u] # "append",
         \A w \in Threads \ {u} : pc'[w] = pc[w] /\ op'[w] = op[w]
  PROVE  Follows(t)'
<1> SUFFICES ASSUME op'[t].kind = "find" PROVE Follows(t)'
  BY DEF Follows
<1>1. pc'[t] = pc[t] /\ op'[t] = op[t] /\ Follows(t)
  BY DEF LookInv
<1>2. pc[t] \in {"load", "found", "missed"} /\ op[t].kind = "find"
  BY <1>1 DEF Follows
<1>3. Matching(t)' = Matching(t)
  BY <1>1 DEF Matching
<1>4. /\ steady'[t] = steady[t] /\ seen'[t] = seen[t]
      /\ unsettled'[t] = unsettled[t]
  BY <1>1, <1>2, <1>3, Recorded DEF Follows
<1>5. Told(t) => Told(t)'
  <2>1. PICK p : p = op[t].arg /\ p = op'[t].arg
    BY <1>1
  <2>2. ASSUME NEW i
        PROVE  (Gains(i, p) => Gains(i, p)') /\ (Loses(i, p) => Loses(i, p)')
    BY DEF Gains, Loses
  <2> QED BY <1>1, <1>4, <2>1, <2>2 DEF Told
<1> QED BY <1>1, <1>2, <1>3, <1>4, <1>5 DEF Follows

\* Another thread appends the version the index is ahead by.
LEMMA AppendLook ==
  ASSUME TypeInv, LockInv, IndexInv, LookInv, LookupNext,
         NEW t \in Threads, NEW u \in Threads \ {t}, AppendRecord(u)
  PROVE  Follows(t)'
<1> USE DEF TypeInv, TypeOK, FilesOK, ThreadsOK
<1> SUFFICES ASSUME op'[t].kind = "find" PROVE Follows(t)'
  BY DEF Follows
<1>1. pc'[t] = pc[t] /\ op'[t] = op[t] /\ Follows(t)
  BY DEF AppendRecord, Goto, LookInv
<1>2. pc[t] \in {"load", "found", "missed"} /\ op[t].kind = "find"
  BY <1>1 DEF Follows
<1>3. /\ steady'[t] = steady[t] \cap Matching(t)'
      /\ seen'[t] = seen[t] \cup Matching(t)'
      /\ unsettled'[t] = unsettled[t]
  BY <1>1, <1>2, Recorded
<1>4. /\ pc[u] = "append" /\ op[u].id \in Ids
      /\ data' = [data EXCEPT ![op[u].id] = op[u].new]
  BY DEF AppendRecord, Append_data, IndexInv, OpOK
<1>5. data'[op[u].id] = op[u].new
  BY <1>4
<1>6. \A w \in Threads \ {u} : pc[w] # "append"
  BY <1>4 DEF LockInv, Inside
<1>7. ASSUME NEW i PROVE /\ Gains(i, op[t].arg) => i \in Matching(t)'
                         /\ Loses(i, op[t].arg) => i \notin Matching(t)'
  BY <1>1, <1>4, <1>5, <1>6, MatchingIs DEF Gains, Loses
<1>8. pc[t] = "load" => Told(t)'
  BY <1>1, <1>2, <1>3, <1>7 DEF Follows, Told
<1> QED BY <1>1, <1>2, <1>3, <1>8 DEF Follows

\* The thread itself: it asks the index, reads the file, and answers.
LEMMA CallLook ==
  ASSUME OneField, TypeInv, FreshInv, LockInv, IndexInv, LookInv, LookupNext,
         NEW t \in Threads, CallFind(t)
  PROVE  Follows(t)' /\ op'[t].kind = "find"
<1> USE CollectionAssumption DEF TypeInv, TypeOK, FilesOK, ThreadsOK
<1>1. PICK p \in Probes, f \in Fields :
        /\ Has(p, f)
        /\ op' = [op EXCEPT ![t] =
                    Request("find", 0, p, NoRec, Lookup(memIdx, f, p[f]))]
  BY DEF CallFind
<1>2. /\ op'[t].kind = "find" /\ op'[t].arg = p
      /\ op'[t].ids = Lookup(memIdx, f, p[f])
  BY <1>1 DEF Request
<1>3. /\ p \in Record /\ \A g \in Fields : Has(p, g) => g = f
      /\ mode = "up" /\ pc[t] = "idle" /\ pc'[t] = "load" /\ data' = data
      /\ \A u \in Threads \ {t} : pc'[u] = pc[u] /\ op'[u] = op[u]
  BY <1>1 DEF CallFind, Call, Goto, OneField, datav
<1>4. /\ steady'[t] = Matching(t)' /\ seen'[t] = Matching(t)'
      /\ unsettled'[t] = Unsettled
      /\ Matching(t)' = {i \in Ids : HasValue(data[i], p)}
  BY <1>2, <1>3, Recorded, MatchingIs
<1>5. op'[t].ids \subseteq Ids
  BY <1>2, LookupType DEF MemoryOK
<1>6. ASSUME NEW i \in Ids
      PROVE  /\ i \in Lookup(memIdx, f, p[f]) =>
                  HasValue(data[i], p) \/ Gains(i, p)
             /\ HasValue(data[i], p) =>
                  i \in Lookup(memIdx, f, p[f]) \/ i \in Unsettled \/ Loses(i, p)
  BY <1>1, <1>3, Asked
<1>7. ASSUME NEW i
      PROVE  (Gains(i, p) => Gains(i, p)') /\ (Loses(i, p) => Loses(i, p)')
  BY <1>3 DEF Gains, Loses
<1>8. Told(t)'
  BY <1>2, <1>4, <1>5, <1>6, <1>7 DEF Told
<1> QED BY <1>2, <1>3, <1>4, <1>8 DEF Follows

LEMMA AnswerLook ==
  ASSUME TypeInv, LockInv, LookInv, LookupNext, NEW t \in Threads,
         LoadLive(t) \/ Answer(t)
  PROVE  Follows(t)' /\ pc'[t] # "load"
<1> USE DEF TypeInv, TypeOK, FilesOK, ThreadsOK, Goto
<1>1. CASE Answer(t)
  BY <1>1, NoOpType DEF Answer, Leave, Follows
<1>2. CASE LoadLive(t)
  <2>1. /\ pc[t] = "load" /\ op[t].kind = "find" /\ Follows(t) /\ data' = data
        /\ \A u \in Threads : pc[u] # "append"
    BY <1>2, CollectionAssumption
       DEF LoadLive, LookInv, LockInv, Inside, datav
  <2>2. /\ steady[t] \subseteq Matching(t) /\ Matching(t) \subseteq seen[t]
        /\ op[t].ids \subseteq seen[t]
        /\ steady[t] \subseteq op[t].ids \cup unsettled[t]
    BY <2>1 DEF Follows, Told, Gains, Loses
  <2>3. op'[t].kind = "find" /\ op'[t].arg = op[t].arg
    BY <1>2, <2>1 DEF LoadLive, Request
  <2>4. /\ Matching(t)' = Matching(t) /\ steady'[t] = steady[t]
        /\ seen'[t] = seen[t] /\ unsettled'[t] = unsettled[t]
    <3>1. Matching(t)' = Matching(t)
      BY <2>1, <2>3, MatchingIs
    <3>2. /\ steady'[t] = steady[t] \cap Matching(t)'
          /\ seen'[t] = seen[t] \cup Matching(t)'
          /\ unsettled'[t] = unsettled[t]
      <4>1. pc[t] # "idle"
        BY <2>1
      <4> QED BY <2>3, <4>1, Recorded
    <3> QED BY <2>2, <3>1, <3>2
  <2>5. \/ pc'[t] = "found" /\ op'[t].id \in op[t].ids
        \/ pc'[t] = "missed" /\ \A i \in op[t].ids : data[i] = NoRec
    <3>1. CASE {i \in op[t].ids : data[i] # NoRec} = {} /\ Goto(t, "missed")
      BY <3>1
    <3>2. CASE \E i \in {i \in op[t].ids : data[i] # NoRec} :
                 /\ op' = [op EXCEPT ![t] = Request("find", i, op[t].arg,
                                                    data[i], op[t].ids)]
                 /\ Goto(t, "found")
      BY <3>2, RequestFields
    <3> QED BY <1>2, <3>1, <3>2 DEF LoadLive
  <2>6. \A i \in steady[t] : data[i] # NoRec
    BY <2>2 DEF Matching
  <2> QED BY <2>2, <2>4, <2>5, <2>6 DEF Follows
<1> QED BY <1>1, <1>2

\* A step of the thread that is no part of a lookup by value.
LEMMA OtherwiseLook ==
  ASSUME TypeInv, LookInv, NEW t \in Threads, Starts(t) \/ Steps(t),
         ~CallFind(t), ~LoadLive(t), ~Answer(t)
  PROVE  op'[t].kind # "find" /\ pc'[t] # "load"
<1> USE DEF TypeInv, TypeOK, ThreadsOK, Goto
<1>1. CASE Starts(t)
  BY <1>1, RequestFields
     DEF Starts, CallCreate, CallUpdate, CallDelete, CallMaintenance, CallGet
<1>2. CASE NotFound(t) \/ Reject(t) \/ Checkpoint(t)
  BY <1>2, NoOpType DEF NotFound, Reject, Checkpoint, Release, Leave
<1>3. CASE AcquireExisting(t)
  <2> DEFINE i == op[t].id
             new == IF op[t].kind = "update"
                      THEN Patched(data[i], op[t].arg) ELSE NoRec
             r == Request(op[t].kind, i, op[t].arg, new, {})
  <2>1. op'[t] = [r EXCEPT !.old = data[i]] /\ op[t].kind # "find"
        /\ pc'[t] = "log"
    BY <1>3 DEF AcquireExisting
  <2>2. [r EXCEPT !.old = data[i]].kind = op[t].kind
    BY DEF Request
  <2> QED BY <2>1, <2>2
<1>4. CASE ReadRecord(t)
  <2>1. /\ op[t].kind = "get" /\ op[t] \in Ops
        /\ op' = [op EXCEPT ![t].new = data[op[t].id]]
        /\ pc'[t] \in {"missed", "put"}
    BY <1>4 DEF ReadRecord, OpOK
  <2>2. op'[t].kind = op[t].kind
    BY <2>1 DEF Ops
  <2> QED BY <2>1, <2>2
<1>5. CASE FillIndex(t)
  BY <1>5, NoOpType DEF FillIndex, Release, Leave, LookInv, Follows
<1>6. CASE AcquireCreate(t) \/ AcquireMaintenance(t)
  BY <1>6 DEF AcquireCreate, AcquireMaintenance
<1>7. CASE LogWrite(t) \/ Unindex(t) \/ Reindex(t) \/ AppendRecord(t)
           \/ CacheWrite(t)
  BY <1>7
     DEF LogWrite, Unindex, Reindex, AppendRecord, CacheWrite, LookInv, Follows
<1>8. CASE Rewrite(t) \/ ClearIndex(t) \/ ClearCache(t) \/ FillCache(t)
  BY <1>8 DEF Rewrite, ClearIndex, ClearCache, FillCache, LookInv, Follows
<1> QED BY <1>1, <1>2, <1>3, <1>4, <1>5, <1>6, <1>7, <1>8 DEF Steps

LEMMA LookStep ==
  ASSUME NoFaults, OneField
  PROVE  TypeInv /\ FreshInv /\ LockInv /\ IndexInv /\ LookInv
           /\ [LookupNext]_<<vars, history>> => LookInv'
<1> SUFFICES ASSUME TypeInv, FreshInv, LockInv, IndexInv, LookInv,
                    [LookupNext]_<<vars, history>>
             PROVE  LookInv'
  OBVIOUS
<1>1. CASE UNCHANGED <<vars, history>>
  BY <1>1
     DEF vars, datav, thrv, history, LookInv, Follows, Told, Matching,
         Gains, Loses
<1>2. CASE LookupNext
  <2>1. Next
    BY <1>2 DEF LookupNext
  <2>2. ASSUME NEW u \in Threads, Starts(u) \/ Steps(u)
        PROVE  LookInv'
    <3>1. \A w \in Threads \ {u} : pc'[w] = pc[w] /\ op'[w] = op[w]
      BY <2>2, OthersSame
    <3>2. Follows(u)' /\ (pc'[u] = "load" => op'[u].kind = "find")
      <4>1. CASE CallFind(u)
        BY <1>2, <4>1, CallLook
      <4>2. CASE LoadLive(u) \/ Answer(u)
        BY <1>2, <4>2, AnswerLook
      <4>3. CASE ~CallFind(u) /\ ~LoadLive(u) /\ ~Answer(u)
        BY <2>2, <4>3, OtherwiseLook DEF Follows
      <4> QED BY <4>1, <4>2, <4>3
    <3>3. ASSUME NEW t \in Threads \ {u}
          PROVE  Follows(t)' /\ (pc'[t] = "load" => op'[t].kind = "find")
      <4>1. u \in Threads \ {t} /\ (pc'[t] = "load" => op'[t].kind = "find")
        BY <3>1 DEF LookInv
      <4>2. CASE Steps(u) /\ pc[u] = "append"
        BY <1>2, <4>1, <4>2, AppendOnly, AppendLook
      <4>3. CASE Starts(u) \/ (Steps(u) /\ pc[u] # "append")
        <5>1. data' = data /\ pc[u] # "append"
          BY <4>3, DataSame, StartsIdle
        <5> QED BY <1>2, <3>1, <4>1, <5>1, OtherLook
      <4> QED BY <2>2, <4>2, <4>3
    <3> QED BY <3>2, <3>3 DEF LookInv
  <2>3. ASSUME NEW t \in Threads, Fail(t) PROVE FALSE
    BY <2>3 DEF Fail, NoFaults, TypeInv, TypeOK, MemoryOK
  <2>4. CASE Close \/ Crash
    BY <2>4, NoOpType DEF Close, Crash, Down, LookInv, Follows
  <2>5. CASE LoseIndex \/ Open \/ Recovers
    <3>1. mode # "up" /\ UNCHANGED <<pc, op>>
      BY <2>5
         DEF LoseIndex, Open, Recovers, Replay, Replayed, RecoverIndex,
             RecoverCheckpoint, thrv
    <3>2. \A t \in Threads : pc[t] = "idle" /\ op[t].kind # "find"
      BY <3>1 DEF FreshInv, LookInv, Follows
    <3> QED BY <3>1, <3>2 DEF LookInv, Follows
  <2> QED BY <2>1, <2>2, <2>3, <2>4, <2>5 DEF Next
<1> QED BY <1>1, <1>2

LookupInv == TypeInv /\ FreshInv /\ LockInv /\ IndexInv /\ LookInv

LEMMA SpecLookup ==
  ASSUME NoFaults, OneField
  PROVE  LookupSpec => []LookupInv
<1>1. LookupInit => LookupInv
  BY TypeInit, FreshInit, LockInit, IndexInit, LookInit
     DEF LookupInit, LookupInv
<1>2. [LookupNext]_<<vars, history>> => [Next]_vars
  BY DEF LookupNext
<1>3. LookupInv /\ [LookupNext]_<<vars, history>> => LookupInv'
  BY <1>2, TypeStep, FreshStep, LockStep, IndexStep, LookStep DEF LookupInv
<1> QED BY <1>1, <1>3, PTL DEF LookupSpec

\* The record get(field=value) returns was live and had that value at some
\* moment of the call (collection.py:410 "Fetch a single record by id or by a
\* field value"), although the index that named it was read without the lock.
THEOREM FoundThere ==
  ASSUME NoFaults, OneField
  PROVE  LookupSpec => []FoundWasThere
<1>1. LookupInv => FoundWasThere
  BY DEF LookupInv, LookInv, Follows, FoundWasThere
<1> QED BY <1>1, SpecLookup, PTL

\* A record that was live and had the value for the whole of the call is missed
\* only if an update of that very record, or a rebuild, had its postings out of
\* the index when the lookup began (collection.py:428 "If no matching live
\* record is found").
THEOREM MissesExcused ==
  ASSUME NoFaults, OneField
  PROVE  LookupSpec => []MissIsExcused
<1>1. LookupInv => MissIsExcused
  BY DEF LookupInv, LookInv, Follows, MissIsExcused
<1> QED BY <1>1, SpecLookup, PTL

-----------------------------------------------------------------------------
(* Transaction blocks: the id of a create that waits in a block stays its  *)
(* own, and a commit logs the operations of its block in order, whatever   *)
(* other threads and blocks do in between, crashes, is torn or fails.      *)

\* An operation as a block buffers it.
Buffered ==
  {o \in Ops : /\ o.kind \in WriteKinds
               /\ o.id \in Ids
               /\ o.kind = "update" => o.arg \in Record
               /\ o.kind = "create" => o.new \in Record}

Blocks ==
  [at         : {"out", "open", "commit", "exit"},
   ops        : Seq(Buffered),
   next       : Nat \ {0},
   committed  : BOOLEAN,
   rolledBack : BOOLEAN,
   outcome    : {"none", "ok", "raised"},
   tried      : BOOLEAN,
   landed     : Seq(Entry)]

TxnTypeInv == TypeInv /\ txn \in [Threads -> Blocks]

-----------------------------------------------------------------------------
(* Ids *)

\* Somebody stores a record of id i, is about to, or has drawn the id for a
\* create that is under way.
Used(i) ==
  \/ data[i] # NoRec
  \/ \E k \in DOMAIN wal : wal[k].id = i
  \/ \E k \in DOMAIN rq : rq[k].id = i
  \/ \E t \in Threads :
       /\ op[t].id = i
       /\ \/ op[t].kind = "create"
          \/ pc[t] \in {"log", "unindex", "reindex", "append"}

\* The ids of the creates in the block of t.
CreateIds(t) ==
  {txn[t].ops[k].id :
     k \in {j \in DOMAIN txn[t].ops : txn[t].ops[j].kind = "create"}}

\* Until its commit, the ids of a block are used by nobody and in no other
\* block, and none of them will be drawn again.
BlockInv ==
  /\ \A i \in Ids : Used(i) => i <= counter
  /\ \A t \in Threads : \A i \in CreateIds(t) : i <= counter
  /\ \A t \in Threads : InLoop(t) => txn[t].tried
  /\ \A t \in Threads : ~txn[t].tried =>
       \A i \in CreateIds(t) :
         ~Used(i) /\ \A v \in Threads \ {t} : i \notin CreateIds(v)

-----------------------------------------------------------------------------
(* Order *)

\* The operation under way is the next one of the block, and what it is about
\* to log is what that one says.
Applies(t) ==
  LET o == op[t]
      c == txn[t].ops[txn[t].next]
  IN
  /\ txn[t].next \in DOMAIN txn[t].ops
  /\ o.kind = c.kind /\ o.id = c.id /\ o.arg = c.arg
  /\ o.kind = "create" => o.new = c.new
  /\ pc[t] # "acquire" => Carries([id |-> o.id, rec |-> o.new], c)

InOrder(t) ==
  LET blk == txn[t] IN
  /\ ~InLoop(t) => pc[t] = "idle"
  /\ InLoop(t) =>
       /\ pc[t] \in {"idle", "acquire", "log", "unindex", "reindex", "append",
                     "cache", "checkpoint"}
       /\ pc[t] = "idle" => blk.next \in 1 .. Len(blk.ops) + 1
       /\ pc[t] # "idle" => Applies(t)
       /\ Len(blk.landed) = IF pc[t] \in {"idle", "acquire", "log"}
                              THEN blk.next - 1 ELSE blk.next
  /\ blk.outcome = "ok" => blk.at = "out" /\ Len(blk.landed) = Len(blk.ops)
  /\ InLoop(t) \/ blk.outcome = "ok" =>
       \A n \in DOMAIN blk.landed : Carries(blk.landed[n], blk.ops[n])

OrderInv == \A t \in Threads : InOrder(t)

-----------------------------------------------------------------------------
(* Types *)

LEMMA NewBlockType ==
  ASSUME NEW at \in {"out", "open", "commit", "exit"}
  PROVE  /\ NewBlock(at) \in Blocks /\ NewBlock(at).at = at
         /\ NewBlock(at).ops = <<>> /\ NewBlock(at).landed = <<>>
         /\ NewBlock(at).outcome = "none"
  BY EmptySeq DEF NewBlock, Blocks

LEMMA RolledBackType ==
  ASSUME NEW blk \in Blocks
  PROVE  RolledBack(blk) \in Blocks /\ Raised(blk) \in Blocks
<1>1. RolledBack(blk) \in Blocks
  BY EmptySeq DEF RolledBack, Blocks
<1> QED BY <1>1 DEF Raised, Blocks

\* What a rollback and an exception leave of a block.
LEMMA RaisedFields ==
  ASSUME NEW blk \in Blocks
  PROVE  /\ Raised(blk).at = "out" /\ Raised(blk).outcome = "raised"
         /\ Raised(blk).tried = blk.tried /\ RolledBack(blk).tried = blk.tried
         /\ Raised(blk).ops \in {blk.ops, <<>>}
         /\ RolledBack(blk).ops \in {blk.ops, <<>>}
         /\ RolledBack(blk).at = blk.at
         /\ RolledBack(blk).outcome = blk.outcome
         /\ RolledBack(blk).landed = blk.landed
<1>1. /\ RolledBack(blk) \in Blocks
      /\ RolledBack(blk).tried = blk.tried
      /\ RolledBack(blk).ops \in {blk.ops, <<>>}
      /\ RolledBack(blk).at = blk.at
      /\ RolledBack(blk).outcome = blk.outcome
      /\ RolledBack(blk).landed = blk.landed
  BY RolledBackType DEF RolledBack, Blocks
<1> QED BY <1>1 DEF Raised, Blocks

\* A request that a block buffers.
LEMMA BufferedType ==
  ASSUME NEW kind \in WriteKinds, NEW i \in Ids, NEW arg \in Record,
         NEW new \in Maybe, kind = "create" => new \in Record
  PROVE  Request(kind, i, arg, new, {}) \in Buffered
<1>1. kind \in OpKinds /\ i \in 0 .. MaxId /\ arg \in Maybe
  BY CollectionAssumption, MaybeFacts DEF WriteKinds, OpKinds, Ids
<1> QED BY <1>1, RequestType DEF Buffered

LEMMA DeleteType ==
  ASSUME NEW i \in Ids
  PROVE  Request("delete", i, NoRec, NoRec, {}) \in Buffered
<1>1. i \in 0 .. MaxId
  BY CollectionAssumption DEF Ids
<1> QED BY <1>1, RequestType, MaybeFacts DEF Buffered, WriteKinds, OpKinds

LEMMA SetType ==
  ASSUME txn \in [Threads -> Blocks], NEW t \in Threads, NEW blk \in Blocks,
         Set(t, blk)
  PROVE  /\ txn' \in [Threads -> Blocks] /\ txn'[t] = blk
         /\ \A v \in Threads \ {t} : txn'[v] = txn[v]
  BY DEF Set

\* Another operation in a block.
LEMMA BufferType ==
  ASSUME txn \in [Threads -> Blocks], NEW t \in Threads, NEW o \in Buffered,
         Buffer(t, o)
  PROVE  /\ txn' \in [Threads -> Blocks]
         /\ txn'[t].ops = Append(txn[t].ops, o)
         /\ txn'[t].at = txn[t].at /\ txn'[t].outcome = txn[t].outcome
         /\ txn'[t].tried = txn[t].tried
         /\ \A v \in Threads \ {t} : txn'[v] = txn[v]
<1> DEFINE blk == [txn[t] EXCEPT !.ops = Append(@, o)]
<1>1. txn[t] \in Blocks /\ txn[t].ops \in Seq(Buffered)
  BY DEF Blocks
<1>2. Append(txn[t].ops, o) \in Seq(Buffered)
  BY <1>1, AppendProperties
<1>3. /\ blk \in Blocks /\ blk.ops = Append(txn[t].ops, o)
      /\ blk.at = txn[t].at /\ blk.outcome = txn[t].outcome
      /\ blk.tried = txn[t].tried
  BY <1>1, <1>2 DEF Blocks
<1>4. Set(t, blk)
  BY DEF Buffer
<1> HIDE DEF blk
<1> QED BY <1>3, <1>4, SetType

\* A loop is started.
LEMMA LoopType ==
  ASSUME txn \in [Threads -> Blocks], NEW t \in Threads,
         NEW at \in {"commit", "exit"}, StartLoop(t, at)
  PROVE  /\ txn' \in [Threads -> Blocks]
         /\ txn'[t].at = at /\ txn'[t].ops = txn[t].ops
         /\ txn'[t].next = 1 /\ txn'[t].tried /\ txn'[t].landed = <<>>
         /\ txn'[t].outcome = txn[t].outcome
         /\ \A v \in Threads \ {t} : txn'[v] = txn[v]
<1> DEFINE blk == [txn[t] EXCEPT !.at = at, !.next = 1, !.tried = TRUE,
                                 !.landed = <<>>]
<1>1. /\ blk \in Blocks /\ blk.at = at /\ blk.ops = txn[t].ops
      /\ blk.next = 1 /\ blk.tried /\ blk.landed = <<>>
      /\ blk.outcome = txn[t].outcome
  <2>1. txn[t] \in Blocks /\ 1 \in Nat \ {0} /\ <<>> \in Seq(Entry)
    BY EmptySeq
  <2> QED BY <2>1 DEF Blocks
<1>2. Set(t, blk)
  BY DEF StartLoop
<1> HIDE DEF blk
<1> QED BY <1>1, <1>2, SetType

\* The loop logs an entry,
LEMMA LandedType ==
  ASSUME TxnTypeInv, NEW t \in Threads, Logged(t)
  PROVE  /\ txn' \in [Threads -> Blocks]
         /\ txn'[t].landed
              = Append(txn[t].landed, [id |-> op[t].id, rec |-> op[t].new])
         /\ txn'[t].at = txn[t].at /\ txn'[t].ops = txn[t].ops
         /\ txn'[t].next = txn[t].next /\ txn'[t].tried = txn[t].tried
         /\ txn'[t].outcome = txn[t].outcome
         /\ \A v \in Threads \ {t} : txn'[v] = txn[v]
<1> USE DEF TxnTypeInv, TypeInv, TypeOK, ThreadsOK
<1> DEFINE e == [id |-> op[t].id, rec |-> op[t].new]
           blk == [txn[t] EXCEPT !.landed = Append(@, e)]
<1>1. e \in Entry
  BY DEF Logged, LogWrite, OpOK, Ops, Entry
<1> HIDE DEF e
<1>2. Append(txn[t].landed, e) \in Seq(Entry)
  BY <1>1, AppendProperties DEF Blocks
<1>3. /\ blk \in Blocks /\ blk.landed = Append(txn[t].landed, e)
      /\ blk.at = txn[t].at /\ blk.ops = txn[t].ops
      /\ blk.next = txn[t].next /\ blk.tried = txn[t].tried
      /\ blk.outcome = txn[t].outcome
  BY <1>2 DEF Blocks
<1>4. Set(t, blk)
  BY DEF Logged, e
<1> HIDE DEF blk
<1> QED BY <1>3, <1>4, SetType DEF e

\* goes on to the next operation,
LEMMA AppliedType ==
  ASSUME txn \in [Threads -> Blocks], NEW t \in Threads, Applied(t)
  PROVE  /\ txn' \in [Threads -> Blocks]
         /\ txn'[t].next = txn[t].next + 1
         /\ txn'[t].at = txn[t].at /\ txn'[t].ops = txn[t].ops
         /\ txn'[t].landed = txn[t].landed /\ txn'[t].tried = txn[t].tried
         /\ txn'[t].outcome = txn[t].outcome
         /\ \A v \in Threads \ {t} : txn'[v] = txn[v]
<1> DEFINE blk == [txn[t] EXCEPT !.next = @ + 1]
<1>1. /\ blk \in Blocks /\ blk.next = txn[t].next + 1
      /\ blk.at = txn[t].at /\ blk.ops = txn[t].ops
      /\ blk.landed = txn[t].landed /\ blk.tried = txn[t].tried
      /\ blk.outcome = txn[t].outcome
  <2>1. txn[t] \in Blocks /\ txn[t].next \in Nat \ {0}
    BY DEF Blocks
  <2>2. txn[t].next + 1 \in Nat \ {0}
    BY <2>1
  <2> QED BY <2>1, <2>2 DEF Blocks
<1>2. Set(t, blk)
  BY DEF Applied
<1> HIDE DEF blk
<1> QED BY <1>1, <1>2, SetType

\* is broken off by an exception,
LEMMA BreaksType ==
  ASSUME txn \in [Threads -> Blocks], NEW t \in Threads, Breaks(t),
         \A v \in Threads : txn[v].outcome = "ok" => ~InLoop(v)
  PROVE  /\ txn' \in [Threads -> Blocks]
         /\ txn'[t].at \in {"open", "out"} /\ txn'[t].outcome # "ok"
         /\ txn'[t].ops \in {txn[t].ops, <<>>}
         /\ txn'[t].tried = txn[t].tried
         /\ \A v \in Threads \ {t} : txn'[v] = txn[v]
<1> DEFINE blk == [txn[t] EXCEPT !.at = "open"]
<1>1. /\ blk \in Blocks /\ blk.at = "open" /\ blk.ops = txn[t].ops
      /\ blk.tried = txn[t].tried /\ blk.outcome = txn[t].outcome
  BY DEF Blocks
<1>2. Set(t, blk) \/ Set(t, Raised(txn[t]))
  BY DEF Breaks
<1>3. txn[t].outcome # "ok"
  BY DEF Breaks
<1> HIDE DEF blk
<1> QED BY <1>1, <1>2, <1>3, SetType, RolledBackType, RaisedFields

\* or comes to its end.
LEMMA CommittedType ==
  ASSUME txn \in [Threads -> Blocks], NEW t \in Threads, Committed(t)
  PROVE  /\ txn' \in [Threads -> Blocks]
         /\ txn'[t].at \in {"open", "out"}
         /\ txn'[t].ops = txn[t].ops /\ txn'[t].landed = txn[t].landed
         /\ txn'[t].tried = txn[t].tried
         /\ \A v \in Threads \ {t} : txn'[v] = txn[v]
<1> DEFINE caught == [txn[t] EXCEPT !.at = "open", !.committed = TRUE]
           left == [txn[t] EXCEPT !.at = "out", !.committed = TRUE,
                                  !.outcome = "ok"]
<1>1. /\ caught \in Blocks /\ caught.at = "open" /\ caught.ops = txn[t].ops
      /\ caught.landed = txn[t].landed /\ caught.tried = txn[t].tried
      /\ left \in Blocks /\ left.at = "out" /\ left.ops = txn[t].ops
      /\ left.landed = txn[t].landed /\ left.tried = txn[t].tried
  BY DEF Blocks
<1>2. Set(t, caught) \/ Set(t, left)
  BY DEF Committed
<1> HIDE DEF caught, left
<1> QED BY <1>1, <1>2, SetType

\* The steps that change nothing but the block.
BlockStep(t) ==
  \/ Enter(t) \/ Abort(t) \/ Exit(t) \/ BufferUpdate(t) \/ BufferDelete(t)
  \/ Commit(t) \/ Rollback(t) \/ Committed(t)

\* The steps of the operation under way.
LoopStep(t) == Logged(t) \/ Proceed(t) \/ Applied(t) \/ Breaks(t)

LEMMA BlockUnchanged ==
  ASSUME NEW t \in Threads, BlockStep(t)
  PROVE  UNCHANGED vars
  BY DEF BlockStep, Enter, Abort, Exit, BufferUpdate, BufferDelete, Commit,
         Rollback, Committed, StartLoop

LEMMA LoopNext ==
  ASSUME NEW t \in Threads, LoopStep(t)
  PROVE  InLoop(t) /\ (Steps(t) \/ Fail(t))
  BY DEF LoopStep, Logged, Proceed, Applied, Breaks, Steps

LEMMA BlockType ==
  ASSUME TypeInv, txn \in [Threads -> Blocks], NEW t \in Threads, BlockStep(t)
  PROVE  txn' \in [Threads -> Blocks]
<1>1. CASE Enter(t)
  BY <1>1, NewBlockType, SetType DEF Enter
<1>2. CASE Abort(t) \/ Rollback(t)
  BY <1>2, RolledBackType, SetType DEF Abort, Rollback
<1>3. CASE Exit(t) \/ Commit(t)
  <2>1. CASE \E at \in {"commit", "exit"} : StartLoop(t, at)
    BY <2>1, LoopType
  <2>2. CASE Set(t, Raised(txn[t]))
    BY <2>2, RolledBackType, SetType
  <2> QED BY <1>3, <2>1, <2>2 DEF Exit, Commit
<1>4. CASE BufferUpdate(t)
  <2>1. PICK i \in Ids, p \in Patches :
          Buffer(t, Request("update", i, p, NoRec, {}))
    BY <1>4 DEF BufferUpdate
  <2>2. Request("update", i, p, NoRec, {}) \in Buffered
    BY <2>1, BufferedType, MaybeFacts, CollectionAssumption DEF WriteKinds
  <2> QED BY <2>1, <2>2, BufferType
<1>5. CASE BufferDelete(t)
  BY <1>5, DeleteType, BufferType DEF BufferDelete
<1>6. CASE Committed(t)
  BY <1>6, CommittedType
<1> QED BY <1>1, <1>2, <1>3, <1>4, <1>5, <1>6 DEF BlockStep

\* The create that is buffered draws its id.
LEMMA DrawType ==
  ASSUME TxnTypeInv, NEW t \in Threads, BufferCreate(t)
  PROVE  TxnTypeInv'
<1> USE DEF TxnTypeInv, TypeInv, TypeOK
<1>1. counter + 1 \in Ids /\ counter' \in 0 .. MaxId
  BY CollectionAssumption DEF BufferCreate, FilesOK, Ids
<1>2. PICK r \in NewRecs : Buffer(t, Request("create", counter + 1, r, r, {}))
  BY DEF BufferCreate
<1>3. Request("create", counter + 1, r, r, {}) \in Buffered
  BY <1>1, BufferedType, MaybeFacts, CollectionAssumption DEF WriteKinds
<1>4. txn' \in [Threads -> Blocks]
  BY <1>2, <1>3, BufferType
<1>5. UNCHANGED <<datav, walv, idxv, cache, thrv, runv, errors>>
  BY DEF BufferCreate
<1>6. FilesOK' /\ MemoryOK'
  BY <1>1, <1>5 DEF FilesOK, MemoryOK, datav, walv, idxv, runv
<1>7. ThreadsOK' /\ OpOK'
  BY <1>5 DEF ThreadsOK, OpOK, thrv
<1> QED BY <1>4, <1>6, <1>7

\* The loop takes up the next operation.
LEMMA ApplyType ==
  ASSUME TxnTypeInv, NEW t \in Threads, Apply(t)
  PROVE  TxnTypeInv'
<1> USE DEF TxnTypeInv, TypeInv, TypeOK
<1> DEFINE o == txn[t].ops[txn[t].next]
<1>1. /\ op' = [op EXCEPT ![t] = o] /\ Goto(t, "acquire")
      /\ UNCHANGED <<datav, walv, idxv, cache, counter, lock, runv, errors, txn>>
  BY DEF Apply
<1>2. o \in Buffered
  <2>1. txn[t].ops \in Seq(Buffered) /\ txn[t].next \in Nat \ {0}
    BY DEF Blocks
  <2> QED BY <2>1 DEF Apply
<1> HIDE DEF o
<1>3. "acquire" \in Locations
  BY DEF Locations
<1>4. ThreadsOK' /\ OpOK'
  BY <1>1, <1>2, <1>3, OpType DEF Buffered
<1>5. FilesOK' /\ MemoryOK'
  BY <1>1 DEF FilesOK, MemoryOK, datav, walv, idxv, runv
<1> QED BY <1>1, <1>4, <1>5

LEMMA TxnTypeStep ==
  ASSUME \A v \in Threads : txn[v].outcome = "ok" => ~InLoop(v)
  PROVE  TxnTypeInv /\ [TxnNext]_tvars => TxnTypeInv'
<1> SUFFICES ASSUME TxnTypeInv, [TxnNext]_tvars PROVE TxnTypeInv'
  OBVIOUS
<1>1. ASSUME [Next]_vars PROVE TypeInv'
  BY <1>1, TypeStep DEF TxnTypeInv
<1>2. CASE UNCHANGED tvars
  BY <1>1, <1>2 DEF tvars, TxnTypeInv
<1>3. ASSUME NEW t \in Threads, BlockStep(t) PROVE TxnTypeInv'
  BY <1>1, <1>3, BlockUnchanged, BlockType DEF TxnTypeInv
<1>4. ASSUME NEW t \in Threads, LoopStep(t) PROVE TxnTypeInv'
  <2>1. TypeInv'
    BY <1>1, <1>4, LoopNext DEF Next
  <2>2. txn' \in [Threads -> Blocks]
    <3>1. CASE Logged(t)
      BY <3>1, LandedType
    <3>2. CASE Proceed(t) \/ Applied(t) \/ Breaks(t)
      BY <3>2, AppliedType, BreaksType DEF TxnTypeInv, Proceed
    <3> QED BY <1>4, <3>1, <3>2 DEF LoopStep
  <2> QED BY <2>1, <2>2 DEF TxnTypeInv
<1>5. CASE TxnCrash
  <2>1. txn' \in [Threads -> Blocks]
    BY <1>5, NewBlockType DEF TxnCrash
  <2> QED BY <1>1, <1>5, <2>1 DEF TxnCrash, Next, TxnTypeInv
<1>6. CASE (Open \/ Recovers) /\ UNCHANGED txn
  BY <1>1, <1>6 DEF Next, TxnTypeInv
<1> QED
  BY <1>2, <1>3, <1>4, <1>5, <1>6, DrawType, ApplyType
     DEF TxnNext, BlockStep, LoopStep

LEMMA TxnTypeInit == TxnInit => TxnTypeInv
  BY TypeInit, NewBlockType DEF TxnInit, TxnTypeInv

-----------------------------------------------------------------------------
(* The ids of a block *)

\* Nothing is used that was not used before, unless a create draws or takes up
\* its id.
LEMMA UsedWithin ==
  ASSUME TypeInv, NEW t \in Threads,
         \A i \in Ids : data'[i] \in {data[i], NoRec} \/ Used(i),
         \A k \in DOMAIN wal' : Used(wal'[k].id), rq' = rq,
         \A v \in Threads \ {t} : pc'[v] = pc[v] /\ op'[v] = op[v],
         op'[t].kind = "create" => Used(op'[t].id),
         pc'[t] \in {"log", "unindex", "reindex", "append"} => Used(op'[t].id)
  PROVE  \A i \in Ids : Used(i)' => Used(i)
<1> SUFFICES ASSUME NEW i \in Ids, Used(i)' PROVE Used(i)
  OBVIOUS
<1>1. CASE data'[i] # NoRec
  BY <1>1 DEF Used
<1>2. CASE \E k \in DOMAIN wal' : wal'[k].id = i
  BY <1>2
<1>3. CASE \E k \in DOMAIN rq' : rq'[k].id = i
  BY <1>3 DEF Used
<1>4. ASSUME NEW v \in Threads, op'[v].id = i,
             \/ op'[v].kind = "create"
             \/ pc'[v] \in {"log", "unindex", "reindex", "append"}
      PROVE  Used(i)
  <2>1. CASE v = t
    BY <1>4, <2>1
  <2>2. CASE v # t
    BY <1>4, <2>2 DEF Used
  <2> QED BY <2>1, <2>2
<1> QED BY <1>1, <1>2, <1>3, <1>4 DEF Used

LEMMA UsedByWrite ==
  ASSUME TypeInv, NEW t \in Threads,
         \/ AcquireCreate(t) \/ AcquireExisting(t) \/ NotFound(t)
         \/ LogWrite(t) \/ Reject(t) \/ Unindex(t) \/ Reindex(t)
         \/ AppendRecord(t) \/ CacheWrite(t) \/ Checkpoint(t)
  PROVE  \A i \in Ids : Used(i)' => Used(i)
<1> USE DEF TypeInv, TypeOK, FilesOK, ThreadsOK, Goto
<1>1. \A k \in DOMAIN wal : Used(wal[k].id)
  BY DEF Used
<1>2. CASE AcquireCreate(t)
  <2>1. Used(op[t].id)
    BY <1>2 DEF AcquireCreate, Used
  <2> QED
    BY <1>1, <1>2, <2>1, UsedWithin DEF AcquireCreate, datav, walv, runv
<1>3. CASE AcquireExisting(t)
  <2> DEFINE i == op[t].id
             new == IF op[t].kind = "update"
                      THEN Patched(data[i], op[t].arg) ELSE NoRec
             r == Request(op[t].kind, i, op[t].arg, new, {})
  <2>1. op'[t] = [r EXCEPT !.old = data[i]] /\ data[i] # NoRec
    BY <1>3 DEF AcquireExisting
  <2>2. [r EXCEPT !.old = data[i]].id = i
    BY DEF Request
  <2>3. Used(op'[t].id)
    BY <2>1, <2>2 DEF Used
  <2> QED
    BY <1>1, <1>3, <2>3, UsedWithin DEF AcquireExisting, datav, walv, runv
<1>4. CASE NotFound(t) \/ Reject(t) \/ Checkpoint(t)
  <2>1. pc'[t] = "idle" /\ op'[t].kind = "none"
    BY <1>4, NoOpType DEF NotFound, Reject, Checkpoint, Release, Leave
  <2>2. \A v \in Threads \ {t} : pc'[v] = pc[v] /\ op'[v] = op[v]
    BY <1>4 DEF NotFound, Reject, Checkpoint, Release, Leave
  <2>3. data' = data /\ rq' = rq /\ wal' \in {wal, <<>>}
    BY <1>4
       DEF NotFound, Reject, Checkpoint, Log_checkpoint, datav, walv, runv
  <2> QED BY <1>1, <2>1, <2>2, <2>3, UsedWithin
<1>5. ASSUME pc[t] \in {"log", "unindex", "reindex", "append"}
      PROVE  Used(op[t].id)
  BY <1>5 DEF Used
<1>6. CASE LogWrite(t)
  <2> DEFINE e == [id |-> op[t].id, rec |-> op[t].new]
  <2>1. pc[t] = "log" /\ e \in Entry
    BY <1>6 DEF LogWrite, OpOK, Ops, Entry
  <2>2. wal' \in {wal, Append(wal, e)} /\ e.id = op[t].id
    BY <1>6 DEF LogWrite, Append_wal
  <2> HIDE DEF e
  <2>3. \A k \in DOMAIN wal' : Used(wal'[k].id)
    <3>1. CASE wal' = Append(wal, e)
      <4>1. \A k \in DOMAIN wal' : wal'[k] = e \/ (k \in DOMAIN wal /\ wal'[k] = wal[k])
        BY <2>1, <3>1, AppendProperties
      <4> QED BY <1>1, <1>5, <2>1, <2>2, <4>1
    <3> QED BY <1>1, <2>2, <3>1
  <2> QED BY <1>5, <1>6, <2>1, <2>3, UsedWithin DEF LogWrite, datav, runv
<1>7. CASE Unindex(t) \/ Reindex(t)
  BY <1>1, <1>5, <1>7, UsedWithin DEF Unindex, Reindex, datav, walv, runv
<1>8. CASE AppendRecord(t)
  <2>1. Used(op[t].id) /\ op' = op /\ wal' = wal /\ rq' = rq
    BY <1>5, <1>8 DEF AppendRecord, walv, runv
  <2>2. \A i \in Ids : data'[i] \in {data[i], NoRec} \/ i = op[t].id
    BY <1>8 DEF AppendRecord, Append_data
  <2> QED BY <1>1, <1>8, <2>1, <2>2, UsedWithin DEF AppendRecord
<1>9. CASE CacheWrite(t)
  <2>1. op[t].kind = "create" => Used(op[t].id)
    BY DEF Used
  <2> QED
    BY <1>1, <1>9, <2>1, UsedWithin DEF CacheWrite, datav, walv, runv
<1> QED BY <1>2, <1>3, <1>4, <1>6, <1>7, <1>8, <1>9

LEMMA UsedByFail ==
  ASSUME TypeInv, NEW t \in Threads, Fail(t)
  PROVE  \A i \in Ids : Used(i)' => Used(i)
<1> USE DEF TypeInv, TypeOK, FilesOK, ThreadsOK, Goto
<1>1. /\ pc'[t] = "idle" /\ op'[t].kind = "none" /\ rq' = rq
      /\ \A v \in Threads \ {t} : pc'[v] = pc[v] /\ op'[v] = op[v]
  BY NoOpType DEF Fail, Release, Leave, runv
<1>2. \A i \in Ids : data'[i] \in {data[i], NoRec} \/ Used(i)
  <2>1. CASE data' = data
    BY <2>1
  <2>2. CASE pc[t] = "append" /\ Append_data(op[t].id, op[t].new)
    <3>1. Used(op[t].id)
      BY <2>2 DEF Used
    <3>2. \A i \in Ids : data'[i] \in {data[i], NoRec} \/ i = op[t].id
      BY <2>2 DEF Append_data
    <3> QED BY <3>1, <3>2
  <2> QED BY <2>1, <2>2 DEF Fail, datav
<1>3. \A k \in DOMAIN wal' : Used(wal'[k].id)
  <2> DEFINE e == [id |-> op[t].id, rec |-> op[t].new]
  <2>1. CASE wal' \in {wal, <<>>}
    BY <2>1 DEF Used
  <2>2. CASE pc[t] = "log" /\ Append_wal(e)
    <3>1. e \in Entry /\ e.id = op[t].id /\ wal' \in {wal, Append(wal, e)}
      BY <2>2 DEF OpOK, Ops, Entry, Append_wal
    <3>2. Used(op[t].id)
      BY <2>2 DEF Used
    <3> HIDE DEF e
    <3>3. CASE wal' = Append(wal, e)
      <4>1. \A k \in DOMAIN wal' : wal'[k] = e \/ (k \in DOMAIN wal /\ wal'[k] = wal[k])
        BY <3>1, <3>3, AppendProperties
      <4> QED BY <3>1, <3>2, <4>1 DEF Used
    <3> QED BY <2>1, <3>1, <3>3
  <2>3. CASE Log_checkpoint
    BY <2>1, <2>3 DEF Log_checkpoint
  <2> QED BY <2>1, <2>2, <2>3 DEF Fail, walv
<1> QED BY <1>1, <1>2, <1>3, UsedWithin

LEMMA UsedByRun ==
  ASSUME TypeInv, Crash \/ Open \/ Recovers
  PROVE  \A i \in Ids : Used(i)' => Used(i)
<1> USE DEF TypeInv, TypeOK, FilesOK, MemoryOK
<1>1. CASE Crash
  BY <1>1, NoOpType DEF Crash, Down, Used
<1>2. CASE Open
  BY <1>2 DEF Open, Used, datav, walv, thrv
<1>3. CASE Replay
  <2>1. /\ rq \in Seq(Entry) /\ rq # <<>> /\ rq' = Tail(rq)
        /\ UNCHANGED <<wal, pc, op>>
    BY <1>3 DEF Replay, walv, thrv
  <2>2. /\ Head(rq) = rq[1] /\ 1 \in DOMAIN rq
        /\ \A k \in DOMAIN Tail(rq) : k + 1 \in DOMAIN rq /\ Tail(rq)[k] = rq[k + 1]
    BY <2>1, HeadTailProperties, EmptySeq
  <2>3. \A k \in DOMAIN rq' : \E j \in DOMAIN rq : rq'[k] = rq[j]
    BY <2>1, <2>2
  <2>4. \A i \in Ids : data'[i] = data[i] \/ i = rq[1].id
    BY <1>3, <2>2 DEF Replay, Append_data, datav
  <2> QED BY <2>1, <2>2, <2>3, <2>4 DEF Used
<1>4. CASE Replayed \/ RecoverIndex
  BY <1>4 DEF Replayed, RecoverIndex, Used, datav, walv, thrv
<1>5. CASE RecoverCheckpoint
  BY <1>5 DEF RecoverCheckpoint, Log_checkpoint, Used, datav, thrv
<1> QED BY <1>1, <1>2, <1>3, <1>4, <1>5 DEF Recovers

\* A step that uses no new id and puts none into a block.
LEMMA KeepBlocks ==
  ASSUME BlockInv, counter' = counter, NEW t \in Threads,
         \A i \in Ids : Used(i)' => Used(i),
         \A v \in Threads : \A i \in CreateIds(v) : i \in Ids,
         \A v \in Threads \ {t} : txn'[v] = txn[v], InLoop(t)' => txn'[t].tried,
         \/ CreateIds(t)' = {}
         \/ CreateIds(t)' \subseteq CreateIds(t) /\ (txn[t].tried => txn'[t].tried)
  PROVE  BlockInv'
<1>1. \A v \in Threads : \A i \in CreateIds(v)' : i \in CreateIds(v)
  <2>1. \A v \in Threads \ {t} : CreateIds(v)' = CreateIds(v)
    BY DEF CreateIds
  <2> QED BY <2>1
<1>2. ASSUME NEW v \in Threads, ~txn'[v].tried, NEW i \in CreateIds(v)'
      PROVE  ~txn[v].tried
  BY <1>2
<1>3. ASSUME NEW v \in Threads, ~txn'[v].tried, NEW i \in CreateIds(v)'
      PROVE  ~Used(i)' /\ \A w \in Threads \ {v} : i \notin CreateIds(w)'
  BY <1>1, <1>2, <1>3 DEF BlockInv
<1>4. \A v \in Threads : InLoop(v)' => txn'[v].tried
  BY DEF BlockInv, InLoop
<1> QED BY <1>1, <1>3, <1>4 DEF BlockInv

\* What an operation adds to the creates of a block.
LEMMA CreateIdsAre ==
  ASSUME txn \in [Threads -> Blocks], NEW t \in Threads
  PROVE  /\ CreateIds(t) \subseteq Ids
         /\ txn'[t].ops = <<>> => CreateIds(t)' = {}
         /\ txn'[t].ops = txn[t].ops => CreateIds(t)' = CreateIds(t)
         /\ \A o \in Buffered : txn'[t].ops = Append(txn[t].ops, o) =>
              CreateIds(t)' \subseteq
                CreateIds(t) \cup (IF o.kind = "create" THEN {o.id} ELSE {})
<1>1. txn[t].ops \in Seq(Buffered)
  BY DEF Blocks
<1>2. CreateIds(t) \subseteq Ids
  <2>1. \A k \in DOMAIN txn[t].ops : txn[t].ops[k] \in Buffered
    BY <1>1, ElementOfSeq
  <2> QED BY <2>1 DEF CreateIds, Buffered
<1>3. txn'[t].ops = <<>> => CreateIds(t)' = {}
  BY DEF CreateIds
<1>4. txn'[t].ops = txn[t].ops => CreateIds(t)' = CreateIds(t)
  BY DEF CreateIds
<1>5. ASSUME NEW o \in Buffered, txn'[t].ops = Append(txn[t].ops, o)
      PROVE  CreateIds(t)' \subseteq
               CreateIds(t) \cup (IF o.kind = "create" THEN {o.id} ELSE {})
  <2>1. \A k \in DOMAIN txn'[t].ops :
          \/ txn'[t].ops[k] = o
          \/ k \in DOMAIN txn[t].ops /\ txn'[t].ops[k] = txn[t].ops[k]
    BY <1>1, <1>5, AppendProperties
  <2> QED BY <2>1 DEF CreateIds
<1> QED BY <1>2, <1>3, <1>4, <1>5

LEMMA BlockFresh ==
  ASSUME TxnTypeInv, BlockInv, NEW t \in Threads, BlockStep(t)
  PROVE  BlockInv'
<1> USE DEF TxnTypeInv
<1>1. UNCHANGED <<data, wal, rq, pc, op, counter>>
  BY BlockUnchanged DEF vars, datav, walv, runv, thrv
<1>2. \A i \in Ids : Used(i)' => Used(i)
  BY <1>1 DEF Used
<1>3. \A v \in Threads : \A i \in CreateIds(v) : i \in Ids
  BY CreateIdsAre
<1>4. ASSUME \A v \in Threads \ {t} : txn'[v] = txn[v], InLoop(t)' => txn'[t].tried,
             \/ txn'[t].ops = <<>>
             \/ /\ txn'[t].ops = txn[t].ops
                /\ txn[t].tried => txn'[t].tried
      PROVE  BlockInv'
  BY <1>1, <1>2, <1>3, <1>4, CreateIdsAre, KeepBlocks
<1>5. CASE Enter(t)
  BY <1>4, <1>5, NewBlockType, SetType DEF Enter, InLoop
<1>6. CASE Abort(t) \/ Rollback(t)
  <2>1. \/ Set(t, Raised(txn[t])) \/ Set(t, RolledBack(txn[t]))
    BY <1>6 DEF Abort, Rollback
  <2>2. txn[t] \in Blocks
    OBVIOUS
  <2>3. txn[t].at = "open"
    BY <1>6 DEF Abort, Rollback
  <2> QED
    BY <1>4, <2>1, <2>2, <2>3, RaisedFields, RolledBackType, SetType DEF InLoop
<1>7. CASE Exit(t) \/ Commit(t)
  <2>1. CASE \E at \in {"commit", "exit"} : StartLoop(t, at)
    BY <1>4, <2>1, LoopType
  <2>2. CASE Set(t, Raised(txn[t]))
    <3>1. txn[t] \in Blocks
      OBVIOUS
    <3> QED
      BY <1>4, <2>2, <3>1, RaisedFields, RolledBackType, SetType DEF InLoop
  <2> QED BY <1>7, <2>1, <2>2 DEF Exit, Commit
<1>8. CASE BufferUpdate(t) \/ BufferDelete(t)
  <2>1. PICK o \in Buffered : Buffer(t, o) /\ o.kind # "create"
    <3>1. CASE BufferUpdate(t)
      <4>1. PICK i \in Ids, p \in Patches :
              Buffer(t, Request("update", i, p, NoRec, {}))
        BY <3>1 DEF BufferUpdate
      <4>2. Request("update", i, p, NoRec, {}) \in Buffered
        BY <4>1, BufferedType, MaybeFacts, CollectionAssumption DEF WriteKinds
      <4> QED BY <4>1, <4>2, RequestFields
    <3>2. CASE BufferDelete(t)
      BY <3>2, DeleteType, RequestFields DEF BufferDelete
    <3> QED BY <1>8, <3>1, <3>2
  <2>2. /\ txn'[t].ops = Append(txn[t].ops, o)
        /\ txn'[t].tried = txn[t].tried
        /\ \A v \in Threads \ {t} : txn'[v] = txn[v]
    BY <2>1, BufferType
  <2>3. CreateIds(t)' \subseteq CreateIds(t)
    BY <2>1, <2>2, CreateIdsAre
  <2>4. txn'[t].at = "open"
    BY <1>8, <2>1, BufferType DEF BufferUpdate, BufferDelete, CanBuffer
  <2> QED BY <1>1, <1>2, <1>3, <2>2, <2>3, <2>4, KeepBlocks DEF InLoop
<1>9. CASE Committed(t)
  BY <1>4, <1>9, CommittedType DEF InLoop
<1> QED BY <1>5, <1>6, <1>7, <1>8, <1>9 DEF BlockStep

\* The id that is drawn exceeds every id used or waiting.
LEMMA DrawFresh ==
  ASSUME TxnTypeInv, BlockInv, NEW t \in Threads, BufferCreate(t)
  PROVE  BlockInv'
<1> USE DEF TxnTypeInv, TypeInv, TypeOK, FilesOK
<1>1. /\ counter' = counter + 1 /\ counter \in Nat /\ counter + 1 \in Ids
      /\ UNCHANGED <<data, wal, rq, pc, op>>
  BY CollectionAssumption DEF BufferCreate, Ids, datav, walv, runv, thrv
<1>2. PICK r \in NewRecs : Buffer(t, Request("create", counter + 1, r, r, {}))
  BY DEF BufferCreate
<1>3. Request("create", counter + 1, r, r, {}) \in Buffered
  BY <1>1, BufferedType, MaybeFacts, CollectionAssumption DEF WriteKinds
<1>4. /\ CreateIds(t)' \subseteq CreateIds(t) \cup {counter + 1}
      /\ txn'[t].tried = txn[t].tried
      /\ \A v \in Threads \ {t} : txn'[v] = txn[v]
  BY <1>2, <1>3, BufferType, RequestFields, CreateIdsAre
<1>5. \A v \in Threads \ {t} : CreateIds(v)' = CreateIds(v)
  BY <1>4, CreateIdsAre
<1>6. \A i \in Ids : Used(i)' <=> Used(i)
  BY <1>1 DEF Used
<1>7. \A v \in Threads : CreateIds(v) \subseteq Ids
  BY CreateIdsAre
<1>8. \A i \in Ids : i <= counter => i # counter + 1 /\ i <= counter + 1
  BY <1>1 DEF Ids
<1>9. ~Used(counter + 1)
  BY <1>1, <1>8 DEF BlockInv
<1>10. \A v \in Threads : counter + 1 \notin CreateIds(v)
  BY <1>1, <1>7, <1>8 DEF BlockInv
<1>11. ASSUME NEW v \in Threads, ~txn'[v].tried, NEW i \in CreateIds(v)'
       PROVE  ~Used(i)' /\ \A w \in Threads \ {v} : i \notin CreateIds(w)'
  <2>1. ~txn[v].tried
    BY <1>4, <1>11
  <2>2. CASE i = counter + 1
    <3>1. v = t
      BY <1>5, <1>10, <1>11, <2>2
    <3> QED BY <1>1, <1>5, <1>6, <1>9, <1>10, <2>2, <3>1
  <2>3. CASE i # counter + 1
    <3>1. i \in CreateIds(v) /\ i \in Ids
      BY <1>4, <1>5, <1>7, <1>11, <2>3
    <3>2. ~Used(i) /\ \A w \in Threads \ {v} : i \notin CreateIds(w)
      BY <2>1, <3>1 DEF BlockInv
    <3> QED BY <1>4, <1>5, <1>6, <2>3, <3>1, <3>2
  <2> QED BY <2>2, <2>3
<1>12. \A i \in Ids : Used(i)' => i <= counter'
  BY <1>1, <1>6, <1>8 DEF BlockInv
<1>13. \A v \in Threads : \A i \in CreateIds(v)' : i <= counter'
  <2>1. counter + 1 <= counter + 1
    BY <1>1
  <2> QED BY <1>1, <1>4, <1>5, <1>7, <1>8, <2>1 DEF BlockInv
<1>14. \A v \in Threads : InLoop(v)' => txn'[v].tried
  <2>1. txn'[t].at = txn[t].at
    BY <1>2, <1>3, BufferType
  <2> QED BY <1>4, <2>1 DEF BlockInv, InLoop
<1> QED BY <1>11, <1>12, <1>13, <1>14 DEF BlockInv

\* The create that is taken up uses the id it has waited with.
LEMMA ApplyFresh ==
  ASSUME TxnTypeInv, BlockInv, NEW t \in Threads, Apply(t)
  PROVE  BlockInv'
<1> USE DEF TxnTypeInv, TypeInv, TypeOK, ThreadsOK, Goto
<1> DEFINE o == txn[t].ops[txn[t].next]
<1>1. /\ pc'[t] = "acquire" /\ op'[t] = o /\ txn[t].tried
      /\ \A v \in Threads \ {t} : pc'[v] = pc[v] /\ op'[v] = op[v]
      /\ UNCHANGED <<data, wal, rq, counter, txn>>
  BY DEF Apply, BlockInv, datav, walv, runv
<1>2. o.kind = "create" => o.id \in CreateIds(t)
  <2>1. txn[t].ops \in Seq(Buffered) /\ txn[t].next \in Nat \ {0}
    BY DEF Blocks
  <2>2. txn[t].next \in DOMAIN txn[t].ops
    BY <2>1, LenProperties DEF Apply
  <2> QED BY <2>2 DEF CreateIds
<1> HIDE DEF o
<1>3. \A i \in Ids : Used(i)' => Used(i) \/ i \in CreateIds(t)
  BY <1>1, <1>2 DEF Used
<1>4. \A v \in Threads : CreateIds(v)' = CreateIds(v) /\ CreateIds(v) \subseteq Ids
  BY <1>1, CreateIdsAre
<1>5. ASSUME NEW v \in Threads, ~txn'[v].tried, NEW i \in CreateIds(v)'
      PROVE  ~Used(i)' /\ \A w \in Threads \ {v} : i \notin CreateIds(w)'
  BY <1>1, <1>3, <1>4, <1>5 DEF BlockInv
<1> QED BY <1>1, <1>3, <1>4, <1>5 DEF BlockInv, InLoop

LEMMA LoopFresh ==
  ASSUME TxnTypeInv, BlockInv, NEW t \in Threads, LoopStep(t),
         \A v \in Threads : txn[v].outcome = "ok" => ~InLoop(v)
  PROVE  BlockInv'
<1>1. TypeInv /\ txn \in [Threads -> Blocks]
  BY DEF TxnTypeInv
<1>2. \A i \in Ids : Used(i)' => Used(i)
  BY <1>1, UsedByWrite, UsedByFail
     DEF LoopStep, Logged, Proceed, Applied, Breaks
<1>3. counter' = counter
  BY DEF LoopStep, Logged, Proceed, Applied, Breaks, LogWrite, AcquireCreate,
         AcquireExisting, Unindex, Reindex, AppendRecord, CacheWrite,
         Checkpoint, NotFound, Reject, Fail
<1>4. /\ \A v \in Threads \ {t} : txn'[v] = txn[v]
      /\ txn'[t].tried = txn[t].tried /\ txn'[t].ops \in {txn[t].ops, <<>>}
      /\ InLoop(t)' => InLoop(t)
  <2>1. CASE Logged(t)
    BY <2>1, LandedType DEF InLoop
  <2>2. CASE Proceed(t) \/ Applied(t) \/ Breaks(t)
    BY <1>1, <2>2, AppliedType, BreaksType DEF Proceed, InLoop
  <2> QED BY <2>1, <2>2 DEF LoopStep
<1>5. \A v \in Threads : \A i \in CreateIds(v) : i \in Ids
  BY <1>1, CreateIdsAre
<1>6. CreateIds(t)' = {} \/ CreateIds(t)' \subseteq CreateIds(t)
  BY <1>1, <1>4, CreateIdsAre
<1> QED BY <1>2, <1>3, <1>4, <1>5, <1>6, KeepBlocks DEF BlockInv

\* Blocks go with the process.
LEMMA CrashFresh ==
  ASSUME TxnTypeInv, BlockInv, TxnCrash
  PROVE  BlockInv'
<1>1. /\ \A t \in Threads : txn'[t].at = "out" /\ txn'[t].ops = <<>>
      /\ counter' = counter
  BY NewBlockType DEF TxnCrash, Crash, Down
<1>2. \A i \in Ids : Used(i)' => Used(i)
  BY UsedByRun DEF TxnTypeInv, TxnCrash
<1>3. \A t \in Threads : CreateIds(t)' = {} /\ ~InLoop(t)'
  BY <1>1, CreateIdsAre DEF TxnTypeInv, InLoop
<1> QED BY <1>1, <1>2, <1>3 DEF BlockInv

LEMMA RecoveryFresh ==
  ASSUME TxnTypeInv, BlockInv, Open \/ Recovers, UNCHANGED txn
  PROVE  BlockInv'
<1>1. \A i \in Ids : Used(i)' => Used(i)
  BY UsedByRun DEF TxnTypeInv
<1>2. counter' = counter
  BY DEF Open, Recovers, Replay, Replayed, RecoverIndex, RecoverCheckpoint
<1>3. \A t \in Threads : CreateIds(t)' = CreateIds(t) /\ CreateIds(t) \subseteq Ids
  BY CreateIdsAre DEF TxnTypeInv
<1>4. \A t \in Threads : ~txn'[t].tried => ~txn[t].tried
  OBVIOUS
<1>5. ASSUME NEW t \in Threads, ~txn'[t].tried, NEW i \in CreateIds(t)'
      PROVE  ~Used(i)' /\ \A v \in Threads \ {t} : i \notin CreateIds(v)'
  BY <1>1, <1>3, <1>4, <1>5 DEF BlockInv
<1> QED BY <1>1, <1>2, <1>3, <1>5 DEF BlockInv, InLoop

LEMMA BlockInvStep ==
  ASSUME TxnTypeInv, BlockInv, TxnNext,
         \A v \in Threads : txn[v].outcome = "ok" => ~InLoop(v)
  PROVE  BlockInv'
<1>1. CASE \E t \in Threads : BlockStep(t)
  BY <1>1, BlockFresh
<1>2. CASE \E t \in Threads : BufferCreate(t)
  BY <1>2, DrawFresh
<1>3. CASE \E t \in Threads : Apply(t)
  BY <1>3, ApplyFresh
<1>4. CASE \E t \in Threads : LoopStep(t)
  BY <1>4, LoopFresh
<1>5. CASE TxnCrash
  BY <1>5, CrashFresh
<1>6. CASE (Open \/ Recovers) /\ UNCHANGED txn
  BY <1>6, RecoveryFresh
<1> QED BY <1>1, <1>2, <1>3, <1>4, <1>5, <1>6 DEF TxnNext, BlockStep, LoopStep

LEMMA BlockInit ==
  ASSUME TxnInit
  PROVE  BlockInv
<1>1. \A t \in Threads : txn[t].at = "out" /\ txn[t].ops = <<>>
  BY NewBlockType DEF TxnInit
<1>2. \A t \in Threads : CreateIds(t) = {} /\ ~InLoop(t)
  BY <1>1 DEF CreateIds, InLoop
<1>3. \A i \in Ids : ~Used(i)
  BY NoOpType DEF TxnInit, Init, Used
<1> QED BY <1>2, <1>3 DEF BlockInv

-----------------------------------------------------------------------------
(* Commits keep the order of their blocks *)

LEMMA PatchedTwice ==
  ASSUME NEW old \in Record, NEW patch \in Record
  PROVE  Patched(Patched(old, patch), patch) = Patched(old, patch)
<1>1. Patched(old, patch) \in Record
  BY PatchedType
<1>2. Patched(old, patch)
        = [f \in Fields |-> IF Has(patch, f) THEN patch[f] ELSE old[f]]
  BY DEF Patched
<1> QED BY <1>1, <1>2 DEF Patched, Record

\* A thread whose block and operation are left alone.
LEMMA OrderKept ==
  ASSUME NEW t \in Threads, InOrder(t),
         pc'[t] = pc[t], op'[t] = op[t], txn'[t] = txn[t]
  PROVE  InOrder(t)'
<1>1. InLoop(t)' <=> InLoop(t)
  BY DEF InLoop
<1>2. Applies(t)' <=> Applies(t)
  BY DEF Applies
<1> QED BY <1>1, <1>2 DEF InOrder

\* A block that is not in its loop, after a step of itself.
LEMMA OrderOutside ==
  ASSUME NEW t \in Threads, pc'[t] = "idle", txn'[t].at \in {"out", "open"},
         txn'[t].outcome # "ok"
  PROVE  InOrder(t)'
  BY DEF InOrder, InLoop

\* A step that is one of t alone.
LEMMA OrderStep ==
  ASSUME OrderInv, NEW t \in Threads, InOrder(t)',
         \A v \in Threads \ {t} :
           pc'[v] = pc[v] /\ op'[v] = op[v] /\ txn'[v] = txn[v]
  PROVE  OrderInv'
  BY OrderKept DEF OrderInv

\* What is buffered, whichever the operation.
LEMMA BufferChoice ==
  ASSUME TxnTypeInv, NEW t \in Threads,
         BufferUpdate(t) \/ BufferDelete(t) \/ BufferCreate(t)
  PROVE  \E o \in Buffered : Buffer(t, o)
<1>1. CASE BufferUpdate(t)
  <2>1. PICK i \in Ids, p \in Patches :
          Buffer(t, Request("update", i, p, NoRec, {}))
    BY <1>1 DEF BufferUpdate
  <2>2. Request("update", i, p, NoRec, {}) \in Buffered
    BY <2>1, BufferedType, MaybeFacts, CollectionAssumption DEF WriteKinds
  <2> QED BY <2>1, <2>2
<1>2. CASE BufferDelete(t)
  BY <1>2, DeleteType DEF BufferDelete
<1>3. CASE BufferCreate(t)
  <2>1. counter + 1 \in Ids
    BY <1>3, CollectionAssumption
       DEF BufferCreate, TxnTypeInv, TypeInv, TypeOK, FilesOK, Ids
  <2>2. PICK r \in NewRecs : Buffer(t, Request("create", counter + 1, r, r, {}))
    BY <1>3 DEF BufferCreate
  <2>3. Request("create", counter + 1, r, r, {}) \in Buffered
    BY <2>1, BufferedType, MaybeFacts, CollectionAssumption DEF WriteKinds
  <2> QED BY <2>2, <2>3
<1> QED BY <1>1, <1>2, <1>3

LEMMA BlockOrder ==
  ASSUME TxnTypeInv, OrderInv, NEW t \in Threads,
         BlockStep(t) \/ BufferCreate(t)
  PROVE  OrderInv'
<1> USE DEF TxnTypeInv
<1>1. pc' = pc /\ op' = op
  BY BlockUnchanged DEF vars, thrv, BufferCreate
<1>2. InOrder(t) /\ txn[t] \in Blocks
  BY DEF OrderInv
<1>3. ASSUME \A v \in Threads \ {t} : txn'[v] = txn[v], InOrder(t)'
      PROVE  OrderInv'
  BY <1>1, <1>3, OrderStep
<1>4. txn[t].at = "open" => pc[t] = "idle" /\ txn[t].outcome # "ok"
  BY <1>2 DEF InOrder, InLoop
<1>5. CASE Enter(t)
  <2>1. txn'[t].at = "open" /\ txn'[t].outcome = "none" /\ pc[t] = "idle"
    BY <1>5, NewBlockType, SetType DEF Enter
  <2>2. \A v \in Threads \ {t} : txn'[v] = txn[v]
    BY <1>5, NewBlockType, SetType DEF Enter
  <2> QED BY <1>1, <1>3, <2>1, <2>2, OrderOutside
<1>6. CASE \/ txn[t].at = "open" /\ Set(t, Raised(txn[t]))
           \/ txn[t].at = "open" /\ Set(t, RolledBack(txn[t]))
  <2>1. txn'[t].at \in {"out", "open"} /\ txn'[t].outcome # "ok"
    BY <1>2, <1>4, <1>6, RaisedFields, RolledBackType, SetType
  <2>2. \A v \in Threads \ {t} : txn'[v] = txn[v]
    BY <1>2, <1>6, RolledBackType, SetType
  <2> QED BY <1>1, <1>3, <1>4, <1>6, <2>1, <2>2, OrderOutside
<1>7. CASE txn[t].at = "open" /\ \E at \in {"commit", "exit"} : StartLoop(t, at)
  <2>1. PICK at \in {"commit", "exit"} : StartLoop(t, at)
    BY <1>7
  <2>2. /\ txn'[t].at = at /\ txn'[t].next = 1 /\ txn'[t].landed = <<>>
        /\ txn'[t].outcome # "ok" /\ txn' \in [Threads -> Blocks]
        /\ \A v \in Threads \ {t} : txn'[v] = txn[v]
    BY <1>4, <1>7, <2>1, LoopType
  <2>3. Len(txn'[t].ops) \in Nat /\ Len(<<>>) = 0 /\ DOMAIN <<>> = {}
    BY <2>2, LenProperties, EmptySeq DEF Blocks
  <2>4. InOrder(t)'
    BY <1>1, <1>4, <1>7, <2>2, <2>3 DEF InOrder, InLoop
  <2> QED BY <1>3, <2>2, <2>4
<1>8. CASE \E o \in Buffered : txn[t].at = "open" /\ Buffer(t, o)
  <2>1. /\ txn'[t].at = "open" /\ txn'[t].outcome # "ok"
        /\ \A v \in Threads \ {t} : txn'[v] = txn[v]
    BY <1>4, <1>8, BufferType
  <2> QED BY <1>1, <1>3, <1>4, <1>8, <2>1, OrderOutside
<1>9. CASE Committed(t)
  <2>1. /\ txn'[t].at \in {"open", "out"}
        /\ txn'[t].ops = txn[t].ops /\ txn'[t].landed = txn[t].landed
        /\ \A v \in Threads \ {t} : txn'[v] = txn[v]
    BY <1>9, CommittedType
  <2>2. txn'[t].outcome = "ok" => txn'[t].at = "out"
    <3> DEFINE caught == [txn[t] EXCEPT !.at = "open", !.committed = TRUE]
               left == [txn[t] EXCEPT !.at = "out", !.committed = TRUE,
                                      !.outcome = "ok"]
    <3>1. caught.outcome = txn[t].outcome /\ left.at = "out"
      BY <1>2 DEF Blocks
    <3>2. caught \in Blocks /\ left \in Blocks
      BY <1>2 DEF Blocks
    <3>3. Set(t, caught) \/ Set(t, left)
      BY <1>9 DEF Committed
    <3>4. txn[t].outcome # "ok"
      BY <1>2, <1>9 DEF Committed, InOrder, InLoop
    <3> HIDE DEF caught, left
    <3> QED BY <3>1, <3>2, <3>3, <3>4, SetType
  <2>3. Len(txn[t].landed) = Len(txn[t].ops)
    <3>1. /\ Len(txn[t].ops) \in Nat /\ txn[t].next \in 1 .. Len(txn[t].ops) + 1
          /\ txn[t].next > Len(txn[t].ops)
          /\ Len(txn[t].landed) = txn[t].next - 1
      BY <1>2, <1>9, LenProperties DEF Committed, InOrder, Blocks
    <3> QED BY <3>1
  <2>4. \A n \in DOMAIN txn[t].landed : Carries(txn[t].landed[n], txn[t].ops[n])
    BY <1>2, <1>9 DEF Committed, InOrder
  <2>5. \A n \in DOMAIN txn'[t].landed :
          Carries(txn'[t].landed[n], txn'[t].ops[n])
    BY <2>1, <2>4
  <2>6. pc[t] = "idle"
    BY <1>9 DEF Committed
  <2>7. InOrder(t)'
    BY <1>1, <2>1, <2>2, <2>3, <2>5, <2>6 DEF InOrder, InLoop
  <2> QED BY <1>3, <2>1, <2>7
<1>10. CASE BufferUpdate(t) \/ BufferDelete(t) \/ BufferCreate(t)
  <2>1. txn[t].at = "open"
    BY <1>10 DEF BufferUpdate, BufferDelete, BufferCreate, CanBuffer
  <2>2. \E o \in Buffered : Buffer(t, o)
    BY <1>10, BufferChoice
  <2> QED BY <1>8, <2>1, <2>2
<1> QED
  BY <1>5, <1>6, <1>7, <1>9, <1>10
     DEF BlockStep, Abort, Exit, Commit, Rollback

\* The loop takes up the next operation: what it will log is what was buffered.
LEMMA ApplyOrder ==
  ASSUME TxnTypeInv, OrderInv, NEW t \in Threads, Apply(t)
  PROVE  OrderInv'
<1> USE DEF TxnTypeInv, TypeInv, TypeOK, ThreadsOK, Goto
<1>1. /\ pc'[t] = "acquire" /\ op'[t] = txn[t].ops[txn[t].next] /\ txn' = txn
      /\ \A v \in Threads \ {t} : pc'[v] = pc[v] /\ op'[v] = op[v]
  BY DEF Apply
<1>2. /\ InLoop(t) /\ pc[t] = "idle" /\ txn[t].next <= Len(txn[t].ops)
      /\ InOrder(t)
  BY DEF Apply, OrderInv
<1>3. txn[t].next \in DOMAIN txn[t].ops
  <2>1. txn[t].ops \in Seq(Buffered) /\ txn[t].next \in Nat \ {0}
    BY DEF Blocks
  <2> QED BY <1>2, <2>1, LenProperties
<1>4. Applies(t)'
  BY <1>1, <1>3 DEF Applies
<1>5. InOrder(t)'
  BY <1>1, <1>2, <1>4 DEF InOrder, InLoop
<1> QED BY <1>1, <1>5, OrderStep

\* The operation under way moves on and stays what was buffered.
LEMMA ProceedOrder ==
  ASSUME TxnTypeInv, OrderInv, NEW t \in Threads, Proceed(t)
  PROVE  OrderInv'
<1> USE DEF TxnTypeInv, TypeInv, TypeOK, ThreadsOK, Goto
<1>1. InLoop(t) /\ txn' = txn /\ InOrder(t)
  BY DEF Proceed, OrderInv
<1>2. Applies(t)
  <2>1. pc[t] # "idle"
    BY DEF Proceed, AcquireCreate, AcquireExisting, Unindex, Reindex,
           AppendRecord, CacheWrite
  <2> QED BY <1>1, <2>1 DEF InOrder
<1> DEFINE c == txn[t].ops[txn[t].next]
<1>3. c \in Buffered
  BY <1>2, ElementOfSeq DEF Applies, Blocks
<1>4. CASE AcquireCreate(t)
  <2>1. /\ pc[t] = "acquire" /\ pc'[t] = "log" /\ op' = op
        /\ \A v \in Threads \ {t} : pc'[v] = pc[v]
    BY <1>4 DEF AcquireCreate
  <2>2. Carries([id |-> op[t].id, rec |-> op[t].new], c)
    BY <1>2, <1>4 DEF Applies, AcquireCreate, Carries
  <2>3. Applies(t)'
    BY <1>1, <1>2, <2>1, <2>2 DEF Applies
  <2>4. InOrder(t)'
    BY <1>1, <2>1, <2>3 DEF InOrder, InLoop
  <2> QED BY <1>1, <2>1, <2>4, OrderStep
<1>5. CASE AcquireExisting(t)
  <2> DEFINE i == op[t].id
             new == IF op[t].kind = "update"
                      THEN Patched(data[i], op[t].arg) ELSE NoRec
             q == Request(op[t].kind, i, op[t].arg, new, {})
             r == [q EXCEPT !.old = data[i]]
  <2>1. /\ pc[t] = "acquire" /\ pc'[t] = "log" /\ op'[t] = r
        /\ op[t].kind \in {"update", "delete"} /\ data[i] # NoRec
        /\ \A v \in Threads \ {t} : pc'[v] = pc[v] /\ op'[v] = op[v]
    BY <1>5 DEF AcquireExisting
  <2>2. r.kind = op[t].kind /\ r.id = i /\ r.arg = op[t].arg /\ r.new = new
    BY DEF Request
  <2>3. Carries([id |-> i, rec |-> new], c)
    <3>1. CASE op[t].kind = "update"
      <4>1. op[t].arg \in Record /\ data[i] \in Record
        BY <2>1, <3>1 DEF OpOK, FilesOK, Maybe, WriteKinds
      <4>2. new \in Record /\ Patched(new, op[t].arg) = new
        BY <3>1, <4>1, PatchedType, PatchedTwice
      <4>3. new # NoRec
        BY <4>2, RecordFacts
      <4> HIDE DEF new
      <4> QED BY <1>2, <3>1, <4>2, <4>3 DEF Applies, Carries
    <3>2. CASE op[t].kind = "delete"
      BY <1>2, <3>2 DEF Applies, Carries
    <3> QED BY <2>1, <3>1, <3>2
  <2> HIDE DEF r, new
  <2>4. Applies(t)'
    BY <1>1, <1>2, <2>1, <2>2, <2>3 DEF Applies
  <2>5. InOrder(t)'
    BY <1>1, <2>1, <2>4 DEF InOrder, InLoop
  <2> QED BY <1>1, <2>1, <2>5, OrderStep
<1>6. CASE Unindex(t) \/ Reindex(t) \/ AppendRecord(t) \/ CacheWrite(t)
  <2>1. /\ pc[t] \in {"unindex", "reindex", "append", "cache"}
        /\ pc'[t] \in {"reindex", "append", "cache", "checkpoint"}
        /\ op' = op /\ \A v \in Threads \ {t} : pc'[v] = pc[v]
    BY <1>6 DEF Unindex, Reindex, AppendRecord, CacheWrite
  <2>2. Applies(t)'
    BY <1>1, <1>2, <2>1 DEF Applies
  <2>3. InOrder(t)'
    BY <1>1, <2>1, <2>2 DEF InOrder, InLoop
  <2> QED BY <1>1, <2>1, <2>3, OrderStep
<1> QED BY <1>4, <1>5, <1>6 DEF Proceed

\* One more entry has landed, and it is that of the next operation.
LEMMA LoggedOrder ==
  ASSUME TxnTypeInv, OrderInv, NEW t \in Threads, Logged(t)
  PROVE  OrderInv'
<1> USE DEF TxnTypeInv, TypeInv, TypeOK, ThreadsOK, Goto
<1> DEFINE e == [id |-> op[t].id, rec |-> op[t].new]
<1>1. /\ InLoop(t) /\ pc[t] = "log" /\ pc'[t] = "unindex" /\ op' = op
      /\ \A v \in Threads \ {t} : pc'[v] = pc[v]
      /\ InOrder(t)
  BY DEF Logged, LogWrite, OrderInv
<1>2. /\ txn'[t].landed = Append(txn[t].landed, e)
      /\ txn'[t].at = txn[t].at /\ txn'[t].ops = txn[t].ops
      /\ txn'[t].next = txn[t].next /\ txn'[t].outcome = txn[t].outcome
      /\ \A v \in Threads \ {t} : txn'[v] = txn[v]
  BY LandedType
<1>3. Applies(t) /\ Carries(e, txn[t].ops[txn[t].next])
  BY <1>1 DEF InOrder, Applies
<1>4. e \in Entry
  BY <1>1 DEF OpOK, Ops, Entry
<1> HIDE DEF e
<1>5. /\ txn[t].landed \in Seq(Entry) /\ txn[t].next \in Nat \ {0}
      /\ Len(txn[t].landed) = txn[t].next - 1
  BY <1>1 DEF Blocks, InOrder
<1>6. Len(txn'[t].landed) = txn[t].next
  BY <1>2, <1>4, <1>5, AppendProperties
<1>7. \A n \in DOMAIN txn'[t].landed : Carries(txn'[t].landed[n], txn'[t].ops[n])
  <2>1. \A n \in DOMAIN txn'[t].landed :
          \/ n = txn[t].next /\ txn'[t].landed[n] = e
          \/ n \in DOMAIN txn[t].landed /\ txn'[t].landed[n] = txn[t].landed[n]
    BY <1>2, <1>4, <1>5, AppendProperties, LenProperties
  <2>2. \A n \in DOMAIN txn[t].landed : Carries(txn[t].landed[n], txn[t].ops[n])
    BY <1>1 DEF InOrder
  <2> QED BY <1>2, <1>3, <2>1, <2>2
<1>8. Applies(t)'
  BY <1>1, <1>2, <1>3 DEF Applies
<1>9. InOrder(t)'
  BY <1>1, <1>2, <1>6, <1>7, <1>8 DEF InOrder, InLoop
<1> QED BY <1>1, <1>2, <1>9, OrderStep

\* The operation is over: the loop goes on to the next one,
LEMMA AppliedOrder ==
  ASSUME TxnTypeInv, OrderInv, NEW t \in Threads, Applied(t)
  PROVE  OrderInv'
<1> USE DEF TxnTypeInv, TypeInv, TypeOK, ThreadsOK, Goto
<1>1. /\ InLoop(t) /\ pc[t] = "checkpoint" /\ pc'[t] = "idle" /\ InOrder(t)
      /\ \A v \in Threads \ {t} : pc'[v] = pc[v] /\ op'[v] = op[v]
  BY DEF Applied, Checkpoint, Release, Leave, OrderInv
<1>2. /\ txn'[t].next = txn[t].next + 1
      /\ txn'[t].at = txn[t].at /\ txn'[t].ops = txn[t].ops
      /\ txn'[t].landed = txn[t].landed /\ txn'[t].outcome = txn[t].outcome
      /\ \A v \in Threads \ {t} : txn'[v] = txn[v]
  BY AppliedType
<1>3. /\ txn[t].next \in DOMAIN txn[t].ops
      /\ Len(txn[t].landed) = txn[t].next
  BY <1>1 DEF InOrder, Applies
<1>4. /\ txn[t].next + 1 \in 1 .. Len(txn[t].ops) + 1
      /\ Len(txn[t].landed) = txn[t].next + 1 - 1
  <2>1. txn[t].ops \in Seq(Buffered) /\ Len(txn[t].ops) \in Nat
    BY LenProperties DEF Blocks
  <2> QED BY <1>3, <2>1, LenProperties
<1>5. InOrder(t)'
  BY <1>1, <1>2, <1>4 DEF InOrder, InLoop
<1> QED BY <1>1, <1>2, <1>5, OrderStep

\* or the loop is broken off.
LEMMA BreaksOrder ==
  ASSUME TxnTypeInv, OrderInv, NEW t \in Threads, Breaks(t)
  PROVE  OrderInv'
<1> USE DEF TxnTypeInv, TypeInv, TypeOK, ThreadsOK, Goto
<1>1. /\ pc'[t] = "idle"
      /\ \A v \in Threads \ {t} : pc'[v] = pc[v] /\ op'[v] = op[v]
  BY DEF Breaks, NotFound, Reject, Fail, Release, Leave
<1>2. \A v \in Threads : txn[v].outcome = "ok" => ~InLoop(v)
  BY DEF OrderInv, InOrder, InLoop
<1>3. /\ txn'[t].at \in {"open", "out"} /\ txn'[t].outcome # "ok"
      /\ \A v \in Threads \ {t} : txn'[v] = txn[v]
  BY <1>2, BreaksType
<1>4. InOrder(t)'
  BY <1>1, <1>3, OrderOutside
<1> QED BY <1>1, <1>3, <1>4, OrderStep

LEMMA OrderInvStep ==
  ASSUME TxnTypeInv, OrderInv, TxnNext
  PROVE  OrderInv'
<1>1. CASE \E t \in Threads : BlockStep(t) \/ BufferCreate(t)
  BY <1>1, BlockOrder
<1>2. CASE \E t \in Threads : Apply(t)
  BY <1>2, ApplyOrder
<1>3. CASE \E t \in Threads : LoopStep(t)
  BY <1>3, LoggedOrder, ProceedOrder, AppliedOrder, BreaksOrder DEF LoopStep
<1>4. CASE TxnCrash
  <2>1. \A t \in Threads : /\ txn'[t].at = "out" /\ txn'[t].outcome = "none"
                           /\ pc'[t] = "idle"
    BY <1>4, NewBlockType DEF TxnCrash, Crash, Down
  <2> QED BY <2>1, OrderOutside DEF OrderInv
<1>5. CASE (Open \/ Recovers) /\ UNCHANGED txn
  <2>1. UNCHANGED <<pc, op, txn>>
    BY <1>5 DEF Open, Recovers, Replay, Replayed, RecoverIndex,
                RecoverCheckpoint, thrv
  <2> QED BY <2>1, OrderKept DEF OrderInv
<1> QED BY <1>1, <1>2, <1>3, <1>4, <1>5 DEF TxnNext, BlockStep, LoopStep

-----------------------------------------------------------------------------
\* The three together are inductive.
TxnInv == TxnTypeInv /\ BlockInv /\ OrderInv

LEMMA TxnInvariant == TxnSpec => []TxnInv
<1>1. TxnInit => TxnInv
  <2> SUFFICES ASSUME TxnInit PROVE TxnInv
    OBVIOUS
  <2>1. \A t \in Threads : /\ txn[t].at = "out" /\ txn[t].outcome = "none"
                           /\ pc[t] = "idle"
    BY NewBlockType DEF TxnInit, Init
  <2>2. OrderInv
    BY <2>1 DEF OrderInv, InOrder, InLoop
  <2> QED BY <2>2, TxnTypeInit, BlockInit DEF TxnInv
<1>2. TxnInv /\ [TxnNext]_tvars => TxnInv'
  <2> SUFFICES ASSUME TxnInv, [TxnNext]_tvars PROVE TxnInv'
    OBVIOUS
  <2>1. \A t \in Threads : txn[t].outcome = "ok" => ~InLoop(t)
    BY DEF TxnInv, OrderInv, InOrder, InLoop
  <2>2. TxnTypeInv'
    BY <2>1, TxnTypeStep DEF TxnInv
  <2>3. CASE TxnNext
    BY <2>1, <2>2, <2>3, BlockInvStep, OrderInvStep DEF TxnInv
  <2>4. CASE UNCHANGED tvars
    <3>1. UNCHANGED <<data, wal, rq, pc, op, counter, txn>>
      BY <2>4 DEF tvars, vars, datav, walv, runv, thrv
    <3>2. OrderInv'
      BY <3>1, OrderKept DEF TxnInv, OrderInv
    <3>3. BlockInv'
      BY <3>1 DEF TxnInv, BlockInv, Used, CreateIds, InLoop
    <3> QED BY <2>2, <3>2, <3>3 DEF TxnInv
  <2> QED BY <2>3, <2>4
<1> QED BY <1>1, <1>2, PTL DEF TxnSpec

\* The id of a create that waits in a block belongs to no live record, no
\* pending entry, no other block and no other create until the block is first
\* committed: it was drawn when the create was buffered, and _IDCounter never
\* hands out an id twice, whatever threads, crashes and failed writes do.
THEOREM WaitingIdsFresh == TxnSpec => []BufferedIdsFresh
<1>1. TxnInv => BufferedIdsFresh
  <2> SUFFICES ASSUME TxnInv, NEW t \in Threads, ~txn[t].tried,
                      NEW k \in DOMAIN txn[t].ops, txn[t].ops[k].kind = "create"
               PROVE  LET i == txn[t].ops[k].id IN
                      /\ data[i] = NoRec
                      /\ \A n \in DOMAIN wal : wal[n].id # i
                      /\ \A v \in Threads \ {t} :
                           /\ op[v].kind = "create" => op[v].id # i
                           /\ \A n \in DOMAIN txn[v].ops :
                                txn[v].ops[n].kind = "create"
                                  => txn[v].ops[n].id # i
    BY DEF BufferedIdsFresh
  <2> DEFINE i == txn[t].ops[k].id
  <2>1. i \in CreateIds(t)
    BY DEF CreateIds
  <2>2. i \in Ids
    BY <2>1, CreateIdsAre DEF TxnInv, TxnTypeInv
  <2> HIDE DEF i
  <2>3. ~Used(i) /\ \A v \in Threads \ {t} : i \notin CreateIds(v)
    BY <2>1 DEF TxnInv, BlockInv
  <2>4. \A v \in Threads \ {t} : \A n \in DOMAIN txn[v].ops :
          txn[v].ops[n].kind = "create" => txn[v].ops[n].id # i
    BY <2>3 DEF CreateIds
  <2> QED BY <2>2, <2>3, <2>4 DEF Used, i
<1> QED BY <1>1, TxnInvariant, PTL

\* The loop of commit logs what its block has buffered, in that order and each
\* operation once, and a block left without an exception has logged all of it:
\* for every number of threads and operations, although each operation takes
\* the collection lock anew and reads the stored record only then.
THEOREM CommitsKeepOrder == TxnSpec => []CommitsInOrder
<1>1. TxnInv => CommitsInOrder
  <2> SUFFICES ASSUME TxnInv, NEW t \in Threads,
                      InLoop(t) \/ txn[t].outcome = "ok"
               PROVE  /\ Len(txn[t].landed) <= Len(txn[t].ops)
                      /\ \A n \in DOMAIN txn[t].landed :
                           Carries(txn[t].landed[n], txn[t].ops[n])
                      /\ txn[t].outcome = "ok" =>
                           Len(txn[t].landed) = Len(txn[t].ops)
    BY DEF CommitsInOrder
  <2>1. InOrder(t) /\ txn[t] \in Blocks
    BY DEF TxnInv, OrderInv, TxnTypeInv
  <2>2. /\ Len(txn[t].ops) \in Nat /\ txn[t].next \in Nat \ {0}
        /\ DOMAIN txn[t].ops = 1 .. Len(txn[t].ops)
    BY <2>1, LenProperties DEF Blocks
  <2>3. ASSUME InLoop(t) PROVE Len(txn[t].landed) <= Len(txn[t].ops)
    <3>1. CASE pc[t] = "idle"
      BY <2>1, <2>2, <2>3, <3>1 DEF InOrder
    <3>2. CASE pc[t] # "idle"
      BY <2>1, <2>2, <2>3, <3>2 DEF InOrder, Applies
    <3> QED BY <3>1, <3>2
  <2> QED BY <2>1, <2>2, <2>3 DEF InOrder
<1> QED BY <1>1, TxnInvariant, PTL
==============================================================================

------------------------------ MODULE Collection ------------------------------
(***************************************************************************)
(* One collection opened by one process (pyro_db/collection.py) with the   *)
(* parts it drives: the .data file (storage.py), the log (wal.py), the     *)
(* index (indexes.py), the record cache (cache.py), the id counter and the *)
(* collection lock (locks.py).                                             *)
(*                                                                         *)
(* Threads call operations; each operation is cut at the points where      *)
(* another thread, a crash or an I/O error can come between.  Within one   *)
(* process the RLock alone decides who is inside the collection lock, for  *)
(* readers and writers alike.                                              *)
(***************************************************************************)
EXTENDS FieldIndex, Sequences, FiniteSets

CONSTANTS
  Threads,
  Free,          \* "nobody holds the lock"
  MaxId,         \* bound on the ids drawn
  CacheSize,     \* cache_size
  Kinds,         \* the operations the clients of this instance call
  NewRecs,       \* records passed to create
  Patches,       \* patches passed to update
  Probes,        \* field=value pairs passed to get
  MaxPending,    \* no write starts while the log holds this many entries
  MaxRestarts,   \* bound on closes and crashes
  MayCrash,      \* the process may die at any step
  Torn,          \* a crash or an I/O error may leave half a line in a file
  MaxErrors,     \* bound on I/O errors
  MayLoseIndex   \* the .index file may be lost while the collection is closed

OpKinds == {"create", "update", "delete", "get", "find", "compact", "rebuild"}

ASSUME CollectionAssumption ==
  /\ Free \notin Threads
  /\ MaxId \in Nat \ {0}
  /\ CacheSize \in Nat \ {0}
  /\ Kinds \subseteq OpKinds
  /\ NewRecs \subseteq Record
  /\ Patches \subseteq Record
  /\ Probes \subseteq Record
  /\ {MaxPending, MaxRestarts, MaxErrors} \subseteq Nat
  /\ {MayCrash, Torn, MayLoseIndex} \subseteq BOOLEAN

Ids == 1 .. MaxId

VARIABLES
  data,       \* .data: latest version of each id; NoRec if none or deleted
  dataTorn,   \* .data ends in half a line
  wal,        \* the entries logged since the last CHECKPOINT
  walTorn,    \* wal.log ends in half a line
  diskIdx,    \* .index
  memIdx,     \* IndexManager._data
  cache,      \* LRUCache._store; NoRec when not cached
  counter,    \* _IDCounter._value and its file
  lock,       \* thread inside CollectionLock
  pc,         \* where each thread is
  op,         \* the operation each thread is in
  mode,       \* "up", "down", or the phase of _recover
  rq,         \* entries _recover has still to replay
  restarts,   \* closes and crashes so far
  errors      \* I/O errors so far

datav == <<data, dataTorn>>
walv  == <<wal, walTorn>>
idxv  == <<diskIdx, memIdx>>
runv  == <<mode, rq, restarts>>
thrv  == <<lock, pc, op>>
vars  == <<datav, walv, idxv, cache, counter, thrv, runv, errors>>

\* DELETE entries carry no record.
Entry == [id : Ids, rec : Maybe]

\* An operation as it is called.
Request(kind, id, arg, new, ids) ==
  [kind |-> kind, id |-> id, arg |-> arg, old |-> NoRec, new |-> new,
   ids |-> ids]

NoOp == Request("none", 0, NoRec, NoRec, {})

Ops == [kind : OpKinds \cup {"none"},
        id   : 0 .. MaxId,
        arg  : Maybe,         \* record, patch or probe of the caller
        old  : Maybe,         \* stored version read under the lock
        new  : Maybe,         \* version to write, or record to return
        ids  : SUBSET Ids]    \* posting list looked up

Locations == {"idle", "acquire", "log", "unindex", "reindex", "append",
              "cache", "checkpoint", "rewrite", "clear", "fill", "evict",
              "read", "put", "load", "found", "missed"}

\* Where a thread is inside the lock.
Inside == {"log", "unindex", "reindex", "append", "cache", "checkpoint",
           "rewrite", "clear", "fill", "evict"}

Modes == {"up", "down", "replay", "reindex", "checkpoint"}

Triples == Fields \X {Key[v] : v \in Values} \X Ids

FilesOK ==
  /\ data \in [Ids -> Maybe]
  /\ dataTorn \in BOOLEAN
  /\ wal \in Seq(Entry)
  /\ walTorn \in BOOLEAN
  /\ diskIdx \in SUBSET Triples
  /\ counter \in 0 .. MaxId

MemoryOK ==
  /\ memIdx \in SUBSET Triples
  /\ cache \in [Ids -> Maybe]
  /\ mode \in Modes
  /\ rq \in Seq(Entry)
  /\ restarts \in Nat
  /\ errors \in Nat

ThreadsOK ==
  /\ lock \in Threads \cup {Free}
  /\ pc \in [Threads -> Locations]
  /\ op \in [Threads -> Ops]

\* What each file, each cell of memory and each thread can hold.
TypeOK == FilesOK /\ MemoryOK /\ ThreadsOK

\* A first open of an empty directory.
Init ==
  /\ data = [i \in Ids |-> NoRec]
  /\ dataTorn = FALSE
  /\ wal = <<>>
  /\ walTorn = FALSE
  /\ diskIdx = {}
  /\ memIdx = {}
  /\ cache = [i \in Ids |-> NoRec]
  /\ counter = 0
  /\ lock = Free
  /\ pc = [t \in Threads |-> "idle"]
  /\ op = [t \in Threads |-> NoOp]
  /\ mode = "up"
  /\ rq = <<>>
  /\ restarts = 0
  /\ errors = 0

-----------------------------------------------------------------------------
(* The files.  An append to a file that ends in half a line completes that *)
(* line; readers skip the result as corrupt, and the next append is sound. *)

Append_data(i, r) ==
  /\ data' = IF dataTorn THEN data ELSE [data EXCEPT ![i] = r]
  /\ dataTorn' = FALSE

Append_wal(e) ==
  /\ wal' = IF walTorn THEN wal ELSE Append(wal, e)
  /\ walTorn' = FALSE

Log_checkpoint ==
  /\ wal' = IF walTorn THEN wal ELSE <<>>
  /\ walTorn' = FALSE

(* The cache.  Which entry a full cache gives up is left open: any but the *)
(* one just put.                                                           *)

Cached(c) == {i \in DOMAIN c : c[i] # NoRec}

CachePuts(i, r) ==
  LET c == [cache EXCEPT ![i] = r]
  IN  IF Cardinality(Cached(c)) <= CacheSize THEN {c}
      ELSE {[c EXCEPT ![j] = NoRec] : j \in Cached(c) \ {i}}

(* Threads. *)

Goto(t, l) == pc' = [pc EXCEPT ![t] = l]

\* The operation is over, by returning or by raising.
Leave(t) ==
  /\ Goto(t, "idle")
  /\ op' = [op EXCEPT ![t] = NoOp]

\* ... and the with-block releases the lock.
Release(t) == Leave(t) /\ lock' = Free

Call(t, kind) ==
  /\ mode = "up"
  /\ kind \in Kinds
  /\ pc[t] = "idle"

\* A write may leave its entry pending: MaxPending bounds the log.
CallWrite(t, kind) == Call(t, kind) /\ Len(wal) < MaxPending

-----------------------------------------------------------------------------
(* create, update, delete *)

\* Mutant: the id returned is one past the one stored.
CreateSkipsId(t) ==
  /\ CallWrite(t, "create")
  /\ counter < MaxId
  /\ counter' = counter + 1
  /\ \E r \in NewRecs :
       op' = [op EXCEPT ![t] = Request("create", counter + 2, r, r, {})]
  /\ Goto(t, "acquire")
  /\ UNCHANGED <<datav, walv, idxv, cache, lock, runv, errors>>

\* _build_record draws the id before, and outside, the lock.
CallCreate(t) ==
  /\ CallWrite(t, "create")
  /\ counter < MaxId
  /\ counter' = counter + 1
  /\ \E r \in NewRecs :
       op' = [op EXCEPT ![t] = Request("create", counter + 1, r, r, {})]
  /\ Goto(t, "acquire")
  /\ UNCHANGED <<datav, walv, idxv, cache, lock, runv, errors>>

CallUpdate(t) ==
  /\ CallWrite(t, "update")
  /\ \E i \in Ids, p \in Patches :
       op' = [op EXCEPT ![t] = Request("update", i, p, NoRec, {})]
  /\ Goto(t, "acquire")
  /\ UNCHANGED <<datav, walv, idxv, cache, counter, lock, runv, errors>>

CallDelete(t) ==
  /\ CallWrite(t, "delete")
  /\ \E i \in Ids :
       op' = [op EXCEPT ![t] = Request("delete", i, NoRec, NoRec, {})]
  /\ Goto(t, "acquire")
  /\ UNCHANGED <<datav, walv, idxv, cache, counter, lock, runv, errors>>

\* Mutant: create does not take the lock.
CreateUnlocked(t) ==
  /\ pc[t] = "acquire"
  /\ op[t].kind = "create"
  /\ lock' = t
  /\ Goto(t, "log")
  /\ UNCHANGED <<datav, walv, idxv, cache, counter, op, runv, errors>>

AcquireCreate(t) ==
  /\ pc[t] = "acquire"
  /\ op[t].kind = "create"
  /\ lock = Free
  /\ lock' = t
  /\ Goto(t, "log")
  /\ UNCHANGED <<datav, walv, idxv, cache, counter, op, runv, errors>>

\* update and delete read the stored version under the lock.
AcquireExisting(t) ==
  LET i == op[t].id
      new == IF op[t].kind = "update" THEN Patched(data[i], op[t].arg)
             ELSE NoRec
  IN
  /\ pc[t] = "acquire"
  /\ op[t].kind \in {"update", "delete"}
  /\ lock = Free
  /\ data[i] # NoRec
  /\ lock' = t
  /\ op' = [op EXCEPT ![t] = [Request(op[t].kind, i, op[t].arg, new, {})
                               EXCEPT !.old = data[i]]]
  /\ Goto(t, "log")
  /\ UNCHANGED <<datav, walv, idxv, cache, counter, runv, errors>>

\* RecordNotFoundError: nothing was logged.
NotFound(t) ==
  /\ pc[t] = "acquire"
  /\ op[t].kind \in {"update", "delete"}
  /\ lock = Free
  /\ data[op[t].id] = NoRec
  /\ Leave(t)
  /\ UNCHANGED <<datav, walv, idxv, cache, counter, lock, runv, errors>>

LogWrite(t) ==
  /\ pc[t] = "log"
  /\ Append_wal([id |-> op[t].id, rec |-> op[t].new])
  /\ Goto(t, "unindex")
  /\ UNCHANGED <<datav, idxv, cache, counter, lock, op, runv, errors>>

Duplicate(o) ==
  \/ o.kind = "create" /\ DuplicateOnCreate(memIdx, o.new)
  \/ o.kind = "update" /\ DuplicateOnUpdate(memIdx, o.id, o.old, o.new)

\* Mutant: a rejected write waits, inside the lock, for the value to be freed.
RejectWaits(t) ==
  /\ pc[t] = "unindex"
  /\ Duplicate(op[t])
  /\ UNCHANGED vars

\* DuplicateIndexError: the entry just logged stays in the log.
Reject(t) ==
  /\ pc[t] = "unindex"
  /\ Duplicate(op[t])
  /\ Release(t)
  /\ UNCHANGED <<datav, walv, idxv, cache, counter, runv, errors>>

\* Mutant: the postings of the old version stay in the index.
UnindexNothing(t) ==
  /\ pc[t] = "unindex"
  /\ ~Duplicate(op[t])
  /\ Goto(t, "reindex")
  /\ UNCHANGED <<datav, walv, idxv, cache, counter, lock, op, runv, errors>>

\* Mutant: whole posting lists go, not only the id of the record.
UnindexLists(t) ==
  LET old == Postings(op[t].id, op[t].old) IN
  /\ pc[t] = "unindex"
  /\ ~Duplicate(op[t])
  /\ memIdx' = {p \in memIdx : \A q \in old : <<p[1], p[2]>> # <<q[1], q[2]>>}
  /\ Goto(t, "reindex")
  /\ UNCHANGED <<datav, walv, diskIdx, cache, counter, lock, op, runv, errors>>

\* on_update and on_delete first take out every posting of the old version,
Unindex(t) ==
  /\ pc[t] = "unindex"
  /\ ~Duplicate(op[t])
  /\ memIdx' = memIdx \ Postings(op[t].id, op[t].old)
  /\ Goto(t, "reindex")
  /\ UNCHANGED <<datav, walv, diskIdx, cache, counter, lock, op, runv, errors>>

\* then on_create and on_update file the new one; all three flush.
Reindex(t) ==
  /\ pc[t] = "reindex"
  /\ memIdx' = memIdx \cup Postings(op[t].id, op[t].new)
  /\ diskIdx' = memIdx'
  /\ Goto(t, "append")
  /\ UNCHANGED <<datav, walv, cache, counter, lock, op, runv, errors>>

AppendRecord(t) ==
  /\ pc[t] = "append"
  /\ Append_data(op[t].id, op[t].new)
  /\ Goto(t, "cache")
  /\ UNCHANGED <<walv, idxv, cache, counter, lock, op, runv, errors>>

\* Mutant: delete forgets to invalidate.
CacheKeepsDeleted(t) ==
  /\ pc[t] = "cache"
  /\ IF op[t].kind = "delete" THEN UNCHANGED cache
     ELSE cache' \in CachePuts(op[t].id, op[t].new)
  /\ Goto(t, "checkpoint")
  /\ UNCHANGED <<datav, walv, idxv, counter, lock, op, runv, errors>>

\* create and update put the new version; delete only invalidates.
CacheWrite(t) ==
  LET i == op[t].id IN
  /\ pc[t] = "cache"
  /\ IF op[t].kind = "delete" THEN cache' = [cache EXCEPT ![i] = NoRec]
     ELSE cache' \in CachePuts(i, op[t].new)
  /\ Goto(t, "checkpoint")
  /\ UNCHANGED <<datav, walv, idxv, counter, lock, op, runv, errors>>

Checkpoint(t) ==
  /\ pc[t] = "checkpoint"
  /\ Log_checkpoint
  /\ Release(t)
  /\ UNCHANGED <<datav, idxv, cache, counter, runv, errors>>

-----------------------------------------------------------------------------
(* compact and rebuild_index *)

CallMaintenance(t) ==
  /\ \E kind \in {"compact", "rebuild"} :
       /\ Call(t, kind)
       /\ op' = [op EXCEPT ![t] = Request(kind, 0, NoRec, NoRec, {})]
  /\ Goto(t, "acquire")
  /\ UNCHANGED <<datav, walv, idxv, cache, counter, lock, runv, errors>>

AcquireMaintenance(t) ==
  /\ pc[t] = "acquire"
  /\ op[t].kind \in {"compact", "rebuild"}
  /\ lock = Free
  /\ lock' = t
  /\ Goto(t, IF op[t].kind = "compact" THEN "rewrite" ELSE "clear")
  /\ UNCHANGED <<datav, walv, idxv, cache, counter, op, runv, errors>>

\* The data file is replaced by one that holds the live records only.
Rewrite(t) ==
  /\ pc[t] = "rewrite"
  /\ dataTorn' = FALSE
  /\ Goto(t, "clear")
  /\ UNCHANGED <<data, walv, idxv, cache, counter, lock, op, runv, errors>>

\* rebuild drops the index in memory,
ClearIndex(t) ==
  /\ pc[t] = "clear"
  /\ memIdx' = {}
  /\ Goto(t, "fill")
  /\ UNCHANGED <<datav, walv, diskIdx, cache, counter, lock, op, runv, errors>>

\* then fills it from the live records and flushes it.
FillIndex(t) ==
  /\ pc[t] = "fill"
  /\ memIdx' = IndexOf(data)
  /\ diskIdx' = memIdx'
  /\ IF op[t].kind = "compact" THEN Goto(t, "evict") /\ UNCHANGED <<lock, op>>
     ELSE Release(t)
  /\ UNCHANGED <<datav, walv, cache, counter, runv, errors>>

ClearCache(t) ==
  /\ pc[t] = "evict"
  /\ cache' = [i \in Ids |-> NoRec]
  /\ Goto(t, "checkpoint")
  /\ UNCHANGED <<datav, walv, idxv, counter, lock, op, runv, errors>>

-----------------------------------------------------------------------------
(* get *)

\* By id.  The cache is asked first, without the lock.
CallGet(t) ==
  /\ Call(t, "get")
  /\ \E i \in Ids :
       /\ op' = [op EXCEPT ![t] = Request("get", i, NoRec, cache[i], {})]
       /\ Goto(t, IF cache[i] # NoRec THEN "found" ELSE "read")
  /\ UNCHANGED <<datav, walv, idxv, cache, counter, lock, runv, errors>>

\* On a miss the file is read under the lock,
ReadRecord(t) ==
  LET r == data[op[t].id] IN
  /\ pc[t] = "read"
  /\ lock = Free
  /\ op' = [op EXCEPT ![t].new = r]
  /\ Goto(t, IF r = NoRec THEN "missed" ELSE "put")
  /\ UNCHANGED <<datav, walv, idxv, cache, counter, lock, runv, errors>>

\* and the record is cached after the lock has been released.
FillCache(t) ==
  /\ pc[t] = "put"
  /\ cache' \in CachePuts(op[t].id, op[t].new)
  /\ Goto(t, "found")
  /\ UNCHANGED <<datav, walv, idxv, counter, lock, op, runv, errors>>

\* By field=value.  The index is asked without the lock,
CallFind(t) ==
  /\ Call(t, "find")
  /\ \E p \in Probes, f \in Fields :
       /\ Has(p, f)
       /\ op' = [op EXCEPT ![t] =
                    Request("find", 0, p, NoRec, Lookup(memIdx, f, p[f]))]
  /\ Goto(t, "load")
  /\ UNCHANGED <<datav, walv, idxv, cache, counter, lock, runv, errors>>

\* then the first of those ids that is live under the lock is returned.
LoadLive(t) ==
  LET live == {i \in op[t].ids : data[i] # NoRec} IN
  /\ pc[t] = "load"
  /\ lock = Free
  /\ \/ /\ live = {}
        /\ Goto(t, "missed")
        /\ UNCHANGED op
     \/ \E i \in live :
        /\ op' = [op EXCEPT ![t] = Request("find", i, op[t].arg, data[i],
                                             op[t].ids)]
        /\ Goto(t, "found")
  /\ UNCHANGED <<datav, walv, idxv, cache, counter, lock, runv, errors>>

\* get returns the record, or raises RecordNotFoundError.
Answer(t) ==
  /\ pc[t] \in {"found", "missed"}
  /\ Leave(t)
  /\ UNCHANGED <<datav, walv, idxv, cache, counter, lock, runv, errors>>

-----------------------------------------------------------------------------
(* Closing, crashing, opening *)

\* Mutant: the counter is kept in memory only.
DownLosesCounter ==
  /\ mode' = "down"
  /\ rq' = <<>>
  /\ memIdx' = {}
  /\ cache' = [i \in Ids |-> NoRec]
  /\ lock' = Free
  /\ pc' = [t \in Threads |-> "idle"]
  /\ op' = [t \in Threads |-> NoOp]
  /\ counter' = 0
  /\ restarts < MaxRestarts
  /\ restarts' = restarts + 1
  /\ UNCHANGED <<data, wal, diskIdx, errors>>

\* Memory goes with the process.
Down ==
  /\ mode' = "down"
  /\ rq' = <<>>
  /\ memIdx' = {}
  /\ cache' = [i \in Ids |-> NoRec]
  /\ lock' = Free
  /\ pc' = [t \in Threads |-> "idle"]
  /\ op' = [t \in Threads |-> NoOp]
  /\ restarts < MaxRestarts
  /\ restarts' = restarts + 1
  /\ UNCHANGED <<data, wal, diskIdx, counter, errors>>

\* Database.close writes nothing.
Close ==
  /\ mode = "up"
  /\ \A t \in Threads : pc[t] = "idle"
  /\ Down
  /\ UNCHANGED <<dataTorn, walTorn>>

\* A write that is cut short may leave half a line.
MayTear(torn, writing) ==
  IF Torn /\ writing THEN {torn, TRUE} ELSE {torn}

WritingData == mode = "replay" \/ \E t \in Threads : pc[t] = "append"

WritingWal ==
  mode = "checkpoint" \/ \E t \in Threads : pc[t] \in {"log", "checkpoint"}

Crash ==
  /\ MayCrash
  /\ mode # "down"
  /\ Down
  /\ dataTorn' \in MayTear(dataTorn, WritingData)
  /\ walTorn' \in MayTear(walTorn, WritingWal)

\* The .index file disappears or no longer decodes.
LoseIndex ==
  /\ MayLoseIndex
  /\ mode = "down"
  /\ diskIdx # {}
  /\ diskIdx' = {}
  /\ UNCHANGED <<datav, walv, memIdx, cache, counter, thrv, runv, errors>>

\* Mutant: the pending entries are not replayed.
OpenUnrecovered ==
  /\ mode = "down"
  /\ memIdx' = diskIdx
  /\ mode' = "up"
  /\ UNCHANGED <<datav, walv, diskIdx, cache, counter, thrv, rq, restarts,
                 errors>>

\* Collection.__init__: the index is loaded, and _recover has nothing to do
\* when no entry is pending.
Open ==
  /\ mode = "down"
  /\ memIdx' = diskIdx
  /\ rq' = wal
  /\ mode' = IF wal = <<>> THEN "up" ELSE "replay"
  /\ UNCHANGED <<datav, walv, diskIdx, cache, counter, thrv, restarts, errors>>

\* Mutant: deletes are not replayed.
ReplayNoDeletes ==
  LET e == Head(rq) IN
  /\ mode = "replay"
  /\ rq # <<>>
  /\ rq' = Tail(rq)
  /\ IF e.rec = NoRec THEN UNCHANGED datav ELSE Append_data(e.id, e.rec)
  /\ UNCHANGED <<walv, idxv, cache, counter, thrv, mode, restarts, errors>>

\* Mutant: the first pending entry is replayed again and again.
ReplayFirst ==
  LET e == Head(rq) IN
  /\ mode = "replay"
  /\ rq # <<>>
  /\ IF e.rec = NoRec /\ data[e.id] = NoRec THEN UNCHANGED datav
     ELSE Append_data(e.id, e.rec)
  /\ UNCHANGED <<walv, idxv, cache, counter, thrv, runv, errors>>

\* Every pending entry is appended again; a DELETE only if the record is
\* still there.
Replay ==
  LET e == Head(rq) IN
  /\ mode = "replay"
  /\ rq # <<>>
  /\ rq' = Tail(rq)
  /\ IF e.rec = NoRec /\ data[e.id] = NoRec THEN UNCHANGED datav
     ELSE Append_data(e.id, e.rec)
  /\ UNCHANGED <<walv, idxv, cache, counter, thrv, mode, restarts, errors>>

Replayed ==
  /\ mode = "replay"
  /\ rq = <<>>
  /\ mode' = "reindex"
  /\ UNCHANGED <<datav, walv, idxv, cache, counter, thrv, rq, restarts, errors>>

RecoverIndex ==
  /\ mode = "reindex"
  /\ memIdx' = IndexOf(data)
  /\ diskIdx' = memIdx'
  /\ mode' = "checkpoint"
  /\ UNCHANGED <<datav, walv, cache, counter, thrv, rq, restarts, errors>>

RecoverCheckpoint ==
  /\ mode = "checkpoint"
  /\ Log_checkpoint
  /\ mode' = "up"
  /\ UNCHANGED <<datav, idxv, cache, counter, thrv, rq, restarts, errors>>

-----------------------------------------------------------------------------
(* An I/O error in a file write: OSError leaves the with-block.  The line  *)
(* may be missing from the file, there in part, or there in whole (write   *)
(* and flush went through, fsync failed).  A flush of the index that fails *)
(* has changed the index in memory already.                                *)
Fail(t) ==
  /\ errors < MaxErrors
  /\ errors' = errors + 1
  /\ pc[t] \in {"log", "reindex", "append", "checkpoint", "rewrite", "fill"}
  /\ memIdx' = CASE pc[t] = "reindex" ->
                      memIdx \cup Postings(op[t].id, op[t].new)
                 [] pc[t] = "fill" -> IndexOf(data)
                 [] OTHER -> memIdx
  /\ \/ /\ dataTorn' \in MayTear(dataTorn, pc[t] = "append")
        /\ walTorn' \in MayTear(walTorn, pc[t] \in {"log", "checkpoint"})
        /\ UNCHANGED <<data, wal>>
     \/ /\ pc[t] = "log"
        /\ Append_wal([id |-> op[t].id, rec |-> op[t].new])
        /\ UNCHANGED datav
     \/ /\ pc[t] = "append"
        /\ Append_data(op[t].id, op[t].new)
        /\ UNCHANGED walv
     \/ /\ pc[t] = "checkpoint"
        /\ Log_checkpoint
        /\ UNCHANGED datav
  /\ Release(t)
  /\ UNCHANGED <<diskIdx, cache, counter, runv>>

-----------------------------------------------------------------------------
Starts(t) ==
  \/ CallCreate(t) \/ CallUpdate(t) \/ CallDelete(t)
  \/ CallMaintenance(t) \/ CallGet(t) \/ CallFind(t)

Steps(t) ==
  \/ AcquireCreate(t) \/ AcquireExisting(t) \/ NotFound(t)
  \/ LogWrite(t) \/ Reject(t) \/ Unindex(t) \/ Reindex(t)
  \/ AppendRecord(t) \/ CacheWrite(t) \/ Checkpoint(t)
  \/ AcquireMaintenance(t) \/ Rewrite(t) \/ ClearIndex(t) \/ FillIndex(t)
  \/ ClearCache(t)
  \/ ReadRecord(t) \/ FillCache(t) \/ LoadLive(t) \/ Answer(t)

Recovers == Replay \/ Replayed \/ RecoverIndex \/ RecoverCheckpoint

Next ==
  \/ \E t \in Threads : Starts(t) \/ Steps(t) \/ Fail(t)
  \/ Close \/ Crash \/ LoseIndex \/ Open \/ Recovers

Spec == Init /\ [][Next]_vars

\* A thread that can take its next step is scheduled; _recover runs to its
\* end.  No call is ever bound to be made.
Fairness ==
  /\ \A t \in Threads : WF_vars(Steps(t))
  /\ WF_vars(Recovers)

FairSpec == Spec /\ Fairness

-----------------------------------------------------------------------------
(* Safety *)

\* Whenever no writer is at work, the index in memory and the one on disk
\* hold exactly the postings of the live records, across rejected writes,
\* compaction and restarts (indexes.py:143 "matches the data file exactly").
IndexExact ==
  mode = "up" /\ lock = Free =>
    memIdx = IndexOf(data) /\ diskIdx = memIdx

\* The id a create has drawn, outside the lock, belongs to no live record, to
\* no pending log entry, to no cached record and to no other create, so that
\* writing it overwrites nothing (collection.py:97 "The next unique record ID").
IdsNeverReused ==
  \A t \in Threads :
    op[t].kind = "create" /\ pc[t] \in {"acquire", "log"} =>
      LET i == op[t].id IN
      /\ i \in 1 .. counter
      /\ data[i] = NoRec
      /\ cache[i] = NoRec
      /\ \A k \in DOMAIN wal : wal[k].id # i
      /\ \A u \in Threads \ {t} : op[u].kind = "create" => op[u].id # i

Clashes(live) ==
  {x \in Ids \X Ids \X Fields :
     /\ x[1] # x[2]
     /\ x[3] \in Unique
     /\ live[x[1]] # NoRec /\ live[x[2]] # NoRec
     /\ Has(live[x[1]], x[3]) /\ Has(live[x[2]], x[3])
     /\ Key[live[x[1]][x[3]]] = Key[live[x[2]][x[3]]]}

\* No two live records share a value of a unique field (core.py:247 "must be
\* unique across all records").
UniqueLive == Clashes(data) = {}

\* While the collection is up no operation makes two live records share a
\* value of a unique field: the check, the index and the lock are enough,
\* whatever restarts and recoveries came before.
ClientsAddNoClash ==
  [][mode = "up" => Clashes(data') \subseteq Clashes(data)]_vars

\* A cached record is the stored one unless a writer is at work on that id
\* (cache.py:19 "so the cache never serves stale data").
CacheFresh ==
  \A i \in Ids :
    /\ cache[i] # NoRec
    /\ \A t \in Threads : pc[t] \in Inside => op[t].id # i
    => cache[i] = data[i]

\* Record i is cached in another version than the stored one, and no writer is
\* on its way to put that right.
Stale(i) ==
  /\ cache[i] \notin {NoRec, data[i]}
  /\ \A t \in Threads : pc[t] = "cache" => op[t].id # i

\* t caches what it read of i before i was last written.
LateFill(t, i) == op[t].id = i /\ op[t].new # data[i] /\ FillCache(t)

\* A cached record goes stale in one way only: a get puts what it read before
\* the last write of the record.  No write, delete, eviction, compaction, crash
\* or recovery makes one stale (cache.py:18 "Explicit invalidation is called by
\* the collection on every write").
OnlyLateFills ==
  [][\A i \in Ids :
       Stale(i)' => Stale(i) \/ \E t \in Threads : LateFill(t, i)]_vars

-----------------------------------------------------------------------------
(* Recovery, and what the collection promises *)

Pending(i) == {k \in DOMAIN wal : wal[k].id = i}

\* The record of i once every pending entry has been replayed: that of the
\* last entry for i, or the stored one.
Durable(i) ==
  IF Pending(i) = {} THEN data[i]
  ELSE wal[CHOOSE k \in Pending(i) : \A j \in Pending(i) : j <= k].rec

Recovered == [i \in Ids |-> Durable(i)]

\* When recovery writes its checkpoint, every entry that was pending is in
\* the data file: nothing logged is forgotten (wal.py:7 "any operation that
\* was logged but not yet flushed to the data file is re-applied").
ReplayLands == mode = "checkpoint" => data = Recovered

\* Creates that have drawn an id and not yet logged it.
Drawn == {op[t].id : t \in {u \in Threads : /\ op[u].kind = "create"
                                           /\ pc[u] \in {"acquire", "log"}}}

\* The collection implements the record store: every operation takes effect
\* once, when it is logged; no crash, close, replay, compaction or cache can
\* undo, repeat or tear it, and an update preserves the other fields.
Store == INSTANCE RecordStore
           WITH store <- Recovered, last <- counter, fresh <- Drawn

ImplementsStore == Store!Spec

(* Liveness *)

\* Whoever takes the lock lets go of it, whatever the operation raises.
LockReleased == []<>(lock = Free)

\* Recovery never goes on for ever: it ends with the collection up or the
\* process dead.
RecoveryEnds == []<>(mode \in {"up", "down"})
=============================================================================

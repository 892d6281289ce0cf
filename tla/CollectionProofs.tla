--------------------------- MODULE CollectionProofs ---------------------------
(***************************************************************************)
(* Theorems about Collection, for every set of threads, fields and values, *)
(* every bound and every mix of operations: types and ids, the lock, the   *)
(* index, the cache and unique fields.                                     *)
(***************************************************************************)
EXTENDS Collection, SequenceTheorems, TLAPS

WriteKinds == {"create", "update", "delete"}

\* The part of an operation that a step later relies on: which operation can
\* be where, whose id is an id, and which of its records is there.
OpOK ==
  \A t \in Threads :
    /\ pc[t] \in {"log", "unindex", "reindex", "append", "cache"} =>
         op[t].kind \in WriteKinds
    /\ pc[t] \in {"read", "put"} => op[t].kind = "get"
    /\ pc[t] = "put" => op[t].new \in Record
    /\ op[t].kind \in WriteKinds \cup {"get"} => op[t].id \in Ids
    /\ op[t].kind = "update" => op[t].arg \in Record
    /\ op[t].kind = "create" => op[t].new \in Record
    /\ op[t].kind = "update" /\ pc[t] # "acquire" => op[t].new \in Record

TypeInv == TypeOK /\ OpOK

-----------------------------------------------------------------------------
(* Lemmas about the operators *)

\* A value that is not absent is a value; None is no record.
LEMMA RecordFacts ==
  /\ NoRec \notin Record
  /\ \A r \in Record, f \in Fields : Has(r, f) => r[f] \in Values
  BY IndexAssumption DEF Record, Has

LEMMA PostingsType ==
  ASSUME NEW i \in Ids, NEW r \in Maybe
  PROVE  Postings(i, r) \subseteq Triples
  BY RecordFacts DEF Postings, Maybe, Triples

LEMMA IndexOfType ==
  ASSUME NEW live \in [Ids -> Maybe]
  PROVE  IndexOf(live) \subseteq Triples
  BY PostingsType DEF IndexOf

LEMMA LookupType ==
  ASSUME NEW index \in SUBSET Triples, NEW f, NEW v
  PROVE  Lookup(index, f, v) \subseteq Ids
  BY DEF Lookup, Triples

LEMMA PatchedType ==
  ASSUME NEW old \in Record, NEW patch \in Record
  PROVE  Patched(old, patch) \in Record
  BY DEF Patched, Record

LEMMA CachePutsType ==
  ASSUME cache \in [Ids -> Maybe], NEW i \in Ids, NEW r \in Maybe,
         NEW c \in CachePuts(i, r)
  PROVE  c \in [Ids -> Maybe]
  BY DEF CachePuts, Cached, Maybe

LEMMA CachePutsKeep ==
  ASSUME cache \in [Ids -> Maybe], NEW i, NEW r, NEW c \in CachePuts(i, r)
  PROVE  \A j \in Ids : c[j] # NoRec => cache[j] # NoRec \/ j = i
  BY DEF CachePuts, Cached

LEMMA MaybeFacts == NoRec \in Maybe /\ Record \subseteq Maybe
  BY DEF Maybe

LEMMA RequestType ==
  ASSUME NEW kind \in OpKinds \cup {"none"}, NEW id \in 0 .. MaxId,
         NEW arg \in Maybe, NEW new \in Maybe, NEW ids \in SUBSET Ids
  PROVE  /\ Request(kind, id, arg, new, ids) \in Ops
         /\ Request(kind, id, arg, new, ids).kind = kind
         /\ Request(kind, id, arg, new, ids).id = id
         /\ Request(kind, id, arg, new, ids).arg = arg
         /\ Request(kind, id, arg, new, ids).new = new
  BY MaybeFacts DEF Request, Ops

LEMMA NoOpType == NoOp \in Ops /\ NoOp.kind = "none"
  BY RequestType, MaybeFacts, CollectionAssumption DEF NoOp

-----------------------------------------------------------------------------
(* Type correctness *)

LEMMA TypeInit == Init => TypeInv
<1> SUFFICES ASSUME Init PROVE TypeInv
  OBVIOUS
<1>1. FilesOK
  <2>1. data \in [Ids -> Maybe]
    BY MaybeFacts DEF Init
  <2>2. counter \in 0 .. MaxId
    BY CollectionAssumption DEF Init
  <2>3. wal \in Seq(Entry)
    BY DEF Init
  <2>4. diskIdx \in SUBSET Triples
    BY DEF Init
  <2> QED BY <2>1, <2>2, <2>3, <2>4 DEF Init, FilesOK
<1>2. MemoryOK
  BY MaybeFacts DEF Init, MemoryOK, Modes
<1>3. ThreadsOK
  BY NoOpType DEF Init, ThreadsOK, Locations
<1>4. OpOK
  BY NoOpType DEF Init, OpOK, WriteKinds
<1> QED BY <1>1, <1>2, <1>3, <1>4 DEF TypeInv, TypeOK

LEMMA FilesUnchanged ==
  ASSUME FilesOK, UNCHANGED <<datav, walv, diskIdx, counter>>
  PROVE  FilesOK'
  BY DEF FilesOK, datav, walv

LEMMA MemoryUnchanged ==
  ASSUME MemoryOK, UNCHANGED <<memIdx, cache, runv, errors>>
  PROVE  MemoryOK'
  BY DEF MemoryOK, runv

LEMMA CheckpointType ==
  ASSUME FilesOK, Log_checkpoint, UNCHANGED <<datav, diskIdx, counter>>
  PROVE  FilesOK'
<1>1. wal' \in Seq(Entry)
  BY DEF FilesOK, Log_checkpoint
<1>2. walTorn' \in BOOLEAN
  BY DEF Log_checkpoint
<1> QED BY <1>1, <1>2 DEF FilesOK, datav

\* A thread moves on within its operation.
LEMMA GotoType ==
  ASSUME ThreadsOK, OpOK, NEW t \in Threads, NEW l \in Locations, Goto(t, l),
         UNCHANGED op, lock' \in {lock, t, Free},
         l \in {"log", "unindex", "reindex", "append", "cache"} =>
           op[t].kind \in WriteKinds,
         l \notin {"read", "put"},
         op[t].kind = "update" => op[t].new \in Record
  PROVE  ThreadsOK' /\ OpOK'
<1>1. ThreadsOK'
  BY DEF ThreadsOK, Goto
<1>2. OpOK'
  BY DEF ThreadsOK, Goto, OpOK
<1> QED BY <1>1, <1>2

\* A thread leaves its operation.
LEMMA LeaveType ==
  ASSUME ThreadsOK, OpOK, NEW t \in Threads, Leave(t), lock' \in {lock, Free}
  PROVE  ThreadsOK' /\ OpOK'
<1>1. ThreadsOK'
  BY NoOpType DEF ThreadsOK, Leave, Goto, Locations
<1>2. OpOK'
  BY NoOpType DEF ThreadsOK, Leave, Goto, OpOK, WriteKinds
<1> QED BY <1>1, <1>2

\* A thread moves on with another operation record.
LEMMA OpType ==
  ASSUME ThreadsOK, OpOK, NEW t \in Threads, NEW l \in Locations, Goto(t, l),
         NEW o \in Ops, op' = [op EXCEPT ![t] = o], lock' \in {lock, t},
         l \in {"log", "unindex", "reindex", "append", "cache"} =>
           o.kind \in WriteKinds,
         l \in {"read", "put"} => o.kind = "get",
         l = "put" => o.new \in Record,
         o.kind \in WriteKinds \cup {"get"} => o.id \in Ids,
         o.kind = "update" => o.arg \in Record,
         o.kind = "create" => o.new \in Record,
         o.kind = "update" /\ l # "acquire" => o.new \in Record
  PROVE  ThreadsOK' /\ OpOK'
<1>1. ThreadsOK'
  BY DEF ThreadsOK, Goto
<1>2. OpOK'
  BY DEF ThreadsOK, Goto, OpOK
<1> QED BY <1>1, <1>2

\* A thread starts an operation.
LEMMA RequestOp ==
  ASSUME ThreadsOK, OpOK, NEW t \in Threads,
         NEW l \in {"acquire", "read", "found", "load"}, Goto(t, l),
         NEW kind \in OpKinds, NEW id \in 0 .. MaxId, NEW arg \in Maybe,
         NEW new \in Maybe, NEW ids \in SUBSET Ids,
         op' = [op EXCEPT ![t] = Request(kind, id, arg, new, ids)],
         lock' = lock,
         kind \in WriteKinds \cup {"get"} => id \in Ids,
         kind = "update" => arg \in Record /\ l = "acquire",
         kind = "create" => new \in Record,
         l = "read" => kind = "get"
  PROVE  ThreadsOK' /\ OpOK'
<1> DEFINE o == Request(kind, id, arg, new, ids)
<1>1. /\ o \in Ops
      /\ o.kind = kind /\ o.id = id /\ o.arg = arg /\ o.new = new
  BY RequestType
<1> HIDE DEF o
<1>2. l \in Locations
  BY DEF Locations
<1>3. op' = [op EXCEPT ![t] = o]
  BY DEF o
<1> QED BY <1>1, <1>2, <1>3, OpType

\* A call changes nothing but what its thread is doing, and the counter.
LEMMA CallType ==
  ASSUME TypeInv, NEW t \in Threads, Starts(t)
  PROVE  TypeInv'
<1> USE CollectionAssumption, MaybeFacts DEF TypeInv, TypeOK
<1>0. {} \in SUBSET Ids /\ Ids \subseteq 0 .. MaxId /\ 0 \in 0 .. MaxId
  BY DEF Ids
<1>1. CASE CallCreate(t)
  <2>1. PICK r \in NewRecs :
          op' = [op EXCEPT ![t] = Request("create", counter + 1, r, r, {})]
    BY <1>1 DEF CallCreate
  <2>2. r \in Record /\ counter + 1 \in Ids
    BY <1>1 DEF CallCreate, FilesOK, Ids
  <2>3. FilesOK' /\ MemoryOK'
    BY <1>1, <2>2, MemoryUnchanged
       DEF CallCreate, FilesOK, Ids, datav, walv, idxv, runv
  <2>4. Goto(t, "acquire") /\ lock' = lock /\ "create" \in OpKinds
    BY <1>1 DEF CallCreate, OpKinds
  <2>5. ThreadsOK' /\ OpOK'
    BY <1>0, <2>1, <2>2, <2>4, RequestOp
  <2> QED BY <2>3, <2>5
<1>2. CASE CallUpdate(t)
  <2>1. PICK i \in Ids, p \in Patches :
          op' = [op EXCEPT ![t] = Request("update", i, p, NoRec, {})]
    BY <1>2 DEF CallUpdate
  <2>2. Goto(t, "acquire") /\ lock' = lock /\ "update" \in OpKinds
    BY <1>2 DEF CallUpdate, OpKinds
  <2>3. ThreadsOK' /\ OpOK'
    BY <1>0, <2>1, <2>2, p \in Record, RequestOp
  <2> QED BY <1>2, <2>3, FilesUnchanged, MemoryUnchanged DEF CallUpdate, idxv
<1>3. CASE CallDelete(t)
  <2>1. PICK i \in Ids :
          op' = [op EXCEPT ![t] = Request("delete", i, NoRec, NoRec, {})]
    BY <1>3 DEF CallDelete
  <2>2. Goto(t, "acquire") /\ lock' = lock /\ "delete" \in OpKinds
    BY <1>3 DEF CallDelete, OpKinds
  <2>3. ThreadsOK' /\ OpOK'
    BY <1>0, <2>1, <2>2, RequestOp
  <2> QED BY <1>3, <2>3, FilesUnchanged, MemoryUnchanged DEF CallDelete, idxv
<1>4. CASE CallMaintenance(t)
  <2>1. PICK kind \in {"compact", "rebuild"} :
          op' = [op EXCEPT ![t] = Request(kind, 0, NoRec, NoRec, {})]
    BY <1>4 DEF CallMaintenance
  <2>2. /\ Goto(t, "acquire") /\ lock' = lock
        /\ kind \in OpKinds /\ kind \notin WriteKinds \cup {"get"}
    BY <1>4 DEF CallMaintenance, OpKinds, WriteKinds
  <2>3. ThreadsOK' /\ OpOK'
    BY <1>0, <2>1, <2>2, RequestOp DEF WriteKinds
  <2> QED
    BY <1>4, <2>3, FilesUnchanged, MemoryUnchanged DEF CallMaintenance, idxv
<1>5. CASE CallGet(t)
  <2>1. PICK i \in Ids :
          /\ op' = [op EXCEPT ![t] = Request("get", i, NoRec, cache[i], {})]
          /\ Goto(t, IF cache[i] # NoRec THEN "found" ELSE "read")
    BY <1>5 DEF CallGet
  <2>2. PICK l \in {"acquire", "read", "found", "load"} : Goto(t, l)
    BY <2>1
  <2>3. /\ cache[i] \in Maybe /\ lock' = lock
        /\ "get" \in OpKinds /\ "get" # "update" /\ "get" # "create"
    BY <1>5 DEF CallGet, MemoryOK, OpKinds
  <2>4. ThreadsOK' /\ OpOK'
    BY <1>0, <2>1, <2>2, <2>3, RequestOp
  <2> QED BY <1>5, <2>4, FilesUnchanged, MemoryUnchanged DEF CallGet, idxv
<1>6. CASE CallFind(t)
  <2>1. PICK p \in Probes, f \in Fields :
          op' = [op EXCEPT ![t] =
                   Request("find", 0, p, NoRec, Lookup(memIdx, f, p[f]))]
    BY <1>6 DEF CallFind
  <2>2. PICK ids \in SUBSET Ids :
          op' = [op EXCEPT ![t] = Request("find", 0, p, NoRec, ids)]
    BY <2>1, LookupType DEF MemoryOK
  <2>3. /\ Goto(t, "load") /\ lock' = lock
        /\ "find" \in OpKinds /\ "find" \notin WriteKinds \cup {"get"}
        /\ "find" # "update" /\ "find" # "create" /\ p \in Maybe
    BY <1>6 DEF CallFind, OpKinds, WriteKinds
  <2>4. ThreadsOK' /\ OpOK'
    BY <1>0, <2>2, <2>3, RequestOp
  <2> QED BY <1>6, <2>4, FilesUnchanged, MemoryUnchanged DEF CallFind, idxv
<1> QED BY <1>1, <1>2, <1>3, <1>4, <1>5, <1>6 DEF Starts

\* The steps of a write.
LEMMA WriteType ==
  ASSUME TypeInv, NEW t \in Threads,
         \/ AcquireCreate(t) \/ AcquireExisting(t) \/ NotFound(t)
         \/ LogWrite(t) \/ Reject(t) \/ Unindex(t) \/ Reindex(t)
         \/ AppendRecord(t) \/ CacheWrite(t) \/ Checkpoint(t)
  PROVE  TypeInv'
<1> USE MaybeFacts DEF TypeInv, TypeOK
<1>0. /\ op[t].new \in Maybe /\ op[t].old \in Maybe
      /\ pc[t] # "acquire" /\ op[t].kind = "update" => op[t].new \in Record
      /\ pc[t] \in {"log", "unindex", "reindex", "append", "cache"} =>
           op[t].kind \in WriteKinds /\ op[t].id \in Ids
  BY DEF ThreadsOK, Ops, OpOK
<1>1. CASE AcquireCreate(t)
  <2>1. ThreadsOK' /\ OpOK'
    BY <1>1, GotoType DEF AcquireCreate, Locations, WriteKinds
  <2> QED
    BY <1>1, <2>1, FilesUnchanged, MemoryUnchanged DEF AcquireCreate, idxv
<1>2. CASE AcquireExisting(t)
  <2> DEFINE i == op[t].id
             new == IF op[t].kind = "update" THEN Patched(data[i], op[t].arg)
                    ELSE NoRec
  <2>1. i \in Ids /\ data[i] \in Record
    BY <1>2 DEF AcquireExisting, OpOK, FilesOK, Maybe, WriteKinds
  <2>2. new \in Maybe /\ (op[t].kind = "update" => new \in Record)
    BY <2>1, PatchedType DEF OpOK
  <2> DEFINE r == Request(op[t].kind, i, op[t].arg, new, {})
             o == [r EXCEPT !.old = data[i]]
  <2>3. /\ op' = [op EXCEPT ![t] = o]
        /\ op[t].kind \in {"update", "delete"}
        /\ Goto(t, "log")
        /\ lock' = t
    BY <1>2 DEF AcquireExisting
  <2> HIDE DEF new
  <2>4. /\ r \in Ops
        /\ r.kind = op[t].kind /\ r.id = i /\ r.arg = op[t].arg /\ r.new = new
    BY <2>1, <2>2, <2>3, RequestType, SMTT(30) DEF ThreadsOK, Ops, OpKinds
  <2> HIDE DEF r
  <2>5. /\ o \in Ops
        /\ o.kind = op[t].kind /\ o.id = i /\ o.arg = op[t].arg /\ o.new = new
    BY <2>1, <2>4 DEF Ops
  <2> HIDE DEF o
  <2>6. ThreadsOK' /\ OpOK'
    BY <2>1, <2>2, <2>3, <2>5, OpType DEF OpOK, Locations, WriteKinds
  <2> QED
    BY <1>2, <2>6, FilesUnchanged, MemoryUnchanged DEF AcquireExisting, idxv
<1>3. CASE NotFound(t)
  BY <1>3, LeaveType, FilesUnchanged, MemoryUnchanged DEF NotFound, idxv
<1>4. CASE LogWrite(t)
  <2>1. ThreadsOK' /\ OpOK'
    BY <1>0, <1>4, GotoType DEF LogWrite, Locations
  <2>2. [id |-> op[t].id, rec |-> op[t].new] \in Entry
    BY <1>0, <1>4 DEF LogWrite, Entry
  <2>3. wal' \in Seq(Entry) /\ walTorn' \in BOOLEAN
    BY <1>4, <2>2, AppendProperties DEF LogWrite, Append_wal, FilesOK
  <2>4. FilesOK'
    BY <1>4, <2>3 DEF LogWrite, FilesOK, datav, idxv
  <2> QED BY <1>4, <2>1, <2>4, MemoryUnchanged DEF LogWrite, idxv
<1>5. CASE Reject(t)
  BY <1>5, LeaveType, FilesUnchanged, MemoryUnchanged
     DEF Reject, Release, idxv
<1>6. CASE Unindex(t)
  <2>1. ThreadsOK' /\ OpOK'
    BY <1>0, <1>6, GotoType DEF Unindex, Locations
  <2>2. MemoryOK'
    BY <1>6 DEF Unindex, MemoryOK, runv
  <2> QED BY <1>6, <2>1, <2>2, FilesUnchanged DEF Unindex
<1>7. CASE Reindex(t)
  <2>1. ThreadsOK' /\ OpOK'
    BY <1>0, <1>7, GotoType DEF Reindex, Locations
  <2>2. Postings(op[t].id, op[t].new) \subseteq Triples
    BY <1>0, <1>7, PostingsType DEF Reindex
  <2>3. MemoryOK'
    BY <1>7, <2>2 DEF Reindex, MemoryOK, runv
  <2>4. FilesOK'
    BY <1>7, <2>3 DEF Reindex, FilesOK, MemoryOK, datav, walv
  <2> QED BY <2>1, <2>3, <2>4
<1>8. CASE AppendRecord(t)
  <2>1. ThreadsOK' /\ OpOK'
    BY <1>0, <1>8, GotoType DEF AppendRecord, Locations
  <2>2. FilesOK'
    BY <1>0, <1>8 DEF AppendRecord, Append_data, FilesOK, walv, idxv
  <2> QED BY <1>8, <2>1, <2>2, MemoryUnchanged DEF AppendRecord, idxv
<1>9. CASE CacheWrite(t)
  <2>1. ThreadsOK' /\ OpOK'
    BY <1>0, <1>9, GotoType DEF CacheWrite, Locations
  <2>2. cache \in [Ids -> Maybe]
    BY DEF MemoryOK
  <2>3. cache' \in [Ids -> Maybe]
    BY <1>0, <1>9, <2>2, CachePutsType DEF CacheWrite
  <2>4. MemoryOK'
    BY <1>9, <2>3 DEF CacheWrite, MemoryOK, idxv, runv
  <2> QED BY <1>9, <2>1, <2>4, FilesUnchanged DEF CacheWrite, idxv
<1>10. CASE Checkpoint(t)
  <2>1. ThreadsOK' /\ OpOK'
    BY <1>10, LeaveType DEF Checkpoint, Release
  <2>2. FilesOK'
    BY <1>10, CheckpointType DEF Checkpoint, idxv
  <2> QED BY <1>10, <2>1, <2>2, MemoryUnchanged DEF Checkpoint, idxv
<1> QED
  BY <1>1, <1>2, <1>3, <1>4, <1>5, <1>6, <1>7, <1>8, <1>9, <1>10

\* The steps of compact and rebuild_index.
LEMMA MaintenanceType ==
  ASSUME TypeInv, NEW t \in Threads,
         \/ AcquireMaintenance(t) \/ Rewrite(t) \/ ClearIndex(t)
         \/ FillIndex(t) \/ ClearCache(t)
  PROVE  TypeInv'
<1> USE MaybeFacts DEF TypeInv, TypeOK
<1>0. pc[t] # "acquire" /\ op[t].kind = "update" => op[t].new \in Record
  BY DEF OpOK
<1>1. CASE AcquireMaintenance(t)
  <2>1. op[t].kind # "update"
    BY <1>1 DEF AcquireMaintenance
  <2>2. PICK l \in {"rewrite", "clear"} : Goto(t, l)
    BY <1>1 DEF AcquireMaintenance
  <2>3. ThreadsOK' /\ OpOK'
    BY <1>1, <2>1, <2>2, GotoType DEF AcquireMaintenance, Locations
  <2> QED
    BY <1>1, <2>3, FilesUnchanged, MemoryUnchanged DEF AcquireMaintenance, idxv
<1>2. CASE Rewrite(t)
  <2>1. ThreadsOK' /\ OpOK'
    BY <1>0, <1>2, GotoType DEF Rewrite, Locations
  <2>2. FilesOK'
    BY <1>2 DEF Rewrite, FilesOK, walv, idxv
  <2> QED BY <1>2, <2>1, <2>2, MemoryUnchanged DEF Rewrite, idxv
<1>3. CASE ClearIndex(t)
  <2>1. ThreadsOK' /\ OpOK'
    BY <1>0, <1>3, GotoType DEF ClearIndex, Locations
  <2>2. MemoryOK'
    BY <1>3 DEF ClearIndex, MemoryOK, runv
  <2> QED BY <1>3, <2>1, <2>2, FilesUnchanged DEF ClearIndex
<1>4. CASE FillIndex(t)
  <2>1. ThreadsOK' /\ OpOK'
    <3>1. CASE op[t].kind = "compact"
      BY <1>0, <1>4, <3>1, GotoType DEF FillIndex, Locations
    <3>2. CASE op[t].kind # "compact"
      BY <1>4, <3>2, LeaveType DEF FillIndex, Release
    <3> QED BY <3>1, <3>2
  <2>2. IndexOf(data) \subseteq Triples
    BY IndexOfType DEF FilesOK
  <2>3. MemoryOK'
    BY <1>4, <2>2 DEF FillIndex, MemoryOK, runv
  <2>4. FilesOK'
    BY <1>4, <2>2 DEF FillIndex, FilesOK, datav, walv
  <2> QED BY <2>1, <2>3, <2>4
<1>5. CASE ClearCache(t)
  <2>1. ThreadsOK' /\ OpOK'
    BY <1>0, <1>5, GotoType DEF ClearCache, Locations
  <2>2. MemoryOK'
    BY <1>5 DEF ClearCache, MemoryOK, idxv, runv
  <2> QED BY <1>5, <2>1, <2>2, FilesUnchanged DEF ClearCache, idxv
<1> QED BY <1>1, <1>2, <1>3, <1>4, <1>5

\* The steps of get.
LEMMA ReadType ==
  ASSUME TypeInv, NEW t \in Threads,
         ReadRecord(t) \/ FillCache(t) \/ LoadLive(t) \/ Answer(t)
  PROVE  TypeInv'
<1> USE MaybeFacts DEF TypeInv, TypeOK
<1>1. CASE ReadRecord(t)
  <2> DEFINE o == [op[t] EXCEPT !.new = data[op[t].id]]
  <2>1. op[t] \in Ops /\ op[t].kind = "get" /\ op[t].id \in Ids
    BY <1>1 DEF ReadRecord, ThreadsOK, OpOK
  <2>2. data[op[t].id] \in Maybe
    BY <2>1 DEF FilesOK
  <2>3. /\ o \in Ops
        /\ o.kind = "get" /\ o.id = op[t].id /\ o.new = data[op[t].id]
    BY <2>1, <2>2 DEF Ops
  <2>4. op' = [op EXCEPT ![t] = o]
    BY <1>1, <2>1 DEF ReadRecord, ThreadsOK
  <2> HIDE DEF o
  <2>5. PICK l \in {"missed", "put"} :
          Goto(t, l) /\ (l = "put" => o.new \in Record)
    BY <1>1, <2>2, <2>3 DEF ReadRecord, Maybe
  <2>6. l \in Locations /\ lock' = lock
    BY <1>1 DEF ReadRecord, Locations
  <2>7. ThreadsOK' /\ OpOK'
    BY <2>1, <2>3, <2>4, <2>5, <2>6, OpType
  <2> QED BY <1>1, <2>7, FilesUnchanged, MemoryUnchanged DEF ReadRecord, idxv
<1>2. CASE FillCache(t)
  <2>1. op[t].kind = "get" /\ op[t].id \in Ids /\ op[t].new \in Maybe
    BY <1>2 DEF FillCache, OpOK
  <2>2. ThreadsOK' /\ OpOK'
    BY <1>2, <2>1, GotoType DEF FillCache, Locations
  <2>3. cache \in [Ids -> Maybe] /\ cache' \in CachePuts(op[t].id, op[t].new)
    BY <1>2 DEF FillCache, MemoryOK
  <2>4. cache' \in [Ids -> Maybe]
    BY <2>1, <2>3, CachePutsType
  <2>5. MemoryOK'
    BY <1>2, <2>4 DEF FillCache, MemoryOK, idxv, runv
  <2> QED BY <1>2, <2>2, <2>5, FilesUnchanged DEF FillCache, idxv
<1>3. CASE LoadLive(t)
  <2>1. ThreadsOK' /\ OpOK'
    <3>1. CASE Goto(t, "missed") /\ UNCHANGED op
      <4>1. op[t].kind = "update" => op[t].new \in Record
        BY <1>3 DEF LoadLive, OpOK
      <4> QED BY <1>3, <3>1, <4>1, GotoType DEF LoadLive, Locations
    <3>2. CASE \E i \in {j \in op[t].ids : data[j] # NoRec} :
                 /\ op' = [op EXCEPT ![t] = Request("find", i, op[t].arg,
                                                    data[i], op[t].ids)]
                 /\ Goto(t, "found")
      <4>1. PICK i \in op[t].ids :
              /\ op' = [op EXCEPT ![t] = Request("find", i, op[t].arg,
                                                 data[i], op[t].ids)]
              /\ Goto(t, "found")
        BY <3>2
      <4>2. /\ i \in Ids /\ i \in 0 .. MaxId
            /\ op[t].arg \in Maybe /\ op[t].ids \in SUBSET Ids
        BY DEF ThreadsOK, Ops, Ids
      <4>3. /\ data[i] \in Maybe /\ lock' = lock
            /\ "find" \in OpKinds /\ "find" # "update" /\ "find" # "create"
        BY <1>3, <4>2 DEF LoadLive, FilesOK, OpKinds
      <4> QED BY <4>1, <4>2, <4>3, RequestOp
    <3> QED BY <1>3, <3>1, <3>2 DEF LoadLive
  <2> QED BY <1>3, <2>1, FilesUnchanged, MemoryUnchanged DEF LoadLive, idxv
<1>4. CASE Answer(t)
  BY <1>4, LeaveType, FilesUnchanged, MemoryUnchanged DEF Answer, idxv
<1> QED BY <1>1, <1>2, <1>3, <1>4

LEMMA FailType ==
  ASSUME TypeInv, NEW t \in Threads, Fail(t)
  PROVE  TypeInv'
<1> USE DEF TypeInv, TypeOK
<1>1. ThreadsOK' /\ OpOK'
  BY LeaveType DEF Fail, Release
<1>2. /\ data' \in [Ids -> Maybe] /\ dataTorn' \in BOOLEAN
      /\ wal' \in Seq(Entry) /\ walTorn' \in BOOLEAN
  <2>1. CASE UNCHANGED <<data, wal>>
    BY <2>1 DEF Fail, MayTear, Append_wal, Append_data, Log_checkpoint, datav,
                walv, FilesOK
  <2>2. CASE /\ pc[t] = "log"
             /\ Append_wal([id |-> op[t].id, rec |-> op[t].new])
             /\ UNCHANGED datav
    <3>1. [id |-> op[t].id, rec |-> op[t].new] \in Entry
      BY <2>2 DEF ThreadsOK, OpOK, Ops, WriteKinds, Entry
    <3> QED BY <2>2, <3>1, AppendProperties DEF Append_wal, FilesOK, datav
  <2>3. CASE /\ pc[t] = "append"
             /\ Append_data(op[t].id, op[t].new)
             /\ UNCHANGED walv
    <3>1. op[t].id \in Ids /\ op[t].new \in Maybe
      BY <2>3 DEF ThreadsOK, OpOK, Ops, WriteKinds
    <3> QED BY <2>3, <3>1 DEF Append_data, FilesOK, walv
  <2>4. CASE Log_checkpoint /\ UNCHANGED datav
    <3>1. wal' \in Seq(Entry)
      BY <2>4 DEF Log_checkpoint, FilesOK
    <3>2. walTorn' \in BOOLEAN
      BY <2>4 DEF Log_checkpoint
    <3> QED BY <2>4, <3>1, <3>2 DEF FilesOK, datav
  <2> QED BY <2>1, <2>2, <2>3, <2>4 DEF Fail
<1>3. FilesOK'
  BY <1>2 DEF Fail, FilesOK
<1>4. pc[t] = "reindex" => Postings(op[t].id, op[t].new) \subseteq Triples
  BY PostingsType DEF ThreadsOK, OpOK, Ops
<1>5. IndexOf(data) \subseteq Triples
  BY IndexOfType DEF FilesOK
<1>6. memIdx' \in SUBSET Triples
  BY <1>4, <1>5 DEF Fail, MemoryOK
<1>7. MemoryOK'
  BY <1>6 DEF Fail, MemoryOK, runv
<1> QED BY <1>1, <1>3, <1>7

LEMMA DownType ==
  ASSUME TypeInv, Down, dataTorn' \in BOOLEAN, walTorn' \in BOOLEAN
  PROVE  TypeInv'
<1> USE DEF TypeInv, TypeOK
<1>1. FilesOK'
  BY DEF Down, FilesOK
<1>2. MemoryOK'
  BY MaybeFacts DEF Down, MemoryOK, Modes
<1>3. ThreadsOK'
  BY NoOpType DEF Down, ThreadsOK, Locations
<1>4. OpOK'
  BY NoOpType DEF Down, OpOK, WriteKinds
<1> QED BY <1>1, <1>2, <1>3, <1>4

\* Closing, crashing, opening and recovering.
LEMMA RunType ==
  ASSUME TypeInv, Close \/ Crash \/ LoseIndex \/ Open \/ Recovers
  PROVE  TypeInv'
<1> USE DEF TypeInv, TypeOK
<1>1. CASE Close
  BY <1>1, DownType DEF Close, FilesOK
<1>2. CASE Crash
  <2>1. dataTorn' \in BOOLEAN /\ walTorn' \in BOOLEAN
    BY <1>2 DEF Crash, MayTear, FilesOK
  <2> QED BY <1>2, <2>1, DownType DEF Crash
<1>3. ASSUME UNCHANGED thrv PROVE ThreadsOK' /\ OpOK'
  BY <1>3 DEF thrv, ThreadsOK, OpOK
<1>4. CASE LoseIndex
  <2>1. FilesOK'
    BY <1>4 DEF LoseIndex, FilesOK, datav, walv
  <2> QED BY <1>3, <1>4, <2>1, MemoryUnchanged DEF LoseIndex
<1>5. CASE Open
  <2>1. MemoryOK'
    BY <1>5 DEF Open, FilesOK, MemoryOK, Modes
  <2> QED BY <1>3, <1>5, <2>1, FilesUnchanged DEF Open
<1>6. CASE Replay
  <2>1. rq' \in Seq(Entry) /\ Head(rq) \in Entry
    BY <1>6, HeadTailProperties DEF Replay, MemoryOK
  <2>2. MemoryOK'
    BY <1>6, <2>1 DEF Replay, MemoryOK, idxv
  <2>3. FilesOK'
    BY <1>6, <2>1 DEF Replay, Append_data, Entry, FilesOK, datav, walv, idxv
  <2> QED BY <1>3, <1>6, <2>2, <2>3 DEF Replay
<1>7. CASE Replayed
  <2>1. MemoryOK'
    BY <1>7 DEF Replayed, MemoryOK, Modes, idxv
  <2> QED BY <1>3, <1>7, <2>1, FilesUnchanged DEF Replayed, idxv
<1>8. CASE RecoverIndex
  <2>1. IndexOf(data) \subseteq Triples
    BY IndexOfType DEF FilesOK
  <2>2. MemoryOK'
    BY <1>8, <2>1 DEF RecoverIndex, MemoryOK, Modes
  <2>3. FilesOK'
    BY <1>8, <2>1 DEF RecoverIndex, FilesOK, datav, walv
  <2> QED BY <1>3, <1>8, <2>2, <2>3 DEF RecoverIndex
<1>9. CASE RecoverCheckpoint
  <2>1. MemoryOK'
    BY <1>9 DEF RecoverCheckpoint, MemoryOK, Modes, idxv
  <2>2. FilesOK'
    BY <1>9, CheckpointType DEF RecoverCheckpoint, idxv
  <2> QED BY <1>3, <1>9, <2>1, <2>2 DEF RecoverCheckpoint
<1> QED BY <1>1, <1>2, <1>4, <1>5, <1>6, <1>7, <1>8, <1>9 DEF Recovers

LEMMA TypeStep == TypeInv /\ [Next]_vars => TypeInv'
<1> SUFFICES ASSUME TypeInv, [Next]_vars PROVE TypeInv'
  OBVIOUS
<1>1. CASE UNCHANGED vars
  BY <1>1 DEF vars, datav, walv, idxv, runv, thrv, TypeInv, TypeOK, FilesOK,
              MemoryOK, ThreadsOK, OpOK
<1>2. ASSUME NEW t \in Threads, Starts(t) \/ Steps(t) \/ Fail(t)
      PROVE  TypeInv'
  BY <1>2, CallType, WriteType, MaintenanceType, ReadType, FailType DEF Steps
<1> QED BY <1>1, <1>2, RunType DEF Next

\* Every variable keeps its type, whatever fails, crashes or is torn.
THEOREM TypeCorrect == Spec => []TypeOK
<1>1. Spec => []TypeInv
  BY TypeInit, TypeStep, PTL DEF Spec
<1> QED BY <1>1, PTL DEF TypeInv

-----------------------------------------------------------------------------
(* Ids are never reused.  An id is fresh from the moment a create draws it *)
(* until the create is logged; everything the collection stores, caches,   *)
(* has pending, is to replay or is working on has a known id: one that has *)
(* been drawn and is not fresh.                                            *)

IsFresh(t) == op[t].kind = "create" /\ pc[t] \in {"acquire", "log"}

Known(i) == i <= counter /\ \A t \in Threads : IsFresh(t) => op[t].id # i

CreatePcs == {"acquire", "log", "unindex", "reindex", "append", "cache",
              "checkpoint"}

\* The thread may still write or cache the record of its id.
Owned(t) ==
  \/ pc[t] = "put"
  \/ pc[t] \in {"unindex", "reindex", "append", "cache"}
  \/ pc[t] = "checkpoint" /\ op[t].kind = "create"
  \/ pc[t] = "log" /\ op[t].kind # "create"

FreshInv ==
  /\ \A i \in Ids : data[i] # NoRec \/ cache[i] # NoRec => Known(i)
  /\ \A k \in DOMAIN wal : Known(wal[k].id)
  /\ \A k \in DOMAIN rq : Known(rq[k].id)
  /\ \A t \in Threads : Owned(t) => Known(op[t].id)
  /\ \A t \in Threads : IsFresh(t) => op[t].id <= counter
  /\ \A t, u \in Threads :
       IsFresh(t) /\ IsFresh(u) /\ t # u => op[t].id # op[u].id
  /\ \A t \in Threads : op[t].kind = "create" => pc[t] \in CreatePcs
  /\ mode # "up" => \A t \in Threads : pc[t] = "idle"

LEMMA FreshInit == Init => FreshInv
<1> SUFFICES ASSUME Init PROVE FreshInv
  OBVIOUS
<1>1. \A t \in Threads : op[t].kind = "none" /\ pc[t] = "idle"
  BY NoOpType DEF Init
<1>2. DOMAIN wal = {} /\ DOMAIN rq = {}
  BY DEF Init
<1>3. \A i \in Ids : data[i] = NoRec /\ cache[i] = NoRec
  BY DEF Init
<1> QED BY <1>1, <1>2, <1>3 DEF Init, FreshInv, Owned, IsFresh

\* A step that draws no id and logs nothing.
LEMMA MoveFresh ==
  ASSUME FreshInv, NEW t \in Threads, mode = "up",
         UNCHANGED <<rq, counter, mode>>, wal' \in {wal, <<>>},
         \A i \in Ids : data'[i] # NoRec \/ cache'[i] # NoRec => Known(i),
         \A v \in Threads \ {t} : pc'[v] = pc[v] /\ op'[v] = op[v],
         IsFresh(t)' => IsFresh(t) /\ op'[t].id = op[t].id,
         Owned(t)' => Known(op'[t].id),
         op'[t].kind = "create" => pc'[t] \in CreatePcs
  PROVE  FreshInv'
<1>1. \A v \in Threads : IsFresh(v)' => IsFresh(v) /\ op'[v].id = op[v].id
  BY DEF IsFresh
<1>2. \A i \in Ids : data'[i] # NoRec \/ cache'[i] # NoRec => Known(i)'
  BY <1>1 DEF Known
<1>3. \A k \in DOMAIN wal' : Known(wal[k].id)'
  BY <1>1 DEF FreshInv, Known
<1>4. \A k \in DOMAIN rq' : Known(rq[k].id)'
  BY <1>1 DEF FreshInv, Known
<1>5. \A v \in Threads : Owned(v)' => Known(op[v].id)'
  BY <1>1 DEF FreshInv, Owned, Known
<1>6. \A v \in Threads : IsFresh(v)' => op'[v].id <= counter'
  BY <1>1 DEF FreshInv
<1>7. \A v, w \in Threads :
        IsFresh(v)' /\ IsFresh(w)' /\ v # w => op'[v].id # op'[w].id
  BY <1>1 DEF FreshInv
<1>8. \A v \in Threads : op'[v].kind = "create" => pc'[v] \in CreatePcs
  BY DEF FreshInv
<1> QED BY <1>2, <1>3, <1>4, <1>5, <1>6, <1>7, <1>8 DEF FreshInv

LEMMA RequestFields ==
  ASSUME NEW kind, NEW id, NEW arg, NEW new, NEW ids
  PROVE  /\ Request(kind, id, arg, new, ids).kind = kind
         /\ Request(kind, id, arg, new, ids).id = id
  BY DEF Request

\* A new id exceeds every id drawn so far, so it is known to nobody.
LEMMA CreateFresh ==
  ASSUME TypeInv, FreshInv, NEW t \in Threads, CallCreate(t)
  PROVE  FreshInv'
<1> USE DEF TypeInv, TypeOK
<1>1. PICK r \in NewRecs :
        op' = [op EXCEPT ![t] = Request("create", counter + 1, r, r, {})]
  BY DEF CallCreate
<1>2. /\ op'[t].kind = "create" /\ op'[t].id = counter + 1
      /\ pc'[t] = "acquire" /\ counter' = counter + 1 /\ counter \in Nat
      /\ UNCHANGED <<data, cache, wal, rq, mode>> /\ mode = "up"
      /\ \A v \in Threads \ {t} : op'[v] = op[v] /\ pc'[v] = pc[v]
  BY <1>1, RequestFields
     DEF CallCreate, CallWrite, Call, Goto, ThreadsOK, FilesOK, datav, walv, runv
<1>3. \A v \in Threads \ {t} :
        /\ IsFresh(v)' => IsFresh(v) /\ op'[v].id = op[v].id
        /\ Owned(v)' => Owned(v) /\ op'[v].id = op[v].id
  BY <1>2 DEF IsFresh, Owned
<1>4. IsFresh(t)' /\ ~Owned(t)'
  BY <1>2 DEF IsFresh, Owned
<1>5. /\ \A i \in Ids : data[i] # NoRec \/ cache[i] # NoRec => i \in Nat
      /\ \A k \in DOMAIN wal : wal[k].id \in Nat
      /\ \A k \in DOMAIN rq : rq[k].id \in Nat
      /\ \A v \in Threads : op[v].id \in Nat
  <2>1. Ids \subseteq Nat /\ 0 .. MaxId \subseteq Nat
    BY CollectionAssumption DEF Ids
  <2>2. /\ \A k \in DOMAIN wal : wal[k] \in Entry
        /\ \A k \in DOMAIN rq : rq[k] \in Entry
    BY ElementOfSeq, LenProperties DEF FilesOK, MemoryOK
  <2>3. \A v \in Threads : op[v].id \in 0 .. MaxId
    BY DEF ThreadsOK, Ops
  <2>4. \A e \in Entry : e.id \in Ids
    BY DEF Entry
  <2> QED BY <2>1, <2>2, <2>3, <2>4
<1>6. \A i \in Ids : data'[i] # NoRec \/ cache'[i] # NoRec => Known(i)'
  BY <1>2, <1>3, <1>5 DEF FreshInv, Known
<1>7. /\ \A k \in DOMAIN wal' : Known(wal[k].id)'
      /\ \A k \in DOMAIN rq' : Known(rq[k].id)'
  BY <1>2, <1>3, <1>5 DEF FreshInv, Known
<1>8. \A v \in Threads : Owned(v)' => Known(op[v].id)'
  <2>1. \A v \in Threads : Owned(v)' => Known(op[v].id) /\ op'[v].id = op[v].id
    BY <1>3, <1>4 DEF FreshInv
  <2> QED BY <2>1, <1>2, <1>3, <1>5 DEF Known
<1>9. \A v \in Threads : IsFresh(v)' => op'[v].id <= counter'
  BY <1>2, <1>3, <1>5 DEF FreshInv
<1>10. \A v, w \in Threads :
         IsFresh(v)' /\ IsFresh(w)' /\ v # w => op'[v].id # op'[w].id
  BY <1>2, <1>3, <1>5 DEF FreshInv
<1>11. \A v \in Threads : op'[v].kind = "create" => pc'[v] \in CreatePcs
  BY <1>2 DEF FreshInv, CreatePcs
<1> QED BY <1>2, <1>6, <1>7, <1>8, <1>9, <1>10, <1>11 DEF FreshInv

LEMMA CallFresh ==
  ASSUME TypeInv, FreshInv, NEW t \in Threads, Starts(t), ~CallCreate(t)
  PROVE  FreshInv'
<1> USE DEF TypeInv, TypeOK
<1>1. /\ mode = "up" /\ UNCHANGED <<data, cache, wal, rq, counter, mode>>
      /\ pc'[t] \in {"acquire", "found", "read", "load"}
      /\ op'[t].kind # "create"
      /\ \A v \in Threads \ {t} : pc'[v] = pc[v] /\ op'[v] = op[v]
  <2>1. CASE CallUpdate(t)
    BY <2>1, RequestFields
       DEF CallUpdate, CallWrite, Call, Goto, ThreadsOK, datav, walv, runv
  <2>2. CASE CallDelete(t)
    BY <2>2, RequestFields
       DEF CallDelete, CallWrite, Call, Goto, ThreadsOK, datav, walv, runv
  <2>3. CASE CallMaintenance(t)
    BY <2>3, RequestFields
       DEF CallMaintenance, Call, Goto, ThreadsOK, datav, walv, runv
  <2>4. CASE CallGet(t)
    BY <2>4, RequestFields DEF CallGet, Call, Goto, ThreadsOK, datav, walv, runv
  <2>5. CASE CallFind(t)
    BY <2>5, RequestFields DEF CallFind, Call, Goto, ThreadsOK, datav, walv, runv
  <2> QED BY <2>1, <2>2, <2>3, <2>4, <2>5 DEF Starts
<1>2. ~IsFresh(t)' /\ ~Owned(t)'
  BY <1>1 DEF IsFresh, Owned
<1>3. \A i \in Ids : data'[i] # NoRec \/ cache'[i] # NoRec => Known(i)
  BY <1>1 DEF FreshInv
<1> QED BY <1>1, <1>2, <1>3, MoveFresh

\* A thread that is in an operation: the collection is up.
LEMMA StepUp ==
  ASSUME FreshInv, NEW t \in Threads, pc[t] # "idle"
  PROVE  mode = "up"
  BY DEF FreshInv

\* Steps that end an operation.
LEMMA LeaveFresh ==
  ASSUME TypeInv, FreshInv, NEW t \in Threads, Leave(t), pc[t] # "idle",
         wal' \in {wal, <<>>}, UNCHANGED <<data, cache, rq, counter, mode>>
  PROVE  FreshInv'
<1>1. /\ pc'[t] = "idle" /\ op'[t].kind = "none"
      /\ \A v \in Threads \ {t} : pc'[v] = pc[v] /\ op'[v] = op[v]
  BY NoOpType DEF Leave, Goto, TypeInv, TypeOK, ThreadsOK
<1>2. ~IsFresh(t)' /\ ~Owned(t)'
  BY <1>1 DEF IsFresh, Owned
<1>3. \A i \in Ids : data'[i] # NoRec \/ cache'[i] # NoRec => Known(i)
  BY DEF FreshInv
<1> QED BY <1>1, <1>2, <1>3, StepUp, MoveFresh

\* Steps within an operation that leave its record alone.
LEMMA GotoFresh ==
  ASSUME TypeInv, FreshInv, NEW t \in Threads, NEW l, Goto(t, l),
         pc[t] # "idle", UNCHANGED <<op, wal, rq, counter, mode>>,
         \A i \in Ids : data'[i] # NoRec \/ cache'[i] # NoRec => Known(i),
         op[t].kind = "create" => l \in CreatePcs,
         IsFresh(t)' => IsFresh(t),
         Owned(t)' => Known(op[t].id)
  PROVE  FreshInv'
<1>1. /\ pc'[t] = l
      /\ \A v \in Threads \ {t} : pc'[v] = pc[v] /\ op'[v] = op[v]
  BY DEF Goto, TypeInv, TypeOK, ThreadsOK
<1> QED BY <1>1, StepUp, MoveFresh

LEMMA WriteFresh ==
  ASSUME TypeInv, FreshInv, NEW t \in Threads,
         \/ AcquireCreate(t) \/ AcquireExisting(t) \/ NotFound(t)
         \/ Reject(t) \/ Unindex(t) \/ Reindex(t)
         \/ AppendRecord(t) \/ CacheWrite(t) \/ Checkpoint(t)
  PROVE  FreshInv'
<1>0. /\ \A i \in Ids : data[i] # NoRec \/ cache[i] # NoRec => Known(i)
      /\ Owned(t) => Known(op[t].id)
      /\ op[t].kind = "create" => pc[t] \in CreatePcs
  BY DEF FreshInv
<1>1. CASE AcquireCreate(t)
  BY <1>0, <1>1, GotoFresh
     DEF AcquireCreate, Goto, CreatePcs, IsFresh, Owned, TypeInv, TypeOK,
         ThreadsOK, datav, walv, runv
<1>2. CASE AcquireExisting(t)
  <2>1. /\ op[t].id \in Ids /\ op[t].kind # "create" /\ pc[t] = "acquire"
        /\ Known(op[t].id)
    BY <1>0, <1>2
       DEF AcquireExisting, TypeInv, TypeOK, OpOK, FilesOK, WriteKinds
  <2>2. /\ op'[t].kind = op[t].kind /\ op'[t].id = op[t].id /\ pc'[t] = "log"
        /\ \A v \in Threads \ {t} : pc'[v] = pc[v] /\ op'[v] = op[v]
    BY <1>2, RequestFields
       DEF AcquireExisting, Goto, TypeInv, TypeOK, ThreadsOK
  <2>3. ~IsFresh(t)'
    BY <2>1, <2>2 DEF IsFresh
  <2> QED
    BY <1>0, <1>2, <2>1, <2>2, <2>3, StepUp, MoveFresh
       DEF AcquireExisting, datav, walv, runv
<1>3. CASE NotFound(t)
  BY <1>3, LeaveFresh DEF NotFound, datav, walv, runv
<1>4. CASE Reject(t)
  BY <1>4, LeaveFresh DEF Reject, Release, datav, walv, runv
<1>5. CASE Unindex(t)
  BY <1>0, <1>5, GotoFresh
     DEF Unindex, Goto, CreatePcs, IsFresh, Owned, TypeInv, TypeOK, ThreadsOK,
         datav, walv, runv
<1>6. CASE Reindex(t)
  BY <1>0, <1>6, GotoFresh
     DEF Reindex, Goto, CreatePcs, IsFresh, Owned, TypeInv, TypeOK, ThreadsOK,
         datav, walv, runv
<1>7. CASE AppendRecord(t)
  <2>1. \A i \in Ids : data'[i] # NoRec => data[i] # NoRec \/ Known(i)
    BY <1>0, <1>7
       DEF AppendRecord, Append_data, Owned, TypeInv, TypeOK, FilesOK
  <2> QED
    BY <1>0, <1>7, <2>1, GotoFresh
       DEF AppendRecord, Goto, CreatePcs, IsFresh, Owned, TypeInv, TypeOK,
           ThreadsOK, walv, runv
<1>8. CASE CacheWrite(t)
  <2>1. \A i \in Ids : cache'[i] # NoRec => cache[i] # NoRec \/ i = op[t].id
    BY <1>8, CachePutsKeep DEF CacheWrite, TypeInv, TypeOK, MemoryOK
  <2> QED
    BY <1>0, <1>8, <2>1, GotoFresh
       DEF CacheWrite, Goto, CreatePcs, IsFresh, Owned, TypeInv, TypeOK,
           ThreadsOK, datav, walv, runv
<1>9. CASE Checkpoint(t)
  BY <1>9, LeaveFresh DEF Checkpoint, Release, Log_checkpoint, datav, runv
<1> QED BY <1>1, <1>2, <1>3, <1>4, <1>5, <1>6, <1>7, <1>8, <1>9

\* Logging a create makes its id known; no other create has drawn it.
LEMMA EntryFresh ==
  ASSUME TypeInv, FreshInv, NEW t \in Threads, pc[t] = "log",
         NEW i, op[t].id = i,
         Append_wal([id |-> i, rec |-> op[t].new]),
         UNCHANGED <<data, cache, rq, counter, mode>>,
         \A v \in Threads \ {t} : pc'[v] = pc[v] /\ op'[v] = op[v],
         ~IsFresh(t)',
         Owned(t)' => op'[t].id = i,
         op'[t].kind = "create" => pc'[t] \in CreatePcs
  PROVE  FreshInv'
<1> USE DEF TypeInv, TypeOK
<1>1. op[t].kind \in WriteKinds /\ mode = "up" /\ mode' = "up"
  BY StepUp DEF OpOK
<1>2. \A v \in Threads : IsFresh(v)' => IsFresh(v) /\ v # t /\ op'[v] = op[v]
  BY DEF IsFresh
<1>3. ASSUME NEW j, Known(j) PROVE Known(j)'
  BY <1>2, <1>3 DEF Known
<1>4. Known(i)'
  BY <1>1, <1>2 DEF FreshInv, Known, IsFresh, Owned, WriteKinds
<1>5. \A j \in Ids : data'[j] # NoRec \/ cache'[j] # NoRec => Known(j)'
  BY <1>3 DEF FreshInv
<1>6. \A k \in DOMAIN wal' : Known(wal[k].id)'
  <2>1. CASE wal' = wal
    BY <1>3, <2>1 DEF FreshInv
  <2>2. CASE wal' = Append(wal, [id |-> i, rec |-> op[t].new])
    <3> DEFINE e == [id |-> i, rec |-> op[t].new]
    <3>1. wal \in Seq(Entry) /\ e \in Entry
      BY <1>1 DEF FilesOK, ThreadsOK, OpOK, Ops, Entry
    <3>2. \A k \in DOMAIN wal' :
            wal'[k] = e \/ (k \in DOMAIN wal /\ wal'[k] = wal[k])
      BY <2>2, <3>1, AppendProperties, LenProperties
    <3>3. e.id = i
      OBVIOUS
    <3> HIDE DEF e
    <3>4. \A k \in DOMAIN wal : Known(wal[k].id)
      BY DEF FreshInv
    <3> QED BY <1>3, <1>4, <3>2, <3>3, <3>4
  <2> QED BY <2>1, <2>2 DEF Append_wal
<1>7. \A k \in DOMAIN rq' : Known(rq[k].id)'
  BY <1>3 DEF FreshInv
<1>8. \A v \in Threads : Owned(v)' => Known(op[v].id)'
  <2>1. \A v \in Threads \ {t} :
          Owned(v)' => Known(op[v].id) /\ op'[v].id = op[v].id
    BY DEF FreshInv, Owned
  <2> QED BY <1>3, <1>4, <2>1
<1>9. /\ \A v \in Threads : IsFresh(v)' => op'[v].id <= counter'
      /\ \A v, w \in Threads :
           IsFresh(v)' /\ IsFresh(w)' /\ v # w => op'[v].id # op'[w].id
  BY <1>2 DEF FreshInv
<1>10. \A v \in Threads : op'[v].kind = "create" => pc'[v] \in CreatePcs
  BY DEF FreshInv
<1> QED BY <1>1, <1>5, <1>6, <1>7, <1>8, <1>9, <1>10 DEF FreshInv

LEMMA LogFresh ==
  ASSUME TypeInv, FreshInv, NEW t \in Threads, LogWrite(t)
  PROVE  FreshInv'
<1>1. /\ pc[t] = "log" /\ pc'[t] = "unindex"
      /\ \A v \in Threads \ {t} : pc'[v] = pc[v] /\ op'[v] = op[v]
      /\ UNCHANGED <<data, cache, rq, counter, mode, op>>
      /\ Append_wal([id |-> op[t].id, rec |-> op[t].new])
  BY DEF LogWrite, Goto, TypeInv, TypeOK, ThreadsOK, datav, runv
<1>2. ~IsFresh(t)' /\ pc'[t] \in CreatePcs
  BY <1>1 DEF IsFresh, CreatePcs
<1> QED BY <1>1, <1>2, EntryFresh

\* An operation that fails leaves; the record or the entry it was writing may
\* be in the file.
LEMMA FailFresh ==
  ASSUME TypeInv, FreshInv, NEW t \in Threads, Fail(t)
  PROVE  FreshInv'
<1> USE DEF TypeInv, TypeOK
<1>1. /\ Leave(t) /\ pc[t] # "idle" /\ UNCHANGED <<cache, rq, counter, mode>>
      /\ pc'[t] = "idle" /\ op'[t].kind = "none"
      /\ \A v \in Threads \ {t} : pc'[v] = pc[v] /\ op'[v] = op[v]
  BY NoOpType DEF Fail, Release, Leave, Goto, ThreadsOK, runv
<1>2. ~IsFresh(t)' /\ ~Owned(t)'
  BY <1>1 DEF IsFresh, Owned
<1>3. CASE UNCHANGED data /\ wal' \in {wal, <<>>}
  BY <1>1, <1>3, LeaveFresh
<1>4. CASE /\ pc[t] = "log"
           /\ Append_wal([id |-> op[t].id, rec |-> op[t].new])
           /\ UNCHANGED data
  BY <1>1, <1>2, <1>4, EntryFresh
<1>5. CASE pc[t] = "append" /\ Append_data(op[t].id, op[t].new) /\ wal' = wal
  <2>1. Known(op[t].id)
    BY <1>5 DEF FreshInv, Owned
  <2>2. \A i \in Ids : data'[i] # NoRec \/ cache'[i] # NoRec => Known(i)
    BY <1>1, <1>5, <2>1 DEF FreshInv, Append_data, FilesOK
  <2> QED BY <1>1, <1>2, <1>5, <2>2, StepUp, MoveFresh
<1> QED BY <1>3, <1>4, <1>5 DEF Fail, Log_checkpoint, datav, walv

LEMMA MaintenanceFresh ==
  ASSUME TypeInv, FreshInv, NEW t \in Threads,
         \/ AcquireMaintenance(t) \/ Rewrite(t) \/ ClearIndex(t)
         \/ FillIndex(t) \/ ClearCache(t)
  PROVE  FreshInv'
<1> USE DEF TypeInv, TypeOK
<1>0. /\ \A i \in Ids : data[i] # NoRec \/ cache[i] # NoRec => Known(i)
      /\ op[t].kind = "create" => pc[t] \in CreatePcs
  BY DEF FreshInv
<1>1. CASE AcquireMaintenance(t)
  BY <1>0, <1>1, GotoFresh
     DEF AcquireMaintenance, Goto, IsFresh, Owned, ThreadsOK, datav, walv, runv
<1>2. CASE Rewrite(t)
  BY <1>0, <1>2, GotoFresh
     DEF Rewrite, Goto, CreatePcs, IsFresh, Owned, ThreadsOK, walv, runv
<1>3. CASE ClearIndex(t)
  BY <1>0, <1>3, GotoFresh
     DEF ClearIndex, Goto, CreatePcs, IsFresh, Owned, ThreadsOK, datav, walv, runv
<1>4. CASE FillIndex(t)
  <2>1. CASE op[t].kind = "compact"
    BY <1>0, <1>4, <2>1, GotoFresh
       DEF FillIndex, Goto, CreatePcs, IsFresh, Owned, ThreadsOK, datav, walv, runv
  <2>2. CASE op[t].kind # "compact"
    BY <1>4, <2>2, LeaveFresh DEF FillIndex, Release, datav, walv, runv
  <2> QED BY <2>1, <2>2
<1>5. CASE ClearCache(t)
  BY <1>0, <1>5, GotoFresh
     DEF ClearCache, Goto, CreatePcs, IsFresh, Owned, ThreadsOK, datav, walv, runv
<1> QED BY <1>1, <1>2, <1>3, <1>4, <1>5

LEMMA ReadFresh ==
  ASSUME TypeInv, FreshInv, NEW t \in Threads,
         ReadRecord(t) \/ FillCache(t) \/ LoadLive(t) \/ Answer(t)
  PROVE  FreshInv'
<1> USE DEF TypeInv, TypeOK
<1>0. /\ \A i \in Ids : data[i] # NoRec \/ cache[i] # NoRec => Known(i)
      /\ Owned(t) => Known(op[t].id)
      /\ op[t].kind = "create" => pc[t] \in CreatePcs
  BY DEF FreshInv
<1>1. CASE ReadRecord(t)
  <2>1. /\ op[t].id \in Ids /\ op[t].kind = "get" /\ pc[t] = "read"
        /\ op[t] \in Ops
    BY <1>1 DEF ReadRecord, ThreadsOK, OpOK
  <2>2. /\ op'[t].kind = op[t].kind /\ op'[t].id = op[t].id
        /\ pc'[t] \in {"missed", "put"}
        /\ pc'[t] = "put" => data[op[t].id] # NoRec
        /\ \A v \in Threads \ {t} : pc'[v] = pc[v] /\ op'[v] = op[v]
    BY <1>1, <2>1 DEF ReadRecord, Goto, ThreadsOK, Ops
  <2>3. ~IsFresh(t)' /\ (Owned(t)' => Known(op'[t].id))
    BY <1>0, <2>1, <2>2 DEF IsFresh, Owned
  <2> QED
    BY <1>0, <1>1, <2>1, <2>2, <2>3, StepUp, MoveFresh
       DEF ReadRecord, datav, walv, runv
<1>2. CASE FillCache(t)
  <2>1. \A i \in Ids : cache'[i] # NoRec => cache[i] # NoRec \/ i = op[t].id
    BY <1>2, CachePutsKeep DEF FillCache, MemoryOK
  <2>2. op[t].kind = "get" /\ Known(op[t].id)
    BY <1>0, <1>2 DEF FillCache, OpOK, Owned
  <2> QED
    BY <1>0, <1>2, <2>1, <2>2, GotoFresh
       DEF FillCache, Goto, IsFresh, Owned, ThreadsOK, datav, walv, runv
<1>3. CASE LoadLive(t)
  <2>1. /\ pc[t] = "load" /\ pc'[t] \in {"found", "missed"}
        /\ op'[t].kind \in {op[t].kind, "find"}
        /\ \A v \in Threads \ {t} : pc'[v] = pc[v] /\ op'[v] = op[v]
    BY <1>3, RequestFields DEF LoadLive, Goto, ThreadsOK
  <2>2. ~IsFresh(t)' /\ ~Owned(t)' /\ op'[t].kind # "create"
    BY <1>0, <2>1 DEF IsFresh, Owned, CreatePcs
  <2> QED
    BY <1>0, <1>3, <2>1, <2>2, StepUp, MoveFresh DEF LoadLive, datav, walv, runv
<1>4. CASE Answer(t)
  BY <1>4, LeaveFresh DEF Answer, datav, walv, runv
<1> QED BY <1>1, <1>2, <1>3, <1>4

LEMMA RunFresh ==
  ASSUME TypeInv, FreshInv, Close \/ Crash \/ LoseIndex \/ Open \/ Recovers
  PROVE  FreshInv'
<1> USE DEF TypeInv, TypeOK
<1>1. CASE Down
  <2>1. \A t \in Threads : op'[t].kind = "none" /\ pc'[t] = "idle"
    BY <1>1, NoOpType DEF Down
  <2>2. \A t \in Threads : ~IsFresh(t)' /\ ~Owned(t)'
    BY <2>1 DEF IsFresh, Owned
  <2>3. \A i \in Ids : data'[i] # NoRec \/ cache'[i] # NoRec => Known(i)'
    BY <1>1, <2>2 DEF Down, FreshInv, Known
  <2>4. \A k \in DOMAIN wal' : Known(wal[k].id)'
    BY <1>1, <2>2 DEF Down, FreshInv, Known
  <2>5. DOMAIN rq' = {}
    BY <1>1 DEF Down
  <2> QED BY <2>1, <2>2, <2>3, <2>4, <2>5 DEF FreshInv
<1>2. ASSUME mode # "up", UNCHANGED <<cache, counter, thrv>>, mode' \in Modes,
             wal' \in {wal, <<>>},
             \A i \in Ids : data'[i] # NoRec => Known(i),
             \A k \in DOMAIN rq' : Known(rq'[k].id)
      PROVE  FreshInv'
  <2>1. \A t \in Threads : pc[t] = "idle" /\ pc'[t] = "idle" /\ op'[t] = op[t]
    BY <1>2 DEF FreshInv, thrv
  <2>2. \A t \in Threads : ~IsFresh(t)' /\ ~Owned(t)' /\ op'[t].kind # "create"
    BY <2>1 DEF IsFresh, Owned, FreshInv, CreatePcs
  <2>3. \A i \in Ids : data'[i] # NoRec \/ cache'[i] # NoRec => Known(i)'
    BY <1>2, <2>2 DEF FreshInv, Known
  <2>4. \A k \in DOMAIN wal' : Known(wal[k].id)'
    BY <1>2, <2>2 DEF FreshInv, Known
  <2>5. \A k \in DOMAIN rq' : Known(rq[k].id)'
    BY <1>2, <2>2 DEF Known
  <2> QED BY <2>1, <2>2, <2>3, <2>4, <2>5 DEF FreshInv
<1>3. /\ \A i \in Ids : data[i] # NoRec => Known(i)
      /\ \A k \in DOMAIN wal : Known(wal[k].id)
      /\ \A k \in DOMAIN rq : Known(rq[k].id)
  BY DEF FreshInv
<1>4. CASE LoseIndex
  BY <1>2, <1>3, <1>4 DEF LoseIndex, datav, walv, runv, Modes
<1>5. CASE Open
  BY <1>2, <1>3, <1>5 DEF Open, datav, walv, Modes
<1>6. CASE Replay
  <2>1. rq \in Seq(Entry) /\ rq # <<>> /\ rq' = Tail(rq)
    BY <1>6 DEF Replay, MemoryOK
  <2>2. Known(Head(rq).id)
    BY <1>3, <2>1, LenProperties, EmptySeq
  <2>3. \A k \in DOMAIN rq' : Known(rq'[k].id)
    BY <1>3, <2>1, HeadTailProperties, LenProperties
  <2>4. \A i \in Ids : data'[i] # NoRec => Known(i)
    BY <1>3, <1>6, <2>2 DEF Replay, Append_data, FilesOK, datav
  <2> QED BY <1>2, <1>6, <2>3, <2>4 DEF Replay, walv, Modes
<1>7. CASE Replayed
  BY <1>2, <1>3, <1>7 DEF Replayed, datav, walv, Modes
<1>8. CASE RecoverIndex
  BY <1>2, <1>3, <1>8 DEF RecoverIndex, datav, walv, Modes
<1>9. CASE RecoverCheckpoint
  BY <1>2, <1>3, <1>9 DEF RecoverCheckpoint, Log_checkpoint, datav, Modes
<1> QED
  BY <1>1, <1>4, <1>5, <1>6, <1>7, <1>8, <1>9 DEF Close, Crash, Recovers

LEMMA FreshStep == TypeInv /\ FreshInv /\ [Next]_vars => FreshInv'
<1> SUFFICES ASSUME TypeInv, FreshInv, [Next]_vars PROVE FreshInv'
  OBVIOUS
<1>1. CASE UNCHANGED vars
  BY <1>1 DEF vars, datav, walv, idxv, runv, thrv, FreshInv, Known, IsFresh, Owned
<1>2. ASSUME NEW t \in Threads, Starts(t) PROVE FreshInv'
  BY <1>2, CreateFresh, CallFresh
<1>3. ASSUME NEW t \in Threads, Steps(t) PROVE FreshInv'
  BY <1>3, WriteFresh, LogFresh, MaintenanceFresh, ReadFresh DEF Steps
<1>4. ASSUME NEW t \in Threads, Fail(t) PROVE FreshInv'
  BY <1>4, FailFresh
<1> QED BY <1>1, <1>2, <1>3, <1>4, RunFresh DEF Next

\* What a create writes overwrites nothing: the id it drew outside the lock
\* is still unused when it is logged, whatever crashed, failed, was torn or
\* was replayed in between.
THEOREM IdsAreFresh == Spec => []IdsNeverReused
<1>1. TypeInv /\ FreshInv => IdsNeverReused
  <2> SUFFICES ASSUME TypeInv, FreshInv, NEW t \in Threads, IsFresh(t)
               PROVE  LET i == op[t].id IN
                      /\ i \in 1 .. counter
                      /\ data[i] = NoRec
                      /\ cache[i] = NoRec
                      /\ \A k \in DOMAIN wal : wal[k].id # i
                      /\ \A u \in Threads \ {t} :
                           op[u].kind = "create" => op[u].id # i
    BY DEF IdsNeverReused, IsFresh
  <2>1. op[t].id \in Ids /\ op[t].id <= counter
    BY DEF TypeInv, OpOK, FreshInv, IsFresh, WriteKinds
  <2>2. ~Known(op[t].id)
    BY DEF Known
  <2>3. op[t].id \in 1 .. counter
    BY <2>1, CollectionAssumption DEF Ids, TypeInv, TypeOK, FilesOK
  <2>4. /\ data[op[t].id] = NoRec /\ cache[op[t].id] = NoRec
        /\ \A k \in DOMAIN wal : wal[k].id # op[t].id
    BY <2>1, <2>2 DEF FreshInv
  <2>5. ASSUME NEW u \in Threads \ {t}, op[u].kind = "create"
        PROVE  op[u].id # op[t].id
    BY <2>2, <2>5 DEF FreshInv, IsFresh, Owned, CreatePcs
  <2> QED BY <2>3, <2>4, <2>5
<1>2. Spec => [](TypeInv /\ FreshInv)
  <2>1. Init => TypeInv /\ FreshInv
    BY TypeInit, FreshInit
  <2>2. TypeInv /\ FreshInv /\ [Next]_vars => (TypeInv /\ FreshInv)'
    BY TypeStep, FreshStep
  <2> QED BY <2>1, <2>2, PTL DEF Spec
<1> QED BY <1>1, <1>2, PTL

-----------------------------------------------------------------------------
(* The lock *)

LockInv ==
  /\ \A t \in Threads : pc[t] \in Inside <=> lock = t
  /\ mode # "up" => lock = Free

LEMMA LockInit == Init => LockInv
  BY CollectionAssumption DEF Init, LockInv, Inside

\* Nothing but the holder's steps, Down and an acquisition touch the lock.
LEMMA LockStep == TypeInv /\ FreshInv /\ LockInv /\ [Next]_vars => LockInv'
<1> SUFFICES ASSUME TypeInv, FreshInv, LockInv, [Next]_vars PROVE LockInv'
  OBVIOUS
<1> USE CollectionAssumption DEF TypeInv, TypeOK, ThreadsOK
<1>1. CASE UNCHANGED vars
  BY <1>1 DEF vars, thrv, runv, LockInv
<1>2. ASSUME NEW t \in Threads, NEW l, Goto(t, l), mode = "up", mode' = mode,
             \/ pc[t] \notin Inside /\ l \notin Inside /\ lock' = lock
             \/ pc[t] \notin Inside /\ l \in Inside /\ lock = Free /\ lock' = t
             \/ pc[t] \in Inside /\ l \in Inside /\ lock' = lock
             \/ pc[t] \in Inside /\ l \notin Inside /\ lock' = Free
      PROVE  LockInv'
  BY <1>2 DEF Goto, LockInv
<1>3. ASSUME NEW t \in Threads, Starts(t) PROVE LockInv'
  <2>1. /\ mode = "up" /\ mode' = mode /\ lock' = lock /\ pc[t] = "idle"
        /\ \E l \in {"acquire", "found", "read", "load"} : Goto(t, l)
    BY <1>3
       DEF Starts, CallCreate, CallUpdate, CallDelete, CallMaintenance,
           CallGet, CallFind, CallWrite, Call, runv
  <2> QED BY <1>2, <2>1 DEF Inside
<1>4. ASSUME NEW t \in Threads, Steps(t) \/ Fail(t), mode = "up"
      PROVE  LockInv'
  <2>1. CASE AcquireCreate(t) \/ AcquireExisting(t) \/ AcquireMaintenance(t)
    BY <1>2, <1>4, <2>1
       DEF AcquireCreate, AcquireExisting, AcquireMaintenance, Inside, runv
  <2>2. CASE NotFound(t) \/ Answer(t)
    BY <1>2, <1>4, <2>2 DEF NotFound, Answer, Leave, Inside, runv
  <2>3. CASE ReadRecord(t) \/ FillCache(t) \/ LoadLive(t)
    BY <1>2, <1>4, <2>3 DEF ReadRecord, FillCache, LoadLive, Inside, runv
  <2>4. CASE LogWrite(t) \/ Unindex(t) \/ Reindex(t) \/ AppendRecord(t)
             \/ CacheWrite(t)
    BY <1>2, <1>4, <2>4
       DEF LogWrite, Unindex, Reindex, AppendRecord, CacheWrite, Inside, runv
  <2>5. CASE Rewrite(t) \/ ClearIndex(t) \/ ClearCache(t)
    BY <1>2, <1>4, <2>5 DEF Rewrite, ClearIndex, ClearCache, Inside, runv
  <2>6. CASE FillIndex(t)
    BY <1>2, <1>4, <2>6 DEF FillIndex, Release, Leave, Inside, runv
  <2>7. CASE Reject(t) \/ Checkpoint(t) \/ Fail(t)
    BY <1>2, <1>4, <2>7 DEF Reject, Checkpoint, Fail, Release, Leave, Inside, runv
  <2> QED BY <1>4, <2>1, <2>2, <2>3, <2>4, <2>5, <2>6, <2>7 DEF Steps
<1>5. ASSUME NEW t \in Threads, Steps(t) \/ Fail(t) PROVE mode = "up"
  BY <1>5, StepUp
     DEF Steps, AcquireCreate, AcquireExisting, NotFound, LogWrite, Reject,
         Unindex, Reindex, AppendRecord, CacheWrite, Checkpoint,
         AcquireMaintenance, Rewrite, ClearIndex, FillIndex, ClearCache,
         ReadRecord, FillCache, LoadLive, Answer, Fail
<1>6. CASE Close \/ Crash
  BY <1>6 DEF Close, Crash, Down, LockInv, Inside
<1>7. CASE LoseIndex \/ Open \/ Recovers
  BY <1>7
     DEF LoseIndex, Open, Recovers, Replay, Replayed, RecoverIndex,
         RecoverCheckpoint, thrv, runv, LockInv
<1> QED BY <1>1, <1>3, <1>4, <1>5, <1>6, <1>7 DEF Next

\* At most one thread is between taking and leaving the lock
\* (locks.py:137 "Acquire an exclusive (write) lock").
THEOREM MutualExclusion ==
  Spec => [](\A t, u \in Threads :
               pc[t] \in Inside /\ pc[u] \in Inside => t = u)
<1>1. Init => TypeInv /\ FreshInv /\ LockInv
  BY TypeInit, FreshInit, LockInit
<1>2. TypeInv /\ FreshInv /\ LockInv /\ [Next]_vars
        => (TypeInv /\ FreshInv /\ LockInv)'
  BY TypeStep, FreshStep, LockStep
<1>3. LockInv => \A t, u \in Threads :
                   pc[t] \in Inside /\ pc[u] \in Inside => t = u
  BY DEF LockInv
<1> QED BY <1>1, <1>2, <1>3, PTL DEF Spec

-----------------------------------------------------------------------------
(* The index, where no write fails half-way and no file is torn or lost *)

NoFaults == ~Torn /\ MaxErrors = 0 /\ ~MayLoseIndex

Exact == memIdx = IndexOf(data) /\ diskIdx = IndexOf(data)

\* The index while the record of id i goes from old to new: without the old
\* postings, then with the new ones.
Without(t) == IndexOf(data) \ Postings(op[t].id, op[t].old)

With(t) == Without(t) \cup Postings(op[t].id, op[t].new)

\* What holds of the index wherever the thread in the lock is.
Held(t) ==
  /\ pc[t] \in {"log", "unindex", "cache", "checkpoint", "rewrite", "clear",
                "evict"} => Exact
  /\ pc[t] = "reindex" => memIdx = Without(t) /\ diskIdx = IndexOf(data)
  /\ pc[t] = "append" => memIdx = With(t) /\ diskIdx = With(t)
  /\ pc[t] = "fill" => memIdx = {} /\ diskIdx = IndexOf(data)

\* The version the thread has read is the stored one until it writes.
Reads(t) ==
  /\ pc[t] \in {"log", "unindex", "reindex", "append"} =>
       op[t].old = data[op[t].id]
  /\ op[t].kind = "create" => op[t].old = NoRec

IndexInv ==
  /\ ~dataTorn /\ ~walTorn
  /\ mode = "up" /\ lock = Free => Exact
  /\ \A t \in Threads : Held(t) /\ Reads(t)
  /\ \A t \in Threads : pc[t] \in {"unindex", "reindex", "append"} =>
       wal # <<>>
  /\ mode = "down" /\ wal = <<>> => diskIdx = IndexOf(data)
  /\ mode \in {"replay", "reindex"} => wal # <<>>
  /\ mode = "checkpoint" => Exact

\* Every posting names the id it was filed for.
LEMMA PostingsOwn ==
  ASSUME NEW i, NEW r, NEW p \in Postings(i, r)
  PROVE  p[3] = i
  BY DEF Postings

\* Storing a new version of i exchanges its postings and no others.
LEMMA IndexOfExcept ==
  ASSUME NEW live \in [Ids -> Maybe], NEW i \in Ids, NEW r \in Maybe
  PROVE  IndexOf([live EXCEPT ![i] = r])
           = (IndexOf(live) \ Postings(i, live[i])) \cup Postings(i, r)
<1> DEFINE new == [live EXCEPT ![i] = r]
<1>1. /\ DOMAIN new = Ids /\ DOMAIN live = Ids
      /\ new[i] = r /\ \A j \in Ids \ {i} : new[j] = live[j]
  OBVIOUS
<1> HIDE DEF new
<1>2. ASSUME NEW p
      PROVE  p \in IndexOf(new) <=>
               p \in (IndexOf(live) \ Postings(i, live[i])) \cup Postings(i, r)
  <2>1. p \in IndexOf(new) <=>
          p \in Postings(i, r) \/ \E j \in Ids \ {i} : p \in Postings(j, live[j])
    BY <1>1 DEF IndexOf
  <2>2. p \in IndexOf(live) <=> \E j \in Ids : p \in Postings(j, live[j])
    BY <1>1 DEF IndexOf
  <2>3. \A j \in Ids \ {i} : p \in Postings(j, live[j]) =>
                               p \notin Postings(i, live[i])
    BY PostingsOwn
  <2> QED BY <2>1, <2>2, <2>3
<1> QED BY <1>2 DEF new

LEMMA IndexInit == Init => IndexInv
<1> SUFFICES ASSUME Init PROVE IndexInv
  OBVIOUS
<1>1. \A t \in Threads : pc[t] = "idle" /\ op[t].kind = "none"
  BY NoOpType DEF Init
<1>2. IndexOf(data) = {}
  BY DEF Init, IndexOf, Postings
<1>3. mode = "up" /\ ~dataTorn /\ ~walTorn /\ memIdx = {} /\ diskIdx = {}
  BY DEF Init
<1> QED BY <1>1, <1>2, <1>3 DEF IndexInv, Exact, Held, Reads

-----------------------------------------------------------------------------
(* Steps outside the lock: neither the files nor the index change. *)

LEMMA OutsideIndex ==
  ASSUME IndexInv, NEW t \in Threads, UNCHANGED <<datav, walv, idxv, mode, lock>>,
         pc'[t] \notin Inside,
         op'[t].kind = "create" => op'[t].old = NoRec,
         \A u \in Threads \ {t} : pc'[u] = pc[u] /\ op'[u] = op[u]
  PROVE  IndexInv'
<1>1. UNCHANGED <<data, dataTorn, wal, walTorn, memIdx, diskIdx>>
  BY DEF datav, walv, idxv
<1>2. \A u \in Threads \ {t} : Held(u)' /\ Reads(u)'
  BY <1>1 DEF IndexInv, Held, Reads, Exact, Without, With
<1>3. Held(t)' /\ Reads(t)'
  BY DEF Held, Reads, Inside
<1>4. Exact <=> Exact'
  BY <1>1 DEF Exact
<1> QED BY <1>1, <1>2, <1>3, <1>4 DEF IndexInv, Inside

LEMMA RequestOld ==
  ASSUME NEW kind, NEW id, NEW arg, NEW new, NEW ids
  PROVE  Request(kind, id, arg, new, ids).old = NoRec
  BY DEF Request

LEMMA CallIndex ==
  ASSUME TypeInv, IndexInv, NEW t \in Threads, Starts(t)
  PROVE  IndexInv'
<1> USE RequestOld DEF TypeInv, TypeOK, ThreadsOK, Goto, Inside, runv
<1>1. CASE CallCreate(t)
  BY <1>1, OutsideIndex DEF CallCreate
<1>2. CASE CallUpdate(t)
  BY <1>2, OutsideIndex DEF CallUpdate
<1>3. CASE CallDelete(t)
  BY <1>3, OutsideIndex DEF CallDelete
<1>4. CASE CallMaintenance(t)
  BY <1>4, OutsideIndex DEF CallMaintenance
<1>5. CASE CallGet(t)
  BY <1>5, OutsideIndex DEF CallGet
<1>6. CASE CallFind(t)
  BY <1>6, OutsideIndex DEF CallFind
<1> QED BY <1>1, <1>2, <1>3, <1>4, <1>5, <1>6 DEF Starts

LEMMA ReadIndex ==
  ASSUME TypeInv, IndexInv, NEW t \in Threads,
         \/ NotFound(t) \/ Answer(t)
         \/ ReadRecord(t) \/ FillCache(t) \/ LoadLive(t)
  PROVE  IndexInv'
<1> USE DEF TypeInv, TypeOK, ThreadsOK, Goto, Inside, runv
<1>0. op[t].kind = "create" => op[t].old = NoRec
  BY DEF IndexInv, Reads
<1>1. CASE NotFound(t) \/ Answer(t)
  BY <1>1, NoOpType, OutsideIndex DEF NotFound, Answer, Leave
<1>2. CASE ReadRecord(t)
  <2>1. op'[t].kind = op[t].kind /\ op'[t].old = op[t].old
    BY <1>2 DEF ReadRecord, Ops
  <2> QED BY <1>0, <1>2, <2>1, OutsideIndex DEF ReadRecord
<1>3. CASE FillCache(t)
  BY <1>0, <1>3, OutsideIndex DEF FillCache
<1>4. CASE LoadLive(t)
  BY <1>0, <1>4, RequestOld, OutsideIndex DEF LoadLive
<1> QED BY <1>1, <1>2, <1>3, <1>4

-----------------------------------------------------------------------------
(* Steps inside the lock: nobody else is there. *)

LEMMA InsideIndex ==
  ASSUME IndexInv, NEW t \in Threads, mode = "up", mode' = "up",
         \A u \in Threads \ {t} : pc[u] \notin Inside,
         \A u \in Threads \ {t} : pc'[u] = pc[u] /\ op'[u] = op[u],
         ~dataTorn', ~walTorn',
         lock' = Free => Exact',
         Held(t)', Reads(t)',
         pc'[t] \in {"unindex", "reindex", "append"} => wal' # <<>>
  PROVE  IndexInv'
<1>1. \A u \in Threads \ {t} : Held(u)' /\ Reads(u)'
  BY DEF IndexInv, Held, Reads, Inside
<1> QED BY <1>1 DEF IndexInv, Inside

LEMMA AcquireIndex ==
  ASSUME TypeInv, FreshInv, LockInv, IndexInv, NEW t \in Threads,
         AcquireCreate(t) \/ AcquireExisting(t) \/ AcquireMaintenance(t)
  PROVE  IndexInv'
<1> USE CollectionAssumption DEF TypeInv, TypeOK, ThreadsOK
<1>1. /\ lock = Free /\ lock' = t /\ mode = "up" /\ mode' = "up"
      /\ \A u \in Threads : pc[u] \notin Inside
      /\ UNCHANGED <<data, dataTorn, wal, walTorn, memIdx, diskIdx>>
      /\ pc'[t] \in {"log", "rewrite", "clear"}
      /\ \A u \in Threads \ {t} : pc'[u] = pc[u] /\ op'[u] = op[u]
  BY StepUp
     DEF AcquireCreate, AcquireExisting, AcquireMaintenance, Goto, LockInv,
         datav, walv, idxv, runv
<1>2. Exact /\ Exact' /\ Held(t)'
  BY <1>1 DEF IndexInv, Exact, Held
<1>3. Reads(t)'
  <2>1. CASE AcquireCreate(t)
    <3>1. IsFresh(t) /\ op[t].old = NoRec /\ op[t].id \in Ids
      BY <2>1
         DEF AcquireCreate, IsFresh, IndexInv, Reads, OpOK, WriteKinds
    <3>2. ~Known(op[t].id)
      BY <3>1 DEF Known
    <3>3. data[op[t].id] = NoRec
      BY <3>1, <3>2 DEF FreshInv
    <3> QED BY <1>1, <2>1, <3>1, <3>3 DEF AcquireCreate, Reads
  <2>2. CASE AcquireExisting(t)
    <3> DEFINE i == op[t].id
               new == IF op[t].kind = "update" THEN Patched(data[i], op[t].arg)
                      ELSE NoRec
               r == Request(op[t].kind, i, op[t].arg, new, {})
    <3>1. op'[t] = [r EXCEPT !.old = data[i]] /\ op[t].kind # "create"
      BY <2>2 DEF AcquireExisting
    <3>2. /\ [r EXCEPT !.old = data[i]].old = data[i]
          /\ [r EXCEPT !.old = data[i]].id = i
          /\ [r EXCEPT !.old = data[i]].kind = op[t].kind
      BY DEF Request
    <3> QED BY <1>1, <3>1, <3>2 DEF Reads
  <2>3. CASE AcquireMaintenance(t)
    BY <1>1, <2>3 DEF AcquireMaintenance, Goto, Reads
  <2> QED BY <2>1, <2>2, <2>3
<1> QED BY <1>1, <1>2, <1>3, InsideIndex DEF IndexInv

LEMMA WriteIndex ==
  ASSUME TypeInv, FreshInv, LockInv, IndexInv, NEW t \in Threads,
         \/ LogWrite(t) \/ Reject(t) \/ Unindex(t) \/ Reindex(t)
         \/ AppendRecord(t) \/ CacheWrite(t) \/ Checkpoint(t)
  PROVE  IndexInv'
<1> USE CollectionAssumption DEF TypeInv, TypeOK, ThreadsOK
<1>1. /\ pc[t] \in Inside /\ mode = "up" /\ mode' = "up"
      /\ ~dataTorn /\ ~walTorn
      /\ \A u \in Threads \ {t} : pc[u] \notin Inside
      /\ \A u \in Threads \ {t} : pc'[u] = pc[u] /\ op'[u] = op[u]
    <2>1. pc[t] \in Inside /\ pc[t] # "idle" /\ mode' = mode
      BY DEF LogWrite, Reject, Unindex, Reindex, AppendRecord, CacheWrite,
             Checkpoint, Inside, runv
    <2>2. \A u \in Threads \ {t} : pc'[u] = pc[u] /\ op'[u] = op[u]
      BY DEF LogWrite, Reject, Unindex, Reindex, AppendRecord, CacheWrite,
             Checkpoint, Release, Leave, Goto
    <2> QED BY <2>1, <2>2, StepUp DEF LockInv, IndexInv
<1>2. Held(t) /\ Reads(t)
  BY DEF IndexInv
<1>3. CASE LogWrite(t)
  <2>1. wal' # <<>>
    <3>1. wal \in Seq(Entry) /\ [id |-> op[t].id, rec |-> op[t].new] \in Entry
      BY <1>3 DEF LogWrite, FilesOK, OpOK, Ops, Entry
    <3> QED BY <1>1, <1>3, <3>1, AppendProperties DEF LogWrite, Append_wal
  <2>2. Held(t)' /\ Reads(t)'
    BY <1>2, <1>3 DEF LogWrite, Goto, Held, Reads, Exact, datav, idxv
  <2> QED
    BY <1>1, <1>3, <2>1, <2>2, InsideIndex
       DEF LogWrite, Append_wal, LockInv, datav
<1>4. CASE Reject(t)
  <2>1. pc'[t] = "idle" /\ op'[t].kind = "none" /\ Exact'
    BY <1>2, <1>4, NoOpType
       DEF Reject, Release, Leave, Goto, Held, Exact, datav, idxv
  <2>2. Held(t)' /\ Reads(t)'
    BY <2>1 DEF Held, Reads
  <2> QED BY <1>1, <1>4, <2>1, <2>2, InsideIndex DEF Reject, datav, walv
<1>5. CASE Unindex(t)
  <2>1. Held(t)' /\ Reads(t)'
    BY <1>2, <1>5
       DEF Unindex, Goto, Held, Reads, Exact, Without, With, datav
  <2>2. wal' # <<>>
    BY <1>5 DEF Unindex, IndexInv, walv
  <2> QED
    BY <1>1, <1>5, <2>1, <2>2, InsideIndex DEF Unindex, LockInv, datav, walv
<1>6. CASE Reindex(t)
  <2>1. Held(t)' /\ Reads(t)'
    BY <1>2, <1>6
       DEF Reindex, Goto, Held, Reads, Exact, Without, With, datav
  <2>2. wal' # <<>>
    BY <1>6 DEF Reindex, IndexInv, walv
  <2> QED
    BY <1>1, <1>6, <2>1, <2>2, InsideIndex DEF Reindex, LockInv, datav, walv
<1>7. CASE AppendRecord(t)
  <2> DEFINE i == op[t].id
             r == op[t].new
  <2>1. i \in Ids /\ r \in Maybe /\ data \in [Ids -> Maybe]
    BY <1>7 DEF AppendRecord, FilesOK, OpOK, Ops
  <2>2. data' = [data EXCEPT ![i] = r]
    BY <1>1, <1>7 DEF AppendRecord, Append_data
  <2>3. IndexOf(data') = With(t)
    <3>1. op[t].old = data[i]
      BY <1>2, <1>7 DEF AppendRecord, Reads
    <3>2. IndexOf([data EXCEPT ![i] = r])
            = (IndexOf(data) \ Postings(i, data[i])) \cup Postings(i, r)
      BY <2>1, IndexOfExcept
    <3> QED BY <2>2, <3>1, <3>2 DEF With, Without
  <2>4. Exact'
    BY <1>2, <1>7, <2>3 DEF AppendRecord, Held, Exact, idxv
  <2>5. Held(t)' /\ Reads(t)'
    BY <1>2, <1>7, <2>4 DEF AppendRecord, Goto, Held, Reads
  <2> QED
    BY <1>1, <1>7, <2>4, <2>5, InsideIndex
       DEF AppendRecord, Append_data, Goto, walv
<1>8. CASE CacheWrite(t)
  <2>1. Exact'
    BY <1>2, <1>8 DEF CacheWrite, Held, Exact, datav, idxv
  <2>2. Held(t)' /\ Reads(t)'
    BY <1>2, <1>8, <2>1 DEF CacheWrite, Goto, Held, Reads
  <2> QED
    BY <1>1, <1>8, <2>1, <2>2, InsideIndex DEF CacheWrite, Goto, datav, walv
<1>9. CASE Checkpoint(t)
  <2>1. pc'[t] = "idle" /\ op'[t].kind = "none" /\ Exact'
    BY <1>2, <1>9, NoOpType
       DEF Checkpoint, Release, Leave, Goto, Held, Exact, datav, idxv
  <2>2. Held(t)' /\ Reads(t)'
    BY <2>1 DEF Held, Reads
  <2> QED
    BY <1>1, <1>9, <2>1, <2>2, InsideIndex DEF Checkpoint, Log_checkpoint, datav
<1> QED BY <1>3, <1>4, <1>5, <1>6, <1>7, <1>8, <1>9

LEMMA MaintenanceIndex ==
  ASSUME TypeInv, FreshInv, LockInv, IndexInv, NEW t \in Threads,
         Rewrite(t) \/ ClearIndex(t) \/ FillIndex(t) \/ ClearCache(t)
  PROVE  IndexInv'
<1> USE CollectionAssumption DEF TypeInv, TypeOK, ThreadsOK
<1>1. /\ pc[t] \in Inside /\ mode = "up" /\ mode' = "up"
      /\ ~dataTorn /\ ~walTorn /\ ~dataTorn' /\ ~walTorn'
      /\ \A u \in Threads \ {t} : pc[u] \notin Inside
      /\ \A u \in Threads \ {t} : pc'[u] = pc[u] /\ op'[u] = op[u]
    <2>1. pc[t] \in Inside /\ pc[t] # "idle" /\ mode' = mode
      BY DEF Rewrite, ClearIndex, FillIndex, ClearCache, Inside, runv
    <2>2. \A u \in Threads \ {t} : pc'[u] = pc[u] /\ op'[u] = op[u]
      BY DEF Rewrite, ClearIndex, FillIndex, ClearCache, Release, Leave, Goto
    <2>3. ~dataTorn' /\ ~walTorn'
      BY DEF Rewrite, ClearIndex, FillIndex, ClearCache, IndexInv, datav, walv
    <2> QED BY <2>1, <2>2, <2>3, StepUp DEF LockInv, IndexInv
<1>2. Held(t) /\ Reads(t)
  BY DEF IndexInv
<1>3. CASE Rewrite(t)
  <2>1. Held(t)' /\ Reads(t)' /\ pc'[t] = "clear" /\ Exact'
    BY <1>2, <1>3 DEF Rewrite, Goto, Held, Reads, Exact, idxv
  <2> QED BY <1>1, <2>1, InsideIndex
<1>4. CASE ClearIndex(t)
  <2>1. Held(t)' /\ Reads(t)' /\ pc'[t] = "fill" /\ lock' # Free
    BY <1>1, <1>2, <1>4
       DEF ClearIndex, Goto, Held, Reads, Exact, LockInv, datav
  <2> QED BY <1>1, <2>1, InsideIndex
<1>5. CASE FillIndex(t)
  <2>1. Exact'
    BY <1>5 DEF FillIndex, Exact, datav
  <2>2. /\ pc'[t] \in {"evict", "idle"}
        /\ op'[t] \in {op[t], NoOp}
    BY <1>5 DEF FillIndex, Release, Leave, Goto
  <2>3. Held(t)' /\ Reads(t)'
    BY <1>2, <2>1, <2>2, NoOpType DEF Held, Reads
  <2> QED BY <1>1, <2>1, <2>2, <2>3, InsideIndex
<1>6. CASE ClearCache(t)
  <2>1. Held(t)' /\ Reads(t)' /\ pc'[t] = "checkpoint" /\ Exact'
    BY <1>2, <1>6 DEF ClearCache, Goto, Held, Reads, Exact, datav, idxv
  <2> QED BY <1>1, <2>1, InsideIndex
<1> QED BY <1>3, <1>4, <1>5, <1>6

\* Going down: a crash between the index and the data file leaves the entry
\* pending, and any other leaves the index on disk exact.
LEMMA RunIndex ==
  ASSUME NoFaults, TypeInv, FreshInv, LockInv, IndexInv,
         Close \/ Crash \/ LoseIndex \/ Open \/ Recovers
  PROVE  IndexInv'
<1> USE DEF TypeInv, TypeOK
<1>1. CASE Close \/ Crash
  <2>1. /\ Down
        /\ ~dataTorn' /\ ~walTorn'
    BY <1>1 DEF Close, Crash, MayTear, NoFaults, IndexInv
  <2>2. wal = <<>> => diskIdx = IndexOf(data)
    <3>1. CASE mode = "up" /\ lock = Free
      BY <3>1 DEF IndexInv, Exact
    <3>2. CASE mode = "up" /\ lock # Free
      <4>1. lock \in Threads /\ pc[lock] \in Inside /\ Held(lock)
        BY <3>2 DEF LockInv, IndexInv, ThreadsOK
      <4> QED BY <4>1 DEF Held, Exact, Inside, IndexInv
    <3>3. CASE mode # "up"
      BY <3>3 DEF IndexInv, MemoryOK, Modes, Exact
    <3> QED BY <3>1, <3>2, <3>3
  <2>3. \A t \in Threads : Held(t)' /\ Reads(t)' /\ pc'[t] = "idle"
    BY <2>1, NoOpType DEF Down, Held, Reads
  <2>4. /\ mode' = "down"
        /\ wal' = wal /\ diskIdx' = diskIdx /\ data' = data
    BY <2>1 DEF Down
  <2> QED BY <2>1, <2>2, <2>3, <2>4 DEF IndexInv
<1>2. CASE LoseIndex
  BY <1>2 DEF LoseIndex, NoFaults
<1>3. mode # "up" => \A t \in Threads : pc[t] = "idle"
  BY DEF FreshInv
<1>4. ASSUME mode # "up", UNCHANGED thrv, ~dataTorn', ~walTorn'
      PROVE  \A t \in Threads :
               Held(t)' /\ Reads(t)' /\ pc'[t] = "idle"
  BY <1>3, <1>4 DEF thrv, IndexInv, Held, Reads
<1>5. CASE Open
  BY <1>4, <1>5 DEF Open, IndexInv, Exact, datav, walv
<1>6. CASE Replay
  <2>1. ~dataTorn' /\ ~walTorn' /\ mode' = mode /\ wal' = wal
    BY <1>6 DEF Replay, Append_data, IndexInv, datav, walv
  <2> QED BY <1>4, <1>6, <2>1 DEF Replay, IndexInv
<1>7. CASE Replayed
  BY <1>4, <1>7 DEF Replayed, IndexInv, datav, walv
<1>8. CASE RecoverIndex
  BY <1>4, <1>8 DEF RecoverIndex, IndexInv, Exact, datav, walv
<1>9. CASE RecoverCheckpoint
  <2>1. ~dataTorn' /\ ~walTorn' /\ Exact'
    BY <1>9 DEF RecoverCheckpoint, Log_checkpoint, IndexInv, Exact, datav, idxv
  <2> QED BY <1>4, <1>9, <2>1 DEF RecoverCheckpoint, IndexInv
<1> QED BY <1>1, <1>2, <1>5, <1>6, <1>7, <1>8, <1>9 DEF Recovers

LEMMA IndexStep ==
  ASSUME NoFaults
  PROVE  TypeInv /\ FreshInv /\ LockInv /\ IndexInv /\ [Next]_vars => IndexInv'
<1> SUFFICES ASSUME TypeInv, FreshInv, LockInv, IndexInv, [Next]_vars
             PROVE  IndexInv'
  OBVIOUS
<1>1. CASE UNCHANGED vars
  BY <1>1
     DEF vars, datav, walv, idxv, runv, thrv, IndexInv, Held, Reads, Exact,
         Without, With
<1>2. ASSUME NEW t \in Threads, Starts(t) PROVE IndexInv'
  BY <1>2, CallIndex
<1>3. ASSUME NEW t \in Threads, Steps(t) PROVE IndexInv'
  BY <1>3, ReadIndex, AcquireIndex, WriteIndex, MaintenanceIndex DEF Steps
<1>4. ASSUME NEW t \in Threads, Fail(t) PROVE FALSE
  BY <1>4 DEF Fail, NoFaults, TypeInv, TypeOK, MemoryOK
<1> QED BY <1>1, <1>2, <1>3, <1>4, RunIndex DEF Next

\* Rejected writes, crashes at any step, replays and compactions leave the
\* index exact: whenever no writer is at work it holds the postings of the
\* live records and no others, in memory and on disk.
THEOREM IndexIsExact ==
  ASSUME NoFaults
  PROVE  Spec => []IndexExact
<1>1. Init => TypeInv /\ FreshInv /\ LockInv /\ IndexInv
  BY TypeInit, FreshInit, LockInit, IndexInit
<1>2. TypeInv /\ FreshInv /\ LockInv /\ IndexInv /\ [Next]_vars
        => (TypeInv /\ FreshInv /\ LockInv /\ IndexInv)'
  BY TypeStep, FreshStep, LockStep, IndexStep
<1>3. IndexInv => IndexExact
  BY DEF IndexInv, Exact, IndexExact
<1> QED BY <1>1, <1>2, <1>3, PTL DEF Spec

-----------------------------------------------------------------------------
(* The cache, where no write fails half-way and no file is torn *)

\* Threads work only while the collection is up.
LEMMA ThreadsUp ==
  ASSUME TypeInv, FreshInv, NEW t \in Threads, Starts(t) \/ Steps(t) \/ Fail(t)
  PROVE  mode = "up" /\ mode' = "up" /\ UNCHANGED <<mode, rq, restarts>>
<1>1. CASE Starts(t)
  BY <1>1
     DEF Starts, CallCreate, CallUpdate, CallDelete, CallMaintenance,
         CallGet, CallFind, CallWrite, Call, runv
<1>2. CASE Steps(t) \/ Fail(t)
  <2>1. pc[t] # "idle" /\ UNCHANGED runv
    BY <1>2, Zenon
       DEF Steps, AcquireCreate, AcquireExisting, NotFound, LogWrite, Reject,
           Unindex, Reindex, AppendRecord, CacheWrite, Checkpoint,
           AcquireMaintenance, Rewrite, ClearIndex, FillIndex, ClearCache,
           ReadRecord, FillCache, LoadLive, Answer, Fail
  <2> QED BY <2>1, StepUp DEF runv
<1> QED BY <1>1, <1>2

\* No file is ever torn.
LEMMA TornStep ==
  ASSUME ~Torn, TypeInv, ~dataTorn, ~walTorn, Next
  PROVE  ~dataTorn' /\ ~walTorn'
<1> USE DEF datav, walv
<1>1. ASSUME NEW t \in Threads, Starts(t) PROVE ~dataTorn' /\ ~walTorn'
  BY <1>1
     DEF Starts, CallCreate, CallUpdate, CallDelete, CallMaintenance,
         CallGet, CallFind
<1>2. ASSUME NEW t \in Threads, Steps(t) PROVE ~dataTorn' /\ ~walTorn'
  BY <1>2
     DEF Steps, AcquireCreate, AcquireExisting, NotFound, LogWrite, Reject,
         Unindex, Reindex, AppendRecord, CacheWrite, Checkpoint,
         AcquireMaintenance, Rewrite, ClearIndex, FillIndex, ClearCache,
         ReadRecord, FillCache, LoadLive, Answer, Append_wal, Append_data,
         Log_checkpoint
<1>3. ASSUME NEW t \in Threads, Fail(t) PROVE ~dataTorn' /\ ~walTorn'
  BY <1>3 DEF Fail, MayTear, Append_wal, Append_data, Log_checkpoint
<1>4. CASE Close \/ Crash \/ LoseIndex \/ Open
  BY <1>4 DEF Close, Crash, LoseIndex, Open, MayTear
<1>5. CASE Recovers
  BY <1>5 DEF Recovers, Replay, Replayed, RecoverIndex, RecoverCheckpoint,
     Append_data, Log_checkpoint
<1> QED BY <1>1, <1>2, <1>3, <1>4, <1>5 DEF Next

(* What the thread about to refresh the cache puts into it is what is      *)
(* stored, and there is a cache only while the collection is up.           *)
CacheInv ==
  /\ ~dataTorn /\ ~walTorn
  /\ mode # "up" => \A i \in Ids : cache[i] = NoRec
  /\ \A t \in Threads : pc[t] = "cache" => data[op[t].id] = op[t].new

LEMMA CacheInit == Init => CacheInv
  BY DEF Init, CacheInv

\* What a step may make of the cache.
KeepsFresh == \A i \in Ids : Stale(i)' => Stale(i) \/ \E t \in Threads : LateFill(t, i)

\* A full cache gives up entries and changes none.
LEMMA CachePutsOnly ==
  ASSUME cache \in [Ids -> Maybe], NEW i \in Ids, NEW r, NEW c \in CachePuts(i, r)
  PROVE  \A j \in Ids : c[j] \in {NoRec, IF j = i THEN r ELSE cache[j]}
<1> DEFINE put == [cache EXCEPT ![i] = r]
<1>1. \A j \in Ids : put[j] = IF j = i THEN r ELSE cache[j]
  OBVIOUS
<1>2. DOMAIN put = Ids
  OBVIOUS
<1>3. c = put \/ \E k \in Cached(put) \ {i} : c = [put EXCEPT ![k] = NoRec]
  BY DEF CachePuts
<1> HIDE DEF put
<1> QED BY <1>1, <1>2, <1>3

\* A step that touches neither a record nor the cache.
LEMMA MoveCache ==
  ASSUME CacheInv, NEW t \in Threads, mode = "up", mode' = "up",
         ~dataTorn', ~walTorn', UNCHANGED <<data, cache>>,
         pc[t] # "cache", pc'[t] # "cache",
         \A u \in Threads \ {t} : pc'[u] = pc[u] /\ op'[u] = op[u]
  PROVE  CacheInv' /\ KeepsFresh
<1>1. \A u \in Threads : pc[u] = "cache" => pc'[u] = "cache" /\ op'[u] = op[u]
  OBVIOUS
<1>2. \A u \in Threads : pc'[u] = "cache" => pc[u] = "cache" /\ op'[u] = op[u]
  OBVIOUS
<1>3. \A i \in Ids : Stale(i)' => Stale(i)
  BY <1>1 DEF Stale
<1> QED BY <1>2, <1>3 DEF CacheInv, KeepsFresh

LEMMA QuietCache ==
  ASSUME TypeInv, FreshInv, CacheInv, ~dataTorn', ~walTorn', NEW t \in Threads,
         \/ Starts(t) \/ AcquireCreate(t) \/ AcquireExisting(t) \/ NotFound(t)
         \/ LogWrite(t) \/ Reject(t) \/ Unindex(t) \/ Reindex(t) \/ Checkpoint(t)
         \/ AcquireMaintenance(t) \/ Rewrite(t) \/ ClearIndex(t) \/ FillIndex(t)
         \/ ReadRecord(t) \/ LoadLive(t) \/ Answer(t)
  PROVE  CacheInv' /\ KeepsFresh
<1> USE DEF TypeInv, TypeOK, ThreadsOK, Goto, datav
<1>1. mode = "up" /\ mode' = "up"
  BY ThreadsUp DEF Steps
<1>2. CASE Starts(t)
  <2>1. /\ UNCHANGED <<data, cache>> /\ pc[t] = "idle"
        /\ \A u \in Threads \ {t} : pc'[u] = pc[u] /\ op'[u] = op[u]
        /\ pc'[t] \in {"acquire", "found", "read", "load"}
    BY <1>2
       DEF Starts, CallCreate, CallUpdate, CallDelete, CallMaintenance,
           CallGet, CallFind, CallWrite, Call
  <2> QED BY <1>1, <2>1, MoveCache
<1>3. CASE AcquireCreate(t) \/ AcquireExisting(t) \/ NotFound(t)
           \/ LogWrite(t) \/ Reject(t)
  BY <1>1, <1>3, MoveCache
     DEF AcquireCreate, AcquireExisting, NotFound, LogWrite, Reject,
         Release, Leave
<1>4. CASE Unindex(t) \/ Reindex(t) \/ Checkpoint(t)
  BY <1>1, <1>4, MoveCache DEF Unindex, Reindex, Checkpoint, Release, Leave
<1>5. CASE AcquireMaintenance(t) \/ Rewrite(t) \/ ClearIndex(t) \/ FillIndex(t)
  BY <1>1, <1>5, MoveCache
     DEF AcquireMaintenance, Rewrite, ClearIndex, FillIndex, Release, Leave
<1>6. CASE ReadRecord(t) \/ LoadLive(t) \/ Answer(t)
  BY <1>1, <1>6, MoveCache DEF ReadRecord, LoadLive, Answer, Leave
<1> QED BY <1>2, <1>3, <1>4, <1>5, <1>6

\* The steps that write a record or the cache.
LEMMA WriteCache ==
  ASSUME TypeInv, FreshInv, LockInv, CacheInv,
         ~dataTorn', ~walTorn', NEW t \in Threads,
         AppendRecord(t) \/ CacheWrite(t) \/ FillCache(t) \/ ClearCache(t)
  PROVE  CacheInv' /\ KeepsFresh
<1> USE DEF TypeInv, TypeOK, FilesOK, MemoryOK, ThreadsOK, Goto
<1>1. mode = "up" /\ mode' = "up"
  BY ThreadsUp DEF Steps
<1>2. /\ \A u \in Threads \ {t} : pc'[u] = pc[u] /\ op'[u] = op[u]
      /\ op' = op
  BY DEF AppendRecord, CacheWrite, FillCache, ClearCache
<1> DEFINE i == op[t].id
<1>3. CASE AppendRecord(t)
  <2>1. /\ i \in Ids /\ pc[t] = "append" /\ pc'[t] = "cache" /\ cache' = cache
    BY <1>3 DEF AppendRecord, OpOK
  <2>2. data' = [data EXCEPT ![i] = op[t].new]
    BY <1>3 DEF AppendRecord, Append_data, CacheInv
  <2> HIDE DEF i
  <2>3. data'[i] = op[t].new /\ \A j \in Ids \ {i} : data'[j] = data[j]
    BY <2>1, <2>2
  <2>4. \A u \in Threads \ {t} : pc[u] # "cache"
    BY <2>1 DEF LockInv, Inside
  <2>5. \A u \in Threads : pc'[u] = "cache" => data'[op'[u].id] = op'[u].new
    BY <1>2, <2>1, <2>3, <2>4 DEF i
  <2>6. ASSUME NEW j \in Ids, Stale(j)' PROVE Stale(j)
    <3>1. j # i
      BY <1>2, <2>1, <2>6 DEF i, Stale
    <3>2. \A u \in Threads : pc[u] # "cache"
      BY <2>1, <2>4
    <3> QED BY <2>1, <2>3, <2>6, <3>1, <3>2 DEF Stale
  <2> QED BY <1>1, <2>5, <2>6 DEF CacheInv, KeepsFresh
<1>4. CASE CacheWrite(t) \/ FillCache(t)
  <2>1. /\ pc[t] \in {"cache", "put"} /\ pc'[t] \in {"checkpoint", "found"}
        /\ data' = data /\ i \in Ids
        /\ pc[t] = "put" => FillCache(t)
    BY <1>4 DEF CacheWrite, FillCache, OpOK, WriteKinds, datav
  <2>2. \A j \in Ids : cache'[j] \in {NoRec, IF j = i THEN op[t].new ELSE cache[j]}
    <3>1. CASE cache' = [cache EXCEPT ![i] = NoRec]
      BY <3>1
    <3>2. CASE cache' \in CachePuts(i, op[t].new)
      BY <2>1, <3>2, CachePutsOnly
    <3> QED BY <1>4, <3>1, <3>2 DEF CacheWrite, FillCache
  <2> HIDE DEF i
  <2>3. \A u \in Threads : pc'[u] = "cache" =>
          /\ pc[u] = "cache" /\ u # t
          /\ data'[op'[u].id] = op'[u].new
    BY <1>2, <2>1 DEF CacheInv
  <2>4. ASSUME NEW j \in Ids, Stale(j)', ~Stale(j) PROVE LateFill(t, j)
    <3>1. CASE j = i
      <4>1. op[t].new # data[i]
        BY <2>1, <2>2, <2>4, <3>1 DEF Stale
      <4>2. pc[t] = "put"
        BY <2>1, <4>1 DEF CacheInv, i
      <4> QED BY <2>1, <3>1, <4>1, <4>2 DEF LateFill, i
    <3>2. CASE j # i
      <4>1. cache'[j] = cache[j] /\ cache[j] \notin {NoRec, data[j]}
        BY <2>1, <2>2, <2>4, <3>2 DEF Stale
      <4>2. \A u \in Threads : pc[u] = "cache" => op[u].id # j
        BY <1>2, <2>4, <3>2 DEF Stale, i
      <4> QED BY <2>4, <4>1, <4>2 DEF Stale
    <3> QED BY <3>1, <3>2
  <2> QED BY <1>1, <2>3, <2>4 DEF CacheInv, KeepsFresh
<1>5. CASE ClearCache(t)
  <2>1. /\ \A j \in Ids : cache'[j] = NoRec
        /\ data' = data /\ pc'[t] = "checkpoint"
    BY <1>5 DEF ClearCache, datav
  <2>2. \A j \in Ids : ~Stale(j)'
    BY <2>1 DEF Stale
  <2> QED BY <1>1, <1>2, <2>1, <2>2 DEF CacheInv, KeepsFresh
<1> QED BY <1>3, <1>4, <1>5

LEMMA CacheStep ==
  ASSUME ~Torn, MaxErrors = 0
  PROVE  TypeInv /\ FreshInv /\ LockInv /\ CacheInv /\ [Next]_vars
           => CacheInv' /\ (KeepsFresh \/ UNCHANGED vars)
<1> SUFFICES ASSUME TypeInv, FreshInv, LockInv, CacheInv, [Next]_vars
             PROVE  CacheInv' /\ (KeepsFresh \/ UNCHANGED vars)
  OBVIOUS
<1>1. CASE UNCHANGED vars
  BY <1>1 DEF vars, datav, walv, runv, thrv, CacheInv
<1>2. CASE Next
  <2>1. ~dataTorn' /\ ~walTorn'
    BY <1>2, TornStep DEF CacheInv
  <2>2. ASSUME NEW t \in Threads, Starts(t) \/ Steps(t)
        PROVE  CacheInv' /\ KeepsFresh
    BY <2>1, <2>2, QuietCache, WriteCache DEF Steps
  <2>3. ASSUME NEW t \in Threads, Fail(t) PROVE FALSE
    BY <2>3 DEF Fail, TypeInv, TypeOK, MemoryOK
  <2>4. CASE Close \/ Crash
    <3>1. \A i \in Ids : cache'[i] = NoRec
      BY <2>4 DEF Close, Crash, Down
    <3> QED BY <2>1, <2>4, <3>1 DEF Close, Crash, Down, CacheInv, KeepsFresh, Stale
  <2>5. CASE LoseIndex \/ Open \/ Recovers
    <3>1. mode # "up" /\ UNCHANGED <<cache, pc, op>>
      BY <2>5
         DEF LoseIndex, Open, Recovers, Replay, Replayed, RecoverIndex,
             RecoverCheckpoint, thrv
    <3>2. \A t \in Threads : pc[t] = "idle"
      BY <3>1 DEF FreshInv
    <3>3. \A i \in Ids : ~Stale(i)'
      BY <3>1 DEF CacheInv, Stale
    <3> QED BY <2>1, <3>1, <3>2, <3>3 DEF CacheInv, KeepsFresh
  <2> QED BY <1>2, <2>2, <2>3, <2>4, <2>5 DEF Next
<1> QED BY <1>1, <1>2

\* A cached record goes stale in one way only, by a get that puts what it read
\* before the record was last written (cache.py:18 "Explicit invalidation is
\* called by the collection on every write"): for any number of threads, with
\* gets among them, and through evictions, compaction, crashes and recoveries.
\* After an I/O error between the append and the refresh of the cache it is not
\* so, nor after an append to half a line.
THEOREM StaleByLateFillOnly ==
  ASSUME ~Torn, MaxErrors = 0
  PROVE  Spec => OnlyLateFills
<1> DEFINE Inv == TypeInv /\ FreshInv /\ LockInv /\ CacheInv
<1>1. Init => Inv
  BY TypeInit, FreshInit, LockInit, CacheInit
<1>2. Inv /\ [Next]_vars => Inv'
  BY TypeStep, FreshStep, LockStep, CacheStep
<1>3. Inv /\ [Next]_vars
        => [\A i \in Ids :
              Stale(i)' => Stale(i) \/ \E t \in Threads : LateFill(t, i)]_vars
  BY CacheStep DEF KeepsFresh
<1> QED BY <1>1, <1>2, <1>3, PTL DEF Spec, OnlyLateFills

-----------------------------------------------------------------------------
(* Unique fields.  on_update skips a field whose new value equals the old   *)
(* one as Python compares values, while the index files it by its str().    *)

\* Values that are equal have one str(), and None is not among them.
EqualKeys ==
  \A v \in Values, w \in Values \cup {Absent} :
    EqClass[v] = EqClass[w] => w # Absent /\ Key[v] = Key[w]

\* What update and delete hold when they come to the check, and that a write
\* that has passed it adds no clash.
ClashInv ==
  \A t \in Threads :
    /\ pc[t] \in {"log", "unindex"} =>
         /\ op[t].kind = "update" => op[t].old # NoRec
         /\ op[t].kind = "delete" => op[t].new = NoRec
    /\ pc[t] \in {"reindex", "append"} =>
         Clashes([data EXCEPT ![op[t].id] = op[t].new]) \subseteq Clashes(data)

\* An id that carries a value is filed under it.
LEMMA FiledUnder ==
  ASSUME NEW live \in [Ids -> Maybe], NEW f \in Fields, NEW v, NEW j \in Ids,
         live[j] # NoRec, Has(live[j], f), Key[live[j][f]] = Key[v]
  PROVE  j \in Lookup(IndexOf(live), f, v)
<1>1. <<f, Key[v], j>> \in Postings(j, live[j])
  BY DEF Postings
<1>2. <<f, Key[v], j>> \in IndexOf(live)
  BY <1>1 DEF IndexOf
<1> QED BY <1>2 DEF Lookup

\* A new version of i that passes the check clashes where the old one did.
LEMMA CheckedClash ==
  ASSUME EqualKeys, NEW live \in [Ids -> Maybe], NEW i \in Ids, NEW r \in Maybe,
         \A f \in Unique :
           r # NoRec /\ Has(r, f) =>
             \/ Lookup(IndexOf(live), f, r[f]) \subseteq {i}
             \/ live[i] \in Record /\ EqClass[r[f]] = EqClass[live[i][f]]
  PROVE  Clashes([live EXCEPT ![i] = r]) \subseteq Clashes(live)
<1> DEFINE new == [live EXCEPT ![i] = r]
<1>1. new[i] = r /\ \A j \in Ids \ {i} : new[j] = live[j]
  OBVIOUS
<1> HIDE DEF new
<1>2. ASSUME NEW j \in Ids \ {i}, NEW f \in Unique, r # NoRec, Has(r, f),
             live[j] # NoRec, Has(live[j], f), Key[r[f]] = Key[live[j][f]]
      PROVE  /\ live[i] # NoRec /\ Has(live[i], f)
             /\ Key[live[i][f]] = Key[r[f]]
  <2>1. j \in Lookup(IndexOf(live), f, r[f])
    BY <1>2, FiledUnder, IndexAssumption
  <2>2. live[i] \in Record /\ EqClass[r[f]] = EqClass[live[i][f]]
    BY <1>2, <2>1
  <2>3. r \in Record /\ f \in Fields
    BY <1>2, IndexAssumption DEF Maybe
  <2>4. r[f] \in Values /\ live[i][f] \in Values \cup {Absent}
    BY <1>2, <2>2, <2>3, RecordFacts DEF Record
  <2> QED BY <2>2, <2>4, RecordFacts DEF EqualKeys, Has
<1>3. ASSUME NEW j \in Ids, NEW k \in Ids, NEW f \in Fields,
             <<j, k, f>> \in Clashes(new)
      PROVE  <<j, k, f>> \in Clashes(live)
  <2>1. /\ j # k /\ f \in Unique /\ new[j] # NoRec /\ new[k] # NoRec
        /\ Has(new[j], f) /\ Has(new[k], f) /\ Key[new[j][f]] = Key[new[k][f]]
    BY <1>3 DEF Clashes
  <2>2. /\ live[j] # NoRec /\ live[k] # NoRec
        /\ Has(live[j], f) /\ Has(live[k], f)
        /\ Key[live[j][f]] = Key[live[k][f]]
    <3>1. CASE j = i
      BY <1>1, <1>2, <2>1, <3>1
    <3>2. CASE k = i
      BY <1>1, <1>2, <2>1, <3>2
    <3>3. CASE j # i /\ k # i
      BY <1>1, <2>1, <3>3
    <3> QED BY <3>1, <3>2, <3>3
  <2> QED BY <2>1, <2>2 DEF Clashes
<1> QED BY <1>3 DEF new, Clashes

LEMMA ClashInit == Init => ClashInv
  BY DEF Init, ClashInv

\* Outside AppendRecord and recovery no record changes.
LEMMA DataSame ==
  ASSUME NEW t \in Threads, Starts(t) \/ (Steps(t) /\ pc[t] # "append")
  PROVE  data' = data
<1>1. CASE Starts(t)
  BY <1>1, SMTT(30)
     DEF Starts, CallCreate, CallUpdate, CallDelete, CallMaintenance,
         CallGet, CallFind, datav
<1>2. CASE Steps(t) /\ pc[t] # "append"
  BY <1>2
     DEF Steps, AcquireCreate, AcquireExisting, NotFound, LogWrite, Reject,
         Unindex, Reindex, AppendRecord, CacheWrite, Checkpoint,
         AcquireMaintenance, Rewrite, ClearIndex, FillIndex, ClearCache,
         ReadRecord, FillCache, LoadLive, Answer, datav
<1> QED BY <1>1, <1>2

LEMMA StartsIdle ==
  ASSUME NEW t \in Threads, Starts(t)
  PROVE  pc[t] = "idle"
  BY DEF Starts, CallCreate, CallUpdate, CallDelete, CallMaintenance,
         CallGet, CallFind, CallWrite, Call

LEMMA OthersSame ==
  ASSUME TypeInv, NEW t \in Threads, Starts(t) \/ Steps(t)
  PROVE  \A u \in Threads \ {t} : pc'[u] = pc[u] /\ op'[u] = op[u]
<1> USE DEF TypeInv, TypeOK, ThreadsOK, Goto
<1>1. CASE Starts(t)
  BY <1>1, SMTT(30)
     DEF Starts, CallCreate, CallUpdate, CallDelete, CallMaintenance,
         CallGet, CallFind
<1>2. CASE Steps(t)
  BY <1>2
     DEF Steps, AcquireCreate, AcquireExisting, NotFound, LogWrite, Reject,
         Unindex, Reindex, AppendRecord, CacheWrite, Checkpoint,
         AcquireMaintenance, Rewrite, ClearIndex, FillIndex, ClearCache,
         ReadRecord, FillCache, LoadLive, Answer, Leave, Release
<1> QED BY <1>1, <1>2

LEMMA AppendOnly ==
  ASSUME NEW t \in Threads, Steps(t), pc[t] = "append"
  PROVE  AppendRecord(t)
  BY DEF Steps, AcquireCreate, AcquireExisting, NotFound, LogWrite, Reject,
         Unindex, Reindex, CacheWrite, Checkpoint, AcquireMaintenance,
         Rewrite, ClearIndex, FillIndex, ClearCache, ReadRecord, FillCache,
         LoadLive, Answer

\* A step that changes no record, of a thread that keeps or leaves its write.
LEMMA MoveClash ==
  ASSUME ClashInv, NEW t \in Threads, data' = data,
         \A u \in Threads \ {t} : pc'[u] = pc[u] /\ op'[u] = op[u],
         \/ pc'[t] \notin {"log", "unindex", "reindex", "append"}
         \/ pc[t] = "log" /\ pc'[t] = "unindex" /\ op'[t] = op[t]
         \/ pc[t] = "reindex" /\ pc'[t] = "append" /\ op'[t] = op[t]
  PROVE  ClashInv'
  BY DEF ClashInv

\* The check is made against an index that is exact.
LEMMA CheckClash ==
  ASSUME EqualKeys, TypeInv, IndexInv, ClashInv, NEW t \in Threads, Unindex(t)
  PROVE  Clashes([data EXCEPT ![op[t].id] = op[t].new]) \subseteq Clashes(data)
<1> USE DEF TypeInv, TypeOK, FilesOK, ThreadsOK
<1>1. /\ pc[t] = "unindex" /\ ~Duplicate(op[t])
      /\ memIdx = IndexOf(data) /\ op[t].old = data[op[t].id]
      /\ op[t].kind = "create" => op[t].old = NoRec
  BY DEF Unindex, IndexInv, Held, Reads, Exact
<1>2. /\ op[t].kind \in WriteKinds /\ op[t].id \in Ids /\ op[t].new \in Maybe
      /\ op[t].old \in Maybe /\ data \in [Ids -> Maybe]
  BY <1>1 DEF OpOK, Ops
<1>3. ASSUME NEW f \in Unique, op[t].new # NoRec, Has(op[t].new, f)
      PROVE  \/ Lookup(memIdx, f, op[t].new[f]) \subseteq {op[t].id}
             \/ /\ op[t].old \in Record
                /\ EqClass[op[t].new[f]] = EqClass[op[t].old[f]]
  <2>1. CASE op[t].kind = "create"
    BY <1>1, <1>3, <2>1 DEF Duplicate, DuplicateOnCreate, Taken
  <2>2. CASE op[t].kind = "update"
    <3>1. op[t].old \in Record
      BY <1>1, <1>2, <2>2 DEF ClashInv, Maybe
    <3> QED
      BY <1>1, <1>3, <2>2, <3>1 DEF Duplicate, DuplicateOnUpdate, Taken
  <2>3. CASE op[t].kind = "delete"
    BY <1>1, <1>3, <2>3 DEF ClashInv
  <2>4. op[t].kind \in {"create", "update", "delete"}
    BY <1>2 DEF WriteKinds
  <2> HIDE DEF TypeInv, TypeOK, FilesOK, ThreadsOK
  <2> QED BY <2>1, <2>2, <2>3, <2>4
<1> HIDE DEF TypeInv, TypeOK, FilesOK, ThreadsOK
<1>4. \A f \in Unique :
        op[t].new # NoRec /\ Has(op[t].new, f) =>
          \/ Lookup(IndexOf(data), f, op[t].new[f]) \subseteq {op[t].id}
          \/ /\ data[op[t].id] \in Record
             /\ EqClass[op[t].new[f]] = EqClass[data[op[t].id][f]]
  BY <1>1, <1>3
<1> QED BY <1>2, <1>4, CheckedClash

LEMMA ThreadClash ==
  ASSUME EqualKeys, TypeInv, LockInv, IndexInv, ClashInv, NEW t \in Threads,
         Starts(t) \/ Steps(t)
  PROVE  ClashInv' /\ Clashes(data') \subseteq Clashes(data)
<1> USE DEF TypeInv, TypeOK, FilesOK, ThreadsOK, Goto
<1>1. \A u \in Threads \ {t} : pc'[u] = pc[u] /\ op'[u] = op[u]
  BY OthersSame
<1>2. CASE AppendRecord(t)
  <2>1. /\ pc[t] = "append" /\ pc'[t] = "cache"
        /\ data' = [data EXCEPT ![op[t].id] = op[t].new]
    BY <1>2 DEF AppendRecord, Append_data, IndexInv
  <2>2. Clashes(data') \subseteq Clashes(data)
    BY <2>1 DEF ClashInv
  <2>3. \A u \in Threads \ {t} : pc[u] \notin Inside
    BY <2>1 DEF LockInv, Inside
  <2>4. \A u \in Threads :
          pc'[u] \notin {"log", "unindex", "reindex", "append"}
    BY <1>1, <2>1, <2>3 DEF Inside
  <2> QED BY <2>2, <2>4 DEF ClashInv
<1>3. CASE Starts(t) \/ (Steps(t) /\ pc[t] # "append")
  <2>1. data' = data
    BY <1>3, DataSame
  <2>2. ClashInv'
    <3>1. CASE Starts(t)
      <4>1. pc'[t] \in {"acquire", "found", "read", "load"}
        BY <3>1
           DEF Starts, CallCreate, CallUpdate, CallDelete, CallMaintenance,
               CallGet, CallFind
      <4> QED BY <1>1, <2>1, <4>1, MoveClash
    <3>2. CASE AcquireCreate(t) \/ AcquireExisting(t)
      <4>1. /\ op'[t].kind = "update" => op'[t].old # NoRec
            /\ op'[t].kind = "delete" => op'[t].new = NoRec
        <5>1. CASE AcquireCreate(t)
          BY <5>1 DEF AcquireCreate
        <5>2. CASE AcquireExisting(t)
          <6> DEFINE i == op[t].id
                     new == IF op[t].kind = "update"
                              THEN Patched(data[i], op[t].arg) ELSE NoRec
                     r == Request(op[t].kind, i, op[t].arg, new, {})
          <6>1. op'[t] = [r EXCEPT !.old = data[i]] /\ data[i] # NoRec
            BY <5>2 DEF AcquireExisting
          <6>2. /\ [r EXCEPT !.old = data[i]].old = data[i]
                /\ [r EXCEPT !.old = data[i]].new = new
                /\ [r EXCEPT !.old = data[i]].kind = op[t].kind
            BY DEF Request
          <6> QED BY <6>1, <6>2
        <5> QED BY <3>2, <5>1, <5>2
      <4>2. pc'[t] = "log"
        BY <3>2 DEF AcquireCreate, AcquireExisting
      <4> QED BY <1>1, <2>1, <4>1, <4>2 DEF ClashInv
    <3>3. CASE LogWrite(t) \/ Reindex(t)
      BY <1>1, <2>1, <3>3, MoveClash DEF LogWrite, Reindex
    <3>4. CASE Unindex(t)
      <4>1. pc'[t] = "reindex" /\ op'[t] = op[t]
        BY <3>4 DEF Unindex
      <4> QED BY <1>1, <2>1, <3>4, <4>1, CheckClash DEF ClashInv
    <3>5. CASE \/ NotFound(t) \/ Reject(t) \/ CacheWrite(t) \/ Checkpoint(t)
               \/ AcquireMaintenance(t) \/ Rewrite(t) \/ ClearIndex(t)
               \/ FillIndex(t) \/ ClearCache(t)
      <4>1. pc'[t] \notin {"log", "unindex", "reindex", "append"}
        BY <3>5
           DEF NotFound, Reject, CacheWrite, Checkpoint, AcquireMaintenance,
               Rewrite, ClearIndex, FillIndex, ClearCache, Leave, Release
      <4> QED BY <1>1, <2>1, <4>1, MoveClash
    <3>6. CASE ReadRecord(t) \/ FillCache(t) \/ LoadLive(t) \/ Answer(t)
      <4>1. pc'[t] \notin {"log", "unindex", "reindex", "append"}
        BY <3>6 DEF ReadRecord, FillCache, LoadLive, Answer, Leave
      <4> QED BY <1>1, <2>1, <4>1, MoveClash
    <3> QED
      BY <1>3, <3>1, <3>2, <3>3, <3>4, <3>5, <3>6 DEF Steps, AppendRecord
  <2> QED BY <2>1, <2>2
<1>4. Steps(t) /\ pc[t] = "append" => AppendRecord(t)
  BY AppendOnly
<1> QED BY <1>2, <1>3, <1>4

LEMMA ClashStep ==
  ASSUME NoFaults, EqualKeys
  PROVE  TypeInv /\ FreshInv /\ LockInv /\ IndexInv /\ ClashInv /\ [Next]_vars
           => ClashInv' /\ (mode = "up" => Clashes(data') \subseteq Clashes(data))
<1> SUFFICES ASSUME TypeInv, FreshInv, LockInv, IndexInv, ClashInv, [Next]_vars
             PROVE  /\ ClashInv'
                    /\ mode = "up" => Clashes(data') \subseteq Clashes(data)
  OBVIOUS
<1>1. CASE UNCHANGED vars
  BY <1>1 DEF vars, datav, thrv, ClashInv
<1>2. ASSUME NEW t \in Threads, Fail(t) PROVE FALSE
  BY <1>2 DEF Fail, NoFaults, TypeInv, TypeOK, MemoryOK
<1>3. CASE Close \/ Crash
  BY <1>3 DEF Close, Crash, Down, ClashInv
<1>4. CASE LoseIndex \/ Open \/ Recovers
  <2>1. mode # "up" /\ UNCHANGED <<pc, op>>
    BY <1>4
       DEF LoseIndex, Open, Recovers, Replay, Replayed, RecoverIndex,
           RecoverCheckpoint, thrv
  <2>2. \A t \in Threads : pc[t] = "idle"
    BY <2>1 DEF FreshInv
  <2> QED BY <2>1, <2>2 DEF ClashInv
<1> QED BY <1>1, <1>2, <1>3, <1>4, ThreadClash DEF Next

\* While the collection is up, no operation makes two live records share a
\* value of a unique field (indexes.py's check_unique, under the lock), after
\* whatever crashes and recoveries; a recovery itself may.
THEOREM NoClashByClients ==
  ASSUME NoFaults, EqualKeys
  PROVE  Spec => ClientsAddNoClash
<1>1. Init => TypeInv /\ FreshInv /\ LockInv /\ IndexInv /\ ClashInv
  BY TypeInit, FreshInit, LockInit, IndexInit, ClashInit
<1>2. TypeInv /\ FreshInv /\ LockInv /\ IndexInv /\ ClashInv /\ [Next]_vars
        => (TypeInv /\ FreshInv /\ LockInv /\ IndexInv /\ ClashInv)'
  BY TypeStep, FreshStep, LockStep, IndexStep, ClashStep
<1>3. TypeInv /\ FreshInv /\ LockInv /\ IndexInv /\ ClashInv /\ [Next]_vars
        => [mode = "up" => Clashes(data') \subseteq Clashes(data)]_vars
  BY ClashStep
<1> QED BY <1>1, <1>2, <1>3, PTL DEF Spec, ClientsAddNoClash
=============================================================================

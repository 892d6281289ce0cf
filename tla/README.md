# PyroDB in TLA+

A verification development for PyroDB (`src/pyro_db/`), an embedded document
database in pure Python: JSONL data files, a write-ahead log, an inverted
index, an LRU cache, thread and file locks, transactions, optional encryption.

* `*.tla`, `*.cfg`: the modules and the TLC configurations.
* `PROJECT.json`: components, runs, mutants, the map from definitions to
  source lines, findings, hazards, theorems.

## 1. Inventory

| Component (file) | State | Operations | Talks to | Hard because of |
|---|---|---|---|---|
| `Collection` (collection.py) | none of its own but the parts below | create, update, delete, get, filter, compact, rebuild_index, drop, transaction, `_recover` | all of the parts below | locked and unlocked steps in one operation; crash or error between two steps |
| `_IDCounter` (collection.py) | `_value`, `<name>_id.json` | next | Collection | drawn outside the collection lock |
| `StorageEngine` (storage.py) | `<name>.data` | append_record, read_record, load_live, compact | utils, Encryptor | torn last line; deleted records until compaction |
| `WAL` (wal.py) | `wal.log`, shared by all collections | log_*, pending_entries, compact | utils, Encryptor | entries of rejected and failed writes; compaction against appends |
| `IndexManager` (indexes.py) | `_data`, `<name>.index` | on_create, on_update, on_delete, check_unique, lookup, rebuild | utils, Encryptor | the one in memory, the one on disk and the data file must agree; read without the lock |
| `LRUCache` (cache.py) | `_store` in recency order, hits, misses | get, put, invalidate, clear, warm | Collection | filled outside the collection lock; capacity |
| `CollectionLock`, `DatabaseLock` (locks.py) | RLock and flock on a file | read, write; acquire | Collection, Database | two layers, polling with a timeout, the file unlinked by drop |
| `_TransactionBuffer` (collection.py) | buffered operations, committed, rolled back | create, update, delete, commit, rollback | Collection | partial failure, isolation, crash |
| `Database` (core.py) | `_collections`, metadata.json | collection, drop_collection, compact_all, close | Collection, WAL, DatabaseLock | duplicate instances, metadata written whole |
| `Schema`, `Field` (schema.py) | none | apply_defaults, validate | Collection | order of checks, partial patches, custom validators |
| `QueryResult` (query.py) | filters, order, window | all, first, count, exists, pluck | Collection | mixed types, missing fields, order of filter, sort, offset, limit |
| `Encryptor` (encryption.py) | key | encrypt, decrypt | storage, WAL, index | wrong key reads as corruption |
| `utils`, `exceptions` | none | atomic_write, atomic_append, ... | everything | an append is not atomic |

What makes each correct:

* **Collection**: a durable map. Every operation takes effect once or not at
  all, updates of one record do not lose each other's fields, ids are never
  used twice, what is logged survives a crash.
* **Index**: exact for the live records whenever no writer is at work; a
  unique value belongs to one record.
* **Cache**: never stale; bounded; gives up the least recently used entry.
* **Log and recovery**: nothing logged is forgotten, nothing is applied over
  something newer; recovery can itself crash.
* **Locks**: one writer at a time, released whatever happens.
* **Transactions**: what lands is what was buffered, in order and once.
* **Schema and queries**: what is stored satisfies the schema, whatever
  sequence of creates and patches led there; a query returns the records that
  match, sorted, and its pages put together are the whole of it.
* **Database**: collections share a log and must not harm each other's entries;
  what has records is registered; what is dropped is gone; whoever opens a
  directory can read it.
* **Several instances** over one set of files: the writes of one do not undo
  those of another.

The hazards, each at its line and with the properties that cover it, are in
`PROJECT.json`.

## 2. Modules

```
FieldIndex ----------> RecordStore  (abstract: what a collection promises)
   |                        ^
   |                        | Store == INSTANCE RecordStore WITH ...
   +--> Collection ---------+
           |---> LogCompaction --> MCLogCompaction   (TLC)
           |---> Transaction ----> MCTransaction     (TLC)
           |---> Lookup ---------> MCLookup          (TLC)
           |---> MCCollection                        (TLC)
           \---> CollectionProofs                    (TLAPS)
FieldValues --> Schema --\
          \---> Query ----+--> Records --> MCRecords  (TLC)
Subsequence ---/                   \--> RecordsProofs (TLAPS)
Database -----> MCDatabase                           (TLC)
           \--> DatabaseProofs                       (TLAPS)
Processes ----> MCProcesses                          (TLC)
           \--> ProcessesProofs                      (TLAPS)
FileLock -----> MCFileLock                           (TLC)
           \--> FileLockProofs                       (TLAPS)
Subsequence --> LruCache ----> LruProofs             (TLAPS)
BoundedCache <----/
```

`SubsequenceProofs` has the lemmas about Subsequence that RecordsProofs and
LruProofs share.

Theorems about a Collection, each module extending those before it:

```
CollectionProofs (types, ids, lock, index, cache, unique fields)
           \--> CallerProofs (recovery and RecordStore, with LogCompaction;
                              Lookup; Transaction)
```

Three views of a collection share the work. `Collection` is one instance with
all of its parts and threads, down to the single file write. `Records` has many
records, their values, the schema and the queries, and takes a write under the
lock as one step. `Database` and `Processes` have several collections, or
several instances of one, and leave index and cache out.

**FieldIndex** is indexes.py as operators. A record is a function from user
fields to values or `Absent`; the index is a set of triples `<<field, key,
id>>`. `Key` stands for `str()` and `EqClass` for Python's `==`, because
`check_unique` files by one and `on_update` compares by the other. The order of
a posting list is abstracted: `LoadLive` may return any of its live ids.

**Collection** is one collection opened by one process.

| Variable | Code |
|---|---|
| `data`, `dataTorn` | `<name>.data`: latest version of each id (`NoRec` if none or deleted); the file ends in half a line |
| `wal`, `walTorn` | entries of this collection in `wal.log` since its last CHECKPOINT; half a line at its end |
| `diskIdx`, `memIdx` | `<name>.index`, `IndexManager._data` |
| `cache` | `LRUCache._store` as a map |
| `counter` | `_IDCounter._value`, equal to its file: `next` writes it before it returns |
| `lock` | the thread inside `CollectionLock` |
| `pc`, `op` | where each thread is and the locals of its operation |
| `mode`, `rq` | up, down or a phase of `_recover`; the entries still to replay |
| `restarts`, `errors` | bounds |

A write is `Call*` (the id is drawn here, outside the lock), `Acquire*` (lock
taken; update and delete read the stored version), `LogWrite`, then `Reject` or
`Unindex`, `Reindex` (and flush), `AppendRecord`, `CacheWrite`, `Checkpoint`
(and release). Update and create have the same shape, and a create has no old
postings to take out. Recovery is `Open`, `Replay` per entry, `RecoverIndex`,
`RecoverCheckpoint`. `Fail` is an OSError in any of the file writes: the line
may be missing, there in part or there in whole. `Crash` may come between any
two steps and cut a write short. The invalidate and the put at the end of an
update are one step: what lies between them is a cache miss.

Within a process the RLock is taken before the file lock and by readers too, so
the file lock is always free for its holder, its timeout cannot pass, and one
variable `lock` stands for both. The short read sections are single steps that
need `lock = Free`.

An error in recovery leaves `Collection.__init__` by an exception: no
collection is up, which is what `Crash` in that mode gives. A half line that is
complete but for its newline is not distinguished from other half lines.

**RecordStore** is the promise: ids issued in order, each used for one record
at most; insert, update of the patched fields, delete; creates that had drawn
an id may be forgotten. No log, files, index, cache or crashes. It says nothing
of unique fields and I/O errors; `StoreOutsideDoubt` says which records these
and compact_all exempt.

**Lookup** adds to Collection a history of each lookup by value: which records
matched in every state of the call, which in some, and which had a writer at
work on their postings when it began.

**LogCompaction** adds `Database.compact_all` to a Collection: one thread, the
`compactor`, calls the collection's own compact (`CallCompactAll`, then the
steps of Collection), reads the pending entries (`ReadLog`) and replaces the log
by them (`ReplaceLog`). It holds the database lock, which stops another
compact_all and nothing else: writers append between these two steps, in the
model as in the code. `doubt` is history: the ids whose entries in the log may
say something else than what the writers did. A replacement that undoes what was
appended since the reading puts the ids of both versions of the log there
(`Late`), a write that raises once it is logged puts its own (`Refused`,
`Raising`), and nothing is in doubt as soon as the log is empty while the lock is
free. With one collection the log has entries of that collection only; since its
own compact has just written a checkpoint, what is pending when the log is read
is the entry of a write that is under way or has just been rejected.

**Transaction** adds a block per thread to Collection: `txn[t]` has the fields of
`_TransactionBuffer`, the position of the loop of `commit`, and where the thread
is. `Apply` hands the next buffered operation to Collection, whose steps then run
it as they run a direct call; `Applied` and `Breaks` are its last step when it
returns and when it raises. A block may call `commit` and `rollback` itself
(`InBlock`), catch what they raise, and go on: a commit that has failed leaves
the block open, and the next one starts again from the first operation. Threads
do nothing but run blocks, because a block of one operation is a direct call.
`outcome`, `tried` and `landed` are history: how the block was left, whether it
has started a commit, and the entries its last commit has logged.

**FileLock** is locks.py below the variable `lock`: `rlock` per CollectionLock
object, `path` and `files` for the lock file (a number per file, as for an inode),
`handles` for the descriptors each thread has open, from the outermost block
inwards. A block goes `Enter`, `TakeRLock`, `Touch`, `Open` (or `OpenFails`: read
opens for reading, and the file may be gone), then `Lock` or `TimeOut`, and
`Leave`. `Lock` is the attempt that succeeds, `TimeOut` the failed attempt after
the deadline; time itself is left out, so a wait may be cut short at any failed
attempt. `EnterAgain` is the nested block of a validator that calls its own
collection (the RLock lets it in, the file lock does not), and `Unlink` the end
of drop. Each object is taken to live in a process of its own, so that `Die`
closes its descriptors. DatabaseLock is the same code on another file.

**LruCache** is cache.py: every method holds the mutex from beginning to end and
is one action; the OrderedDict is a sequence, least recently used first
(**Subsequence**: what is left of it when some keys go); `warm` is its sequence of
puts, as one thread runs it, and `WarmInto` what that makes of the cache, by a
recursive function over the batch. **BoundedCache** is what
Collection uses of it (the same choice of eviction as Collection's `CachePuts`).
One mutex-protected structure has no interleavings to search, and what is said
of it is proved for every size, so there is no run for it.

**FieldValues**, **Schema** and **Query** are schema.py and query.py as
operators. A value is None, an integer or a string; a string is a sequence of
numbers in the order of code points. Floats, lists and the other types of
JSON, and Python's equality across types, are left out. `Errors` is the set of
the checks that failed, `Test` the answer of a predicate: yes, no, or that it
raises TypeError. `Sorted` is the set of lists that `_execute` may leave, since
a sort that raises leaves the list in any order before the sort by `str()`
starts on it. `StableSort` puts each record at the place that the number of those
before it gives (`Ordering`, `Place`), which says what a stable sort returns and
not how it gets there.

**Records** is a collection with a schema. `table` is `load_all()`, in the order
in which a dict keeps its keys; a deleted record stays in it until `Compact`.
Calls are taken apart at each item of a `_many` call, and at the id of a create,
which is drawn before the lock; what happens under the lock is one step. The
unique fields, the log and crashes are left to `Collection`. The reader of
`StartWalk`, `NextPage`, `EndWalk` is the program that pages through the
collection: `filter().offset(k).limit(n)` with growing `k`, a new snapshot each
time. The live records are the `Keep` of the file at some of its lines, and so is
what a filter leaves of them. `walk` also notes which records have been live
throughout, `reported` what finished deletes have returned; `took` and `told` are
history, the ids deleted by each call under way and by those that have ended.

**Database** is core.py: `OpenKey`, `SaveSalt`, `LoadMetadata`; `collection()` as
`CallCollection`, `Build`, `RecoverCheckpoint`, `Register`; a create as
`CallCreate`, `LogCreate`, then `Reject` or `AppendRecord`, `WriteCheckpoint`;
`drop_collection` as `CallDrop`, `UnlinkData`, `UnlinkCounter`, `Unregister`;
compact_all and stats as `CallAll`, then `Each` collection with `CompactOne`,
`CompactCheckpoint`, then `CompactLog`. The process can die between any two (`Stop`). A key is what it was derived from, a
line is known by the key it was written with, and a line that cannot be read is
skipped, as storage.py:119 and wal.py:210 do. `rows` and `log` are sets: of a
file, the lines that are the last of their id for those who can read them, since
`load_all` and `pending_entries` make nothing of the earlier ones (`Write`), and
of the log, without what a later CHECKPOINT covers. A record is good, invalid for the schema, or a duplicate of a
unique value; which of these an instance refuses depends on what it was opened
with (`Accepts`). `life` counts the drops of a name, and `logged` has what was
logged and not refused since the last one.

**Processes** has several Collection objects over one set of files, with a
counter each, in one process or in several: the descriptor that holds the lock
file is an object's own, so that two objects in one process exclude each other
as two processes do. A write is `Call*`, `Timeout` or `Acquire` (with the read of
the stored version), `LogWrite`, `AppendRecord`, `Checkpoint`; an open is `Open`,
`Replay` per entry, `RecoverCheckpoint`, and takes no lock. `outcomes[i]` is the
set of what the writes so far may have made of record `i`: an interrupted write
may or may not have happened, until a replay decides.

## 3. Runs

Values, ids and threads are few because each hazard needs few: two threads for
a race, two ids for a clash of unique values, two values to change from one to
the other, a cache of one entry so that it is always full, two restarts so that a
recovery can crash and be repeated. `MaxPending` is checked before an operation
starts, so that with a bound of one two threads still get two entries into the
log, of two ids or of one, and replay has an order.

Runs that pass:

| Run | Instance | Shows |
|---|---|---|
| `collection_core` | 2 threads, all writes, maintenance and both kinds of get, unique field `u` and a plain one, 2 restarts | `IndexExact`, `ReplayLands`, `FoundWasThere`, `MissIsExcused`, `ClientsAddNoClash`, `OnlyLateFills` |
| `collection_store` | 2 threads, writes, compact and compact_all, creates of one unique value, updates of a plain field, 2 restarts, an I/O error, lost index files, fairness | `TypeOK`, `IdsNeverReused`, `StoreOutsideDoubt`, `LockReleased`, `RecoveryEnds` |
| `transaction` | 2 threads, blocks of 2 creates, updates or deletes, unique field, 1 restart, torn lines | `CommitsInOrder`, `BufferedIdsFresh` |
| `file_lock` | 2 threads of one process, 1 of another, 1 drop, 1 death, fairness | `TypeOK`, `ExclusiveOnPath`, `PollEnds`, `RLockReleased` |
| `records` | a writer, a user of the _many calls and a reader; 3 fields, 2 ids, pages of 1, 2 items per call | `StoredValid`, `DeletesCounted`, `WalkSound`, `TypedAnswers`, `SortedRight`, `PagesPartition`, `ExistsAgrees` |
| `database` | 1 handle, 2 collections, with and without a password, 2 ids, 1 drop each, 2 closes or deaths | `OpenedReadsAll`, `LoggedLands`, `RecordsRegistered`, `DroppedStaysGone` |
| `processes` | 2 instances, one creating, 2 fields, 2 ids, 3 closes or deaths | `WritesKept`, `DrawnIsNew` |

Why some instances leave something out: the properties they check are false
with it, as a run below shows, or the change of constants named here. The changes are
made in a copy of the configuration; where a configuration has one thread, the
SYMMETRY line goes.

* `ClientsAddNoClash` says that no *operation* adds a clash of unique values.
  Recovery can add one (`rejected_write`). So can an update between equal values
  of different `str()`, such as `1` and `True`: it skips the check
  (indexes.py:276) and files the record under a key that may be taken. To see it,
  set `EqClass <- MCEqualValues` and `MaxRestarts = 0` in `rejected_write.cfg`.
* `OnlyLateFills` says that a cached record goes stale in one way only: a get by
  id puts it into the cache after it has released the lock, and it was written
  in between (collection.py:912). That this happens, against cache.py:19 "so the
  cache never serves stale data", is what `stale_cache` shows. An I/O error between
  the append and the refresh of the cache leaves the cached version stale too;
  `collection_core` has none.
* A lookup by value may miss a record that is there all along, although an
  update of another field of it is all that happens; `MissIsExcused` says exactly
  when: that update or a rebuild had taken its postings out. `FoundWasThere` says
  that what a lookup does return had the value at some moment of the call. It
  need not have it any more in the version that is returned, since the ids are
  read without the lock and the records under it.
* An I/O error after the index has moved leaves it different from the data file,
  so `collection_core` has none.
* `ReplayLands` needs untorn files: recovery appends to a file that may end in
  half a line, which makes one corrupt line of that half and the record that
  is replayed, and then writes the checkpoint (utils.py:131 "Incomplete trailing
  lines are ignored during reads"). Set `Torn = TRUE` in `collection_core.cfg`. `IndexExact` needs an index
  file that is not lost: `_load` falls back to an empty index "which triggers a
  rebuild" (indexes.py:100), but nothing rebuilds it when no entry is pending. To
  see it, set `MayLoseIndex = TRUE` in `collection_core.cfg`.
* `StoreOutsideDoubt` says nothing of the records in doubt. While compact_all
  rewrites the log, the entry of a write logged between the two steps is lost,
  and a checkpoint written there is undone, after which a recovery replays an old
  version over a newer one. wal.py:278-279 promises the contrary ("while still
  preserving any operations that have not yet been checkpointed"), and no lock
  keeps the writers out. Likewise a write that raises once it is logged (a
  duplicate, an I/O error) has failed for its caller and is replayed. It needs
  untorn files. To see the doubt at work, check `ImplementsStore` in
  `collection_store.cfg`: it is `StoreOutsideDoubt` without the exemption, and
  fails.
* `ExclusiveOnPath` lets two writers in at once when a drop has removed the file
  one of them holds or waits for: a newcomer creates and locks another. It says
  that this is the only way.
* `transaction` has no I/O errors, for its size: in a commit `Fail` does what
  `Reject` does to the block, which is that it `Breaks`.
* A commit is not atomic, although README.md:282 of the repository says that "any
  exception rolls back the entire batch": the operations before the one that
  raises stay, and so does what a crash has let through. `AllOrNothing` states
  that promise; set `InBlock = FALSE` in `transaction.cfg` and check it.
* `CommitsInOrder` speaks of the last commit a block started. A block that
  catches the failure of an earlier one repeats its operations.
* `SortedRight` says nothing of where a descending sort puts the records without
  a value. The documentation does: at the end, regardless of direction
  (query.py:179, :251); that is `MissingLast`, and `descending_sort` shows it
  violated. `SortedRight`, `PagesPartition` and `ExistsAgrees` leave out the
  sorts that fall back to `str()`, which may order ties differently each time.
  `exists` may also answer yes where `all` raises, since it stops at the first
  record that matches.
* `TypedAnswers` is about fields of one type, int or str. A field of type dict has
  one type too, and its values have no order.
* `Field(default=None)` is a default of None, and makes the field not required,
  although schema.py:57 says "Use None to mean no default"; `Field` follows the
  code.
* `OpenedReadsAll` holds with one password (`wrong_password` has two) and one
  handle at a time. With `Handles = {h1, h2}` two that open a new directory draw
  two salts, the first of which is overwritten (core.py:150-155); and
  `RecordsRegistered` fails because each saves its own copy of the metadata.
  A blob with another salt than the handle's is decrypted with a key derived
  from the key and not from the password (encryption.py:242), and so never.
* `LoggedLands` and `DroppedStaysGone` cover instances that compact_all or stats
  have opened, without schema and unique fields (core.py:368, :398). From then on
  `collection` returns that instance, and what the program declares is ignored.
* `DroppedStaysGone`: drop writes no checkpoint, so that the pending entry of a
  refused duplicate is replayed into the next collection of the name. A death
  in the middle of a drop can leave the .index file, whose values stay reserved.
* `WritesKept` needs opens while nobody writes (`QuietOpens`): recovery takes no
  lock, so it may replay the entry of a write that is still running after
  another write has replaced its result. Set `QuietOpens = FALSE` in
  `processes.cfg`. It lets an interrupted write happen or not, because the next
  checkpoint of another instance covers the entry of one that has died, which is
  then never replayed, although wal.py:7 promises that it is. `DrawnIsNew` needs a single creating instance (`two_writers`).
  The index and the cache of an instance are not told of the writes of others:
  over several instances, uniqueness is not kept, `get` by value can miss, and
  `get` by id can return what has been replaced.

Bounds of the last three: an update, a delete and a create, or two items of one
`_many` call, are what two records need to change their order, and pages of one
record make every step of the reader a possible gap. Two collections show what
one does to the entries of the other, and one drop with two deaths covers a death
within the drop and one in the recovery that follows. Three deaths let two
instances be interrupted on the same record and the recovery as well. `processes`
was also run with three instances and one death.

Deadlock is checked in every run.

Liveness (`LockReleased`, `RecoveryEnds` of `collection_store`) assumes weak fairness of each thread's next step
and of recovery, which is the scheduling of the interpreter and no more. No
call, crash, error or close is fair. Waiting for the lock is not claimed to
end: the RLock gives no order to its waiters, and the property is that the
holder leaves. `RecoveryEnds` allows the process to die instead. `file_lock`
assumes weak fairness of each thread outside of `Enter` and `EnterAgain`: attempts
are repeated (locks.py:84-90) until one of `Lock` and `TimeOut` happens, and the
code in a block ends. That a wait for the file ends in the lock is not claimed:
readers of other processes can overlap for ever, and no attempt may fall between
them.

Runs that fail, each against a sentence of the documentation (quoted under
`findings`):

| Run | Violates | What happens |
|---|---|---|
| `rejected_write` | `UniqueLive` | the entry of a rejected create is replayed at the next open |
| `stale_cache` | `CacheFresh` | a get caches the version it read before an update, after the update is over |
| `two_writers` | `DrawnIsNew` | two instances draw the same id from their own counters; the later record replaces the earlier |
| `wrong_password` | `OpenedReadsAll` | the mode of metadata.json is all that is compared; every line reads as corrupt, and a compaction removes it |
| `descending_sort` | `MissingLast` | the reverse of a descending sort brings the records without a value to the front |

## 4. Proofs

The theorems hold for every set of threads, instances, fields, values and
names, every bound and every mix of operations. Their constants are only typed
(`IndexAssumption`, `CollectionAssumption`, `FileLockAssumption`,
`ProcessesAssumption`, `DatabaseAssumption`, `RecordsAssumption`,
`QueriesAssumption`, and `LruAssumption`, which the theorems about the record
cache state as a hypothesis); where a theorem needs more, the
hypothesis is in its statement, it is one under which the code is meant to work,
and section 3 says what happens without it. Each rests on an inductive invariant,
which TLC has checked on a small instance before it was proved.

**A collection** (`CollectionProofs`):

* **TypeCorrect**: `Spec => []TypeOK`. `TypeOK` is not inductive: that
  `Reindex` files a record, or that `Patched` yields one, depends on which
  operation can be where. `OpOK` says that, and `TypeInv == TypeOK /\ OpOK` is
  inductive.
* **IdsAreFresh**: `Spec => []IdsNeverReused`. An id is *fresh* while the
  create that drew it has not logged it, and *known* if it has been drawn and
  is not fresh. `FreshInv` says that everything stored, cached, pending, to be
  replayed or in the hands of a thread is known, and that fresh ids are drawn
  and distinct. Drawing makes an id fresh that was known to nobody, because
  known ids are at most the counter; logging (`EntryFresh`) makes it known; all
  other steps only copy known ids (`MoveFresh`). Crashes, torn lines and I/O
  errors are included.
* **MutualExclusion**: at most one thread is between taking and leaving the
  lock. `LockInv` ties `lock` to `pc`.
* **IndexIsExact**: `Spec => []IndexExact`, assuming `NoFaults`: no lost index
  file, no torn line, no I/O error. Between the steps of a write the index is
  exact up to the postings of the record being written; after a crash it is not,
  and is again when recovery has rebuilt it. `IndexInv` says what holds at each
  location and in each mode; in particular while the collection is down an index
  that is not exact implies a pending entry, so that recovery will run.
* **StaleByLateFillOnly**: `Spec => OnlyLateFills`, an action property, assuming no
  torn line and no I/O error; gets run among the writers. `CacheInv` says that
  the writer about to refresh the cache puts there what is stored, and that there
  is nothing in the cache of a collection that is down. `KeepsFresh` then holds of
  each action; the cases that matter are the append, whose writer comes to the
  cache next, eviction, which changes no entry that stays (`CachePutsOnly`), and
  the late fill, which is the exception.
* **NoClashByClients**: `Spec => ClientsAddNoClash`, an action property,
  assuming `NoFaults` and `EqualKeys`: values that `on_update` takes for equal
  have one `str()`. `ClashInv` carries the result of the check, made in
  `Unindex`'s and `Reject`'s step, to the append two steps later: the version to
  be written clashes where the stored ones do already. It needs `IndexInv` for
  the check to see every live record, and `LockInv` for nothing to change between.

**Recovery and the record store** (`CallerProofs`, first part):

* **RecoveryLands**: `Spec => []ReplayLands`, assuming untorn files. `ReplayInv`
  is that of the log some n entries have been replayed, and what is stored under
  an id is what the last of these n says; `After` is the data file with a log
  replayed into it. A recovery that dies starts again with n = 0.
* **CollectionImplementsStore**: `Spec => ImplementsStore`, the refinement of
  `RecordStore`, assuming `NoLoss`: no torn line, no I/O error, no unique fields
  (a rejected or failed write is in the log, so that recovery repeats what the
  caller was told had failed). `LogInv` says what the log holds wherever the
  thread in the lock is: nothing before `LogWrite`, that one entry after it.
  From it each step maps to one of the store (`LogWrite` is insert, update or
  delete, the call of a create draws its id, crashes forget the drawn ids) or to
  a stutter: compaction, replay, the cache and the checkpoint do not change
  `Recovered`.
* **CompactAllKeepsStore**: `LogSpec => StoreOutsideDoubt`, assuming untorn files and
  nothing else: with I/O errors, lost index files, unique fields, and appends at any
  moment of compact_all. `DoubtInv` says that for an id outside of doubt a recovery
  would leave what is stored, or what the thread that has just logged it is about
  to store (`Settled`), and that what an update is about to log was made from
  what is stored. A step that changes `Recovered` for an id outside of doubt is then one of
  the store's; `ReplaceLog` changes it for ids in `Late` only.

**Lookups** (`CallerProofs`, second part), with `NoFaults` and `OneField` (get takes one
field=value pair, collection.py:446):

* **FoundThere**, **MissesExcused**: `LookupSpec => []FoundWasThere` and
  `[]MissIsExcused`. `Told` compares what the index has answered with what the
  history has seen: an id in the answer matched at some moment or is being given
  the value by the write about to be appended; one that matched throughout is in
  the answer, had its postings out, or is about to lose the value. The append
  turns each second case into the first. `IndexInv` supplies where the index can
  be ahead of the file or behind it.

**Transactions** (`CallerProofs`, third part), with no hypothesis at all:

* **WaitingIdsFresh**: `TxnSpec => []BufferedIdsFresh`. `BlockInv`: every id in
  use or in a block is at most the counter, and until its first commit an id of a
  block is used by nobody and in no other block.
* **CommitsKeepOrder**: `TxnSpec => []CommitsInOrder`. `OrderInv` ties the
  position of the loop, the operation under way and the entries logged to one
  another at each step of the operation.

**The lock file** (`FileLockProofs`):

* **TypeCorrect** (of FileLock): `Spec => []TypeOK`, which also says that a thread
  outside of all blocks has neither descriptor nor RLock, and bounds the files
  by the drops. The bound needs `FilesCounted`: every file but the one at the
  path was removed by a drop of its own.
* **Exclusion**: `Spec => []ExclusiveOnPath`. `LockInv` has that no two
  threads hold conflicting locks on one file, and that who holds a descriptor
  holds the RLock of his object.

**The record cache** (`LruProofs`), for any ids, records and size:

* **TypesHold**, **EvictsLeastRecent**: `Spec => []TypeOK` and
  `[]LeastRecentFirst`. `LruInv` adds that no last use is later than the clock, so
  that the entry put at the end is the latest of all (`MovedInOrder`). Taking
  entries out keeps the order of the rest: `KeepIs` (of SubsequenceProofs) says of
  `Keep`, the elements of a sequence at some positions, what `NthExists` finds by
  counting, a least position up to which there are n of them, where a filter by
  recursion would need induction.
* **BoundedCacheImplemented**: `Spec => ImplementsBoundedCache`. A hit is a
  stutter, an invalidation or a clear a `Drop`, a put is `Put` with the first entry
  as the one given up, and that only when the ids in the cache and the new one
  are more than the size (`UniqueCounts`: there are as many ids as entries).
* **WarmingKeepsLast**: `Spec => []WarmKeepsLast`. `Warming`: after k puts of a batch
  of different ids, the cache ends in the last min(k, size) of them. A put of
  a new id appends (`PutAtEnd`) and takes away only before them. That the function
  of `WarmInto` is there at all (`FillsExist`), and the claim for every k, go by the
  least number of puts at which it fails (`LeastNumber`) rather than by induction.

**Several instances** (`ProcessesProofs`):

* **TypeCorrect** (of Processes): `Spec => []TypeOK`. `CallOK` says what a write
  of each kind has at each place, without which an update could not be shown to
  yield a record.
* **DrawnOnce**: `Spec => []DrawnIsNew`, assuming `OneCreator`; with two it is
  false (`two_writers`). `CounterInv` says that every id in use (stored, logged,
  to be replayed, or about to be stored) is at most the number in the counter
  file, that an id drawn and not logged is in use nowhere, and that the creating
  instance has the number of the file. It includes opens during a write.
* **NoWriteLost**: `Spec => []WritesKept`, assuming `QuietOpens`. `StoredInv` says
  that everything stored or logged is a possible outcome of its record or is
  being written now, `WriteInv` that an update is made from a possible outcome
  and that it is stored before it returns, `LockInv` that the lock file belongs
  to the one who writes and that who replays is alone, and `ReplayInv` that of
  the entries replayed so far the last one for each id stands. The last is what
  makes an interrupted recovery harmless: what it has stored is an entry of the
  log, hence a possible outcome, and the next recovery starts from the first
  entry again.

**The directory** (`DatabaseProofs`), for any number of collections in one log,
assuming `OneHandle` (one Database object at a time; those that follow it after
a close or a death are the same handle) and, but for the first, `OnePassword`
(one password is in use, and sessions without it may come in between):

* **Registered**: `Spec => []RecordsRegistered`. `NamesInv`: an open handle
  knows the names on disk, and what it has open is among them.
* **ReadsAllLines**: `Spec => []OpenedReadsAll`. `ModeInv`: the mode in
  metadata.json is that of every line and of every handle that got past it.
  With one password and one handle there is one salt, hence one key in each mode.
* **EverythingLands**: `Spec => []LoggedLands`. `LandInv`: what was logged is
  pending, or it is in the data file with no entry for its id pending; and for a
  handle that has replayed the collection it is in the data file, but for the
  create under way. `CounterInv` is needed so that a later entry does not take
  the id of an earlier one and shadow it, `ModeInv` so that a replay reads all
  that pends and a checkpoint covers nothing that was not replayed.
* **DroppedGone**: `Spec => []DroppedStaysGone`. `GoneInv`: of the lives before
  the last drop only duplicates pend, and where a drop may come next, nothing
  else pends for the collection at all, because it was opened, and so replayed
  and covered, before.

**Records and queries** (`RecordsProofs`), for any writers, schema, records,
patches, predicates and pages. `QueriesAssumption` says that a value is an integer
or a string, that None is neither, and that predicates have the operators
`_make_predicate` knows. The theorems about queries assume that no user field is
called "id", since a query sees the id under that name (`_public_view`,
collection.py:915-933).

* **RecordsTyped**: `Spec => [](TypeInv /\ IdInv)`. `IdInv`: an id has one line of
  `table`, no line has an id that was not drawn, and the id of a create under way
  has no line and is not drawn by another. It is why a
  write changes one line and why compaction loses nothing.
* **RecordsStoredValid**: `Spec => []StoredValid`. A stored record is valid, a patch is,
  and then so is the record with the patch (`PatchedValid`): every check is of one
  field. A create's record has been valid since it got its id (`TypeInv` has this).
* **RecordsDeletesCounted**: `Spec => []DeletesCounted`, with `TookInv` (only a delete
  has deleted anything, and finitely many). Each step moves at most one id: from
  those to come to a create, from there to the live ones, from there to the account
  of the one call that deletes it (`AccountsStep`).
* **RecordsWalkSound**: `Spec => []WalkSound`. `WalkInv`: what the reader has seen is
  at or before the place he has got to, and of what has been there all along, the
  records before that place which he has not seen are at most the deletes. An
  update or a compaction moves no live record, a create adds one after all others,
  and a delete moves those after it by one place, so that at most one more gets
  past the reader.
* **RecordsTypedAnswers**: `Spec => []TypedAnswers`, from `StoredValid`: what is valid has
  a value of the type in the field, or none, or None.
* **RecordsExistsAgrees**: `Spec => []ExistsAgrees`; like the next two it is about what
  a query makes of any table, and follows from the types (of the next, also from
  `IdInv`: equal records are one line).
* **RecordsSortedRight**: `Spec => []SortedRight`. Values of one type are weakly ordered,
  strings by the first position at which two differ (`TextLessOrder`); with
  ties broken by position this is a strict total order (`OrderingStrict`), and
  then counting what comes before gives every record a place of its own
  (`PlaceGrows`, `PlaceIs`).
* **RecordsPagesPartition**: `Spec => []PagesPartition`. Page k has the k-th cut of the
  sorted list (`PageCut`), and the cuts joined give the list back (`CutsJoin`). The
  joining is a recursive function over the pages, whose existence
  (`JoinsExist`) and value go by the least page at which they fail.

TLC has checked `TypeInv`, `IdInv`, `TookInv` and `WalkInv` on the instance of
`records`.

The proofs go by effect lemmas: what a step makes of its handle or thread
(`Moved`, `Goto`, in RecordsProofs the lemmas `AddsEffect` and `ReplacesEffect` on
the data file), which steps change which file (`Frame`), and then one lemma per
part of the invariant with one case per action.

Only model-checked is liveness: `LockReleased`, `RecoveryEnds`, `PollEnds`,
`RLockReleased`. ENABLED, and with it fairness, is outside of what the prover can
do. Every invariant and action property of the runs that pass is a theorem, with
the hypotheses named above. `CollectionImplementsStore` and the theorems about the
record cache are proved only.

## 5. Not modelled, and plan

Not modelled: `stats` beyond the collections it opens, cache statistics, file
sizes; the wording of errors; the Windows branches of locks.py; exceptions,
package exports, examples; the ciphers themselves, which are taken to be perfect.
Of the values only None, integers and strings. Damage to files from outside,
except a lost index file.

Next: the index file in `Database`, with drop and the keys; a cache per instance in
`Processes`.

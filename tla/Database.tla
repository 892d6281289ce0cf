------------------------------- MODULE Database -------------------------------
(***************************************************************************)
(* Database (pyro_db/core.py): the collections of one directory, their     *)
(* registration in metadata.json, the log they share (wal.py), the key     *)
(* their lines are encrypted with (encryption.py), and drop.  A handle is  *)
(* a Database object; its calls follow one another, and it can die between *)
(* any two of their steps.  The records of a collection are only created   *)
(* here, and its index and cache are left to Collection.                   *)
(***************************************************************************)
EXTENDS Integers

CONSTANTS
  Handles,
  Names,         \* collection names
  Passwords,     \* what a handle may be opened with
  NoPassword,    \* None: without encryption
  Nothing,       \* no salt file, no metadata file, no instance
  Sorts,         \* of records: see Accepts
  MaxId,         \* bound on the ids of a collection
  MaxLives,      \* bound on the drops of a collection
  MaxRestarts    \* bound on closes and deaths

RecordSorts == {"good", "invalid", "duplicate"}

\* What metadata.json holds, and what a handle knows of a collection it has
\* open: whether it was told of a schema and unique fields, and the last id.
Metadata == [encrypted : BOOLEAN, names : SUBSET Names]
Instances == [full : BOOLEAN, last : Nat]

ASSUME DatabaseAssumption ==
  /\ Sorts \subseteq RecordSorts
  /\ {MaxId, MaxLives, MaxRestarts} \subseteq Nat
  /\ Nothing \notin Handles
  /\ Nothing \notin Metadata
  /\ Nothing \notin Instances

VARIABLES
  salt,       \* .salt
  meta,       \* metadata.json
  rows,       \* <name>.data: the lines that are the last of their id
  ctr,        \* <name>_id.json; 0 when there is none
  log,        \* wal.log: the entries that are the last of their id, without
              \* what a later CHECKPOINT covers
  db,         \* the state of each handle
  life,       \* history: drops of each name so far
  logged,     \* history: entries logged, not rejected, since the last drop
  restarts

disk  == <<salt, meta, rows, ctr, log>>
ghost == <<life, logged>>
vars  == <<disk, db, ghost, restarts>>

-----------------------------------------------------------------------------
(* Encryption.  A key is known by what it was derived from. *)

NoKey == <<>>

DeriveKey(password, s) == <<password, s>>

\* Encryptor.decrypt.  A blob carries its salt; for another salt than its own
\* the handle derives a key from its key, and not from the password, so that
\* it can read what was written with its own key and nothing else.
CanRead(key, line) ==
  IF key = NoKey \/ line.key = NoKey THEN key = line.key
  ELSE (IF line.key[2] = key[2] THEN key ELSE DeriveKey(key, line.key[2]))
         = line.key

-----------------------------------------------------------------------------
(* Files *)

\* The lines of a file that are the last of their id, once those in new have
\* come to its end.  A line is shadowed only for those who can read the later
\* one, and for them neither a replay nor a checkpoint tells it from none.
Write(lines, new) ==
  {x \in lines : \A e \in new :
     x.name # e.name \/ x.id # e.id \/ x.key # e.key} \cup new

\* Mutant: a CHECKPOINT covers the entries of all collections.
CheckpointAll(n, key) == {}

\* A CHECKPOINT covers the entries of its collection before it, for those who
\* can read it.
Checkpoint(n, key) == {e \in log : e.name # n \/ e.key # key}

\* pending_entries.
Pending(n, key) == {e \in log : e.name = n /\ CanRead(key, e)}

\* WAL.compact keeps what is pending and can be read.
Readable(key) == {e \in log : CanRead(key, e)}

-----------------------------------------------------------------------------
(* Handles *)

NoTask ==
  [kind |-> "none", name |-> Nothing, entry |-> Nothing, todo |-> {}, last |-> 0]

DownHandle ==
  [at |-> "down", key |-> NoKey, names |-> {},
   inst |-> [n \in Names |-> Nothing], task |-> NoTask]

Init ==
  /\ salt = Nothing
  /\ meta = Nothing
  /\ rows = [n \in Names |-> {}]
  /\ ctr = [n \in Names |-> 0]
  /\ log = {}
  /\ db = [h \in Handles |-> DownHandle]
  /\ life = [n \in Names |-> 0]
  /\ logged = [n \in Names |-> {}]
  /\ restarts = 0

At(h, where) == db[h].at = where
Task(h, kind) == db[h].task.kind = kind
NameOf(h) == db[h].task.name

Go(h, where) == db' = [db EXCEPT ![h].at = where]
Finish(h) == db' = [db EXCEPT ![h].at = "up", ![h].task = NoTask]

Begin(h, where, task) ==
  db' = [db EXCEPT ![h].at = where, ![h].task = task]

(* Opening *)

\* _init_encryption: the salt is read, or drawn when there is none,
OpenKey(h) ==
  /\ At(h, "down")
  /\ \E p \in Passwords :
       db' = [db EXCEPT ![h].at = IF p # NoPassword /\ salt = Nothing
                                    THEN "salt" ELSE "meta",
                        ![h].key = IF p = NoPassword THEN NoKey
                                   ELSE DeriveKey(p, IF salt = Nothing
                                                       THEN h ELSE salt)]
  /\ UNCHANGED <<disk, ghost, restarts>>

\* and then saved.  Two handles do not draw the same salt.
SaveSalt(h) ==
  /\ At(h, "salt")
  /\ salt' = h
  /\ Go(h, "meta")
  /\ UNCHANGED <<meta, rows, ctr, log, ghost, restarts>>

NewMeta(h) == [encrypted |-> db[h].key # NoKey, names |-> {}]

\* Mutant: the encryption mode is not verified.
LoadUnverified(h) ==
  /\ At(h, "meta")
  /\ meta' = IF meta = Nothing THEN NewMeta(h) ELSE meta
  /\ db' = [db EXCEPT ![h].at = "up", ![h].names = meta'.names]
  /\ UNCHANGED <<salt, rows, ctr, log, ghost, restarts>>

\* _load_or_create_metadata: the mode must be that of the file.  The password
\* is not verified: the file is not encrypted.
LoadMetadata(h) ==
  /\ At(h, "meta")
  /\ meta' = IF meta = Nothing THEN NewMeta(h) ELSE meta
  /\ db' = [db EXCEPT ![h] =
              IF meta'.encrypted # (db[h].key # NoKey) THEN DownHandle
              ELSE [@ EXCEPT !.at = "up", !.names = meta'.names]]
  /\ UNCHANGED <<salt, rows, ctr, log, ghost, restarts>>

(* collection(name), with the schema and unique fields the program declares *)

CallCollection(h) ==
  /\ At(h, "up")
  /\ \E n \in Names :
       /\ db[h].inst[n] = Nothing
       /\ Begin(h, "build", [NoTask EXCEPT !.kind = "collection", !.name = n])
  /\ UNCHANGED <<disk, ghost, restarts>>

\* Collection.__init__, up to the replay of _recover.
Build(h) ==
  LET pending == Pending(NameOf(h), db[h].key) IN
  /\ At(h, "build")
  /\ rows' = [rows EXCEPT ![NameOf(h)] = Write(@, pending)]
  /\ db' = [db EXCEPT ![h].at = IF pending = {} THEN "built" ELSE "replayed",
                      ![h].task.last = ctr[NameOf(h)]]
  /\ UNCHANGED <<salt, meta, ctr, log, ghost, restarts>>

RecoverCheckpoint(h) ==
  /\ At(h, "replayed")
  /\ log' = Checkpoint(NameOf(h), db[h].key)
  /\ Go(h, "built")
  /\ UNCHANGED <<salt, meta, rows, ctr, ghost, restarts>>

\* Where the call goes on with its instance, and with what.
Onward(task) ==
  CASE task.kind = "compact_all" -> "compact"
    [] task.kind = "stats" -> "each"
    [] task.kind = "collection" -> "up"

Rest(task) ==
  IF task.kind = "collection" THEN NoTask ELSE [task EXCEPT !.last = 0]

\* compact_all and stats pass neither schema nor unique fields.
NewInstance(task) == [full |-> task.kind = "collection", last |-> task.last]

\* Mutant: the name is registered in memory only.
RegisterUnsaved(h) ==
  LET n == NameOf(h) IN
  /\ At(h, "built")
  /\ ~Task(h, "drop")
  /\ db' = [db EXCEPT ![h].inst[n] = NewInstance(db[h].task),
                      ![h].names = @ \cup {n},
                      ![h].at = Onward(db[h].task),
                      ![h].task = Rest(db[h].task)]
  /\ UNCHANGED <<disk, ghost, restarts>>

\* The instance is cached, and _register_collection saves the metadata of the
\* handle, whole, when the name is new to it.
Register(h) ==
  LET n == NameOf(h) IN
  /\ At(h, "built")
  /\ ~Task(h, "drop")
  /\ db' = [db EXCEPT ![h].inst[n] = NewInstance(db[h].task),
                      ![h].names = @ \cup {n},
                      ![h].at = Onward(db[h].task),
                      ![h].task = Rest(db[h].task)]
  /\ meta' = IF n \in db[h].names THEN meta
             ELSE [meta EXCEPT !.names = db'[h].names]
  /\ UNCHANGED <<salt, rows, ctr, log, ghost, restarts>>

(* create *)

\* An invalid record fails validation, and a duplicate one the check of its
\* unique field, if the instance has been told of them.
Accepts(instance, r) == r = "good" \/ ~instance.full

\* The id is drawn, when validation has passed.
CallCreate(h) ==
  /\ At(h, "up")
  /\ \E n \in Names, r \in Sorts :
       LET i == db[h].inst[n]
           e == [name |-> n, id |-> i.last + 1, life |-> life[n], rec |-> r,
                 key |-> db[h].key]
       IN /\ i # Nothing
          /\ i.last < MaxId
          /\ r = "invalid" => ~i.full
          /\ r = "duplicate" => rows[n] # {}
          /\ ctr' = [ctr EXCEPT ![n] = i.last + 1]
          /\ db' = [db EXCEPT ![h].at = "log",
                              ![h].inst[n].last = @ + 1,
                              ![h].task = [NoTask EXCEPT !.kind = "create",
                                                         !.name = n,
                                                         !.entry = e]]
  /\ UNCHANGED <<salt, meta, rows, log, ghost, restarts>>

Accepted(h) == Accepts(db[h].inst[NameOf(h)], db[h].task.entry.rec)

LogCreate(h) ==
  LET e == db[h].task.entry IN
  /\ At(h, "log")
  /\ log' = Write(log, {e})
  /\ logged' = IF Accepted(h) THEN [logged EXCEPT ![e.name] = @ \cup {e}]
               ELSE logged
  /\ Go(h, "append")
  /\ UNCHANGED <<salt, meta, rows, ctr, life, restarts>>

\* The entry of a duplicate stays in the log.
Reject(h) ==
  /\ At(h, "append")
  /\ ~Accepted(h)
  /\ Finish(h)
  /\ UNCHANGED <<disk, ghost, restarts>>

AppendRecord(h) ==
  /\ At(h, "append")
  /\ Accepted(h)
  /\ rows' = [rows EXCEPT ![NameOf(h)] = Write(@, {db[h].task.entry})]
  /\ Go(h, "checkpoint")
  /\ UNCHANGED <<salt, meta, ctr, log, ghost, restarts>>

WriteCheckpoint(h) ==
  /\ At(h, "checkpoint")
  /\ log' = Checkpoint(NameOf(h), db[h].key)
  /\ Finish(h)
  /\ UNCHANGED <<salt, meta, rows, ctr, ghost, restarts>>

(* drop_collection *)

\* Mutant: a collection that is not open is not opened first.
DropUnopened(h) ==
  /\ At(h, "up")
  /\ \E n \in Names :
       /\ life[n] < MaxLives
       /\ db' = [db EXCEPT ![h].at = "built",
                           ![h].inst[n] = Nothing,
                           ![h].task = [NoTask EXCEPT !.kind = "drop",
                                                      !.name = n]]
  /\ UNCHANGED <<disk, ghost, restarts>>

\* A collection that is not open is opened for it.
CallDrop(h) ==
  /\ At(h, "up")
  /\ \E n \in Names :
       /\ life[n] < MaxLives
       /\ db' = [db EXCEPT ![h].at = IF db[h].inst[n] = Nothing
                                       THEN "build" ELSE "built",
                           ![h].inst[n] = Nothing,
                           ![h].task = [NoTask EXCEPT !.kind = "drop",
                                                      !.name = n]]
  /\ UNCHANGED <<disk, ghost, restarts>>

\* The data file goes; the log stays as it is.
UnlinkData(h) ==
  LET n == NameOf(h) IN
  /\ At(h, "built")
  /\ Task(h, "drop")
  /\ rows' = [rows EXCEPT ![n] = {}]
  /\ life' = [life EXCEPT ![n] = @ + 1]
  /\ logged' = [logged EXCEPT ![n] = {}]
  /\ Go(h, "unlink")
  /\ UNCHANGED <<salt, meta, ctr, log, restarts>>

\* The counter goes last.
UnlinkCounter(h) ==
  /\ At(h, "unlink")
  /\ ctr' = [ctr EXCEPT ![NameOf(h)] = 0]
  /\ Go(h, "unregister")
  /\ UNCHANGED <<salt, meta, rows, log, ghost, restarts>>

Unregister(h) ==
  LET n == NameOf(h) IN
  /\ At(h, "unregister")
  /\ db' = [db EXCEPT ![h].at = "up", ![h].names = @ \ {n}, ![h].task = NoTask]
  /\ meta' = IF n \in db[h].names THEN [meta EXCEPT !.names = db'[h].names]
             ELSE meta
  /\ UNCHANGED <<salt, rows, ctr, log, ghost, restarts>>

(* compact_all and stats *)

CallAll(h) ==
  /\ At(h, "up")
  /\ \E kind \in {"compact_all", "stats"} :
       Begin(h, "each", [NoTask EXCEPT !.kind = kind, !.todo = db[h].names])
  /\ UNCHANGED <<disk, ghost, restarts>>

\* Every registered collection in turn, opened if it is not open.
Each(h) ==
  /\ At(h, "each")
  /\ \E n \in db[h].task.todo :
       db' = [db EXCEPT ![h].task.name = n,
                        ![h].task.todo = @ \ {n},
                        ![h].at = IF db[h].inst[n] = Nothing THEN "build"
                                  ELSE Onward(db[h].task)]
  /\ UNCHANGED <<disk, ghost, restarts>>

\* Collection.compact keeps the lines it can read,
CompactOne(h) ==
  LET n == NameOf(h) IN
  /\ At(h, "compact")
  /\ rows' = [rows EXCEPT ![n] = {e \in @ : CanRead(db[h].key, e)}]
  /\ Go(h, "compacted")
  /\ UNCHANGED <<salt, meta, ctr, log, ghost, restarts>>

\* and writes a checkpoint.
CompactCheckpoint(h) ==
  /\ At(h, "compacted")
  /\ log' = Checkpoint(NameOf(h), db[h].key)
  /\ Go(h, "each")
  /\ UNCHANGED <<salt, meta, rows, ctr, ghost, restarts>>

\* compact_all ends with the log.
CompactLog(h) ==
  /\ At(h, "each")
  /\ db[h].task.todo = {}
  /\ log' = IF Task(h, "compact_all") THEN Readable(db[h].key) ELSE log
  /\ Finish(h)
  /\ UNCHANGED <<salt, meta, rows, ctr, ghost, restarts>>

\* close, which writes nothing, or the death of the process.
Stop(h) ==
  /\ ~At(h, "down")
  /\ restarts < MaxRestarts
  /\ restarts' = restarts + 1
  /\ db' = [db EXCEPT ![h] = DownHandle]
  /\ UNCHANGED <<disk, ghost>>

Next ==
  \E h \in Handles :
    \/ OpenKey(h) \/ SaveSalt(h) \/ LoadMetadata(h)
    \/ CallCollection(h) \/ Build(h) \/ RecoverCheckpoint(h) \/ Register(h)
    \/ CallCreate(h) \/ LogCreate(h) \/ Reject(h) \/ AppendRecord(h) \/ WriteCheckpoint(h)
    \/ CallDrop(h) \/ UnlinkData(h) \/ UnlinkCounter(h) \/ Unregister(h)
    \/ CallAll(h) \/ Each(h)
    \/ CompactOne(h) \/ CompactCheckpoint(h) \/ CompactLog(h)
    \/ Stop(h)

Spec == Init /\ [][Next]_vars

-----------------------------------------------------------------------------
(* Properties *)

Opened(h) == db[h].at \notin {"down", "salt", "meta"}

Lines == log \cup UNION {rows[n] : n \in Names}

\* A handle that has been opened can read every line of the directory: it has
\* the mode and the key of those who wrote them (core.py:72, :178).  It holds
\* as long as one password is in use.
OpenedReadsAll ==
  \A h \in Handles : Opened(h) => \A e \in Lines : CanRead(db[h].key, e)

Busy(h, n) == ~At(h, "up") /\ NameOf(h) = n

\* What has been logged and not refused is in the data file of its collection
\* by the time a handle has the collection open, through deaths between any
\* two steps, compaction of the log, and drops, replays and checkpoints of the
\* other collections in the same log (wal.py:219, :278; core.py:425).
LoggedLands ==
  \A h \in Handles, n \in Names :
    Opened(h) /\ db[h].inst[n] # Nothing /\ ~Busy(h, n) =>
      logged[n] \subseteq rows[n]

\* A collection with records in it is registered on disk, so that the next
\* handle lists it, compacts it and counts it (core.py:217).
RecordsRegistered ==
  \A n \in Names : logged[n] # {} => meta # Nothing /\ n \in meta.names

\* "Permanently delete a collection" (core.py:305): of what was written before
\* the last drop, only a duplicate whose entry was pending comes back.
DroppedStaysGone ==
  \A n \in Names : \A e \in rows[n] : e.life < life[n] => e.rec = "duplicate"
=============================================================================

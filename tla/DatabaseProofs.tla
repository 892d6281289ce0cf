---------------------------- MODULE DatabaseProofs -----------------------------
(***************************************************************************)
(* Theorems about Database, for every set of collections and every bound,  *)
(* under one Database object at a time (the ones that follow each other    *)
(* after a close or a death are the same handle) and one password.         *)
(***************************************************************************)
EXTENDS Database, TLAPS

\* One Database object at a time.
OneHandle == \A g, h \in Handles : g = h

\* One password, and the same directory may be opened without it.
OnePassword == \A p, q \in Passwords \ {NoPassword} : p = q

Keys == {NoKey} \cup ((Passwords \ {NoPassword}) \X Handles)

Entries == [name : Names, id : Nat, life : Nat, rec : RecordSorts, key : Keys]

Kinds == {"none", "collection", "create", "drop", "compact_all", "stats"}

Tasks == [kind : Kinds, name : Names \cup {Nothing},
          entry : Entries \cup {Nothing}, todo : SUBSET Names, last : Nat]

Places == {"down", "salt", "meta", "up", "build", "replayed", "built", "log",
           "append", "checkpoint", "unlink", "unregister", "each", "compact",
           "compacted"}

HandleStates ==
  [at : Places, key : Keys, names : SUBSET Names,
   inst : [Names -> Instances \cup {Nothing}], task : Tasks]

-----------------------------------------------------------------------------
(* What holds at each place of a handle *)

Building == {"build", "replayed", "built"}
Creating == {"log", "append", "checkpoint"}
Dropping == {"unlink", "unregister"}
Compacting == {"compact", "compacted"}

TypeInv ==
  /\ salt \in Handles \cup {Nothing}
  /\ meta \in Metadata \cup {Nothing}
  /\ rows \in [Names -> SUBSET Entries]
  /\ ctr \in [Names -> Nat]
  /\ log \in SUBSET Entries
  /\ db \in [Handles -> HandleStates]
  /\ life \in [Names -> Nat]
  /\ logged \in [Names -> SUBSET Entries]
  /\ restarts \in Nat

\* A collection is open for the handle only where its task is done with it.
PlaceOK(h) ==
  LET at == db[h].at
      n  == db[h].task.name
      e  == db[h].task.entry
  IN
  /\ at \in {"down", "salt", "meta"} =>
       \A m \in Names : db[h].inst[m] = Nothing
  /\ Opened(h) => meta # Nothing
  /\ at \notin {"down", "salt", "meta", "up", "each"} => n \in Names
  /\ at \in Building => /\ db[h].inst[n] = Nothing
                        /\ db[h].task.kind \in {"collection", "drop",
                                                "compact_all", "stats"}
  /\ at \in Creating => /\ db[h].inst[n] # Nothing
                        /\ e \in Entries /\ e.name = n
                        /\ e.key = db[h].key
                        /\ e.rec = "invalid" => ~db[h].inst[n].full
  /\ at \in Dropping => db[h].inst[n] = Nothing
  /\ at = "each" => db[h].task.kind \in {"compact_all", "stats"}
  /\ at \in Compacting => /\ db[h].inst[n] # Nothing
                          /\ db[h].task.kind = "compact_all"

PlaceInv == \A h \in Handles : PlaceOK(h)

\* The mode of the directory is that of its lines and of who has it open.
ModeInv ==
  /\ \A h \in Handles :
       Opened(h) => meta.encrypted = (db[h].key # NoKey)
  /\ \A n \in Names : \A e \in rows[n] \cup log :
       meta # Nothing /\ meta.encrypted = (e.key # NoKey)
  /\ \A n \in Names : \A e \in rows[n] : e.name = n

\* A handle knows the names on disk, and what it has open is among them.
NamesInv ==
  /\ \A h \in Handles : Opened(h) =>
       /\ db[h].names = meta.names
       /\ \A n \in Names : db[h].inst[n] # Nothing => n \in meta.names
       /\ db[h].at \in Dropping => logged[db[h].task.name] = {}
  /\ RecordsRegistered

\* The last id is that of the counter file.
CounterOK(h) ==
  LET n == db[h].task.name
      e == db[h].task.entry
  IN
  /\ \A m \in Names : db[h].inst[m] # Nothing => db[h].inst[m].last = ctr[m]
  /\ db[h].at \in {"replayed", "built"} /\ db[h].task.kind # "drop" =>
       db[h].task.last = ctr[n]
  /\ db[h].at = "log" => e.id = ctr[n] /\ \A x \in logged[n] : x.id # e.id
  /\ db[h].at = "append" =>
       /\ Accepted(h) <=> e \in logged[n]
       /\ \A x \in logged[n] : x.id = e.id => x = e

CounterInv ==
  /\ \A h \in Handles : CounterOK(h)
  /\ \A n \in Names : \A e \in logged[n] : e.name = n /\ e.id <= ctr[n]

\* The handle has replayed what pended for the collection.
Settled(h, n) ==
  \/ db[h].inst[n] # Nothing
  \/ db[h].at \in {"replayed", "built"} /\ db[h].task.name = n

\* What has been logged is pending, or in the data file with nothing pending
\* that a replay would put over it; where a checkpoint may follow, and where
\* a handle has the collection open, it is in the data file.
LandInv ==
  /\ \A n \in Names : \A e \in logged[n] :
       \/ e \in log
       \/ e \in rows[n] /\ \A x \in log : x.name # n \/ x.id # e.id
  /\ \A h \in Handles, n \in Names : Settled(h, n) =>
       \A e \in logged[n] :
         \/ e \in rows[n]
         \/ At(h, "append") /\ e = db[h].task.entry

\* The handle may drop the collection without a replay.
Clear(h, n) ==
  \/ db[h].inst[n] # Nothing
  \/ db[h].at = "built" /\ db[h].task.name = n

\* Of what is left of earlier lives only the entries of duplicates pend; and
\* where a drop may follow, nothing else pends at all.
GoneInv ==
  /\ \A e \in log : e.life < life[e.name] => e.rec = "duplicate"
  /\ DroppedStaysGone
  /\ \A h \in Handles :
       /\ db[h].at \in {"log", "append"} =>
            db[h].task.entry.life = life[db[h].task.name]
       /\ \A n \in Names : Clear(h, n) =>
            \A e \in log : e.name = n =>
              \/ e.rec = "duplicate"
              \/ db[h].at \in {"append", "checkpoint"} /\ e = db[h].task.entry

-----------------------------------------------------------------------------
(* What each step does to the state of its handle *)

\* The handle goes to place at with these.
Moved(h, at, key, names, inst, task) ==
  /\ db' \in [Handles -> HandleStates]
  /\ db'[h].at = at
  /\ db'[h].key = key
  /\ db'[h].names = names
  /\ db'[h].inst = inst
  /\ db'[h].task = task

NoInst == [n \in Names |-> Nothing]

LEMMA NoTaskType ==
  /\ NoTask \in Tasks
  /\ NoTask.kind = "none" /\ NoTask.name = Nothing /\ NoTask.entry = Nothing
  /\ NoTask.todo = {} /\ NoTask.last = 0
  BY DEF NoTask, Tasks, Kinds

LEMMA GoEffect ==
  ASSUME TypeInv, NEW h \in Handles, NEW w \in Places, Go(h, w)
  PROVE  Moved(h, w, db[h].key, db[h].names, db[h].inst, db[h].task)
  BY DEF TypeInv, Go, Moved, HandleStates

LEMMA FinishEffect ==
  ASSUME TypeInv, NEW h \in Handles, Finish(h)
  PROVE  Moved(h, "up", db[h].key, db[h].names, db[h].inst, NoTask)
  BY NoTaskType DEF TypeInv, Finish, Moved, HandleStates, Places

LEMMA BeginEffect ==
  ASSUME TypeInv, NEW h \in Handles, NEW w \in Places, NEW task \in Tasks,
         Begin(h, w, task)
  PROVE  Moved(h, w, db[h].key, db[h].names, db[h].inst, task)
  BY DEF TypeInv, Begin, Moved, HandleStates

LEMMA DownEffect ==
  ASSUME TypeInv, NEW h \in Handles, db' = [db EXCEPT ![h] = DownHandle]
  PROVE  Moved(h, "down", NoKey, {}, NoInst, NoTask)
<1>1. DownHandle \in HandleStates
  BY NoTaskType DEF DownHandle, HandleStates, Places, Keys
<1> QED BY <1>1 DEF TypeInv, Moved, DownHandle, NoInst

LEMMA OpenEffect ==
  ASSUME TypeInv, NEW h \in Handles, OpenKey(h)
  PROVE  \E w \in {"salt", "meta"}, k \in Keys :
           Moved(h, w, k, db[h].names, db[h].inst, db[h].task)
<1>1. PICK p \in Passwords :
        db' = [db EXCEPT ![h].at = IF p # NoPassword /\ salt = Nothing
                                     THEN "salt" ELSE "meta",
                         ![h].key = IF p = NoPassword THEN NoKey
                                    ELSE DeriveKey(p, IF salt = Nothing
                                                        THEN h ELSE salt)]
  BY DEF OpenKey
<1> DEFINE w == IF p # NoPassword /\ salt = Nothing THEN "salt" ELSE "meta"
           s == IF salt = Nothing THEN h ELSE salt
           k == IF p = NoPassword THEN NoKey ELSE DeriveKey(p, s)
<1>2. w \in {"salt", "meta"} /\ w \in Places
  BY DEF Places
<1>3. s \in Handles
  BY DEF TypeInv
<1>4. k \in Keys
  BY <1>3 DEF Keys, DeriveKey
<1> HIDE DEF w, s, k
<1>5. db' = [db EXCEPT ![h].at = w, ![h].key = k]
  BY <1>1 DEF w, s, k
<1>6. Moved(h, w, k, db[h].names, db[h].inst, db[h].task)
  BY <1>2, <1>4, <1>5 DEF TypeInv, HandleStates, Moved
<1> QED BY <1>2, <1>4, <1>6

LEMMA LoadEffect ==
  ASSUME TypeInv, NEW h \in Handles, LoadMetadata(h)
  PROVE  /\ meta' \in Metadata /\ meta' # Nothing
         /\ meta # Nothing => meta' = meta
         /\ meta = Nothing =>
              meta'.encrypted = (db[h].key # NoKey) /\ meta'.names = {}
         /\ \/ Moved(h, "down", NoKey, {}, NoInst, NoTask)
            \/ /\ meta'.encrypted = (db[h].key # NoKey)
               /\ Moved(h, "up", db[h].key, meta'.names, db[h].inst, db[h].task)
<1>1. NewMeta(h) \in Metadata
  BY DEF NewMeta, Metadata
<1>2. meta' \in Metadata /\ meta' # Nothing
  BY <1>1, DatabaseAssumption DEF LoadMetadata, TypeInv
<1>3. CASE meta'.encrypted # (db[h].key # NoKey)
  BY <1>1, <1>2, <1>3, DownEffect DEF LoadMetadata, NewMeta
<1>4. CASE meta'.encrypted = (db[h].key # NoKey)
  <2>1. db' = [db EXCEPT ![h] = [@ EXCEPT !.at = "up", !.names = meta'.names]]
    BY <1>4 DEF LoadMetadata
  <2>2. meta'.names \in SUBSET Names
    BY <1>2 DEF Metadata
  <2>3. Moved(h, "up", db[h].key, meta'.names, db[h].inst, db[h].task)
    BY <2>1, <2>2 DEF TypeInv, HandleStates, Moved, Places
  <2> QED BY <1>2, <1>4, <2>3 DEF LoadMetadata, NewMeta
<1> QED BY <1>3, <1>4

LEMMA CallEffect ==
  ASSUME TypeInv, NEW h \in Handles, CallCollection(h)
  PROVE  \E n \in Names, task \in Tasks :
           /\ db[h].inst[n] = Nothing
           /\ task.kind = "collection" /\ task.name = n
           /\ Moved(h, "build", db[h].key, db[h].names, db[h].inst, task)
<1>1. PICK n \in Names :
        /\ db[h].inst[n] = Nothing
        /\ Begin(h, "build", [NoTask EXCEPT !.kind = "collection", !.name = n])
  BY DEF CallCollection
<1> DEFINE task == [NoTask EXCEPT !.kind = "collection", !.name = n]
<1>2. task \in Tasks /\ task.kind = "collection" /\ task.name = n
  BY NoTaskType DEF Tasks, Kinds
<1> HIDE DEF task
<1>3. Begin(h, "build", task)
  BY <1>1 DEF task
<1> QED BY <1>1, <1>2, <1>3, BeginEffect DEF Places

LEMMA BuildEffect ==
  ASSUME TypeInv, NEW h \in Handles, PlaceOK(h), Build(h)
  PROVE  LET n == db[h].task.name
             pending == Pending(n, db[h].key)
         IN /\ n \in Names
            /\ rows' = [rows EXCEPT ![n] = Write(@, pending)]
            /\ \E task \in Tasks :
                 /\ task.kind = db[h].task.kind /\ task.name = n
                 /\ task.last = ctr[n]
                 /\ Moved(h, IF pending = {} THEN "built" ELSE "replayed",
                          db[h].key, db[h].names, db[h].inst, task)
<1> DEFINE n == db[h].task.name
           w == IF Pending(n, db[h].key) = {} THEN "built" ELSE "replayed"
           task == [db[h].task EXCEPT !.last = ctr[n]]
<1>1. n \in Names /\ w \in Places
  BY DEF Build, At, PlaceOK, Places
<1>2. db[h].task \in Tasks
  BY DEF TypeInv, HandleStates
<1>3. ctr[n] \in Nat
  BY <1>1 DEF TypeInv
<1>4. /\ task \in Tasks /\ task.kind = db[h].task.kind /\ task.name = n
      /\ task.last = ctr[n]
  BY <1>2, <1>3 DEF Tasks
<1>5. db' = [db EXCEPT ![h].at = w, ![h].task.last = ctr[n]]
  BY DEF Build, NameOf
<1>6. db' = [db EXCEPT ![h].at = w, ![h].task = task]
  BY <1>5
<1>7. rows' = [rows EXCEPT ![n] = Write(@, Pending(n, db[h].key))]
  BY DEF Build, NameOf
<1> HIDE DEF task, w, n
<1>8. Moved(h, w, db[h].key, db[h].names, db[h].inst, task)
  BY <1>1, <1>4, <1>6 DEF TypeInv, HandleStates, Moved
<1> QED BY <1>1, <1>4, <1>7, <1>8 DEF w, n

LEMMA RegisterEffect ==
  ASSUME TypeInv, NEW h \in Handles, PlaceOK(h), Register(h)
  PROVE  LET n == db[h].task.name
             i == NewInstance(db[h].task)
         IN
         /\ n \in Names /\ i \in Instances /\ i.last = db[h].task.last
         /\ i # Nothing
         /\ db[h].task.kind \in {"collection", "compact_all", "stats"}
         /\ meta' = IF n \in db[h].names THEN meta
                    ELSE [meta EXCEPT !.names = db[h].names \cup {n}]
         /\ \E w \in {"up", "each", "compact"}, task \in Tasks :
              /\ w = "each" => task.kind \in {"compact_all", "stats"}
              /\ w = "compact" => task.kind = "compact_all" /\ task.name = n
              /\ Moved(h, w, db[h].key, db[h].names \cup {n},
                       [db[h].inst EXCEPT ![n] = i], task)
<1> DEFINE n == db[h].task.name
           i == NewInstance(db[h].task)
           w == Onward(db[h].task)
           task == Rest(db[h].task)
<1>1. /\ n \in Names
      /\ db[h].task.kind \in {"collection", "compact_all", "stats"}
  BY DEF Register, At, Task, PlaceOK, Building
<1>2. db[h].task \in Tasks
  BY DEF TypeInv, HandleStates
<1>3. i \in Instances /\ i.last = db[h].task.last
  BY <1>2 DEF NewInstance, Instances, Tasks
<1>4. i # Nothing
  BY <1>3, DatabaseAssumption
<1>5. /\ w \in {"up", "each", "compact"} /\ w \in Places
      /\ w = "each" => db[h].task.kind = "stats"
      /\ w = "compact" => db[h].task.kind = "compact_all"
      /\ w # "up" => db[h].task.kind # "collection"
  BY <1>1 DEF Onward, Places
<1>6. /\ task \in Tasks
      /\ db[h].task.kind # "collection" =>
           task.kind = db[h].task.kind /\ task.name = n
  BY <1>2, NoTaskType DEF Rest, Tasks
<1>7. /\ db' = [db EXCEPT ![h].inst[n] = i, ![h].names = @ \cup {n},
                          ![h].at = w, ![h].task = task]
      /\ meta' = IF n \in db[h].names THEN meta
                 ELSE [meta EXCEPT !.names = db'[h].names]
  BY DEF Register, NameOf
<1> HIDE DEF n, i, w, task
<1> DEFINE inst == [db[h].inst EXCEPT ![n] = i]
           names == db[h].names \cup {n}
<1>8. Moved(h, w, db[h].key, names, inst, task)
  <2>1. db[h] \in HandleStates
    BY DEF TypeInv
  <2>2. inst \in [Names -> Instances \cup {Nothing}] /\ names \in SUBSET Names
    BY <1>1, <1>3, <2>1 DEF HandleStates
  <2>3. db' = [db EXCEPT ![h].inst = inst, ![h].names = names,
                         ![h].at = w, ![h].task = task]
    BY <1>7
  <2> HIDE DEF inst, names
  <2> QED BY <1>5, <1>6, <2>1, <2>2, <2>3 DEF TypeInv, HandleStates, Moved
<1>9. db'[h].names = db[h].names \cup {n}
  BY <1>8 DEF Moved
<1> QED BY <1>1, <1>3, <1>4, <1>5, <1>6, <1>7, <1>8, <1>9 DEF n, i

LEMMA CreateEffect ==
  ASSUME TypeInv, NEW h \in Handles, CallCreate(h)
  PROVE  \E n \in Names, e \in Entries, i \in Instances, task \in Tasks :
           /\ db[h].inst[n] # Nothing
           /\ e.name = n /\ e.id = db[h].inst[n].last + 1 /\ e.life = life[n]
           /\ e.key = db[h].key
           /\ e.rec = "invalid" => ~i.full
           /\ i.last = e.id
           /\ ctr' = [ctr EXCEPT ![n] = e.id]
           /\ task.kind = "create" /\ task.name = n /\ task.entry = e
           /\ Moved(h, "log", db[h].key, db[h].names,
                    [db[h].inst EXCEPT ![n] = i], task)
<1>1. PICK n \in Names, r \in Sorts :
        LET i == db[h].inst[n]
            e == [name |-> n, id |-> i.last + 1, life |-> life[n], rec |-> r,
                  key |-> db[h].key]
        IN /\ i # Nothing
           /\ r = "invalid" => ~i.full
           /\ ctr' = [ctr EXCEPT ![n] = i.last + 1]
           /\ db' = [db EXCEPT ![h].at = "log",
                               ![h].inst[n].last = @ + 1,
                               ![h].task = [NoTask EXCEPT !.kind = "create",
                                                          !.name = n,
                                                          !.entry = e]]
  BY DEF CallCreate
<1> DEFINE old == db[h].inst[n]
           e == [name |-> n, id |-> old.last + 1, life |-> life[n], rec |-> r,
                 key |-> db[h].key]
           i == [old EXCEPT !.last = @ + 1]
           task == [NoTask EXCEPT !.kind = "create", !.name = n, !.entry = e]
<1>2. db[h] \in HandleStates /\ old \in Instances
  BY <1>1 DEF TypeInv, HandleStates
<1>3. old.last \in Nat /\ old.last + 1 \in Nat
  BY <1>2 DEF Instances
<1>4. i \in Instances /\ i.last = old.last + 1 /\ i.full = old.full
  BY <1>2, <1>3 DEF Instances
<1>5. /\ e \in Entries /\ e.name = n /\ e.id = old.last + 1
      /\ e.life = life[n] /\ e.rec = r /\ e.key = db[h].key
  BY <1>2, <1>3, DatabaseAssumption DEF Entries, TypeInv, HandleStates
<1>6. /\ db' = [db EXCEPT ![h].at = "log", ![h].inst[n] = i, ![h].task = task]
      /\ ctr' = [ctr EXCEPT ![n] = old.last + 1]
      /\ r = "invalid" => ~old.full
      /\ old # Nothing
  BY <1>1
<1> HIDE DEF e
<1>7. task \in Tasks /\ task.kind = "create" /\ task.name = n /\ task.entry = e
  BY <1>5, NoTaskType DEF Tasks, Kinds
<1> HIDE DEF i, task
<1>8. Moved(h, "log", db[h].key, db[h].names, [db[h].inst EXCEPT ![n] = i],
            task)
  BY <1>2, <1>4, <1>6, <1>7 DEF TypeInv, HandleStates, Moved, Places
<1> QED BY <1>4, <1>5, <1>6, <1>7, <1>8

LEMMA DropEffect ==
  ASSUME TypeInv, NEW h \in Handles, CallDrop(h)
  PROVE  \E n \in Names, task \in Tasks :
           /\ task.kind = "drop" /\ task.name = n
           /\ Moved(h, IF db[h].inst[n] = Nothing THEN "build" ELSE "built",
                    db[h].key, db[h].names, [db[h].inst EXCEPT ![n] = Nothing],
                    task)
<1>1. PICK n \in Names :
        db' = [db EXCEPT ![h].at = IF db[h].inst[n] = Nothing
                                     THEN "build" ELSE "built",
                         ![h].inst[n] = Nothing,
                         ![h].task = [NoTask EXCEPT !.kind = "drop", !.name = n]]
  BY DEF CallDrop
<1> DEFINE w == IF db[h].inst[n] = Nothing THEN "build" ELSE "built"
           task == [NoTask EXCEPT !.kind = "drop", !.name = n]
<1>2. w \in Places
  BY DEF Places
<1>3. task \in Tasks /\ task.kind = "drop" /\ task.name = n
  BY NoTaskType DEF Tasks, Kinds
<1>4. db' = [db EXCEPT ![h].at = w, ![h].inst[n] = Nothing, ![h].task = task]
  BY <1>1
<1> HIDE DEF w, task
<1>5. Moved(h, w, db[h].key, db[h].names, [db[h].inst EXCEPT ![n] = Nothing],
            task)
  BY <1>2, <1>3, <1>4 DEF TypeInv, HandleStates, Moved
<1> QED BY <1>3, <1>5 DEF w

LEMMA UnregisterEffect ==
  ASSUME TypeInv, NEW h \in Handles, Unregister(h)
  PROVE  LET n == db[h].task.name IN
         /\ meta' = IF n \in db[h].names
                      THEN [meta EXCEPT !.names = db[h].names \ {n}] ELSE meta
         /\ Moved(h, "up", db[h].key, db[h].names \ {n}, db[h].inst, NoTask)
<1> DEFINE n == db[h].task.name
<1>1. /\ db' = [db EXCEPT ![h].at = "up", ![h].names = @ \ {n},
                          ![h].task = NoTask]
      /\ meta' = IF n \in db[h].names THEN [meta EXCEPT !.names = db'[h].names]
                 ELSE meta
  BY DEF Unregister, NameOf
<1> HIDE DEF n
<1>2. Moved(h, "up", db[h].key, db[h].names \ {n}, db[h].inst, NoTask)
  BY <1>1, NoTaskType, ZenonT(40) DEF TypeInv, HandleStates, Moved, Places
<1>3. db'[h].names = db[h].names \ {n}
  BY <1>2 DEF Moved
<1> QED BY <1>1, <1>2, <1>3 DEF n

LEMMA CallAllEffect ==
  ASSUME TypeInv, NEW h \in Handles, CallAll(h)
  PROVE  \E task \in Tasks :
           /\ task.kind \in {"compact_all", "stats"}
           /\ Moved(h, "each", db[h].key, db[h].names, db[h].inst, task)
<1>1. PICK kind \in {"compact_all", "stats"} :
        Begin(h, "each", [NoTask EXCEPT !.kind = kind, !.todo = db[h].names])
  BY DEF CallAll
<1> DEFINE task == [NoTask EXCEPT !.kind = kind, !.todo = db[h].names]
<1>2. task \in Tasks /\ task.kind = kind
  BY NoTaskType DEF Tasks, Kinds, TypeInv, HandleStates
<1>3. Begin(h, "each", task)
  BY <1>1
<1> HIDE DEF task
<1> QED BY <1>2, <1>3, BeginEffect DEF Places

LEMMA EachEffect ==
  ASSUME TypeInv, NEW h \in Handles, PlaceOK(h), Each(h)
  PROVE  \E n \in Names, w \in {"build", "each", "compact"}, task \in Tasks :
           /\ task.kind = db[h].task.kind /\ task.name = n
           /\ task.kind \in {"compact_all", "stats"}
           /\ w = "build" <=> db[h].inst[n] = Nothing
           /\ w = "compact" => task.kind = "compact_all"
           /\ Moved(h, w, db[h].key, db[h].names, db[h].inst, task)
<1>1. PICK n \in db[h].task.todo :
        db' = [db EXCEPT ![h].task.name = n,
                         ![h].task.todo = @ \ {n},
                         ![h].at = IF db[h].inst[n] = Nothing THEN "build"
                                   ELSE Onward(db[h].task)]
  BY DEF Each
<1> DEFINE w == IF db[h].inst[n] = Nothing THEN "build" ELSE Onward(db[h].task)
           task == [db[h].task EXCEPT !.name = n, !.todo = @ \ {n}]
<1>2. db[h] \in HandleStates /\ db[h].task \in Tasks /\ n \in Names
  BY <1>1 DEF TypeInv, HandleStates, Tasks
<1>3. db[h].task.kind \in {"compact_all", "stats"}
  BY DEF Each, At, PlaceOK
<1>4. /\ w \in {"build", "each", "compact"} /\ w \in Places
      /\ w = "build" <=> db[h].inst[n] = Nothing
      /\ w = "compact" => db[h].task.kind = "compact_all"
  BY <1>3 DEF Onward, Places
<1>5. task \in Tasks /\ task.kind = db[h].task.kind /\ task.name = n
  BY <1>2 DEF Tasks
<1>6. db' = [db EXCEPT ![h].task = task, ![h].at = w]
  BY <1>1
<1> HIDE DEF w, task
<1>7. Moved(h, w, db[h].key, db[h].names, db[h].inst, task)
  BY <1>2, <1>4, <1>5, <1>6 DEF TypeInv, HandleStates, Moved
<1> QED BY <1>2, <1>3, <1>4, <1>5, <1>7

\* The steps of handle h.
Step(h) ==
  \/ OpenKey(h) \/ SaveSalt(h) \/ LoadMetadata(h)
  \/ CallCollection(h) \/ Build(h) \/ RecoverCheckpoint(h) \/ Register(h)
  \/ CallCreate(h) \/ LogCreate(h) \/ Reject(h) \/ AppendRecord(h)
  \/ WriteCheckpoint(h)
  \/ CallDrop(h) \/ UnlinkData(h) \/ UnlinkCounter(h) \/ Unregister(h)
  \/ CallAll(h) \/ Each(h)
  \/ CompactOne(h) \/ CompactCheckpoint(h) \/ CompactLog(h)
  \/ Stop(h)

\* The steps that go from place to place, and to which.
Goes(h, w) ==
  \/ SaveSalt(h) /\ w = "meta"
  \/ RecoverCheckpoint(h) /\ w = "built"
  \/ LogCreate(h) /\ w = "append"
  \/ AppendRecord(h) /\ w = "checkpoint"
  \/ UnlinkData(h) /\ w = "unlink"
  \/ UnlinkCounter(h) /\ w = "unregister"
  \/ CompactOne(h) /\ w = "compacted"
  \/ CompactCheckpoint(h) /\ w = "each"

Finishes(h) == Reject(h) \/ WriteCheckpoint(h) \/ CompactLog(h)

LEMMA GoesEffect ==
  ASSUME TypeInv, NEW h \in Handles, NEW w, Goes(h, w)
  PROVE  Moved(h, w, db[h].key, db[h].names, db[h].inst, db[h].task)
<1>1. w \in Places
  BY DEF Goes, Places
<1>2. Go(h, w)
  BY DEF Goes, SaveSalt, RecoverCheckpoint, LogCreate, AppendRecord,
         UnlinkData, UnlinkCounter, CompactOne, CompactCheckpoint
<1> QED BY <1>1, <1>2, GoEffect

LEMMA FinishesEffect ==
  ASSUME TypeInv, NEW h \in Handles, Finishes(h)
  PROVE  Moved(h, "up", db[h].key, db[h].names, db[h].inst, NoTask)
  BY FinishEffect DEF Finishes, Reject, WriteCheckpoint, CompactLog

LEMMA StopEffect ==
  ASSUME TypeInv, NEW h \in Handles, Stop(h)
  PROVE  Moved(h, "down", NoKey, {}, NoInst, NoTask)
  BY DownEffect DEF Stop

\* Every step is one of these kinds.
LEMMA StepKinds ==
  ASSUME NEW h \in Handles, Step(h)
  PROVE  \/ OpenKey(h) \/ LoadMetadata(h) \/ CallCollection(h) \/ Build(h)
         \/ Register(h) \/ CallCreate(h) \/ CallDrop(h) \/ Unregister(h)
         \/ CallAll(h) \/ Each(h) \/ Stop(h) \/ Finishes(h)
         \/ \E w \in Places : Goes(h, w)
<1>1. {"meta", "built", "append", "checkpoint", "unlink", "unregister",
       "compacted", "each"} \subseteq Places
  BY DEF Places
<1> QED BY <1>1 DEF Step, Finishes, Goes

LEMMA WriteType ==
  ASSUME NEW lines \in SUBSET Entries, NEW new \in SUBSET Entries
  PROVE  Write(lines, new) \in SUBSET Entries
  BY DEF Write

\* Which steps change which file.
LEMMA Frame ==
  ASSUME NEW h \in Handles, Step(h)
  PROVE  /\ SaveSalt(h) \/ UNCHANGED salt
         /\ LoadMetadata(h) \/ Register(h) \/ Unregister(h) \/ UNCHANGED meta
         /\ \/ Build(h) \/ AppendRecord(h) \/ UnlinkData(h) \/ CompactOne(h)
            \/ UNCHANGED rows
         /\ CallCreate(h) \/ UnlinkCounter(h) \/ UNCHANGED ctr
         /\ \/ RecoverCheckpoint(h) \/ LogCreate(h) \/ WriteCheckpoint(h)
            \/ CompactCheckpoint(h) \/ CompactLog(h)
            \/ UNCHANGED log
         /\ UnlinkData(h) \/ UNCHANGED life
         /\ LogCreate(h) \/ UnlinkData(h) \/ UNCHANGED logged
         /\ Stop(h) \/ UNCHANGED restarts
  BY DEF Step, OpenKey, SaveSalt, LoadMetadata, CallCollection, Build,
         RecoverCheckpoint, Register, CallCreate, LogCreate, Reject,
         AppendRecord, WriteCheckpoint, CallDrop, UnlinkData, UnlinkCounter,
         Unregister, CallAll, Each, CompactOne, CompactCheckpoint, CompactLog,
         Stop, disk, ghost

\* Once there is a metadata file it stays, and so does its mode.
LEMMA MetaStays ==
  ASSUME TypeInv, NEW h \in Handles, PlaceOK(h), Step(h)
  PROVE  /\ meta' \in Metadata \cup {Nothing}
         /\ meta # Nothing => meta' # Nothing /\ meta'.encrypted = meta.encrypted
<1>1. CASE LoadMetadata(h)
  BY <1>1, LoadEffect DEF TypeInv
<1>2. CASE Register(h) \/ Unregister(h)
  <2>1. meta \in Metadata /\ meta # Nothing
    BY <1>2 DEF TypeInv, PlaceOK, Opened, Register, Unregister, At
  <2>2. \A names \in SUBSET Names :
          /\ [meta EXCEPT !.names = names] \in Metadata
          /\ [meta EXCEPT !.names = names].encrypted = meta.encrypted
    BY <2>1 DEF Metadata
  <2>3. meta' = meta \/ \E names \in SUBSET Names :
          meta' = [meta EXCEPT !.names = names]
    <3>1. db[h].names \in SUBSET Names
      BY DEF TypeInv, HandleStates
    <3>2. CASE Register(h)
      <4>1. db[h].task.name \in Names
        BY <3>2, RegisterEffect
      <4>2. db[h].names \cup {db[h].task.name} \in SUBSET Names
        BY <3>1, <4>1
      <4> QED BY <3>2, <4>2, RegisterEffect
    <3>3. CASE Unregister(h)
      <4>1. db[h].names \ {db[h].task.name} \in SUBSET Names
        BY <3>1
      <4> QED BY <3>3, <4>1, UnregisterEffect
    <3> QED BY <1>2, <3>2, <3>3
  <2>4. CASE meta' = meta
    BY <2>1, <2>4
  <2>5. CASE \E names \in SUBSET Names : meta' = [meta EXCEPT !.names = names]
    BY <2>1, <2>2, <2>5, DatabaseAssumption
  <2> QED BY <2>3, <2>4, <2>5
<1> QED BY <1>1, <1>2, Frame DEF TypeInv

LEMMA TypeStep ==
  ASSUME TypeInv, NEW h \in Handles, PlaceOK(h), Step(h)
  PROVE  TypeInv'
<1>1. db' \in [Handles -> HandleStates]
  BY StepKinds, OpenEffect, LoadEffect, CallEffect, BuildEffect,
     RegisterEffect, CreateEffect, DropEffect, UnregisterEffect, CallAllEffect,
     EachEffect, StopEffect, FinishesEffect, GoesEffect, ZenonT(40)
  DEF Moved
<1>2. /\ At(h, "log") \/ At(h, "append") =>
           /\ db[h].task.entry \in Entries
           /\ db[h].task.entry.name \in Names
      /\ db[h].at \notin {"down", "salt", "meta", "up", "each"} =>
           NameOf(h) \in Names
  BY DEF At, PlaceOK, NameOf, Creating, Entries
<1>3. salt' \in Handles \cup {Nothing}
  BY Frame DEF TypeInv, SaveSalt
<1>4. meta' \in Metadata \cup {Nothing}
  BY MetaStays
<1>5. rows' \in [Names -> SUBSET Entries]
  <2>1. CASE Build(h)
    <3>1. Pending(NameOf(h), db[h].key) \in SUBSET Entries
      BY DEF Pending, TypeInv
    <3> QED BY <1>2, <2>1, <3>1, WriteType DEF Build, TypeInv, At
  <2>2. CASE AppendRecord(h)
    BY <1>2, <2>2, WriteType DEF AppendRecord, TypeInv, At
  <2>3. CASE UnlinkData(h) \/ CompactOne(h)
    BY <1>2, <2>3 DEF UnlinkData, CompactOne, TypeInv, At
  <2> QED BY <2>1, <2>2, <2>3, Frame DEF TypeInv
<1>6. ctr' \in [Names -> Nat]
  <2>1. CASE CallCreate(h)
    BY <2>1, CreateEffect DEF TypeInv, Entries
  <2>2. CASE UnlinkCounter(h)
    BY <2>2 DEF TypeInv, UnlinkCounter
  <2> QED BY <2>1, <2>2, Frame DEF TypeInv
<1>7. log' \in SUBSET Entries
  <2>1. CASE LogCreate(h)
    BY <1>2, <2>1, WriteType DEF LogCreate, TypeInv
  <2>2. CASE \/ RecoverCheckpoint(h) \/ WriteCheckpoint(h)
             \/ CompactCheckpoint(h) \/ CompactLog(h)
    BY <2>2 DEF RecoverCheckpoint, WriteCheckpoint, CompactCheckpoint,
                CompactLog, Checkpoint, Readable, TypeInv
  <2> QED BY <2>1, <2>2, Frame DEF TypeInv
<1>8. life' \in [Names -> Nat]
  BY Frame DEF TypeInv, UnlinkData
<1>9. logged' \in [Names -> SUBSET Entries]
  <2>1. CASE LogCreate(h)
    BY <1>2, <2>1 DEF LogCreate, TypeInv
  <2>2. CASE UnlinkData(h)
    BY <2>2 DEF UnlinkData, TypeInv
  <2> QED BY <2>1, <2>2, Frame DEF TypeInv
<1>10. restarts' \in Nat
  BY Frame DEF TypeInv, Stop
<1> QED BY <1>1, <1>3, <1>4, <1>5, <1>6, <1>7, <1>8, <1>9, <1>10 DEF TypeInv

LEMMA PlaceStep ==
  ASSUME TypeInv, NEW h \in Handles, PlaceOK(h), Step(h)
  PROVE  PlaceOK(h)'
<1> USE DEF PlaceOK, Building, Creating, Dropping, Compacting, Moved, Opened
<1>1. meta # Nothing => meta' # Nothing
  BY MetaStays
<1>2. CASE OpenKey(h)
  BY <1>1, <1>2, OpenEffect DEF OpenKey, At
<1>3. CASE LoadMetadata(h)
  <2>1. meta' # Nothing /\ At(h, "meta")
    BY <1>3, LoadEffect DEF LoadMetadata
  <2>2. CASE Moved(h, "down", NoKey, {}, NoInst, NoTask)
    BY <2>1, <2>2 DEF NoInst
  <2>3. CASE Moved(h, "up", db[h].key, meta'.names, db[h].inst, db[h].task)
    BY <2>1, <2>3
  <2> QED BY <1>3, <2>2, <2>3, LoadEffect
<1>4. CASE CallCollection(h)
  <2>1. PICK n \in Names, task \in Tasks :
          /\ db[h].inst[n] = Nothing
          /\ task.kind = "collection" /\ task.name = n
          /\ Moved(h, "build", db[h].key, db[h].names, db[h].inst, task)
    BY <1>4, CallEffect
  <2> QED BY <1>1, <1>4, <2>1 DEF CallCollection, At
<1>5. CASE Build(h)
  <2>1. PICK w \in {"built", "replayed"}, task \in Tasks :
          /\ db[h].task.name \in Names
          /\ task.kind = db[h].task.kind /\ task.name = db[h].task.name
          /\ Moved(h, w, db[h].key, db[h].names, db[h].inst, task)
    BY <1>5, BuildEffect
  <2> QED BY <1>1, <1>5, <2>1 DEF Build, At
<1>6. CASE Register(h)
  <2> DEFINE n == db[h].task.name
             i == NewInstance(db[h].task)
  <2>1. n \in Names /\ i \in Instances /\ i # Nothing
    BY <1>6, RegisterEffect
  <2>2. PICK w \in {"up", "each", "compact"}, task \in Tasks :
          /\ w = "each" => task.kind \in {"compact_all", "stats"}
          /\ w = "compact" => task.kind = "compact_all" /\ task.name = n
          /\ Moved(h, w, db[h].key, db[h].names \cup {n},
                   [db[h].inst EXCEPT ![n] = i], task)
    BY <1>6, RegisterEffect
  <2> HIDE DEF n, i
  <2>3. db[h].inst \in [Names -> Instances \cup {Nothing}]
    BY DEF TypeInv, HandleStates
  <2>4. At(h, "built")
    BY <1>6 DEF Register
  <2> QED BY <1>1, <2>1, <2>2, <2>3, <2>4 DEF At
<1>7. CASE CallCreate(h)
  <2>1. PICK n \in Names, e \in Entries, i \in Instances, task \in Tasks :
          /\ db[h].inst[n] # Nothing
          /\ e.name = n /\ e.id = db[h].inst[n].last + 1 /\ e.life = life[n]
          /\ e.key = db[h].key
          /\ e.rec = "invalid" => ~i.full
          /\ i.last = e.id
          /\ ctr' = [ctr EXCEPT ![n] = e.id]
          /\ task.kind = "create" /\ task.name = n /\ task.entry = e
          /\ Moved(h, "log", db[h].key, db[h].names,
                   [db[h].inst EXCEPT ![n] = i], task)
    BY <1>7, CreateEffect
  <2>2. db[h].inst \in [Names -> Instances \cup {Nothing}] /\ i # Nothing
    BY DatabaseAssumption DEF TypeInv, HandleStates
  <2>3. At(h, "up")
    BY <1>7 DEF CallCreate
  <2> QED BY <1>1, <2>1, <2>2, <2>3 DEF At
<1>8. CASE CallDrop(h)
  <2>1. PICK n \in Names, w \in {"build", "built"}, task \in Tasks :
          /\ task.kind = "drop" /\ task.name = n
          /\ Moved(h, w, db[h].key, db[h].names,
                   [db[h].inst EXCEPT ![n] = Nothing], task)
    BY <1>8, DropEffect
  <2>2. db[h].inst \in [Names -> Instances \cup {Nothing}]
    BY DEF TypeInv, HandleStates
  <2>3. At(h, "up")
    BY <1>8 DEF CallDrop
  <2> QED BY <1>1, <2>1, <2>2, <2>3 DEF At
<1>9. CASE Unregister(h)
  BY <1>1, <1>9, UnregisterEffect, ZenonT(40) DEF Unregister, At
<1>10. CASE CallAll(h)
  BY <1>1, <1>10, CallAllEffect, ZenonT(40) DEF CallAll, At
<1>11. CASE Each(h)
  <2>1. PICK n \in Names, w \in {"build", "each", "compact"}, task \in Tasks :
          /\ task.name = n
          /\ task.kind \in {"compact_all", "stats"}
          /\ w = "build" <=> db[h].inst[n] = Nothing
          /\ w = "compact" => task.kind = "compact_all"
          /\ Moved(h, w, db[h].key, db[h].names, db[h].inst, task)
    BY <1>11, EachEffect
  <2> QED BY <1>1, <1>11, <2>1 DEF Each, At
<1>12. CASE Stop(h)
  BY <1>12, StopEffect DEF NoInst
<1>13. CASE Finishes(h)
  BY <1>1, <1>13, FinishesEffect
     DEF Finishes, Reject, WriteCheckpoint, CompactLog, At
<1>14. CASE \E w \in Places : Goes(h, w)
  <2>1. PICK w \in Places : Goes(h, w)
    BY <1>14
  <2>2. /\ \/ At(h, "salt") /\ w = "meta"
           \/ At(h, "replayed") /\ w = "built"
           \/ At(h, "log") /\ w = "append"
           \/ At(h, "append") /\ w = "checkpoint"
           \/ At(h, "built") /\ w = "unlink"
           \/ At(h, "unlink") /\ w = "unregister"
           \/ At(h, "compact") /\ w = "compacted"
           \/ At(h, "compacted") /\ w = "each"
    BY <2>1 DEF Goes, SaveSalt, RecoverCheckpoint, LogCreate, AppendRecord,
                UnlinkData, UnlinkCounter, CompactOne, CompactCheckpoint
  <2> QED BY <1>1, <2>1, <2>2, GoesEffect DEF At
<1> QED
  BY <1>2, <1>3, <1>4, <1>5, <1>6, <1>7, <1>8, <1>9, <1>10, <1>11, <1>12,
     <1>13, <1>14, StepKinds

-----------------------------------------------------------------------------
(* One key *)

\* A handle can read what is written with its key.
LEMMA ReadsOwn ==
  ASSUME NEW key, NEW e, e.key = key
  PROVE  CanRead(key, e)
  BY DEF CanRead

LEMMA OneKey ==
  ASSUME OneHandle, OnePassword, NEW k \in Keys, NEW j \in Keys,
         (k # NoKey) = (j # NoKey)
  PROVE  k = j
  BY DEF OneHandle, OnePassword, Keys

\* So it can read every line, and what pends for a collection is all that the
\* log has of it.
LEMMA ReadsAll ==
  ASSUME OneHandle, OnePassword, TypeInv, ModeInv, NEW h \in Handles, Opened(h)
  PROVE  LET key == db[h].key IN
         /\ \A n \in Names : \A e \in rows[n] : CanRead(key, e)
         /\ \A e \in log : CanRead(key, e) /\ e.key = key
         /\ Readable(key) = log
         /\ \A n \in Names :
              /\ Pending(n, key) = {e \in log : e.name = n}
              /\ Checkpoint(n, key) = {e \in log : e.name # n}
<1> DEFINE key == db[h].key
<1>1. key \in Keys
  BY DEF TypeInv, HandleStates
<1>2. ASSUME NEW n \in Names, NEW e \in rows[n] \cup log
      PROVE  e.key = key
  <2>1. e \in Entries
    BY <1>2 DEF TypeInv
  <2>2. e.key \in Keys
    BY <2>1 DEF Entries
  <2>3. (e.key # NoKey) = (key # NoKey)
    BY <1>2 DEF ModeInv
  <2> QED BY <1>1, <2>2, <2>3, OneKey
<1>3. \A e \in log : e.key = key
  <2>1. \A e \in log : e.name \in Names
    BY DEF TypeInv, Entries
  <2> QED BY <1>2, <2>1
<1>4. \A n \in Names : \A e \in rows[n] : CanRead(key, e)
  BY <1>2, ReadsOwn
<1>5. \A e \in log : CanRead(key, e)
  BY <1>3, ReadsOwn
<1> QED BY <1>3, <1>4, <1>5 DEF Readable, Pending, Checkpoint

\* A step writes no line but the entry of the create under way.
LEMMA LinesStep ==
  ASSUME TypeInv, NEW h \in Handles, PlaceOK(h), Step(h),
         NEW n \in Names, NEW e \in rows'[n]
  PROVE  \/ e \in rows[n]
         \/ e \in log /\ e.name = n
         \/ At(h, "append") /\ e = db[h].task.entry /\ n = NameOf(h)
<1> USE DEF TypeInv
<1>1. CASE Build(h)
  BY <1>1 DEF Build, Write, Pending
<1>2. CASE AppendRecord(h)
  BY <1>2 DEF AppendRecord, Write
<1>3. CASE UnlinkData(h) \/ CompactOne(h)
  BY <1>3 DEF UnlinkData, CompactOne
<1> QED BY <1>1, <1>2, <1>3, Frame

LEMMA LogStep ==
  ASSUME TypeInv, NEW h \in Handles, Step(h), NEW e \in log'
  PROVE  e \in log \/ (LogCreate(h) /\ e = db[h].task.entry)
<1>1. CASE LogCreate(h)
  BY <1>1 DEF LogCreate, Write
<1>2. CASE \/ RecoverCheckpoint(h) \/ WriteCheckpoint(h)
           \/ CompactCheckpoint(h) \/ CompactLog(h)
  BY <1>2 DEF RecoverCheckpoint, WriteCheckpoint, CompactCheckpoint,
              CompactLog, Checkpoint, Readable
<1> QED BY <1>1, <1>2, Frame

\* The key of a handle that has been opened does not change.
LEMMA KeyStep ==
  ASSUME TypeInv, NEW h \in Handles, PlaceOK(h), Step(h), Opened(h)'
  PROVE  \/ Opened(h) /\ db'[h].key = db[h].key
         \/ LoadMetadata(h) /\ meta'.encrypted = (db'[h].key # NoKey)
<1> USE DEF Moved, Opened
<1>1. CASE OpenKey(h)
  BY <1>1, OpenEffect
<1>2. CASE LoadMetadata(h)
  BY <1>2, LoadEffect
<1>3. CASE Stop(h)
  BY <1>3, StopEffect
<1>4. CASE CallCollection(h) \/ CallCreate(h) \/ CallDrop(h) \/ CallAll(h)
  <2>1. db'[h].key = db[h].key
    BY <1>4, CallEffect, CreateEffect, DropEffect, CallAllEffect
  <2> QED
    BY <1>4, <2>1, ZenonT(40)
      DEF CallCollection, CallCreate, CallDrop, CallAll, At
<1>5. CASE Build(h) \/ Register(h) \/ Each(h) \/ Unregister(h)
  <2>1. db'[h].key = db[h].key
    BY <1>5, BuildEffect, RegisterEffect, EachEffect, UnregisterEffect
  <2> QED BY <1>5, <2>1 DEF Build, Register, Each, Unregister, At
<1>6. CASE Finishes(h)
  BY <1>6, FinishesEffect
     DEF Finishes, Reject, WriteCheckpoint, CompactLog, At
<1>7. CASE \E w \in Places : Goes(h, w)
  <2>1. PICK w \in Places : Goes(h, w)
    BY <1>7
  <2>2. db'[h].key = db[h].key /\ db'[h].at = w
    BY <2>1, GoesEffect
  <2> QED
    BY <2>1, <2>2
       DEF Goes, SaveSalt, RecoverCheckpoint, LogCreate, AppendRecord,
           UnlinkData, UnlinkCounter, CompactOne, CompactCheckpoint, At
<1> QED
  BY <1>1, <1>2, <1>3, <1>4, <1>5, <1>6, <1>7, StepKinds

LEMMA ModeStep ==
  ASSUME TypeInv, ModeInv, NEW h \in Handles, PlaceOK(h), Step(h),
         \A g \in Handles : g = h
  PROVE  ModeInv'
<1>1. Opened(h)' => meta'.encrypted = (db'[h].key # NoKey)
  BY KeyStep, MetaStays DEF ModeInv, PlaceOK
<1>2. ASSUME At(h, "log") \/ At(h, "append")
      PROVE  LET e == db[h].task.entry IN
             /\ meta # Nothing /\ meta.encrypted = (e.key # NoKey)
             /\ e.name = NameOf(h)
  BY <1>2 DEF At, PlaceOK, Creating, Opened, ModeInv, NameOf
<1>3. ASSUME NEW n \in Names, NEW e \in rows'[n] \cup log'
      PROVE  meta # Nothing /\ meta.encrypted = (e.key # NoKey)
  <2>1. CASE e \in rows'[n]
    BY <1>2, <2>1, LinesStep DEF ModeInv
  <2>2. CASE e \in log'
    <3>1. CASE LogCreate(h) /\ e = db[h].task.entry
      BY <1>2, <3>1 DEF LogCreate
    <3>2. CASE e \in log
      BY <3>2 DEF ModeInv
    <3> QED BY <2>2, <3>1, <3>2, LogStep
  <2> QED BY <1>3, <2>1, <2>2
<1>4. ASSUME NEW n \in Names, NEW e \in rows'[n]
      PROVE  e.name = n
  BY <1>2, <1>4, LinesStep DEF ModeInv
<1>5. \A n \in Names : \A e \in rows'[n] \cup log' :
        meta' # Nothing /\ meta'.encrypted = (e.key # NoKey)
  BY <1>3, MetaStays
<1> QED BY <1>1, <1>4, <1>5 DEF ModeInv

-----------------------------------------------------------------------------
(* The registry *)

\* The steps that open, list and call, and change neither what is registered
\* nor what is logged.
Calls(h) ==
  CallCollection(h) \/ Build(h) \/ CallCreate(h) \/ CallDrop(h) \/ CallAll(h)
  \/ Each(h)

\* None of them opens a collection, and none but CallDrop lets go of one.
LEMMA CallsEffect ==
  ASSUME TypeInv, NEW h \in Handles, PlaceOK(h), Calls(h)
  PROVE  /\ UNCHANGED <<meta, log, life, logged>>
         /\ Opened(h) /\ db'[h].at \notin Dropping
         /\ db'[h].names = db[h].names
         /\ \A m \in Names :
              db'[h].inst[m] # Nothing => db[h].inst[m] # Nothing
<1> USE DEF Moved, Dropping
<1>1. /\ UNCHANGED <<meta, log, life, logged>>
      /\ Opened(h)
  BY DEF Calls, CallCollection, Build, CallCreate, CallDrop, CallAll, Each,
         disk, ghost, At, Opened
<1>2. db[h].inst \in [Names -> Instances \cup {Nothing}]
  BY DEF TypeInv, HandleStates
<1>3. CASE CallCollection(h)
  BY <1>1, <1>3, CallEffect
<1>4. CASE Build(h)
  BY <1>1, <1>4, BuildEffect
<1>5. CASE CallCreate(h)
  <2>1. PICK n \in Names, e \in Entries, i \in Instances, task \in Tasks :
          /\ db[h].inst[n] # Nothing
          /\ e.name = n /\ e.id = db[h].inst[n].last + 1 /\ e.life = life[n]
          /\ e.key = db[h].key
          /\ e.rec = "invalid" => ~i.full
          /\ i.last = e.id
          /\ ctr' = [ctr EXCEPT ![n] = e.id]
          /\ task.kind = "create" /\ task.name = n /\ task.entry = e
          /\ Moved(h, "log", db[h].key, db[h].names,
                   [db[h].inst EXCEPT ![n] = i], task)
    BY <1>5, CreateEffect
  <2> QED BY <1>1, <1>2, <2>1
<1>6. CASE CallDrop(h)
  <2>1. PICK n \in Names, w \in {"build", "built"}, task \in Tasks :
          /\ task.kind = "drop" /\ task.name = n
          /\ Moved(h, w, db[h].key, db[h].names,
                   [db[h].inst EXCEPT ![n] = Nothing], task)
    BY <1>6, DropEffect, ZenonT(40)
  <2> QED BY <1>1, <1>2, <2>1
<1>7. CASE CallAll(h)
  BY <1>1, <1>7, CallAllEffect
<1>8. CASE Each(h)
  BY <1>1, <1>8, EachEffect
<1> QED BY <1>3, <1>4, <1>5, <1>6, <1>7, <1>8 DEF Calls

LEMMA NamesStep ==
  ASSUME TypeInv, NamesInv, NEW h \in Handles, PlaceOK(h), Step(h),
         \A g \in Handles : g = h
  PROVE  NamesInv'
<1> DEFINE Knows == /\ db[h].names = meta.names
                    /\ \A n \in Names : db[h].inst[n] # Nothing => n \in meta.names
                    /\ db[h].at \in Dropping => logged[db[h].task.name] = {}
<1>1. Opened(h) => Knows
  BY DEF NamesInv
<1>2. \A n \in Names : logged[n] # {} => meta # Nothing /\ n \in meta.names
  BY DEF NamesInv, RecordsRegistered
<1>3. ASSUME Opened(h)' => Knows',
             \A n \in Names : logged'[n] # {} => meta' # Nothing /\ n \in meta'.names
      PROVE  NamesInv'
  BY <1>3 DEF NamesInv, RecordsRegistered
<1>4. ASSUME UNCHANGED meta, db'[h].names = db[h].names,
             db'[h].inst = db[h].inst, Opened(h)
      PROVE  /\ db'[h].names = meta'.names
             /\ \A n \in Names : db'[h].inst[n] # Nothing => n \in meta'.names
  BY <1>1, <1>4
<1>5. CASE OpenKey(h) \/ Stop(h)
  <2>1. ~Opened(h)' /\ UNCHANGED <<meta, logged>>
    BY <1>5, OpenEffect, StopEffect
       DEF OpenKey, Stop, disk, ghost, Moved, Opened
  <2> QED BY <1>2, <1>3, <2>1
<1>6. CASE LoadMetadata(h)
  <2>1. UNCHANGED logged /\ At(h, "meta")
    BY <1>6 DEF LoadMetadata, ghost
  <2>2. \A n \in Names : logged'[n] # {} => meta' # Nothing /\ n \in meta'.names
    BY <1>2, <1>6, <2>1, LoadEffect
  <2>3. CASE Moved(h, "down", NoKey, {}, NoInst, NoTask)
    BY <1>3, <2>2, <2>3 DEF Moved, Opened
  <2>4. CASE Moved(h, "up", db[h].key, meta'.names, db[h].inst, db[h].task)
    <3>1. \A n \in Names : db[h].inst[n] = Nothing
      BY <2>1 DEF PlaceOK, At
    <3>2. Knows'
      BY <2>4, <3>1 DEF Moved, Dropping
    <3> QED BY <1>3, <2>2, <3>2
  <2> QED BY <1>6, <2>3, <2>4, LoadEffect
<1>7. CASE Calls(h)
  BY <1>1, <1>2, <1>3, <1>7, CallsEffect
<1>8. CASE Register(h)
  <2> DEFINE n == db[h].task.name
             i == NewInstance(db[h].task)
  <2>1. n \in Names /\ UNCHANGED logged /\ Opened(h)
    BY <1>8, RegisterEffect DEF Register, ghost, At, Opened
  <2>2. meta' = IF n \in db[h].names THEN meta
                ELSE [meta EXCEPT !.names = db[h].names \cup {n}]
    BY <1>8, RegisterEffect
  <2>3. PICK w \in {"up", "each", "compact"}, task \in Tasks :
          /\ w = "each" => task.kind \in {"compact_all", "stats"}
          /\ w = "compact" => task.kind = "compact_all" /\ task.name = n
          /\ Moved(h, w, db[h].key, db[h].names \cup {n},
                   [db[h].inst EXCEPT ![n] = i], task)
    BY <1>8, RegisterEffect
  <2> HIDE DEF n, i
  <2>4. meta \in Metadata /\ meta # Nothing
    BY <2>1 DEF TypeInv, PlaceOK
  <2>5. meta'.names = meta.names \cup {n}
    BY <1>1, <2>1, <2>2, <2>4 DEF Metadata
  <2>6. meta' # Nothing
    BY <2>4, MetaStays
  <2>7. db[h].inst \in [Names -> Instances \cup {Nothing}]
    BY DEF TypeInv, HandleStates
  <2>8. Knows'
    BY <1>1, <2>1, <2>3, <2>5, <2>7 DEF Moved, Dropping
  <2> QED BY <1>2, <1>3, <2>1, <2>5, <2>6, <2>8
<1>9. CASE Unregister(h)
  <2> DEFINE n == db[h].task.name
  <2>1. /\ n \in Names /\ UNCHANGED logged /\ Opened(h)
        /\ db[h].inst[n] = Nothing /\ db[h].at \in Dropping
    BY <1>9 DEF Unregister, ghost, At, Opened, PlaceOK, Dropping
  <2>2. /\ meta' = IF n \in db[h].names
                     THEN [meta EXCEPT !.names = db[h].names \ {n}] ELSE meta
        /\ Moved(h, "up", db[h].key, db[h].names \ {n}, db[h].inst, NoTask)
    BY <1>9, UnregisterEffect
  <2> HIDE DEF n
  <2>3. meta \in Metadata /\ meta # Nothing
    BY <2>1 DEF TypeInv, PlaceOK
  <2>4. meta'.names = meta.names \ {n}
    BY <1>1, <2>1, <2>2, <2>3 DEF Metadata
  <2>5. meta' # Nothing
    BY <2>3, MetaStays
  <2>6. logged[n] = {}
    BY <1>1, <2>1 DEF n
  <2>7. Knows'
    BY <1>1, <2>1, <2>2, <2>4 DEF Moved, Dropping
  <2> QED BY <1>2, <1>3, <2>1, <2>4, <2>5, <2>6, <2>7
<1>10. CASE Finishes(h)
  <2>1. UNCHANGED <<meta, logged>> /\ Opened(h)
    BY <1>10 DEF Finishes, Reject, WriteCheckpoint, CompactLog, disk, ghost,
                 At, Opened
  <2>2. Moved(h, "up", db[h].key, db[h].names, db[h].inst, NoTask)
    BY <1>10, FinishesEffect
  <2> QED BY <1>2, <1>3, <1>4, <2>1, <2>2 DEF Moved, Dropping
<1>11. CASE \E w \in Places : Goes(h, w)
  <2>1. PICK w \in Places : Goes(h, w)
    BY <1>11
  <2>2. Moved(h, w, db[h].key, db[h].names, db[h].inst, db[h].task)
    BY <2>1, GoesEffect
  <2>3. UNCHANGED meta
    BY <2>1 DEF Goes, SaveSalt, RecoverCheckpoint, LogCreate, AppendRecord,
                UnlinkData, UnlinkCounter, CompactOne, CompactCheckpoint
  <2>4. CASE SaveSalt(h)
    BY <1>2, <1>3, <2>1, <2>2, <2>4
       DEF SaveSalt, Goes, RecoverCheckpoint, LogCreate, AppendRecord,
           UnlinkData, UnlinkCounter, CompactOne, CompactCheckpoint, At,
           Moved, Opened, ghost
  <2>5. CASE UnlinkData(h)
    <3>1. /\ logged' = [logged EXCEPT ![NameOf(h)] = {}]
          /\ NameOf(h) \in Names /\ Opened(h)
      BY <2>5 DEF UnlinkData, At, PlaceOK, NameOf, Opened
    <3>2. \A n \in Names : logged'[n] \subseteq logged[n]
      BY <3>1 DEF TypeInv
    <3>3. logged'[db'[h].task.name] = {}
      BY <2>2, <3>1 DEF Moved, NameOf, TypeInv
    <3> QED BY <1>2, <1>3, <1>4, <2>2, <2>3, <3>1, <3>2, <3>3 DEF Moved
  <2>6. CASE LogCreate(h)
    <3>1. /\ \A n \in Names : logged'[n] = logged[n] \/ n = NameOf(h)
          /\ NameOf(h) \in Names /\ Opened(h) /\ db[h].inst[NameOf(h)] # Nothing
          /\ w \notin Dropping
      BY <2>1, <2>6
         DEF LogCreate, At, PlaceOK, NameOf, Opened, Creating, TypeInv, Goes,
             SaveSalt, RecoverCheckpoint, AppendRecord, UnlinkData,
             UnlinkCounter, CompactOne, CompactCheckpoint, Dropping
    <3>2. meta # Nothing /\ NameOf(h) \in meta.names
      BY <1>1, <3>1 DEF PlaceOK
    <3> QED BY <1>2, <1>3, <1>4, <2>2, <2>3, <3>1, <3>2 DEF Moved
  <2>7. CASE \/ RecoverCheckpoint(h) \/ AppendRecord(h) \/ UnlinkCounter(h)
             \/ CompactOne(h) \/ CompactCheckpoint(h)
    <3>1. /\ UNCHANGED logged /\ Opened(h)
          /\ w \in Dropping => db[h].at \in Dropping
      BY <2>1, <2>7
         DEF Goes, SaveSalt, RecoverCheckpoint, LogCreate, AppendRecord,
             UnlinkData, UnlinkCounter, CompactOne, CompactCheckpoint, At,
             Opened, ghost, Dropping
    <3> QED BY <1>1, <1>2, <1>3, <1>4, <2>2, <2>3, <3>1 DEF Moved
  <2> QED BY <2>1, <2>4, <2>5, <2>6, <2>7 DEF Goes
<1> QED
  BY <1>5, <1>6, <1>7, <1>8, <1>9, <1>10, <1>11, StepKinds DEF Calls

-----------------------------------------------------------------------------
(* Ids *)

LEMMA CounterStep ==
  ASSUME TypeInv, NamesInv, CounterInv, NEW h \in Handles, PlaceOK(h), Step(h),
         \A g \in Handles : g = h
  PROVE  CounterInv'
<1>1. /\ \A m \in Names : db[h].inst[m] # Nothing => db[h].inst[m].last = ctr[m]
      /\ \A n \in Names : \A e \in logged[n] : e.name = n /\ e.id <= ctr[n]
      /\ CounterOK(h)
  BY DEF CounterInv, CounterOK
<1>2. ASSUME CounterOK(h)',
             \A n \in Names : \A e \in logged'[n] : e.name = n /\ e.id <= ctr'[n]
      PROVE  CounterInv'
  BY <1>2 DEF CounterInv
<1>3. /\ db[h].inst \in [Names -> Instances \cup {Nothing}]
      /\ ctr \in [Names -> Nat] /\ logged \in [Names -> SUBSET Entries]
  BY DEF TypeInv, HandleStates
\* Steps to a place where nothing is said of the task.
<1>4. ASSUME UNCHANGED <<ctr, logged>>,
             db'[h].at \notin {"replayed", "built", "log", "append"},
             \A m \in Names : db'[h].inst[m] \in {db[h].inst[m], Nothing}
      PROVE  CounterInv'
  BY <1>1, <1>2, <1>4 DEF CounterOK
<1>5. CASE OpenKey(h) \/ Stop(h)
  <2>1. UNCHANGED <<ctr, logged>>
    BY <1>5 DEF OpenKey, Stop, disk, ghost
  <2>2. \A m \in Names : db'[h].inst[m] \in {db[h].inst[m], Nothing}
    BY <1>5, OpenEffect, StopEffect DEF Moved, NoInst
  <2>3. db'[h].at \in {"salt", "meta", "down"}
    BY <1>5, OpenEffect, StopEffect DEF Moved
  <2> QED BY <1>4, <2>1, <2>2, <2>3
<1>6. CASE LoadMetadata(h)
  <2>1. UNCHANGED <<ctr, logged>>
    BY <1>6 DEF LoadMetadata, ghost
  <2> QED BY <1>4, <1>6, <2>1, LoadEffect DEF Moved, NoInst
<1>7. CASE CallCollection(h) \/ CallAll(h) \/ Each(h)
  <2>1. UNCHANGED <<ctr, logged>>
    BY <1>7 DEF CallCollection, CallAll, Each, disk, ghost
  <2>2. /\ db'[h].inst = db[h].inst
        /\ db'[h].at \in {"build", "each", "compact"}
    BY <1>7, CallEffect, CallAllEffect, EachEffect DEF Moved
  <2> QED BY <1>4, <2>1, <2>2
<1>8. CASE Build(h)
  <2>1. PICK w \in {"built", "replayed"}, task \in Tasks :
          /\ task.name = db[h].task.name /\ task.last = ctr[db[h].task.name]
          /\ Moved(h, w, db[h].key, db[h].names, db[h].inst, task)
    BY <1>8, BuildEffect
  <2>2. UNCHANGED <<ctr, logged>>
    BY <1>8 DEF Build, ghost
  <2> QED BY <1>1, <1>2, <2>1, <2>2 DEF CounterOK, Moved
<1>9. CASE Register(h)
  <2> DEFINE n == db[h].task.name
             i == NewInstance(db[h].task)
  <2>1. /\ n \in Names /\ i.last = db[h].task.last
        /\ db[h].task.kind # "drop"
    BY <1>9, RegisterEffect
  <2>2. PICK w \in {"up", "each", "compact"}, task \in Tasks :
          /\ w = "each" => task.kind \in {"compact_all", "stats"}
          /\ w = "compact" => task.kind = "compact_all" /\ task.name = n
          /\ Moved(h, w, db[h].key, db[h].names \cup {n},
                   [db[h].inst EXCEPT ![n] = i], task)
    BY <1>9, RegisterEffect
  <2>3. db[h].at = "built" /\ UNCHANGED <<ctr, logged>>
    BY <1>9 DEF Register, At, ghost
  <2>4. db[h].task.last = ctr[n]
    BY <1>1, <2>1, <2>3 DEF CounterOK
  <2> HIDE DEF n, i
  <2> QED BY <1>1, <1>2, <1>3, <2>1, <2>2, <2>3, <2>4 DEF CounterOK, Moved
<1>10. CASE CallCreate(h)
  <2>1. PICK n \in Names, e \in Entries, i \in Instances, task \in Tasks :
          /\ db[h].inst[n] # Nothing
          /\ e.name = n /\ e.id = db[h].inst[n].last + 1 /\ e.life = life[n]
          /\ e.key = db[h].key
          /\ e.rec = "invalid" => ~i.full
          /\ i.last = e.id
          /\ ctr' = [ctr EXCEPT ![n] = e.id]
          /\ task.kind = "create" /\ task.name = n /\ task.entry = e
          /\ Moved(h, "log", db[h].key, db[h].names,
                   [db[h].inst EXCEPT ![n] = i], task)
    BY <1>10, CreateEffect
  <2>2. UNCHANGED logged
    BY <1>10 DEF CallCreate, ghost
  <2>3. e.id = ctr[n] + 1 /\ ctr[n] \in Nat
    BY <1>1, <1>3, <2>1
  <2>4. \A x \in logged[n] : x.id \in Nat /\ x.id <= ctr[n]
    BY <1>1, <1>3 DEF Entries
  <2>5. \A x \in logged[n] : x.id # e.id /\ x.id <= e.id
    BY <2>3, <2>4
  <2>6. /\ ctr'[n] = e.id
        /\ \A m \in Names \ {n} : ctr'[m] = ctr[m]
    BY <1>3, <2>1
  <2>7. \A m \in Names : \A x \in logged'[m] : x.name = m /\ x.id <= ctr'[m]
    BY <1>1, <2>2, <2>5, <2>6
  <2>8. /\ db'[h].at = "log" /\ db'[h].task.name = n /\ db'[h].task.entry = e
        /\ db'[h].inst[n].last = e.id
        /\ \A m \in Names \ {n} : db'[h].inst[m] = db[h].inst[m]
    BY <1>3, <2>1 DEF Moved
  <2>9. CounterOK(h)'
    BY <1>1, <2>2, <2>5, <2>6, <2>8 DEF CounterOK
  <2> QED BY <1>2, <2>7, <2>9
<1>11. CASE CallDrop(h)
  <2>1. PICK n \in Names, w \in {"build", "built"}, task \in Tasks :
          /\ task.kind = "drop" /\ task.name = n
          /\ Moved(h, w, db[h].key, db[h].names,
                   [db[h].inst EXCEPT ![n] = Nothing], task)
    BY <1>11, DropEffect
  <2>2. UNCHANGED <<ctr, logged>>
    BY <1>11 DEF CallDrop, disk, ghost
  <2> QED BY <1>1, <1>2, <1>3, <2>1, <2>2 DEF CounterOK, Moved
<1>12. CASE Finishes(h) \/ Unregister(h)
  <2>1. UNCHANGED <<ctr, logged>>
    BY <1>12 DEF Finishes, Reject, WriteCheckpoint, CompactLog, Unregister,
                 disk, ghost
  <2>2. db'[h].at = "up" /\ db'[h].inst = db[h].inst
    BY <1>12, FinishesEffect, UnregisterEffect DEF Moved
  <2> QED BY <1>4, <2>1, <2>2
<1>13. CASE \E w \in Places : Goes(h, w)
  <2>1. PICK w \in Places : Goes(h, w)
    BY <1>13
  <2>2. Moved(h, w, db[h].key, db[h].names, db[h].inst, db[h].task)
    BY <2>1, GoesEffect
  <2> USE DEF Goes, SaveSalt, RecoverCheckpoint, LogCreate, AppendRecord,
              UnlinkData, UnlinkCounter, CompactOne, CompactCheckpoint
  <2>3. CASE \/ SaveSalt(h) \/ AppendRecord(h) \/ CompactOne(h)
             \/ CompactCheckpoint(h)
    <3>1. w \in {"meta", "checkpoint", "compacted", "each"}
      BY <2>1, <2>3 DEF At
    <3>2. UNCHANGED <<ctr, logged>>
      BY <2>3 DEF ghost
    <3> QED BY <1>4, <2>2, <3>1, <3>2 DEF Moved
  <2>4. CASE RecoverCheckpoint(h)
    <3>1. w = "built" /\ db[h].at = "replayed" /\ UNCHANGED <<ctr, logged>>
      BY <2>1, <2>4 DEF At, ghost
    <3> QED BY <1>1, <1>2, <2>2, <3>1 DEF CounterOK, Moved
  <2>5. CASE UnlinkData(h)
    <3>1. w = "unlink" /\ UNCHANGED ctr
      BY <2>1, <2>5 DEF At
    <3>2. \A n \in Names : logged'[n] \subseteq logged[n]
      BY <1>3, <2>5
    <3> QED BY <1>1, <1>2, <2>2, <3>1, <3>2 DEF CounterOK, Moved
  <2>6. CASE UnlinkCounter(h)
    <3> DEFINE n == NameOf(h)
    <3>1. /\ w = "unregister" /\ UNCHANGED logged
          /\ ctr' = [ctr EXCEPT ![n] = 0]
      BY <2>1, <2>6 DEF At, ghost
    <3>2. n \in Names /\ db[h].inst[n] = Nothing /\ logged[n] = {}
      BY <2>6 DEF At, PlaceOK, NameOf, Dropping, NamesInv, Opened
    <3> HIDE DEF n
    <3>3. \A m \in Names \ {n} : ctr'[m] = ctr[m]
      BY <1>3, <3>1
    <3>4. \A m \in Names : \A x \in logged'[m] : x.name = m /\ x.id <= ctr'[m]
      BY <1>1, <3>1, <3>2, <3>3
    <3>5. CounterOK(h)'
      BY <1>1, <2>2, <3>1, <3>2, <3>3 DEF CounterOK, Moved
    <3> QED BY <1>2, <3>4, <3>5
  <2>7. CASE LogCreate(h)
    <3> DEFINE n == NameOf(h)
               e == db[h].task.entry
    <3>1. /\ w = "append" /\ UNCHANGED ctr
          /\ logged' = IF Accepted(h) THEN [logged EXCEPT ![e.name] = @ \cup {e}]
                       ELSE logged
      BY <2>1, <2>7 DEF At
    <3>2. n \in Names /\ e \in Entries /\ e.name = n
      BY <2>7 DEF At, PlaceOK, NameOf, Creating
    <3>3. e.id = ctr[n] /\ \A x \in logged[n] : x.id # e.id
      BY <1>1, <2>7 DEF At, CounterOK, NameOf
    <3>4. Accepted(h)' <=> Accepted(h)
      BY <2>2 DEF Accepted, NameOf, Moved
    <3> HIDE DEF n, e
    <3>5. /\ logged'[n] = IF Accepted(h) THEN logged[n] \cup {e} ELSE logged[n]
          /\ \A m \in Names \ {n} : logged'[m] = logged[m]
      BY <1>3, <3>1, <3>2
    <3>6. \A m \in Names : \A x \in logged'[m] : x.name = m /\ x.id <= ctr'[m]
      <4>1. ctr[n] <= ctr[n]
        BY <1>3, <3>2
      <4> QED BY <1>1, <3>1, <3>2, <3>3, <3>5, <4>1
    <3>7. /\ Accepted(h)' <=> e \in logged'[n]
          /\ \A x \in logged'[n] : x.id = e.id => x = e
      BY <3>3, <3>4, <3>5
    <3>8. CounterOK(h)'
      BY <1>1, <2>2, <3>1, <3>7 DEF CounterOK, Moved, n, e, NameOf
    <3> QED BY <1>2, <3>6, <3>8
  <2> QED BY <2>1, <2>3, <2>4, <2>5, <2>6, <2>7
<1> QED
  BY <1>5, <1>6, <1>7, <1>8, <1>9, <1>10, <1>11, <1>12, <1>13, StepKinds

-----------------------------------------------------------------------------
(* What has been logged lands *)

\* Only a replay settles a collection.
LEMMA SettledStep ==
  ASSUME TypeInv, NEW h \in Handles, PlaceOK(h), Step(h),
         NEW n \in Names, Settled(h, n)'
  PROVE  Settled(h, n) \/ (Build(h) /\ NameOf(h) = n)
<1> USE DEF Moved, Settled
<1>1. CASE OpenKey(h)
  BY <1>1, OpenEffect DEF OpenKey, At
<1>2. CASE LoadMetadata(h)
  BY <1>2, LoadEffect DEF NoInst
<1>3. CASE CallCollection(h) \/ CallAll(h) \/ Each(h)
  <2>1. /\ db'[h].inst = db[h].inst
        /\ db'[h].at \in {"build", "each", "compact"}
    BY <1>3, CallEffect, CallAllEffect, EachEffect
  <2> QED BY <2>1
<1>4. CASE Build(h)
  BY <1>4, BuildEffect DEF NameOf
<1>5. CASE Register(h)
  <2> DEFINE m == db[h].task.name
             i == NewInstance(db[h].task)
  <2>1. PICK w \in {"up", "each", "compact"}, task \in Tasks :
          /\ w = "each" => task.kind \in {"compact_all", "stats"}
          /\ w = "compact" => task.kind = "compact_all" /\ task.name = m
          /\ Moved(h, w, db[h].key, db[h].names \cup {m},
                   [db[h].inst EXCEPT ![m] = i], task)
    BY <1>5, RegisterEffect
  <2>2. db[h].at = "built"
    BY <1>5 DEF Register, At
  <2> HIDE DEF i
  <2>3. db[h].inst \in [Names -> Instances \cup {Nothing}]
    BY DEF TypeInv, HandleStates
  <2> QED BY <2>1, <2>2, <2>3
<1>6. CASE CallCreate(h)
  <2>1. \A m \in Names : db'[h].inst[m] # Nothing => db[h].inst[m] # Nothing
    BY <1>6, CallsEffect DEF Calls
  <2>2. db'[h].at = "log"
    BY <1>6, CreateEffect
  <2> QED BY <2>1, <2>2
<1>7. CASE CallDrop(h)
  <2>1. PICK m \in Names, task \in Tasks :
          /\ task.kind = "drop" /\ task.name = m
          /\ Moved(h, IF db[h].inst[m] = Nothing THEN "build" ELSE "built",
                   db[h].key, db[h].names, [db[h].inst EXCEPT ![m] = Nothing],
                   task)
    BY <1>7, DropEffect
  <2>2. db[h].inst \in [Names -> Instances \cup {Nothing}]
    BY DEF TypeInv, HandleStates
  <2> QED BY <2>1, <2>2
<1>8. CASE Finishes(h) \/ Unregister(h)
  BY <1>8, FinishesEffect, UnregisterEffect
<1>9. CASE Stop(h)
  BY <1>9, StopEffect DEF NoInst
<1>10. CASE \E w \in Places : Goes(h, w)
  <2>1. PICK w \in Places : Goes(h, w)
    BY <1>10
  <2>2. Moved(h, w, db[h].key, db[h].names, db[h].inst, db[h].task)
    BY <2>1, GoesEffect
  <2>3. w \in {"replayed", "built"} => db[h].at = "replayed"
    BY <2>1 DEF Goes, RecoverCheckpoint, At
  <2> QED BY <2>2, <2>3
<1> QED
  BY <1>1, <1>2, <1>3, <1>4, <1>5, <1>6, <1>7, <1>8, <1>9, <1>10, StepKinds

LEMMA LandStep ==
  ASSUME OneHandle, OnePassword, TypeInv, ModeInv, CounterInv, LandInv,
         NEW h \in Handles, PlaceOK(h), Step(h)
  PROVE  LandInv'
<1> DEFINE Covered(n, e) ==
             e \in log \/ (e \in rows[n] /\ \A x \in log : x.name # n \/ x.id # e.id)
           Written(n, e) == e \in rows[n] \/ (At(h, "append") /\ e = db[h].task.entry)
<1>1. /\ \A n \in Names : \A e \in logged[n] : Covered(n, e)
      /\ \A n \in Names : Settled(h, n) => \A e \in logged[n] : Written(n, e)
      /\ \A n \in Names : \A e \in logged[n] : e.name = n
      /\ CounterOK(h)
  BY DEF LandInv, CounterInv
<1>2. ASSUME \A n \in Names : \A e \in logged'[n] : Covered(n, e)',
             \A n \in Names : Settled(h, n)' => \A e \in logged'[n] : Written(n, e)'
      PROVE  LandInv'
  BY <1>2 DEF LandInv, OneHandle
<1>3. /\ rows \in [Names -> SUBSET Entries] /\ log \in SUBSET Entries
      /\ logged \in [Names -> SUBSET Entries]
  BY DEF TypeInv
\* Steps that settle nothing, log nothing and lose no line.
<1>4. ASSUME ~Build(h), ~At(h, "append") \/ Stop(h),
             \A n \in Names : logged'[n] \subseteq logged[n],
             \A n \in Names : \A e \in logged'[n] : e \in rows[n] => e \in rows'[n]
      PROVE  \A n \in Names : Settled(h, n)' => \A e \in logged'[n] : Written(n, e)'
  <2> SUFFICES ASSUME NEW n \in Names, Settled(h, n)', NEW e \in logged'[n]
               PROVE  e \in rows'[n]
    OBVIOUS
  <2>1. ~Stop(h)
    BY StopEffect DEF Settled, Moved, NoInst
  <2>2. Settled(h, n)
    BY <1>4, SettledStep
  <2> QED BY <1>1, <1>4, <2>1, <2>2
<1>5. CASE UNCHANGED <<rows, log, logged>> /\ ~Build(h) /\ ~At(h, "append")
  BY <1>1, <1>2, <1>4, <1>5
<1>6. CASE Stop(h)
  <2>1. UNCHANGED <<rows, log, logged>> /\ ~Build(h)
    BY <1>6, StopEffect, BuildEffect DEF Stop, disk, ghost, Moved
  <2> QED BY <1>1, <1>2, <1>4, <1>6, <2>1
<1>7. CASE Reject(h)
  <2>1. UNCHANGED <<rows, log, logged>> /\ At(h, "append") /\ ~Accepted(h)
    BY <1>7 DEF Reject, disk, ghost
  <2>2. db[h].task.entry \notin logged[NameOf(h)]
    BY <1>1, <2>1 DEF CounterOK, At, NameOf
  <2>3. db[h].task.entry.name = NameOf(h)
    BY <2>1 DEF PlaceOK, At, Creating, NameOf
  <2>4. \A n \in Names : db[h].task.entry \notin logged[n]
    BY <1>1, <2>2, <2>3
  <2>5. ~Build(h)
    BY <2>1 DEF Build, At
  <2>6. ASSUME NEW n \in Names, Settled(h, n)', NEW e \in logged'[n]
        PROVE  e \in rows'[n]
    BY <1>1, <2>1, <2>4, <2>5, <2>6, SettledStep
  <2> QED BY <1>1, <1>2, <2>1, <2>6
<1>8. CASE Build(h)
  <2> DEFINE m == NameOf(h)
  <2>1. /\ m \in Names /\ Opened(h) /\ UNCHANGED <<log, logged>>
        /\ ~At(h, "append")
        /\ rows' = [rows EXCEPT ![m] = Write(@, Pending(m, db[h].key))]
    BY <1>8 DEF Build, At, PlaceOK, NameOf, Opened, ghost
  <2>2. Pending(m, db[h].key) = {e \in log : e.name = m}
    BY <2>1, ReadsAll
  <2> HIDE DEF m
  <2>3. rows'[m] = Write(rows[m], {e \in log : e.name = m})
        /\ \A n \in Names \ {m} : rows'[n] = rows[n]
    BY <1>3, <2>1, <2>2
  <2>4. \A e \in logged[m] : e \in rows'[m]
    BY <1>1, <2>1, <2>3 DEF Write
  <2>5. \A n \in Names : \A e \in logged'[n] : Covered(n, e)'
    BY <1>1, <2>1, <2>3, <2>4
  <2>6. ASSUME NEW n \in Names, Settled(h, n)', NEW e \in logged'[n]
        PROVE  e \in rows'[n]
    <3>1. CASE n = m
      BY <2>1, <2>4, <2>6, <3>1
    <3>2. CASE n # m
      <4>1. Settled(h, n)
        BY <2>6, <3>2, SettledStep DEF m
      <4> QED BY <1>1, <2>1, <2>3, <2>6, <3>2, <4>1
    <3> QED BY <3>1, <3>2
  <2> QED BY <1>2, <2>5, <2>6
<1>9. CASE RecoverCheckpoint(h) \/ WriteCheckpoint(h) \/ CompactCheckpoint(h)
  <2> DEFINE m == NameOf(h)
  <2>1. /\ m \in Names /\ Opened(h) /\ UNCHANGED <<rows, logged>>
        /\ ~At(h, "append") /\ ~Build(h) /\ Settled(h, m)
        /\ log' = Checkpoint(m, db[h].key)
    BY <1>9 DEF RecoverCheckpoint, WriteCheckpoint, CompactCheckpoint, Build, At,
                PlaceOK, NameOf, Opened, Settled, Creating, Compacting, ghost
  <2>2. log' = {e \in log : e.name # m}
    BY <2>1, ReadsAll
  <2> HIDE DEF m
  <2>3. \A e \in logged[m] : e \in rows[m]
    BY <1>1, <2>1
  <2>4. ASSUME NEW n \in Names, NEW e \in logged'[n] PROVE Covered(n, e)'
    <3>1. CASE n = m
      BY <2>1, <2>2, <2>3, <2>4, <3>1
    <3>2. CASE n # m
      BY <1>1, <2>1, <2>2, <2>4, <3>2
    <3> QED BY <3>1, <3>2
  <2>5. \A n \in Names : Settled(h, n)' => \A e \in logged'[n] : Written(n, e)'
    BY <1>4, <2>1
  <2> HIDE DEF Covered, Written
  <2> QED BY <1>2, <2>4, <2>5
<1>10. CASE LogCreate(h)
  <2> DEFINE m == NameOf(h)
             e == db[h].task.entry
  <2>1. /\ m \in Names /\ UNCHANGED rows /\ At(h, "log")
        /\ log' = Write(log, {e})
        /\ logged' = IF Accepted(h) THEN [logged EXCEPT ![e.name] = @ \cup {e}]
                     ELSE logged
        /\ e \in Entries /\ e.name = m
    BY <1>10 DEF LogCreate, At, PlaceOK, NameOf, Creating
  <2>2. \A x \in logged[m] : x.id # e.id
    BY <1>1, <2>1 DEF At, CounterOK, NameOf
  <2>3. Moved(h, "append", db[h].key, db[h].names, db[h].inst, db[h].task)
    BY <1>10, GoesEffect DEF Goes
  <2>4. db'[h].task.entry = e /\ At(h, "append")'
    BY <2>3 DEF Moved, At
  <2> HIDE DEF m, e
  <2>5. /\ logged'[m] \subseteq logged[m] \cup {e}
        /\ \A n \in Names \ {m} : logged'[n] = logged[n]
    BY <1>3, <2>1
  <2>6. ASSUME NEW n \in Names, NEW x \in logged[n]
        PROVE  x \in log => x \in log'
    BY <1>1, <2>1, <2>2, <2>6 DEF Write
  <2>7. ASSUME NEW n \in Names, NEW x \in logged[n]
        PROVE  n # e.name \/ e.id # x.id
    BY <2>1, <2>2, <2>7
  <2>8. \A x \in log' : x \in log \/ x = e
    BY <2>1 DEF Write
  <2>9. e \in log'
    BY <2>1 DEF Write
  <2>10. ASSUME NEW n \in Names, NEW x \in logged'[n] PROVE Covered(n, x)'
    <3>1. CASE x = e
      BY <2>9, <3>1
    <3>2. CASE x \in logged[n]
      <4>1. CASE x \in log
        BY <2>6, <3>2, <4>1
      <4>2. CASE x \in rows[n] /\ \A y \in log : y.name # n \/ y.id # x.id
        <5>1. x \in rows'[n]
          BY <2>1, <4>2
        <5>2. \A y \in log' : y.name # n \/ y.id # x.id
          BY <2>7, <2>8, <3>2, <4>2
        <5> QED BY <5>1, <5>2
      <4> QED BY <1>1, <3>2, <4>1, <4>2
    <3> QED BY <2>5, <2>10, <3>1, <3>2
  <2>11. ~Build(h) /\ ~At(h, "append")
    BY <2>1 DEF Build, At
  <2>12. ASSUME NEW n \in Names, Settled(h, n)', NEW x \in logged'[n]
         PROVE  Written(n, x)'
    <3>1. CASE x = e
      BY <2>4, <3>1
    <3>2. CASE x \in logged[n]
      BY <1>1, <2>1, <2>11, <2>12, <3>2, SettledStep
    <3> QED BY <2>5, <2>12, <3>1, <3>2
  <2> HIDE DEF Covered, Written
  <2> QED BY <1>2, <2>10, <2>12
<1>11. CASE AppendRecord(h)
  <2> DEFINE m == NameOf(h)
             e == db[h].task.entry
  <2>1. /\ m \in Names /\ UNCHANGED <<log, logged>> /\ At(h, "append")
        /\ rows' = [rows EXCEPT ![m] = Write(@, {e})]
        /\ e.name = m /\ ~Build(h)
    BY <1>11 DEF AppendRecord, At, PlaceOK, NameOf, Creating, Build, ghost
  <2>2. \A x \in logged[m] : x.id = e.id => x = e
    BY <1>1, <2>1 DEF At, CounterOK, NameOf
  <2> HIDE DEF m
  <2>3. rows'[m] = Write(rows[m], {e}) /\ \A n \in Names \ {m} : rows'[n] = rows[n]
    BY <1>3, <2>1
  <2>4. \A n \in Names : \A x \in logged[n] : x \in rows[n] => x \in rows'[n]
    BY <2>2, <2>3 DEF Write
  <2>5. \A n \in Names : \A x \in logged[n] : x = e => x \in rows'[n]
    BY <1>1, <2>1, <2>3 DEF Write
  <2>6. \A n \in Names : \A x \in logged'[n] : Covered(n, x)'
    BY <1>1, <2>1, <2>4
  <2>7. ASSUME NEW n \in Names, Settled(h, n)', NEW x \in logged'[n]
        PROVE  x \in rows'[n]
    BY <1>1, <2>1, <2>4, <2>5, <2>7, SettledStep
  <2> QED BY <1>2, <2>6, <2>7
<1>12. CASE UnlinkData(h)
  <2> DEFINE m == NameOf(h)
  <2>1. /\ m \in Names /\ UNCHANGED log /\ ~At(h, "append") /\ ~Build(h)
        /\ rows' = [rows EXCEPT ![m] = {}]
        /\ logged' = [logged EXCEPT ![m] = {}]
    BY <1>12 DEF UnlinkData, At, PlaceOK, NameOf, Build
  <2> HIDE DEF m
  <2>2. /\ logged'[m] = {}
        /\ \A n \in Names \ {m} : rows'[n] = rows[n] /\ logged'[n] = logged[n]
    BY <1>3, <2>1
  <2>3. \A n \in Names : \A x \in logged'[n] : Covered(n, x)'
    BY <1>1, <2>1, <2>2
  <2>4. \A n \in Names : Settled(h, n)' => \A x \in logged'[n] : Written(n, x)'
    <3>1. \A n \in Names : logged'[n] \subseteq logged[n]
      BY <2>2
    <3>2. \A n \in Names : \A x \in logged'[n] : x \in rows[n] => x \in rows'[n]
      BY <2>2
    <3> QED BY <1>4, <2>1, <3>1, <3>2
  <2> HIDE DEF Covered, Written
  <2> QED BY <1>2, <2>3, <2>4
<1>13. CASE CompactOne(h)
  <2> DEFINE m == NameOf(h)
  <2>1. /\ m \in Names /\ UNCHANGED <<log, logged>> /\ ~At(h, "append")
        /\ ~Build(h) /\ Opened(h)
        /\ rows' = [rows EXCEPT ![m] = {e \in @ : CanRead(db[h].key, e)}]
    BY <1>13 DEF CompactOne, At, PlaceOK, NameOf, Build, Opened, ghost
  <2>2. \A e \in rows[m] : CanRead(db[h].key, e)
    BY <2>1, ReadsAll
  <2> HIDE DEF m
  <2>3. rows' = rows
    BY <1>3, <2>1, <2>2
  <2> QED BY <1>5, <2>1, <2>3
<1>14. CASE CompactLog(h)
  <2>1. /\ UNCHANGED <<rows, logged>> /\ ~At(h, "append") /\ ~Build(h)
        /\ Opened(h)
        /\ log' = IF Task(h, "compact_all") THEN Readable(db[h].key) ELSE log
    BY <1>14 DEF CompactLog, At, Build, Opened, ghost
  <2> QED BY <1>5, <2>1, ReadsAll
<1>15. CASE \/ OpenKey(h) \/ SaveSalt(h) \/ LoadMetadata(h) \/ CallCollection(h)
            \/ Register(h) \/ CallCreate(h) \/ CallDrop(h) \/ UnlinkCounter(h)
            \/ Unregister(h) \/ CallAll(h) \/ Each(h)
  <2>1. UNCHANGED <<rows, log, logged>> /\ ~Build(h) /\ ~At(h, "append")
    BY <1>15 DEF OpenKey, SaveSalt, LoadMetadata, CallCollection, Register,
                 CallCreate, CallDrop, UnlinkCounter, Unregister, CallAll, Each,
                 Build, At, disk, ghost
  <2> QED BY <1>5, <2>1
<1> QED
  BY <1>6, <1>7, <1>8, <1>9, <1>10, <1>11, <1>12, <1>13, <1>14, <1>15 DEF Step

-----------------------------------------------------------------------------
(* What has been dropped *)

LEMMA ClearStep ==
  ASSUME TypeInv, NEW h \in Handles, PlaceOK(h), Step(h),
         NEW n \in Names, Clear(h, n)'
  PROVE  Clear(h, n) \/ ((Build(h) \/ RecoverCheckpoint(h)) /\ NameOf(h) = n)
<1>1. Settled(h, n)'
  BY DEF Clear, Settled
<1>2. Settled(h, n) \/ (Build(h) /\ NameOf(h) = n)
  BY <1>1, SettledStep
<1>3. CASE Settled(h, n) /\ ~Clear(h, n)
  <2>1. At(h, "replayed") /\ NameOf(h) = n
    BY <1>3 DEF Settled, Clear, At, NameOf
  <2>2. RecoverCheckpoint(h) \/ Stop(h)
    BY <2>1
       DEF Step, OpenKey, SaveSalt, LoadMetadata, CallCollection, Build,
           Register, CallCreate, LogCreate, Reject, AppendRecord,
           WriteCheckpoint, CallDrop, UnlinkData, UnlinkCounter, Unregister,
           CallAll, Each, CompactOne, CompactCheckpoint, CompactLog, At
  <2>3. ~Stop(h)
    BY <1>1, StopEffect DEF Settled, Moved, NoInst
  <2> QED BY <2>1, <2>2, <2>3
<1> QED BY <1>2, <1>3

\* The life that an entry is written in.
LEMMA LifeStep ==
  ASSUME TypeInv, GoneInv, NEW h \in Handles, PlaceOK(h), Step(h),
         db'[h].at \in {"log", "append"}
  PROVE  db'[h].task.entry.life = life'[db'[h].task.name]
<1> USE DEF Moved
<1>1. CASE CallCreate(h)
  <2>1. UNCHANGED life
    BY <1>1 DEF CallCreate, ghost
  <2>2. PICK n \in Names, e \in Entries, i \in Instances, task \in Tasks :
          /\ db[h].inst[n] # Nothing
          /\ e.name = n /\ e.id = db[h].inst[n].last + 1 /\ e.life = life[n]
          /\ e.key = db[h].key
          /\ e.rec = "invalid" => ~i.full
          /\ i.last = e.id
          /\ ctr' = [ctr EXCEPT ![n] = e.id]
          /\ task.kind = "create" /\ task.name = n /\ task.entry = e
          /\ Moved(h, "log", db[h].key, db[h].names,
                   [db[h].inst EXCEPT ![n] = i], task)
    BY <1>1, CreateEffect
  <2> QED BY <2>1, <2>2
<1>2. CASE LogCreate(h)
  <2>1. /\ UNCHANGED life /\ db[h].at = "log"
        /\ db'[h].task = db[h].task
    BY <1>2, GoesEffect DEF LogCreate, At, Goes
  <2> QED BY <2>1 DEF GoneInv
<1>3. CASE \E w \in Places : Goes(h, w) /\ w # "append"
  <2>1. PICK w \in Places : Goes(h, w) /\ w # "append"
    BY <1>3
  <2>2. w # "log"
    BY <2>1 DEF Goes
  <2> QED BY <2>1, <2>2, GoesEffect
<1>4. CASE ~CallCreate(h) /\ ~LogCreate(h)
  <2> SUFFICES db'[h].at \notin {"log", "append"} \/ (\E w \in Places : Goes(h, w))
    <3>1. \A w \in Places : Goes(h, w) => w # "append"
      BY <1>4 DEF Goes
    <3> QED BY <1>3, <3>1
  <2>1. CASE OpenKey(h)
    BY <2>1, OpenEffect
  <2>2. CASE LoadMetadata(h)
    BY <2>2, LoadEffect
  <2>3. CASE CallCollection(h)
    BY <2>3, CallEffect
  <2>4. CASE Build(h)
    BY <2>4, BuildEffect
  <2>5. CASE Register(h)
    BY <2>5, RegisterEffect
  <2>6. CASE CallDrop(h)
    BY <2>6, DropEffect
  <2>7. CASE Unregister(h)
    BY <2>7, UnregisterEffect
  <2>8. CASE CallAll(h)
    BY <2>8, CallAllEffect
  <2>9. CASE Each(h)
    BY <2>9, EachEffect
  <2>10. CASE Stop(h) \/ Finishes(h)
    BY <2>10, StopEffect, FinishesEffect
  <2> QED
    BY <1>4, <2>1, <2>2, <2>3, <2>4, <2>5, <2>6, <2>7, <2>8, <2>9, <2>10,
       StepKinds
<1> QED BY <1>1, <1>2, <1>4

LEMMA GoneStep ==
  ASSUME OneHandle, OnePassword, TypeInv, ModeInv, CounterInv, GoneInv,
         NEW h \in Handles, PlaceOK(h), Step(h)
  PROVE  GoneInv'
<1> DEFINE Old(e, n) == e.life < life[n] => e.rec = "duplicate"
           Wrote(e) == db[h].at \in {"append", "checkpoint"} /\ e = db[h].task.entry
<1>1. /\ \A e \in log : Old(e, e.name)
      /\ \A n \in Names : \A e \in rows[n] : Old(e, n)
      /\ \A n \in Names : Clear(h, n) =>
           \A e \in log : e.name = n => e.rec = "duplicate" \/ Wrote(e)
  BY DEF GoneInv, DroppedStaysGone
<1>2. ASSUME \A e \in log' : Old(e, e.name)',
             \A n \in Names : \A e \in rows'[n] : Old(e, n)',
             \A n \in Names : Clear(h, n)' =>
               \A e \in log' : e.name = n => e.rec = "duplicate" \/ Wrote(e)'
      PROVE  GoneInv'
  <2>1. \A g \in Handles : g = h
    BY DEF OneHandle
  <2> QED BY <1>2, <2>1, LifeStep DEF GoneInv, DroppedStaysGone
<1>3. /\ rows \in [Names -> SUBSET Entries] /\ log \in SUBSET Entries
      /\ life \in [Names -> Nat]
  BY DEF TypeInv
\* Steps that write no line and after which no entry is under way.
<1>4. ASSUME ~Build(h), ~RecoverCheckpoint(h), UNCHANGED life, log' \subseteq log,
             \A n \in Names : rows'[n] \subseteq rows[n],
             \A e \in log' : Wrote(e) => e.rec = "duplicate" \/ Stop(h)
      PROVE  GoneInv'
  <2>1. ASSUME NEW n \in Names, Clear(h, n)', NEW e \in log', e.name = n
        PROVE  e.rec = "duplicate"
    <3>1. ~Stop(h)
      BY <2>1, StopEffect DEF Clear, Moved, NoInst
    <3>2. Clear(h, n)
      BY <1>4, <2>1, ClearStep
    <3> QED BY <1>1, <1>4, <2>1, <3>1, <3>2
  <2>2. \A e \in log' : Old(e, e.name)'
    BY <1>1, <1>4
  <2>3. \A n \in Names : \A e \in rows'[n] : Old(e, n)'
    BY <1>1, <1>4
  <2> HIDE DEF Old, Wrote
  <2> QED BY <1>2, <2>1, <2>2, <2>3
<1>5. CASE Reject(h)
  <2>1. /\ UNCHANGED <<rows, log, life>> /\ At(h, "append") /\ ~Accepted(h)
        /\ ~Build(h) /\ ~RecoverCheckpoint(h)
    BY <1>5 DEF Reject, disk, ghost, Build, RecoverCheckpoint, At
  <2>2. db[h].task.entry.rec = "duplicate"
    BY <2>1 DEF Accepted, Accepts, PlaceOK, At, NameOf, Creating, Entries,
                RecordSorts
  <2> QED BY <1>4, <2>1, <2>2
<1>6. CASE Build(h)
  <2> DEFINE m == NameOf(h)
             pending == Pending(m, db[h].key)
  <2>1. /\ m \in Names /\ Opened(h) /\ UNCHANGED <<log, life>> /\ At(h, "build")
        /\ rows' = [rows EXCEPT ![m] = Write(@, pending)]
    BY <1>6 DEF Build, At, PlaceOK, NameOf, Opened, ghost
  <2>2. pending = {e \in log : e.name = m}
    BY <2>1, ReadsAll
  <2>3. \A n \in Names : \A e \in rows'[n] : Old(e, n)'
    BY <1>1, <1>3, <2>1, <2>2 DEF Write
  <2>4. ASSUME NEW n \in Names, Clear(h, n)', NEW e \in log', e.name = n
        PROVE  e.rec = "duplicate"
    <3>1. CASE n = m
      <4>1. db[h].inst[m] = Nothing
        BY <2>1 DEF PlaceOK, At, Building, NameOf
      <4>2. db'[h].inst = db[h].inst /\ (pending # {} => db'[h].at = "replayed")
        BY <1>6, BuildEffect DEF Moved, NameOf
      <4>3. pending = {}
        BY <2>4, <3>1, <4>1, <4>2 DEF Clear
      <4> QED BY <2>1, <2>2, <2>4, <3>1, <4>3
    <3>2. CASE n # m
      <4>1. Clear(h, n)
        BY <2>1, <2>4, <3>2, ClearStep DEF RecoverCheckpoint, At
      <4> QED BY <1>1, <2>1, <2>4, <4>1 DEF At
    <3> QED BY <3>1, <3>2
  <2>5. \A e \in log' : Old(e, e.name)'
    BY <1>1, <2>1
  <2> HIDE DEF Old, Wrote
  <2> QED BY <1>2, <2>3, <2>4, <2>5
<1>7. CASE RecoverCheckpoint(h) \/ WriteCheckpoint(h) \/ CompactCheckpoint(h)
  <2> DEFINE m == NameOf(h)
  <2>1. /\ m \in Names /\ Opened(h) /\ UNCHANGED <<rows, life>>
        /\ ~At(h, "append") /\ ~Build(h)
        /\ At(h, "checkpoint") => db[h].task.entry.name = m
        /\ log' = Checkpoint(m, db[h].key)
    BY <1>7 DEF RecoverCheckpoint, WriteCheckpoint, CompactCheckpoint, Build, At,
                PlaceOK, NameOf, Opened, Creating, ghost
  <2>2. log' = {e \in log : e.name # m}
    BY <2>1, ReadsAll
  <2>3. ASSUME NEW n \in Names, Clear(h, n)', NEW e \in log', e.name = n
        PROVE  e.rec = "duplicate"
    <3>1. n # m
      BY <2>2, <2>3
    <3>2. Clear(h, n)
      BY <2>1, <2>3, <3>1, ClearStep
    <3> QED BY <1>1, <2>1, <2>2, <2>3, <3>1, <3>2 DEF At
  <2>4. /\ \A e \in log' : Old(e, e.name)'
        /\ \A n \in Names : \A e \in rows'[n] : Old(e, n)'
    BY <1>1, <2>1, <2>2
  <2> HIDE DEF Old, Wrote
  <2> QED BY <1>2, <2>3, <2>4
<1>8. CASE LogCreate(h)
  <2> DEFINE e == db[h].task.entry
  <2>1. /\ UNCHANGED <<rows, life>> /\ At(h, "log") /\ log' = Write(log, {e})
        /\ e.name = NameOf(h) /\ e.life = life[e.name] /\ e.name \in Names
        /\ ~Build(h) /\ ~RecoverCheckpoint(h)
    BY <1>8 DEF LogCreate, At, PlaceOK, NameOf, Creating, GoneInv, Build,
                RecoverCheckpoint
  <2>2. Moved(h, "append", db[h].key, db[h].names, db[h].inst, db[h].task)
    BY <1>8, GoesEffect DEF Goes
  <2>3. \A x \in log' : x \in log \/ x = e
    BY <2>1 DEF Write
  <2>4. \A x : x = e => Wrote(x)'
    BY <2>2 DEF Moved
  <2> HIDE DEF e
  <2>5. ASSUME NEW n \in Names, Clear(h, n)', NEW x \in log', x.name = n
        PROVE  x.rec = "duplicate" \/ Wrote(x)'
    <3>1. Clear(h, n)
      BY <2>1, <2>5, ClearStep
    <3>2. CASE x \in log
      <4>1. ~Wrote(x)
        BY <2>1 DEF At
      <4>2. x.rec = "duplicate" \/ Wrote(x)
        BY <1>1, <2>5, <3>1, <3>2
      <4> QED BY <4>1, <4>2
    <3> QED BY <2>3, <2>4, <2>5, <3>2
  <2>6. \A x \in log' : Old(x, x.name)'
    <3>1. ~(e.life < life'[e.name])
      BY <1>3, <2>1
    <3> QED BY <1>1, <2>1, <2>3, <3>1
  <2>7. \A n \in Names : \A x \in rows'[n] : Old(x, n)'
    BY <1>1, <2>1
  <2> HIDE DEF Old, Wrote
  <2> QED BY <1>2, <2>5, <2>6, <2>7
<1>9. CASE AppendRecord(h)
  <2> DEFINE m == NameOf(h)
             e == db[h].task.entry
  <2>1. /\ m \in Names /\ UNCHANGED <<log, life>> /\ At(h, "append")
        /\ rows' = [rows EXCEPT ![m] = Write(@, {e})]
        /\ e.life = life[m] /\ ~Build(h) /\ ~RecoverCheckpoint(h)
    BY <1>9 DEF AppendRecord, At, PlaceOK, NameOf, Build, RecoverCheckpoint,
                GoneInv, ghost
  <2>2. Moved(h, "checkpoint", db[h].key, db[h].names, db[h].inst, db[h].task)
    BY <1>9, GoesEffect DEF Goes
  <2>3. \A x : Wrote(x)' <=> Wrote(x)
    BY <2>1, <2>2 DEF Moved, At
  <2> HIDE DEF m, e
  <2>4. \A n \in Names : \A x \in rows'[n] : x \in rows[n] \/ (n = m /\ x = e)
    BY <1>3, <2>1 DEF Write
  <2>5. \A n \in Names : \A x \in rows'[n] : Old(x, n)'
    <3>1. ~(e.life < life'[m])
      BY <1>3, <2>1
    <3> QED BY <1>1, <2>1, <2>4, <3>1
  <2>6. ASSUME NEW n \in Names, Clear(h, n)', NEW x \in log', x.name = n
        PROVE  x.rec = "duplicate" \/ Wrote(x)'
    <3>1. Clear(h, n)
      BY <2>1, <2>6, ClearStep
    <3> QED BY <1>1, <2>1, <2>3, <2>6, <3>1
  <2>7. \A x \in log' : Old(x, x.name)'
    BY <1>1, <2>1
  <2> HIDE DEF Old, Wrote
  <2> QED BY <1>2, <2>5, <2>6, <2>7
<1>10. CASE UnlinkData(h)
  <2> DEFINE m == NameOf(h)
  <2>1. /\ m \in Names /\ UNCHANGED log /\ At(h, "built")
        /\ rows' = [rows EXCEPT ![m] = {}]
        /\ life' = [life EXCEPT ![m] = @ + 1]
        /\ Clear(h, m) /\ ~Build(h) /\ ~RecoverCheckpoint(h)
    BY <1>10 DEF UnlinkData, At, PlaceOK, NameOf, Build, RecoverCheckpoint, Clear
  <2> HIDE DEF m
  <2>2. \A x \in log : x.name = m => x.rec = "duplicate"
    BY <1>1, <2>1 DEF At
  <2>3. /\ rows'[m] = {}
        /\ \A n \in Names \ {m} : rows'[n] = rows[n] /\ life'[n] = life[n]
    BY <1>3, <2>1
  <2>4. \A x \in log : x.name \in Names
    BY <1>3 DEF Entries
  <2>5. \A x \in log' : Old(x, x.name)'
    BY <1>1, <2>1, <2>2, <2>3, <2>4
  <2>6. \A n \in Names : \A x \in rows'[n] : Old(x, n)'
    BY <1>1, <2>3
  <2>7. ASSUME NEW n \in Names, Clear(h, n)', NEW x \in log', x.name = n
        PROVE  x.rec = "duplicate"
    <3>1. Clear(h, n)
      BY <2>1, <2>7, ClearStep
    <3> QED BY <1>1, <2>1, <2>7, <3>1 DEF At
  <2> HIDE DEF Old, Wrote
  <2> QED BY <1>2, <2>5, <2>6, <2>7
<1>11. CASE CompactOne(h) \/ CompactLog(h)
  <2>1. /\ UNCHANGED life /\ log' \subseteq log
        /\ \A n \in Names : rows'[n] \subseteq rows[n]
        /\ db[h].at \notin {"append", "checkpoint"}
        /\ ~Build(h) /\ ~RecoverCheckpoint(h)
    BY <1>3, <1>11
       DEF CompactOne, CompactLog, Readable, At, Build, RecoverCheckpoint, ghost
  <2> QED BY <1>4, <2>1
<1>12. CASE Stop(h)
  <2>1. UNCHANGED <<rows, log, life>>
    BY <1>12 DEF Stop, disk, ghost
  <2>2. db'[h].at = "down"
    BY <1>12, StopEffect DEF Moved
  <2>3. ~Build(h)
    BY <2>2, BuildEffect DEF Moved
  <2>4. ~RecoverCheckpoint(h)
    BY <2>2, GoesEffect DEF Moved, Goes
  <2> QED BY <1>4, <1>12, <2>1, <2>3, <2>4
<1>13. CASE \/ OpenKey(h) \/ SaveSalt(h) \/ LoadMetadata(h) \/ CallCollection(h)
            \/ Register(h) \/ CallCreate(h) \/ CallDrop(h) \/ UnlinkCounter(h)
            \/ Unregister(h) \/ CallAll(h) \/ Each(h)
  <2>1. /\ UNCHANGED <<rows, log, life>> /\ ~Build(h) /\ ~RecoverCheckpoint(h)
        /\ db[h].at \notin {"append", "checkpoint"}
    BY <1>13 DEF OpenKey, SaveSalt, LoadMetadata, CallCollection, Register,
                 CallCreate, CallDrop, UnlinkCounter, Unregister, CallAll, Each,
                 Build, RecoverCheckpoint, At, disk, ghost
  <2> QED BY <1>4, <2>1
<1> QED
  BY <1>5, <1>6, <1>7, <1>8, <1>9, <1>10, <1>11, <1>12, <1>13 DEF Step

-----------------------------------------------------------------------------
(* The theorems *)

\* What one Database object at a time keeps.
NamedInv == TypeInv /\ PlaceInv /\ NamesInv /\ CounterInv

\* And what it keeps when the directory has one password.
DbInv == NamedInv /\ ModeInv /\ LandInv /\ GoneInv

LEMMA InitDb == Init => DbInv
<1> SUFFICES ASSUME Init PROVE DbInv
  OBVIOUS
<1> USE DEF Init
<1>1. DownHandle \in HandleStates
  BY NoTaskType DEF DownHandle, HandleStates, Places, Keys
<1>2. \A h \in Handles :
        /\ db[h].at = "down" /\ ~Opened(h)
        /\ \A n \in Names : db[h].inst[n] = Nothing
  BY DEF DownHandle, Opened
<1>3. TypeInv
  BY <1>1 DEF TypeInv
<1>4. PlaceInv
  BY <1>2 DEF PlaceInv, PlaceOK, Building, Creating, Dropping, Compacting
<1>5. NamesInv
  BY <1>2 DEF NamesInv, RecordsRegistered
<1>6. CounterInv
  BY <1>2 DEF CounterInv, CounterOK
<1>7. ModeInv
  BY <1>2 DEF ModeInv
<1>8. LandInv
  BY <1>2 DEF LandInv, Settled
<1>9. GoneInv
  BY <1>2 DEF GoneInv, DroppedStaysGone, Clear
<1> QED BY <1>3, <1>4, <1>5, <1>6, <1>7, <1>8, <1>9 DEF DbInv, NamedInv

LEMMA NamedStep ==
  ASSUME OneHandle, NamedInv, [Next]_vars
  PROVE  NamedInv'
<1>1. CASE Next
  <2>1. PICK h \in Handles : Step(h)
    BY <1>1 DEF Next, Step
  <2>2. PlaceOK(h) /\ \A g \in Handles : g = h
    BY DEF OneHandle, NamedInv, PlaceInv
  <2>3. TypeInv' /\ NamesInv' /\ CounterInv'
    BY <2>1, <2>2, TypeStep, NamesStep, CounterStep DEF NamedInv
  <2>4. PlaceOK(h)'
    BY <2>1, <2>2, PlaceStep DEF NamedInv
  <2> QED BY <2>2, <2>3, <2>4 DEF NamedInv, PlaceInv
<1>2. CASE UNCHANGED vars
  BY <1>2
     DEF NamedInv, TypeInv, PlaceInv, PlaceOK, NamesInv, CounterInv, CounterOK,
         Opened, RecordsRegistered, Accepted, Accepts, NameOf, vars, disk, ghost
<1> QED BY <1>1, <1>2

LEMMA DbStep ==
  ASSUME OneHandle, OnePassword, DbInv, [Next]_vars
  PROVE  DbInv'
<1>1. NamedInv'
  BY NamedStep DEF DbInv
<1>2. CASE Next
  <2>1. PICK h \in Handles : Step(h)
    BY <1>2 DEF Next, Step
  <2>2. PlaceOK(h) /\ \A g \in Handles : g = h
    BY DEF OneHandle, DbInv, NamedInv, PlaceInv
  <2>3. TypeInv /\ ModeInv /\ CounterInv /\ LandInv /\ GoneInv
    BY DEF DbInv, NamedInv
  <2>4. ModeInv'
    BY <2>1, <2>2, <2>3, ModeStep
  <2>5. LandInv' /\ GoneInv'
    BY <2>1, <2>2, <2>3, LandStep, GoneStep
  <2> QED BY <1>1, <2>4, <2>5 DEF DbInv
<1>3. CASE UNCHANGED vars
  <2>1. ModeInv'
    BY <1>3 DEF DbInv, ModeInv, Opened, vars, disk, ghost
  <2>2. LandInv'
    BY <1>3 DEF DbInv, LandInv, Settled, At, vars, disk, ghost
  <2>3. GoneInv'
    BY <1>3 DEF DbInv, GoneInv, DroppedStaysGone, Clear, vars, disk, ghost
  <2> QED BY <1>1, <2>1, <2>2, <2>3 DEF DbInv
<1> QED BY <1>2, <1>3

LEMMA NamedInvariant == ASSUME OneHandle PROVE Spec => []NamedInv
<1>1. Init => NamedInv
  BY InitDb DEF DbInv
<1>2. NamedInv /\ [Next]_vars => NamedInv'
  BY NamedStep
<1> QED BY <1>1, <1>2, PTL DEF Spec

LEMMA DbInvariant == ASSUME OneHandle, OnePassword PROVE Spec => []DbInv
<1>1. DbInv /\ [Next]_vars => DbInv'
  BY DbStep
<1> QED BY InitDb, <1>1, PTL DEF Spec

\* A collection that has records in it is named in metadata.json, whatever
\* passwords the directory is opened with and wherever the process dies: the
\* name is saved before the first create of a new instance, and it goes only
\* after the data file of the collection.
THEOREM Registered == ASSUME OneHandle PROVE Spec => []RecordsRegistered
<1>1. NamedInv => RecordsRegistered
  BY DEF NamedInv, NamesInv
<1> QED BY <1>1, NamedInvariant, PTL

\* A directory that is opened with its one password, or without, never holds a
\* line that a handle which got past LoadMetadata cannot read: the mode check
\* keeps the plain and the encrypted sessions apart from the first line on.
THEOREM ReadsAllLines ==
  ASSUME OneHandle, OnePassword PROVE Spec => []OpenedReadsAll
<1>1. DbInv => OpenedReadsAll
  <2> SUFFICES ASSUME DbInv, NEW h \in Handles, Opened(h), NEW e \in Lines
               PROVE  CanRead(db[h].key, e)
    BY DEF OpenedReadsAll
  <2>1. TypeInv /\ ModeInv
    BY DEF DbInv, NamedInv
  <2>2. /\ \A n \in Names : \A x \in rows[n] : CanRead(db[h].key, x)
        /\ \A x \in log : CanRead(db[h].key, x)
    BY <2>1, ReadsAll
  <2> QED BY <2>2 DEF Lines
<1> QED BY <1>1, DbInvariant, PTL

\* What has been logged for a collection is in its data file wherever a handle
\* has it open and is done with it: no death, no compaction of the log, and no
\* replay, checkpoint or drop of another collection in the same log loses it.
THEOREM EverythingLands ==
  ASSUME OneHandle, OnePassword PROVE Spec => []LoggedLands
<1>1. DbInv => LoggedLands
  <2> SUFFICES ASSUME DbInv, NEW h \in Handles, NEW n \in Names,
                      Opened(h), db[h].inst[n] # Nothing, ~Busy(h, n),
                      NEW e \in logged[n]
               PROVE  e \in rows[n]
    BY DEF LoggedLands
  <2>1. e \in rows[n] \/ (At(h, "append") /\ e = db[h].task.entry)
    BY DEF DbInv, LandInv, Settled
  <2>2. ASSUME At(h, "append"), e = db[h].task.entry
        PROVE  FALSE
    <3>1. e.name = n
      BY DEF DbInv, NamedInv, CounterInv
    <3>2. db[h].task.entry.name = NameOf(h)
      BY <2>2 DEF DbInv, NamedInv, PlaceInv, PlaceOK, At, Creating, NameOf
    <3> QED BY <2>2, <3>1, <3>2 DEF Busy, At
  <2> QED BY <2>1, <2>2
<1> QED BY <1>1, DbInvariant, PTL

\* Dropping a collection is final but for the duplicates it had refused: the
\* entries that could be replayed into the next collection of that name have
\* been replayed and covered before the data file goes.
THEOREM DroppedGone ==
  ASSUME OneHandle, OnePassword PROVE Spec => []DroppedStaysGone
<1>1. DbInv => DroppedStaysGone
  BY DEF DbInv, GoneInv
<1> QED BY <1>1, DbInvariant, PTL
=============================================================================

------------------------------ MODULE Processes -------------------------------
(***************************************************************************)
(* Several Collection objects over the files of one collection, in one     *)
(* process or in several (collection.py, wal.py, locks.py): each has its   *)
(* own copy of the id counter, and they share the data file, the log and   *)
(* the lock file.  No unique field is declared, so that the index decides  *)
(* no write; it and the cache are left to Collection.                      *)
(***************************************************************************)
EXTENDS Integers, Sequences

CONSTANTS
  Instances,
  Creators,      \* the instances that call create
  Fields,
  Values,
  NoRec,         \* no live record
  Nobody,        \* nobody holds the lock file
  MaxId,         \* bound on the ids drawn
  MaxDeaths,     \* bound on closes and deaths
  QuietOpens     \* the collection is opened only while nobody writes to it

ASSUME ProcessesAssumption ==
  /\ Creators \subseteq Instances
  /\ Nobody \notin Instances
  /\ NoRec \notin [Fields -> Values]
  /\ MaxId \in Nat /\ MaxDeaths \in Nat
  /\ QuietOpens \in BOOLEAN

Ids == 1 .. MaxId
Record == [Fields -> Values]
Maybe == Record \cup {NoRec}

VARIABLES
  data,     \* .data: the live record of each id
  log,      \* wal.log: the entries after the last CHECKPOINT
  file,     \* _id.json
  holder,   \* the instance that has the lock file
  inst,     \* the state of each instance
  outcomes, \* history: what the writes so far may have made of each id
  deaths

files   == <<data, log, file, holder>>
vars    == <<files, inst, outcomes, deaths>>

Entry == [id : Ids, rec : Maybe]

NoWrite == [kind |-> "none", id |-> 0, change |-> NoRec, new |-> NoRec]

\* A create changes the record to one it is given, a delete to none, and an
\* update changes one field.
Changes == {NoRec} \cup Record \cup (Fields \X Values)

Changed(old, kind, change) ==
  IF kind = "update" THEN [old EXCEPT ![change[1]] = change[2]] ELSE change

At(p, where) == inst[p].at = where

Down == [at |-> "down", last |-> 0, write |-> NoWrite, rq |-> <<>>]

Places == {"down", "up", "acquire", "log", "append", "checkpoint", "replay"}

Kinds == {"none", "create", "update", "delete", "compact"}

Instance ==
  [at : Places, last : 0 .. MaxId,
   write : [kind : Kinds, id : 0 .. MaxId, change : Changes, new : Maybe],
   rq : Seq(Entry)]

\* What a write of each kind is called with, and where it can be.
CallOK(p) ==
  LET w == inst[p].write IN
  /\ w.kind \in {"create", "update", "delete"} => w.id \in Ids
  /\ w.kind \in {"none", "compact"} => w.id = 0
  /\ w.kind = "create" => w.change \in Record
  /\ w.kind = "update" => w.change \in Fields \X Values
  /\ w.kind = "delete" => w.change = NoRec
  /\ At(p, "acquire") => w.kind # "none"
  /\ inst[p].at \in {"log", "append"} => w.kind \in {"create", "update", "delete"}

TypeOK ==
  /\ data \in [Ids -> Maybe]
  /\ log \in Seq(Entry)
  /\ file \in 0 .. MaxId
  /\ holder \in Instances \cup {Nobody}
  /\ inst \in [Instances -> Instance]
  /\ \A p \in Instances : CallOK(p)
  /\ outcomes \in [Ids -> SUBSET Maybe]
  /\ deaths \in 0 .. MaxDeaths

Init ==
  /\ data = [i \in Ids |-> NoRec]
  /\ log = <<>>
  /\ file = 0
  /\ holder = Nobody
  /\ inst = [p \in Instances |-> Down]
  /\ outcomes = [i \in Ids |-> {NoRec}]
  /\ deaths = 0

Go(p, where) == inst' = [inst EXCEPT ![p].at = where]
Return(p) == inst' = [inst EXCEPT ![p].at = "up", ![p].write = NoWrite]

Writing(p) == inst[p].at \in {"acquire", "log", "append", "checkpoint"}

-----------------------------------------------------------------------------
(* Opening.  __init__ loads the counter; _recover takes no lock. *)

Open(p) ==
  /\ At(p, "down")
  /\ QuietOpens => \A q \in Instances : inst[q].at \in {"down", "up"}
  /\ inst' = [inst EXCEPT ![p].at = IF log = <<>> THEN "up" ELSE "replay",
                          ![p].last = file,
                          ![p].rq = log]
  /\ UNCHANGED <<files, outcomes, deaths>>

\* Mutant: only CREATE and UPDATE entries are replayed.
ReplayRecords(p) ==
  LET e == Head(inst[p].rq) IN
  /\ At(p, "replay")
  /\ inst[p].rq # <<>>
  /\ data' = IF e.rec = NoRec THEN data ELSE [data EXCEPT ![e.id] = e.rec]
  /\ inst' = [inst EXCEPT ![p].rq = Tail(@)]
  /\ UNCHANGED <<log, file, holder, outcomes, deaths>>

Replay(p) ==
  LET e == Head(inst[p].rq) IN
  /\ At(p, "replay")
  /\ inst[p].rq # <<>>
  /\ data' = [data EXCEPT ![e.id] = e.rec]
  /\ inst' = [inst EXCEPT ![p].rq = Tail(@)]
  /\ UNCHANGED <<log, file, holder, outcomes, deaths>>

LastEntry(i) ==
  {k \in DOMAIN log : /\ log[k].id = i
                      /\ \A m \in DOMAIN log : log[m].id = i => m <= k}

\* The writes that the log has happened, and the last of each id stands.
Recovered ==
  [i \in Ids |-> IF LastEntry(i) = {} THEN outcomes[i]
                 ELSE {log[k].rec : k \in LastEntry(i)}]

RecoverCheckpoint(p) ==
  /\ At(p, "replay")
  /\ inst[p].rq = <<>>
  /\ log' = <<>>
  /\ outcomes' = Recovered
  /\ Go(p, "up")
  /\ UNCHANGED <<data, file, holder, deaths>>

-----------------------------------------------------------------------------
(* Writes *)

MayCall(p) ==
  /\ At(p, "up")
  /\ QuietOpens => \A q \in Instances : ~At(q, "replay")

Begin(p, kind, i, change) ==
  inst' = [inst EXCEPT ![p].at = "acquire",
                       ![p].write = [NoWrite EXCEPT !.kind = kind, !.id = i,
                                                    !.change = change]]

\* Mutant: the counter is saved with the first record only.
DrawUnsaved(p) ==
  LET i == inst[p].last + 1 IN
  /\ MayCall(p)
  /\ p \in Creators
  /\ i \in Ids
  /\ file' = IF file = 0 THEN i ELSE file
  /\ \E r \in Record :
       inst' = [inst EXCEPT ![p].at = "acquire", ![p].last = i,
                            ![p].write = [NoWrite EXCEPT !.kind = "create",
                                                         !.id = i,
                                                         !.change = r]]
  /\ UNCHANGED <<data, log, holder, outcomes, deaths>>

\* The id is one past the last of this instance, and saved.
CallCreate(p) ==
  LET i == inst[p].last + 1 IN
  /\ MayCall(p)
  /\ p \in Creators
  /\ i \in Ids
  /\ file' = i
  /\ \E r \in Record :
       inst' = [inst EXCEPT ![p].at = "acquire", ![p].last = i,
                            ![p].write = [NoWrite EXCEPT !.kind = "create",
                                                         !.id = i,
                                                         !.change = r]]
  /\ UNCHANGED <<data, log, holder, outcomes, deaths>>

CallOther(p) ==
  /\ MayCall(p)
  /\ \/ \E i \in Ids, f \in Fields, v \in Values : Begin(p, "update", i, <<f, v>>)
     \/ \E i \in Ids : Begin(p, "delete", i, NoRec)
     \/ Begin(p, "compact", 0, NoRec)
  /\ UNCHANGED <<files, outcomes, deaths>>

\* LockTimeoutError.
Timeout(p) ==
  /\ At(p, "acquire")
  /\ holder # Nobody
  /\ Return(p)
  /\ UNCHANGED <<files, outcomes, deaths>>

Missing(p) ==
  inst[p].write.kind \in {"update", "delete"} /\ data[inst[p].write.id] = NoRec

\* RecordNotFoundError.
NotFound(p) ==
  /\ At(p, "acquire")
  /\ holder = Nobody
  /\ Missing(p)
  /\ Return(p)
  /\ UNCHANGED <<files, outcomes, deaths>>

\* Mutant: the lock keeps out the threads of one process only.
AcquireUnlocked(p) ==
  LET w == inst[p].write IN
  /\ At(p, "acquire")
  /\ ~Missing(p)
  /\ w.kind # "compact"
  /\ holder' = p
  /\ inst' = [inst EXCEPT ![p].at = "log",
                          ![p].write.new = Changed(data[w.id], w.kind, w.change)]
  /\ UNCHANGED <<data, log, file, outcomes, deaths>>

\* With the lock the stored version is read, and the new one made from it.
Acquire(p) ==
  LET w == inst[p].write IN
  /\ At(p, "acquire")
  /\ holder = Nobody
  /\ ~Missing(p)
  /\ w.kind # "compact"
  /\ holder' = p
  /\ inst' = [inst EXCEPT ![p].at = "log",
                          ![p].write.new = Changed(data[w.id], w.kind, w.change)]
  /\ UNCHANGED <<data, log, file, outcomes, deaths>>

\* Compaction keeps the live records.
AcquireCompact(p) ==
  /\ At(p, "acquire")
  /\ holder = Nobody
  /\ inst[p].write.kind = "compact"
  /\ holder' = p
  /\ Go(p, "checkpoint")
  /\ UNCHANGED <<data, log, file, outcomes, deaths>>

LogWrite(p) ==
  /\ At(p, "log")
  /\ log' = Append(log, [id |-> inst[p].write.id, rec |-> inst[p].write.new])
  /\ Go(p, "append")
  /\ UNCHANGED <<data, file, holder, outcomes, deaths>>

AppendRecord(p) ==
  /\ At(p, "append")
  /\ data' = [data EXCEPT ![inst[p].write.id] = inst[p].write.new]
  /\ Go(p, "checkpoint")
  /\ UNCHANGED <<log, file, holder, outcomes, deaths>>

\* A write that returns has made its change; one that was interrupted after
\* it was logged may have.
Returned(w) ==
  [i \in Ids |->
     IF i # w.id THEN outcomes[i]
     ELSE IF w.kind # "update" THEN {w.new}
     ELSE {Changed(r, w.kind, w.change) : r \in outcomes[i] \ {NoRec}}]

Interrupted(w) ==
  [i \in Ids |-> IF i = w.id THEN outcomes[i] \cup {w.new} ELSE outcomes[i]]

\* The checkpoint covers what other instances have left in the log as well.
Checkpoint(p) ==
  /\ At(p, "checkpoint")
  /\ log' = <<>>
  /\ holder' = Nobody
  /\ outcomes' = Returned(inst[p].write)
  /\ Return(p)
  /\ UNCHANGED <<data, file, deaths>>

\* close, or the death of the process, which releases the lock file.
Stop(p) ==
  /\ ~At(p, "down")
  /\ deaths < MaxDeaths
  /\ deaths' = deaths + 1
  /\ inst' = [inst EXCEPT ![p] = Down]
  /\ holder' = IF holder = p THEN Nobody ELSE holder
  /\ outcomes' = IF inst[p].at \in {"append", "checkpoint"}
                   THEN Interrupted(inst[p].write) ELSE outcomes
  /\ UNCHANGED <<data, log, file>>

Next ==
  \E p \in Instances :
    \/ Open(p) \/ Replay(p) \/ RecoverCheckpoint(p)
    \/ CallCreate(p) \/ CallOther(p)
    \/ Timeout(p) \/ NotFound(p) \/ Acquire(p) \/ AcquireCompact(p)
    \/ LogWrite(p) \/ AppendRecord(p) \/ Checkpoint(p)
    \/ Stop(p)

Spec == Init /\ [][Next]_vars

-----------------------------------------------------------------------------
(* Properties *)

Quiet == holder = Nobody /\ \A p \in Instances : ~At(p, "replay")

\* What is stored is what the writes of all instances, one after the other,
\* amount to: an update keeps the fields that other instances have changed,
\* a write that was interrupted happens as a whole or not at all, and for
\* certain when the log is replayed, and no replay brings back what a later
\* write has replaced (README:64 "Thread-safe
\* + cross-process file locks"; README:455).
WritesKept == Quiet => \A i \in Ids : data[i] \in outcomes[i]

\* The id that a create has drawn is not that of a live record, of an entry
\* in the log, or of another create (collection.py:97 "The next unique record
\* ID").  It takes a single creating instance.
DrawnIsNew ==
  \A p \in Instances :
    inst[p].write.kind = "create" /\ inst[p].at \in {"acquire", "log"} =>
      LET i == inst[p].write.id IN
      /\ data[i] = NoRec
      /\ \A k \in DOMAIN log : log[k].id # i
      /\ \A q \in Instances \ {p} :
           inst[q].write.kind = "create" => inst[q].write.id # i
=============================================================================

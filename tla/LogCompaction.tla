----------------------------- MODULE LogCompaction -----------------------------
(***************************************************************************)
(* Database.compact_all (pyro_db/core.py) over a Collection.  The thread   *)
(* that calls it compacts the collection, then has the log rewritten       *)
(* (WAL.compact, pyro_db/wal.py): the pending entries are read, and the    *)
(* file is replaced by one that holds just those.  It holds the database   *)
(* lock, which no writer takes: they go on appending to the log meanwhile, *)
(* entries that the replacement drops and checkpoints that it undoes.      *)
(***************************************************************************)
EXTENDS Collection

VARIABLES
  compactor,   \* the thread in compact_all, holder of the database lock
  phase,       \* how far it is
  pending,     \* the entries it has read
  doubt        \* history: ids whose entries in the log may be wrong

logc == <<compactor, phase, pending>>
lvars == <<vars, logc, doubt>>

LogInit ==
  Init /\ compactor = Free /\ phase = "none" /\ pending = <<>> /\ doubt = {}

\* The thread is out of compact_all, and has let go of the database lock.
LeaveCompactAll == compactor' = Free /\ phase' = "none" /\ pending' = <<>>

IdsIn(log) == {log[k].id : k \in DOMAIN log}

\* The log comes to be in doubt about ids.  No doubt is left when it is empty
\* and nobody is at work on it.
Doubts(ids) ==
  doubt' = IF wal' = <<>> /\ lock' = Free THEN {} ELSE doubt \cup ids

\* Its first part is the collection's own compact.
CallCompactAll(t) ==
  /\ compactor = Free
  /\ Call(t, "compact")
  /\ op' = [op EXCEPT ![t] = Request("compact", 0, NoRec, NoRec, {})]
  /\ Goto(t, "acquire")
  /\ compactor' = t
  /\ phase' = "compact"
  /\ UNCHANGED <<datav, walv, idxv, cache, counter, lock, runv, errors,
                 pending>>
  /\ Doubts({})

\* The pending entries are read; a torn line is skipped.
ReadLog(t) ==
  /\ compactor = t
  /\ phase = "compact"
  /\ pc[t] = "idle"
  /\ pending' = wal
  /\ phase' = "replace"
  /\ UNCHANGED <<vars, compactor, doubt>>

\* Ids about which the entries that were read and those that are replaced may
\* say different things.
Late == IF pending = wal THEN {} ELSE IdsIn(pending) \cup IdsIn(wal)

\* Mutant: the log is truncated, as after a full compaction.
TruncateLog(t) ==
  /\ compactor = t
  /\ phase = "replace"
  /\ wal' = <<>>
  /\ walTorn' = FALSE
  /\ UNCHANGED <<datav, idxv, cache, counter, thrv, runv, errors>>
  /\ LeaveCompactAll
  /\ Doubts(Late)

\* The file is replaced in one step by the entries read, whatever has been
\* appended since.
ReplaceLog(t) ==
  /\ compactor = t
  /\ phase = "replace"
  /\ wal' = pending
  /\ walTorn' = FALSE
  /\ UNCHANGED <<datav, idxv, cache, counter, thrv, runv, errors>>
  /\ LeaveCompactAll
  /\ Doubts(Late)

\* A write that raises when it has been logged, and not yet stored, leaves its
\* entry behind.
Refused(t) ==
  IF pc[t] = "unindex" /\ Duplicate(op[t]) THEN {op[t].id} ELSE {}

Raising(t) ==
  IF pc[t] \in {"log", "reindex", "append"} THEN {op[t].id} ELSE {}

LogSteps(t) == Steps(t) /\ Doubts(Refused(t)) /\ UNCHANGED logc

LogRecovers == Recovers /\ Doubts({}) /\ UNCHANGED logc

\* Everything else the collection does; a compact_all whose collection part
\* has raised does not come to the log.
LogNext ==
  \/ \E t \in Threads :
       \/ CallCompactAll(t)
       \/ ReadLog(t)
       \/ ReplaceLog(t)
       \/ t # compactor /\ Starts(t) /\ Doubts({}) /\ UNCHANGED logc
       \/ LogSteps(t)
       \/ /\ Fail(t)
          /\ Doubts(Raising(t))
          /\ IF t = compactor THEN LeaveCompactAll ELSE UNCHANGED logc
  \/ compactor = Free /\ Close /\ Doubts({}) /\ UNCHANGED logc
  \/ Crash /\ Doubts({}) /\ LeaveCompactAll
  \/ (LoseIndex \/ Open) /\ Doubts({}) /\ UNCHANGED logc
  \/ LogRecovers

LogSpec == LogInit /\ [][LogNext]_lvars

LogFairSpec ==
  /\ LogSpec
  /\ \A t \in Threads : WF_lvars(LogSteps(t))
  /\ WF_lvars(LogRecovers)

-----------------------------------------------------------------------------
\* A step that neither issues an id nor uses one up, and changes no record but
\* those the log is in doubt about.
InDoubt ==
  /\ UNCHANGED <<counter, Drawn>>
  /\ \A i \in Ids \ (doubt \cup doubt') : Recovered'[i] = Recovered[i]

\* The collection with compact_all implements the record store but for the
\* records whose log entries are in doubt: those of writes that raised after
\* they were logged, and those written between the reading of the log and its
\* replacing, which wal.py:278 would have compact keep too ("preserving any
\* operations that have not yet been checkpointed").  Every other operation
\* takes effect once, when it is logged, whatever crashes, recoveries, errors,
\* lost index files and compactions come between, and no doubt outlives the
\* next empty log.
StoreOutsideDoubt == Store!Init /\ [][Store!Next \/ InDoubt]_lvars
=============================================================================

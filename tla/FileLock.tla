------------------------------- MODULE FileLock -------------------------------
(***************************************************************************)
(* CollectionLock (pyro_db/locks.py) below the level of Collection, where  *)
(* one variable stands for it: an RLock shared by the threads that use one *)
(* CollectionLock object, and a flock on the file at its path, taken       *)
(* through a descriptor opened for the purpose and polled until a timeout. *)
(* Each object lives in a process of its own.  Collection.drop removes the *)
(* file, after it has let go of the lock.                                  *)
(***************************************************************************)
EXTENDS Integers, Sequences

CONSTANTS
  Threads,
  Objects,      \* CollectionLock objects on one path
  ObjectOf,     \* the object each thread uses
  Free,         \* "nobody holds the RLock"
  MaxDrops,     \* bound on the calls of drop
  MaxDeaths     \* bound on the processes that die

ASSUME FileLockAssumption ==
  /\ ObjectOf \in [Threads -> Objects]
  /\ Free \notin Threads
  /\ {MaxDrops, MaxDeaths} \subseteq Nat

VARIABLES
  path,      \* the file at the path, 0 for none
  files,     \* how many have been created; their numbers are never reused
  rlock,     \* the thread that holds the RLock of each object
  at,        \* where each thread is
  want,      \* what it has asked for
  handles,   \* the descriptors it has open, the innermost block's last
  nested,    \* it has entered a block within its block
  drops,     \* calls of drop so far
  deaths     \* processes that have died so far

vars == <<path, files, rlock, at, want, handles, nested, drops, deaths>>

\* write() or read(), and whether the block is the one of drop.
Wants == [exclusive : BOOLEAN, drop : BOOLEAN]

Handle == [file : 1 .. MaxDrops + 1, exclusive : BOOLEAN, held : BOOLEAN]

Where == {"outside", "rlock", "touch", "open", "poll", "inside", "unlink"}

\* What each file, lock and thread can hold; a thread outside of all blocks has
\* neither a descriptor nor the RLock, whatever was raised.
TypeOK ==
  /\ files \in 0 .. MaxDrops + 1
  /\ path \in 0 .. files
  /\ rlock \in [Objects -> Threads \cup {Free}]
  /\ at \in [Threads -> Where]
  /\ want \in [Threads -> Wants]
  /\ handles \in [Threads -> Seq(Handle)]
  /\ nested \in [Threads -> BOOLEAN]
  /\ drops \in 0 .. MaxDrops
  /\ deaths \in 0 .. MaxDeaths
  /\ \A t \in Threads :
       at[t] \in {"outside", "unlink"} =>
         handles[t] = <<>> /\ rlock[ObjectOf[t]] # t

Init ==
  /\ path = 0
  /\ files = 0
  /\ rlock = [o \in Objects |-> Free]
  /\ at = [t \in Threads |-> "outside"]
  /\ want = [t \in Threads |-> [exclusive |-> FALSE, drop |-> FALSE]]
  /\ handles = [t \in Threads |-> <<>>]
  /\ nested = [t \in Threads |-> FALSE]
  /\ drops = 0
  /\ deaths = 0

Goto(t, l) == at' = [at EXCEPT ![t] = l]

Innermost(t) == handles[t][Len(handles[t])]

Pop(t) ==
  handles' = [handles EXCEPT ![t] = SubSeq(@, 1, Len(@) - 1)]

-----------------------------------------------------------------------------
Enter(t) ==
  /\ at[t] = "outside"
  /\ \E w \in Wants :
       /\ w.drop => w.exclusive /\ drops < MaxDrops
       /\ want' = [want EXCEPT ![t] = w]
       /\ drops' = drops + (IF w.drop THEN 1 ELSE 0)
  /\ Goto(t, "rlock")
  /\ UNCHANGED <<path, files, rlock, handles, nested, deaths>>

\* A schema validator that calls the collection enters a block in the block.
EnterAgain(t) ==
  /\ at[t] = "inside"
  /\ ~nested[t]
  /\ ~want[t].drop
  /\ \E w \in Wants :
       /\ ~w.drop
       /\ want' = [want EXCEPT ![t] = w]
  /\ nested' = [nested EXCEPT ![t] = TRUE]
  /\ Goto(t, "rlock")
  /\ UNCHANGED <<path, files, rlock, handles, drops, deaths>>

TakeRLock(t) ==
  /\ at[t] = "rlock"
  /\ rlock[ObjectOf[t]] \in {Free, t}
  /\ rlock' = [rlock EXCEPT ![ObjectOf[t]] = t]
  /\ Goto(t, "touch")
  /\ UNCHANGED <<path, files, want, handles, nested, drops, deaths>>

CreateMissing ==
  /\ files' = IF path = 0 THEN files + 1 ELSE files
  /\ path' = IF path = 0 THEN files + 1 ELSE path

Touch(t) ==
  /\ at[t] = "touch"
  /\ CreateMissing
  /\ Goto(t, "open")
  /\ UNCHANGED <<rlock, want, handles, nested, drops, deaths>>

\* write() opens for appending, which creates a missing file; read() raises.
Open(t) ==
  /\ at[t] = "open"
  /\ want[t].exclusive \/ path # 0
  /\ CreateMissing
  /\ handles' = [handles EXCEPT ![t] =
       Append(@, [file |-> path', exclusive |-> want[t].exclusive,
                  held |-> FALSE])]
  /\ Goto(t, "poll")
  /\ UNCHANGED <<rlock, want, nested, drops, deaths>>

\* The block is left, or was never entered: back in the block around it if there
\* is one, else the RLock is released.
Back(t, depth) ==
  IF depth > 0 THEN Goto(t, "inside") /\ UNCHANGED <<rlock, nested>>
  ELSE /\ Goto(t, "outside")
       /\ rlock' = [rlock EXCEPT ![ObjectOf[t]] = Free]
       /\ nested' = [nested EXCEPT ![t] = FALSE]

OpenFails(t) ==
  /\ at[t] = "open"
  /\ ~want[t].exclusive
  /\ path = 0
  /\ Back(t, Len(handles[t]))
  /\ UNCHANGED <<path, files, want, handles, drops, deaths>>

\* flock conflicts are between descriptors, those of one thread included.
Conflicts(h, k) == h.file = k.file /\ (h.exclusive \/ k.exclusive)

Granted(t) ==
  \A v \in Threads : \A n \in DOMAIN handles[v] :
    handles[v][n].held => ~Conflicts(handles[v][n], Innermost(t))

\* Mutant: a shared lock is asked for whatever the block is.
LockShared(t) ==
  /\ at[t] = "poll"
  /\ \A v \in Threads : \A n \in DOMAIN handles[v] :
       LET h == handles[v][n] IN
       h.held => h.file # Innermost(t).file \/ ~h.exclusive
  /\ handles' = [handles EXCEPT ![t][Len(handles[t])].held = TRUE]
  /\ Goto(t, "inside")
  /\ UNCHANGED <<path, files, rlock, want, nested, drops, deaths>>

\* _lock_file: one of its attempts finds no conflict.
Lock(t) ==
  /\ at[t] = "poll"
  /\ Granted(t)
  /\ handles' = [handles EXCEPT ![t][Len(handles[t])].held = TRUE]
  /\ Goto(t, "inside")
  /\ UNCHANGED <<path, files, rlock, want, nested, drops, deaths>>

\* Mutant: only the outermost block has a deadline.
TimeOutOutermost(t) ==
  /\ at[t] = "poll"
  /\ ~nested[t]
  /\ ~Granted(t)
  /\ Pop(t)
  /\ Back(t, Len(handles[t]) - 1)
  /\ UNCHANGED <<path, files, want, drops, deaths>>

\* Mutant: the RLock is not released when the file lock times out.
TimeOutInside(t) ==
  /\ at[t] = "poll"
  /\ ~Granted(t)
  /\ Pop(t)
  /\ Goto(t, IF Len(handles[t]) > 1 THEN "inside" ELSE "outside")
  /\ UNCHANGED <<path, files, rlock, want, nested, drops, deaths>>

\* An attempt past the deadline fails: LockTimeoutError leaves the with-blocks.
TimeOut(t) ==
  /\ at[t] = "poll"
  /\ ~Granted(t)
  /\ Pop(t)
  /\ Back(t, Len(handles[t]) - 1)
  /\ UNCHANGED <<path, files, want, drops, deaths>>

\* The block ends, by returning or by raising: unlock, close, and for drop the
\* removal of the files comes next.
Leave(t) ==
  /\ at[t] = "inside"
  /\ Pop(t)
  /\ IF want[t].drop
     THEN /\ Goto(t, "unlink")
          /\ rlock' = [rlock EXCEPT ![ObjectOf[t]] = Free]
          /\ UNCHANGED nested
     ELSE Back(t, Len(handles[t]) - 1)
  /\ UNCHANGED <<path, files, want, drops, deaths>>

\* drop removes whatever file is at the path.
Unlink(t) ==
  /\ at[t] = "unlink"
  /\ path' = 0
  /\ Goto(t, "outside")
  /\ UNCHANGED <<files, rlock, want, handles, nested, drops, deaths>>

\* The system closes the descriptors of a process that dies.
Die(o) ==
  LET mine == {t \in Threads : ObjectOf[t] = o} IN
  /\ deaths < MaxDeaths
  /\ deaths' = deaths + 1
  /\ rlock' = [rlock EXCEPT ![o] = Free]
  /\ at' = [t \in Threads |-> IF t \in mine THEN "outside" ELSE at[t]]
  /\ handles' = [t \in Threads |-> IF t \in mine THEN <<>> ELSE handles[t]]
  /\ nested' = [t \in Threads |-> nested[t] /\ t \notin mine]
  /\ UNCHANGED <<path, files, want, drops>>

Works(t) ==
  \/ TakeRLock(t) \/ Touch(t) \/ Open(t) \/ OpenFails(t)
  \/ Lock(t) \/ TimeOut(t) \/ Leave(t) \/ Unlink(t)

Next ==
  \/ \E t \in Threads : Enter(t) \/ EnterAgain(t) \/ Works(t)
  \/ \E o \in Objects : Die(o)

\* A thread that can go on is scheduled: attempts are repeated until one
\* succeeds or the deadline has passed, and blocks end.
Spec == Init /\ [][Next]_vars /\ \A t \in Threads : WF_vars(Works(t))

-----------------------------------------------------------------------------
HeldBy(t) == {h \in {handles[t][n] : n \in DOMAIN handles[t]} : h.held}

\* Two threads hold the lock at the same time, one of them in write(), only if
\* they use different objects and one of them holds a file that a drop has since
\* removed from the path: as long as nothing is dropped write() is "exclusive
\* access" (locks.py:119), in one process and between processes.
ExclusiveOnPath ==
  \A t, v \in Threads : t # v =>
    \A h \in HeldBy(t), k \in HeldBy(v) :
      h.exclusive \/ k.exclusive =>
        /\ ObjectOf[t] # ObjectOf[v]
        /\ h.file # path \/ k.file # path

\* No wait for the file lock lasts for ever, not even that of a thread for a
\* lock it holds itself, in the block around (locks.py:21 "If the file lock
\* cannot be acquired within timeout seconds a LockTimeoutError is raised").
PollEnds == \A t \in Threads : at[t] = "poll" ~> at[t] # "poll"

\* The RLock is let go of, after timeouts, nested blocks and missing files too.
RLockReleased ==
  \A t \in Threads : rlock[ObjectOf[t]] = t ~> rlock[ObjectOf[t]] # t
=============================================================================

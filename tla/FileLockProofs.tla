----------------------------- MODULE FileLockProofs -----------------------------
(***************************************************************************)
(* Proofs about FileLock, for any number of threads and lock objects: type *)
(* correctness, which bounds the files that drops leave behind, and that   *)
(* two threads hold the lock against each other only through a file that a *)
(* drop has removed.                                                       *)
(***************************************************************************)
EXTENDS FileLock, FiniteSets, TLAPS, FiniteSetTheorems, SequenceTheorems

\* A thread that is past the RLock of its object, or has a descriptor open, is
\* the one that holds the RLock.
OwnsRLock ==
  \A t \in Threads :
    at[t] \in {"touch", "open", "poll", "inside"} \/ handles[t] # <<>> =>
      rlock[ObjectOf[t]] = t

\* Where a thread has a descriptor: always while it polls for its lock or is in
\* a block; and drop has no descriptor but that of its own block, and removes
\* the file only after closing it.
Depths ==
  \A t \in Threads :
    /\ at[t] \in {"poll", "inside"} => handles[t] # <<>>
    /\ at[t] = "unlink" => want[t].drop
    /\ want[t].drop =>
         /\ want[t].exclusive
         /\ at[t] \in {"rlock", "touch", "open"} => handles[t] = <<>>
         /\ Len(handles[t]) <= 1

\* No two threads hold conflicting locks on one file.
NoConflict ==
  \A t, v \in Threads : t # v =>
    \A m \in DOMAIN handles[t], n \in DOMAIN handles[v] :
      handles[t][m].held /\ handles[v][n].held =>
        ~Conflicts(handles[t][m], handles[v][n])

\* The drops that have not removed the file yet.
Dropping == {t \in Threads : at[t] # "outside" /\ want[t].drop}

\* Every file but the one at the path was removed by a drop of its own.
FilesCounted ==
  /\ IsFiniteSet(Dropping)
  /\ files + Cardinality(Dropping) <= drops + (IF path = 0 THEN 0 ELSE 1)

LockInv == TypeOK /\ OwnsRLock /\ Depths /\ FilesCounted /\ NoConflict

-----------------------------------------------------------------------------
\* The outermost descriptors stay when the innermost one is closed.
LEMMA PopOf ==
  ASSUME NEW s \in Seq(Handle), s # <<>>
  PROVE  LET r == SubSeq(s, 1, Len(s) - 1)
         IN  /\ r \in Seq(Handle)
             /\ Len(r) = Len(s) - 1
             /\ \A n \in DOMAIN r : n \in DOMAIN s /\ r[n] = s[n]
             /\ Len(s) <= 1 => r = <<>>
<1> DEFINE r == SubSeq(s, 1, Len(s) - 1)
<1>1. /\ Len(s) \in Nat \ {0}
      /\ DOMAIN s = 1 .. Len(s)
      /\ s \in [1 .. Len(s) -> Handle]
  BY EmptySeq, LenProperties
<1>2. r \in Seq(Handle) /\ Len(r) = Len(s) - 1
  BY <1>1, SubSeqProperties
<1>3. \A n \in 1 .. Len(s) - 1 : r[n] = s[n]
  BY <1>1
<1>4. DOMAIN r = 1 .. Len(s) - 1
  BY <1>1, <1>2, LenProperties
<1>5. Len(s) <= 1 => r = <<>>
  <2> SUFFICES ASSUME Len(s) <= 1 PROVE r = <<>>
    OBVIOUS
  <2>1. Len(r) = 0
    BY <1>1, <1>2
  <2>2. QED
    BY <1>2, <2>1, EmptySeq
<1>6. QED
  BY <1>1, <1>2, <1>3, <1>4, <1>5

\* Locking the innermost descriptor changes nothing but its mode.
LEMMA HoldOf ==
  ASSUME NEW s \in Seq(Handle), s # <<>>
  PROVE  LET r == [s EXCEPT ![Len(s)].held = TRUE]
         IN  /\ r \in Seq(Handle)
             /\ Len(r) = Len(s)
             /\ r # <<>>
             /\ \A n \in DOMAIN r :
                  /\ n \in DOMAIN s
                  /\ r[n].file = s[n].file
                  /\ r[n].exclusive = s[n].exclusive
                  /\ n # Len(s) => r[n].held = s[n].held
<1> DEFINE r == [s EXCEPT ![Len(s)].held = TRUE]
<1>1. /\ Len(s) \in Nat \ {0}
      /\ DOMAIN s = 1 .. Len(s)
      /\ s \in [1 .. Len(s) -> Handle]
  BY EmptySeq, LenProperties
<1>2. r \in [1 .. Len(s) -> Handle]
  BY <1>1 DEF Handle
<1>3. r \in Seq(Handle) /\ Len(r) = Len(s)
  BY <1>1, <1>2
<1>4. \A n \in DOMAIN r :
        /\ n \in DOMAIN s
        /\ r[n].file = s[n].file
        /\ r[n].exclusive = s[n].exclusive
        /\ n # Len(s) => r[n].held = s[n].held
  BY <1>1 DEF Handle
<1>5. QED
  BY <1>1, <1>3, <1>4, EmptySeq

\* What is left of a thread's descriptors conflicts with no more than they did.
LEMMA ConflictStep ==
  ASSUME LockInv, NEW t \in Threads, NEW hs \in Seq(Handle),
         handles' = [handles EXCEPT ![t] = hs],
         \A n \in DOMAIN hs : hs[n].held =>
           \A v \in Threads : \A m \in DOMAIN handles[v] :
             v # t /\ handles[v][m].held => ~Conflicts(hs[n], handles[v][m])
  PROVE  NoConflict'
<1> USE DEF LockInv, TypeOK
<1>1. handles'[t] = hs /\ \A v \in Threads : v # t => handles'[v] = handles[v]
  OBVIOUS
<1>2. ASSUME NEW u \in Threads, NEW v \in Threads, u # v,
             NEW m \in DOMAIN handles'[u], NEW n \in DOMAIN handles'[v],
             handles'[u][m].held, handles'[v][n].held
      PROVE  ~Conflicts(handles'[u][m], handles'[v][n])
  <2>1. CASE u = t
    BY <1>1, <1>2, <2>1
  <2>2. CASE v = t
    BY <1>1, <1>2, <2>2 DEF Conflicts
  <2>3. CASE u # t /\ v # t
    BY <1>1, <1>2, <2>3 DEF NoConflict
  <2>4. QED
    BY <2>1, <2>2, <2>3
<1>3. QED
  BY <1>2 DEF NoConflict, Conflicts

\* Descriptors that all were among the thread's before.
LEMMA FewerHandles ==
  ASSUME LockInv, NEW t \in Threads, NEW hs \in Seq(Handle),
         handles' = [handles EXCEPT ![t] = hs],
         \A n \in DOMAIN hs : n \in DOMAIN handles[t] /\ hs[n] = handles[t][n]
  PROVE  NoConflict'
<1>1. \A n \in DOMAIN hs : hs[n].held =>
        \A v \in Threads : \A m \in DOMAIN handles[v] :
          v # t /\ handles[v][m].held => ~Conflicts(hs[n], handles[v][m])
  BY DEF LockInv, NoConflict
<1>2. QED
  BY <1>1, ConflictStep

\* The drops on their way, when a thread begins one, ends one or does neither.
LEMMA DroppingStep ==
  ASSUME LockInv, NEW t \in Threads,
         \A v \in Threads : v # t => at'[v] = at[v] /\ want'[v] = want[v]
  PROVE  LET now == at'[t] # "outside" /\ want'[t].drop
         IN  /\ IsFiniteSet(Dropping')
             /\ Cardinality(Dropping) \in Nat
             /\ Cardinality(Dropping') \in Nat
             /\ t \in Dropping /\ ~now =>
                  Cardinality(Dropping') = Cardinality(Dropping) - 1
             /\ t \notin Dropping /\ now =>
                  Cardinality(Dropping') = Cardinality(Dropping) + 1
             /\ (t \in Dropping <=> now) => Dropping' = Dropping
<1> DEFINE now == at'[t] # "outside" /\ want'[t].drop
<1>1. IsFiniteSet(Dropping) /\ Cardinality(Dropping) \in Nat
  BY FS_CardinalityType DEF LockInv, FilesCounted
<1>2. Dropping' = IF now THEN Dropping \cup {t} ELSE Dropping \ {t}
  BY DEF Dropping
<1>3. CASE now
  BY <1>1, <1>2, <1>3, FS_AddElement, FS_CardinalityType
<1>4. CASE ~now
  BY <1>1, <1>2, <1>4, FS_RemoveElement, FS_CardinalityType
<1>5. QED
  BY <1>3, <1>4

-----------------------------------------------------------------------------
LEMMA EnterKeeps ==
  ASSUME LockInv, NEW t \in Threads, Enter(t)
  PROVE  LockInv'
<1> USE FileLockAssumption DEF LockInv, Enter, Goto
<1>1. PICK w \in Wants :
        /\ w.drop => w.exclusive /\ drops < MaxDrops
        /\ want' = [want EXCEPT ![t] = w]
        /\ drops' = drops + (IF w.drop THEN 1 ELSE 0)
  OBVIOUS
<1>2. TypeOK'
  BY <1>1 DEF TypeOK, Where, Wants
<1>3. OwnsRLock'
  BY DEF TypeOK, OwnsRLock
<1>4. Depths'
  BY <1>1, EmptySeq DEF TypeOK, Depths
<1>5. FilesCounted'
  <2>1. t \notin Dropping /\ (at'[t] # "outside" /\ want'[t].drop <=> w.drop)
    BY <1>1 DEF TypeOK, Dropping
  <2>2. \A v \in Threads : v # t => at'[v] = at[v] /\ want'[v] = want[v]
    BY <1>1 DEF TypeOK
  <2>3. /\ IsFiniteSet(Dropping')
        /\ Cardinality(Dropping) \in Nat
        /\ Cardinality(Dropping') =
             Cardinality(Dropping) + (IF w.drop THEN 1 ELSE 0)
    BY <2>1, <2>2, DroppingStep
  <2>4. QED
    BY <1>1, <2>3 DEF TypeOK, FilesCounted
<1>6. NoConflict'
  BY DEF NoConflict, Conflicts
<1>7. QED
  BY <1>2, <1>3, <1>4, <1>5, <1>6

LEMMA EnterAgainKeeps ==
  ASSUME LockInv, NEW t \in Threads, EnterAgain(t)
  PROVE  LockInv'
<1> USE FileLockAssumption DEF LockInv, EnterAgain, Goto
<1>1. PICK w \in Wants : ~w.drop /\ want' = [want EXCEPT ![t] = w]
  OBVIOUS
<1>2. TypeOK'
  BY <1>1 DEF TypeOK, Where, Wants
<1>3. OwnsRLock'
  BY DEF TypeOK, OwnsRLock
<1>4. Depths'
  BY <1>1 DEF TypeOK, Depths
<1>5. FilesCounted'
  BY <1>1, DroppingStep DEF TypeOK, FilesCounted, Dropping
<1>6. NoConflict'
  BY DEF NoConflict, Conflicts
<1>7. QED
  BY <1>2, <1>3, <1>4, <1>5, <1>6

LEMMA TakeRLockKeeps ==
  ASSUME LockInv, NEW t \in Threads, TakeRLock(t)
  PROVE  LockInv'
<1> USE FileLockAssumption DEF LockInv, TakeRLock, Goto
<1>1. TypeOK'
  BY DEF TypeOK, Where
<1>2. OwnsRLock'
  BY DEF TypeOK, OwnsRLock
<1>3. Depths'
  BY DEF TypeOK, Depths
<1>4. FilesCounted'
  BY DroppingStep DEF TypeOK, FilesCounted, Dropping
<1>5. NoConflict'
  BY DEF NoConflict, Conflicts
<1>6. QED
  BY <1>1, <1>2, <1>3, <1>4, <1>5

LEMMA TouchKeeps ==
  ASSUME LockInv, NEW t \in Threads, Touch(t)
  PROVE  LockInv'
<1> USE FileLockAssumption DEF LockInv, Touch, Goto, CreateMissing
<1>1. Dropping' = Dropping /\ Cardinality(Dropping) \in Nat
  BY DroppingStep DEF TypeOK, Dropping
<1>2. TypeOK'
  BY <1>1 DEF TypeOK, Where, FilesCounted
<1>3. OwnsRLock'
  BY DEF TypeOK, OwnsRLock
<1>4. Depths'
  BY DEF TypeOK, Depths
<1>5. FilesCounted'
  <2>1. /\ files' + Cardinality(Dropping) <= drops + (IF path' = 0 THEN 0 ELSE 1)
        /\ IsFiniteSet(Dropping)
    BY <1>1 DEF TypeOK, FilesCounted
  <2>2. QED
    BY <1>1, <2>1 DEF FilesCounted
<1>6. NoConflict'
  BY DEF NoConflict, Conflicts
<1>7. QED
  BY <1>2, <1>3, <1>4, <1>5, <1>6

LEMMA OpenKeeps ==
  ASSUME LockInv, NEW t \in Threads, Open(t)
  PROVE  LockInv'
<1> USE FileLockAssumption DEF LockInv, Open, Goto, CreateMissing
<1> DEFINE h == [file |-> path', exclusive |-> want[t].exclusive, held |-> FALSE]
           hs == Append(handles[t], h)
<1>1. Dropping' = Dropping /\ Cardinality(Dropping) \in Nat
  BY DroppingStep DEF TypeOK, Dropping
<1>2. h \in Handle
  BY <1>1 DEF TypeOK, FilesCounted, Handle, Wants
<1>3. handles' = [handles EXCEPT ![t] = hs] /\ h.held = FALSE
  OBVIOUS
<1> HIDE DEF h
<1>4. /\ hs \in Seq(Handle)
      /\ Len(hs) = Len(handles[t]) + 1
      /\ \A n \in DOMAIN hs :
           hs[n] = h \/ (n \in DOMAIN handles[t] /\ hs[n] = handles[t][n])
      /\ hs # <<>>
  <2>1. handles[t] \in Seq(Handle)
    BY DEF TypeOK
  <2>2. /\ Len(handles[t]) \in Nat
        /\ DOMAIN handles[t] = 1 .. Len(handles[t])
    BY <2>1, LenProperties
  <2>3. /\ hs \in Seq(Handle)
        /\ hs # <<>>
        /\ Len(hs) = Len(handles[t]) + 1
        /\ \A n \in 1 .. Len(handles[t]) : hs[n] = handles[t][n]
        /\ hs[Len(handles[t]) + 1] = h
    BY <1>2, <2>1, AppendProperties
  <2>4. DOMAIN hs = 1 .. Len(handles[t]) + 1
    BY <2>3, LenProperties
  <2>5. QED
    BY <2>2, <2>3, <2>4
<1> HIDE DEF hs
<1>5. TypeOK'
  BY <1>1, <1>3, <1>4 DEF TypeOK, Where, FilesCounted
<1>6. OwnsRLock'
  BY <1>3 DEF TypeOK, OwnsRLock
<1>7. Depths'
  BY <1>3, <1>4, EmptySeq DEF TypeOK, Depths
<1>8. FilesCounted'
  BY <1>1 DEF TypeOK, FilesCounted
<1>9. NoConflict'
  BY <1>3, <1>4, ConflictStep DEF NoConflict
<1>10. QED
  BY <1>5, <1>6, <1>7, <1>8, <1>9

\* Back leaves the thread outside with the RLock released, or in its block.
LEMMA BackKeeps ==
  ASSUME LockInv, NEW t \in Threads, NEW hs \in Seq(Handle),
         at[t] \in {"open", "poll", "inside"}, rlock[ObjectOf[t]] = t,
         want[t].drop => hs = <<>>,
         \A n \in DOMAIN hs : n \in DOMAIN handles[t] /\ hs[n] = handles[t][n],
         handles' = [handles EXCEPT ![t] = hs],
         Back(t, Len(hs)),
         UNCHANGED <<path, files, want, drops, deaths>>
  PROVE  LockInv'
<1> USE FileLockAssumption DEF LockInv
<1>1. Len(hs) \in Nat /\ (Len(hs) > 0 <=> hs # <<>>)
  <2>1. Len(hs) \in Nat
    BY LenProperties
  <2>2. Len(hs) = 0 <=> hs = <<>>
    BY EmptySeq
  <2>3. QED
    BY <2>1, <2>2
<1>2. \/ /\ hs # <<>>
         /\ at' = [at EXCEPT ![t] = "inside"]
         /\ UNCHANGED <<rlock, nested>>
      \/ /\ hs = <<>>
         /\ at' = [at EXCEPT ![t] = "outside"]
         /\ rlock' = [rlock EXCEPT ![ObjectOf[t]] = Free]
         /\ nested' = [nested EXCEPT ![t] = FALSE]
  BY <1>1 DEF Back, Goto
<1>3. /\ at'[t] \in {"inside", "outside"}
      /\ at'[t] = "inside" => hs # <<>> /\ rlock'[ObjectOf[t]] = t
      /\ at'[t] = "outside" => hs = <<>> /\ rlock'[ObjectOf[t]] = Free
      /\ \A v \in Threads : v # t =>
           /\ at'[v] = at[v] /\ handles'[v] = handles[v]
           /\ ObjectOf[v] # ObjectOf[t] => rlock'[ObjectOf[v]] = rlock[ObjectOf[v]]
           /\ ObjectOf[v] = ObjectOf[t] => rlock'[ObjectOf[v]] # v
           /\ ObjectOf[v] = ObjectOf[t] => rlock[ObjectOf[v]] # v
      /\ handles'[t] = hs
  <2>1. /\ handles'[t] = hs
        /\ \A v \in Threads : v # t => handles'[v] = handles[v]
        /\ ObjectOf[t] \in Objects
        /\ \A v \in Threads : ObjectOf[v] \in Objects
    BY DEF TypeOK
  <2>2. CASE hs # <<>>
    BY <1>2, <2>1, <2>2 DEF TypeOK
  <2>3. CASE hs = <<>>
    BY <1>2, <2>1, <2>3 DEF TypeOK
  <2>4. QED
    BY <2>2, <2>3
<1>4. TypeOK'
  <2>1. /\ at' \in [Threads -> Where]
        /\ rlock' \in [Objects -> Threads \cup {Free}]
        /\ nested' \in [Threads -> BOOLEAN]
        /\ handles' \in [Threads -> Seq(Handle)]
    BY <1>2 DEF TypeOK, Where
  <2>2. \A v \in Threads : at'[v] \in {"outside", "unlink"} =>
          handles'[v] = <<>> /\ rlock'[ObjectOf[v]] # v
    BY <1>3 DEF TypeOK
  <2>3. QED
    BY <2>1, <2>2 DEF TypeOK
<1>9. OwnsRLock'
  BY <1>3 DEF OwnsRLock
<1>5. Depths'
  BY <1>1, <1>2, EmptySeq DEF TypeOK, Depths
<1>6. FilesCounted'
  <2>1. t \in Dropping <=> want[t].drop
    BY DEF Dropping
  <2>2. at'[t] # "outside" /\ want'[t].drop <=> FALSE
    BY <1>2 DEF TypeOK
  <2>3. \A v \in Threads : v # t => at'[v] = at[v] /\ want'[v] = want[v]
    BY <1>2 DEF TypeOK
  <2>4. /\ IsFiniteSet(Dropping')
        /\ Cardinality(Dropping) \in Nat
        /\ Cardinality(Dropping') \in Nat
        /\ Cardinality(Dropping') <= Cardinality(Dropping)
    BY <2>1, <2>2, <2>3, DroppingStep
  <2>5. QED
    BY <2>4 DEF TypeOK, FilesCounted
<1>7. NoConflict'
  BY FewerHandles
<1>8. QED
  BY <1>4, <1>9, <1>5, <1>6, <1>7

LEMMA OpenFailsKeeps ==
  ASSUME LockInv, NEW t \in Threads, OpenFails(t)
  PROVE  LockInv'
<1>1. /\ handles[t] \in Seq(Handle)
      /\ handles' = [handles EXCEPT ![t] = handles[t]]
      /\ rlock[ObjectOf[t]] = t
      /\ ~want[t].drop
  BY DEF LockInv, TypeOK, OwnsRLock, Depths, OpenFails
<1>2. QED
  BY <1>1, BackKeeps DEF OpenFails

LEMMA TimeOutKeeps ==
  ASSUME LockInv, NEW t \in Threads, TimeOut(t)
  PROVE  LockInv'
<1> DEFINE hs == SubSeq(handles[t], 1, Len(handles[t]) - 1)
<1>1. /\ handles[t] \in Seq(Handle) /\ handles[t] # <<>>
      /\ rlock[ObjectOf[t]] = t
      /\ want[t].drop => Len(handles[t]) <= 1
  BY DEF LockInv, TypeOK, OwnsRLock, Depths, TimeOut
<1>2. /\ hs \in Seq(Handle)
      /\ Len(hs) = Len(handles[t]) - 1
      /\ want[t].drop => hs = <<>>
      /\ \A n \in DOMAIN hs : n \in DOMAIN handles[t] /\ hs[n] = handles[t][n]
  BY <1>1, PopOf
<1>3. handles' = [handles EXCEPT ![t] = hs]
  BY DEF TimeOut, Pop
<1>4. QED
  BY <1>1, <1>2, <1>3, BackKeeps DEF TimeOut

LEMMA LockKeeps ==
  ASSUME LockInv, NEW t \in Threads, Lock(t)
  PROVE  LockInv'
<1> USE FileLockAssumption DEF LockInv, Lock, Goto
<1> DEFINE hs == [handles[t] EXCEPT ![Len(handles[t])].held = TRUE]
<1>1. handles[t] \in Seq(Handle) /\ handles[t] # <<>>
  BY DEF TypeOK, Depths
<1>2. handles' = [handles EXCEPT ![t] = hs]
  OBVIOUS
<1>3. /\ hs \in Seq(Handle)
      /\ Len(hs) = Len(handles[t])
      /\ hs # <<>>
      /\ \A n \in DOMAIN hs :
           /\ n \in DOMAIN handles[t]
           /\ hs[n].file = handles[t][n].file
           /\ hs[n].exclusive = handles[t][n].exclusive
           /\ n # Len(handles[t]) => hs[n].held = handles[t][n].held
  BY <1>1, HoldOf
<1> HIDE DEF hs
<1>4. TypeOK'
  BY <1>2, <1>3 DEF TypeOK, Where
<1>5. OwnsRLock'
  BY <1>2 DEF TypeOK, OwnsRLock
<1>6. Depths'
  BY <1>2, <1>3 DEF TypeOK, Depths
<1>7. FilesCounted'
  BY DroppingStep DEF TypeOK, FilesCounted, Dropping
<1>8. NoConflict'
  <2>1. ASSUME NEW n \in DOMAIN hs, hs[n].held,
               NEW v \in Threads, NEW m \in DOMAIN handles[v],
               v # t, handles[v][m].held
        PROVE  ~Conflicts(hs[n], handles[v][m])
    <3>1. CASE n = Len(handles[t])
      BY <1>3, <2>1, <3>1 DEF Granted, Innermost, Conflicts
    <3>2. CASE n # Len(handles[t])
      BY <1>3, <2>1, <3>2 DEF NoConflict, Conflicts
    <3>3. QED
      BY <3>1, <3>2
  <2>2. \A n \in DOMAIN hs : hs[n].held =>
          \A v \in Threads : \A m \in DOMAIN handles[v] :
            v # t /\ handles[v][m].held => ~Conflicts(hs[n], handles[v][m])
    BY <2>1
  <2>3. hs \in Seq(Handle)
    BY <1>3
  <2> HIDE DEF LockInv, Lock, Goto
  <2>4. QED
    BY <1>2, <2>2, <2>3, ConflictStep
<1>9. QED
  BY <1>4, <1>5, <1>6, <1>7, <1>8

LEMMA LeaveKeeps ==
  ASSUME LockInv, NEW t \in Threads, Leave(t)
  PROVE  LockInv'
<1> USE FileLockAssumption DEF LockInv, Leave, Goto
<1> DEFINE hs == SubSeq(handles[t], 1, Len(handles[t]) - 1)
<1>1. /\ handles[t] \in Seq(Handle) /\ handles[t] # <<>>
      /\ rlock[ObjectOf[t]] = t
      /\ want[t].drop => Len(handles[t]) <= 1
  BY DEF TypeOK, OwnsRLock, Depths
<1>2. /\ hs \in Seq(Handle)
      /\ Len(hs) = Len(handles[t]) - 1
      /\ want[t].drop => hs = <<>>
      /\ \A n \in DOMAIN hs : n \in DOMAIN handles[t] /\ hs[n] = handles[t][n]
  BY <1>1, PopOf
<1>3. handles' = [handles EXCEPT ![t] = hs]
  BY DEF Pop
<1> HIDE DEF hs
<1>4. CASE ~want[t].drop
  BY <1>1, <1>2, <1>3, <1>4, BackKeeps
<1>5. CASE want[t].drop
  <2>1. /\ at' = [at EXCEPT ![t] = "unlink"]
        /\ rlock' = [rlock EXCEPT ![ObjectOf[t]] = Free]
        /\ UNCHANGED <<path, files, want, drops, deaths, nested>>
    BY <1>5
  <2>2. TypeOK'
    BY <1>2, <1>3, <1>5, <2>1 DEF TypeOK, Where
  <2>3. OwnsRLock'
    BY <1>1, <1>2, <1>3, <1>5, <2>1 DEF TypeOK, OwnsRLock
  <2>4. Depths'
    BY <1>2, <1>3, <1>5, <2>1, EmptySeq DEF TypeOK, Depths
  <2>5. FilesCounted'
    <3>1. Dropping' = Dropping
      BY <1>5, <2>1 DEF TypeOK, Dropping
    <3>2. QED
      BY <2>1, <3>1 DEF FilesCounted
  <2>6. NoConflict'
    BY <1>2, <1>3, FewerHandles
  <2>7. QED
    BY <2>2, <2>3, <2>4, <2>5, <2>6
<1>6. QED
  BY <1>4, <1>5

LEMMA UnlinkKeeps ==
  ASSUME LockInv, NEW t \in Threads, Unlink(t)
  PROVE  LockInv'
<1> USE FileLockAssumption DEF LockInv, Unlink, Goto
<1>1. TypeOK'
  BY DEF TypeOK, Where
<1>2. OwnsRLock'
  BY DEF TypeOK, OwnsRLock
<1>3. Depths'
  BY DEF TypeOK, Depths
<1>4. FilesCounted'
  <2>1. t \in Dropping /\ at'[t] = "outside"
    BY DEF TypeOK, Depths, Dropping
  <2>2. \A v \in Threads : v # t => at'[v] = at[v] /\ want'[v] = want[v]
    BY DEF TypeOK
  <2>3. /\ IsFiniteSet(Dropping')
        /\ Cardinality(Dropping) \in Nat
        /\ Cardinality(Dropping') = Cardinality(Dropping) - 1
    BY <2>1, <2>2, DroppingStep
  <2>4. QED
    BY <2>3 DEF TypeOK, FilesCounted
<1>5. NoConflict'
  BY DEF NoConflict, Conflicts
<1>6. QED
  BY <1>1, <1>2, <1>3, <1>4, <1>5

LEMMA DieKeeps ==
  ASSUME LockInv, NEW o \in Objects, Die(o)
  PROVE  LockInv'
<1> USE FileLockAssumption DEF LockInv
<1>1. /\ rlock' = [rlock EXCEPT ![o] = Free]
      /\ at' = [t \in Threads |-> IF ObjectOf[t] = o THEN "outside" ELSE at[t]]
      /\ handles' = [t \in Threads |-> IF ObjectOf[t] = o THEN <<>> ELSE handles[t]]
      /\ nested' = [t \in Threads |-> nested[t] /\ ObjectOf[t] # o]
      /\ deaths' = deaths + 1 /\ deaths < MaxDeaths
      /\ UNCHANGED <<path, files, want, drops>>
  BY DEF Die
<1>2. TypeOK'
  <2>1. nested' \in [Threads -> BOOLEAN]
    BY <1>1
  <2>2. handles' \in [Threads -> Seq(Handle)]
    BY <1>1, EmptySeq DEF TypeOK
  <2>3. QED
    BY <1>1, <2>1, <2>2 DEF TypeOK, Where
<1>3. OwnsRLock'
  BY <1>1 DEF TypeOK, OwnsRLock
<1>4. Depths'
  BY <1>1, EmptySeq DEF TypeOK, Depths
<1>5. FilesCounted'
  <2>1. Dropping' \subseteq Dropping
    BY <1>1 DEF Dropping
  <2>2. /\ IsFiniteSet(Dropping')
        /\ Cardinality(Dropping) \in Nat
        /\ Cardinality(Dropping') \in Nat
        /\ Cardinality(Dropping') <= Cardinality(Dropping)
    BY <2>1, FS_Subset, FS_CardinalityType DEF FilesCounted
  <2>3. QED
    BY <1>1, <2>2 DEF TypeOK, FilesCounted
<1>6. NoConflict'
  <2>1. \A t \in Threads : handles'[t] = <<>> \/ handles'[t] = handles[t]
    BY <1>1
  <2>2. QED
    BY <2>1, EmptySeq DEF NoConflict, Conflicts
<1>7. QED
  BY <1>2, <1>3, <1>4, <1>5, <1>6

-----------------------------------------------------------------------------
LEMMA InitLocks == Init => LockInv
<1> SUFFICES ASSUME Init PROVE LockInv
  OBVIOUS
<1>1. TypeOK
  BY FileLockAssumption, EmptySeq DEF Init, TypeOK, Wants, Where
<1>2. OwnsRLock
  BY DEF Init, OwnsRLock
<1>3. Depths
  BY EmptySeq DEF Init, Depths
<1>4. FilesCounted
  <2>1. Dropping = {}
    BY DEF Init, Dropping
  <2>2. QED
    BY <2>1, FS_EmptySet DEF Init, FilesCounted
<1>5. NoConflict
  BY EmptySeq DEF Init, NoConflict
<1>6. QED
  BY <1>1, <1>2, <1>3, <1>4, <1>5 DEF LockInv

LEMMA NextLocks == LockInv /\ [Next]_vars => LockInv'
<1> SUFFICES ASSUME LockInv, [Next]_vars PROVE LockInv'
  OBVIOUS
<1>1. ASSUME NEW t \in Threads, Enter(t) \/ EnterAgain(t) \/ Works(t)
      PROVE  LockInv'
  BY <1>1, EnterKeeps, EnterAgainKeeps, TakeRLockKeeps, TouchKeeps, OpenKeeps,
     OpenFailsKeeps, LockKeeps, TimeOutKeeps, LeaveKeeps, UnlinkKeeps DEF Works
<1>2. ASSUME NEW o \in Objects, Die(o)
      PROVE  LockInv'
  BY <1>2, DieKeeps
<1>3. CASE UNCHANGED vars
  BY <1>3 DEF vars, LockInv, TypeOK, OwnsRLock, Depths, FilesCounted, Dropping,
     NoConflict, Conflicts
<1>4. QED
  BY <1>1, <1>2, <1>3 DEF Next

LEMMA LockInvariant == Spec => []LockInv
BY InitLocks, NextLocks, PTL DEF Spec

\* Every variable keeps its type, for any number of threads and objects: in
\* particular a thread that is outside of all blocks has closed its descriptors
\* and released the RLock, however it got there, and no more files are created
\* than one for each drop and the first one.
THEOREM TypeCorrect == Spec => []TypeOK
BY LockInvariant, PTL DEF LockInv

\* write() excludes every other holder (locks.py:119), of its process by the
\* RLock and of other processes by flock, unless the two hold different files:
\* one of which drop has then removed from the path.
THEOREM Exclusion == Spec => []ExclusiveOnPath
<1>1. LockInv => ExclusiveOnPath
  <2> SUFFICES ASSUME LockInv,
                      NEW t \in Threads, NEW v \in Threads, t # v,
                      NEW h \in HeldBy(t), NEW k \in HeldBy(v),
                      h.exclusive \/ k.exclusive
               PROVE  /\ ObjectOf[t] # ObjectOf[v]
                      /\ h.file # path \/ k.file # path
    BY DEF ExclusiveOnPath
  <2>1. PICK m \in DOMAIN handles[t] : h = handles[t][m] /\ h.held
    BY DEF HeldBy
  <2>2. PICK n \in DOMAIN handles[v] : k = handles[v][n] /\ k.held
    BY DEF HeldBy
  <2>3. rlock[ObjectOf[t]] = t /\ rlock[ObjectOf[v]] = v
    BY <2>1, <2>2, EmptySeq DEF LockInv, OwnsRLock
  <2>4. ~Conflicts(h, k)
    BY <2>1, <2>2 DEF LockInv, NoConflict
  <2>5. QED
    BY <2>3, <2>4 DEF Conflicts
<1>2. QED
  BY <1>1, LockInvariant, PTL
=============================================================================

---------------------------- MODULE ProcessesProofs ---------------------------
(***************************************************************************)
(* Theorems about Processes, for every set of instances, fields and values *)
(* and every bound: what holds whether or not a collection is opened while *)
(* others write to it, and then what holds when it is not.                 *)
(***************************************************************************)
EXTENDS Processes, SequenceTheorems, TLAPS

\* What DrawnIsNew needs of the calls: a single instance creates.
OneCreator == \A p, q \in Creators : p = q

\* Instance p writes to id i, and what it writes to is, or is about to be,
\* known to others.
Touches(p, i) ==
  /\ inst[p].write.id = i
  /\ \/ inst[p].at \in {"append", "checkpoint"}
     \/ At(p, "log") /\ inst[p].write.kind # "create"

\* A record of id i is stored, logged, about to be replayed or to be written.
InUse(i) ==
  \/ data[i] # NoRec
  \/ \E k \in DOMAIN log : log[k].id = i
  \/ \E p \in Instances :
       \/ \E k \in DOMAIN inst[p].rq : inst[p].rq[k].id = i
       \/ Touches(p, i)

\* p has drawn an id and not yet logged its record.
Drawing(p) ==
  inst[p].write.kind = "create" /\ inst[p].at \in {"acquire", "log"}

\* The counter file is past every id in use; an id that has been drawn is in
\* use nowhere; and the creating instance has the counter of the file.
CounterInv ==
  /\ \A i \in Ids : InUse(i) => i <= file
  /\ \A p \in Instances :
       Drawing(p) => inst[p].write.id <= file /\ ~InUse(inst[p].write.id)
  /\ \A p \in Instances : inst[p].write.kind = "create" => p \in Creators
  /\ \A p \in Creators : ~At(p, "down") => inst[p].last = file

IInv == TypeOK /\ CounterInv

-----------------------------------------------------------------------------
(* Type correctness *)

LEMMA MaybeFacts == NoRec \in Maybe /\ Record \subseteq Maybe
  BY DEF Maybe

LEMMA EntriesOf ==
  ASSUME NEW s \in Seq(Entry) PROVE \A k \in DOMAIN s : s[k] \in Entry
  OBVIOUS

LEMMA DownType == Down \in Instance /\ NoWrite.kind = "none" /\ NoWrite.id = 0
                 /\ Down.write = NoWrite
  BY MaybeFacts, ProcessesAssumption DEF Down, Instance, NoWrite, Places, Kinds, Changes

LEMMA TypeInit == Init => TypeOK
<1> SUFFICES ASSUME Init PROVE TypeOK
  OBVIOUS
<1>1. inst \in [Instances -> Instance]
  BY DownType DEF Init
<1>2. \A p \in Instances : CallOK(p)
  BY DownType DEF Init, CallOK, At, Down
<1>3. data \in [Ids -> Maybe] /\ outcomes \in [Ids -> SUBSET Maybe]
  BY MaybeFacts DEF Init
<1>4. log \in Seq(Entry)
  BY DEF Init
<1> QED BY <1>1, <1>2, <1>3, <1>4, ProcessesAssumption DEF Init, TypeOK

\* What a write makes of the record it has read.
LEMMA ChangedType ==
  ASSUME TypeOK, NEW p \in Instances, NEW r \in Maybe,
         inst[p].write.kind \in {"create", "update", "delete"},
         inst[p].write.kind = "update" => r \in Record
  PROVE  Changed(r, inst[p].write.kind, inst[p].write.change) \in Maybe
<1> DEFINE w == inst[p].write
<1>1. CASE w.kind = "update"
  <2>1. r \in [Fields -> Values] /\ w.change[1] \in Fields /\ w.change[2] \in Values
    BY <1>1 DEF TypeOK, CallOK, Record
  <2>2. [r EXCEPT ![w.change[1]] = w.change[2]] \in [Fields -> Values]
    BY <2>1
  <2> QED BY <1>1, <2>2 DEF Changed, Maybe, Record
<1>2. CASE w.kind # "update"
  BY <1>2, MaybeFacts DEF TypeOK, CallOK, Changed
<1> QED BY <1>1, <1>2

\* The instances, when one of them goes from inst[p] to s.
LEMMA InstanceStep ==
  ASSUME TypeOK, NEW p \in Instances, NEW s \in Instance,
         inst' = [inst EXCEPT ![p] = s], CallOK(p)'
  PROVE  inst' \in [Instances -> Instance] /\ \A q \in Instances : CallOK(q)'
<1>1. inst' \in [Instances -> Instance]
  BY DEF TypeOK
<1>2. ASSUME NEW q \in Instances, q # p PROVE CallOK(q)'
  <2>1. inst'[q] = inst[q]
    BY <1>2 DEF TypeOK
  <2>2. CallOK(q)
    BY DEF TypeOK
  <2> QED BY <2>1, <2>2 DEF CallOK, At
<1> QED BY <1>1, <1>2

\* The instances, when one of them goes to another place with its write.
LEMMA GoType ==
  ASSUME TypeOK, NEW p \in Instances, NEW where \in Places, Go(p, where),
         where # "acquire",
         where \in {"log", "append"} =>
           inst[p].write.kind \in {"create", "update", "delete"}
  PROVE  inst' \in [Instances -> Instance] /\ \A q \in Instances : CallOK(q)'
<1> DEFINE s == [inst[p] EXCEPT !.at = where]
<1>1. s \in Instance /\ inst' = [inst EXCEPT ![p] = s]
  BY DEF TypeOK, Instance, Go
<1>2. inst'[p].at = where /\ inst'[p].write = inst[p].write
  BY DEF TypeOK, Instance, Go
<1>3. CallOK(p)'
  BY <1>2 DEF TypeOK, CallOK, At
<1> HIDE DEF s
<1> QED BY <1>1, <1>3, InstanceStep

LEMMA ReturnType ==
  ASSUME TypeOK, NEW p \in Instances, Return(p)
  PROVE  inst' \in [Instances -> Instance] /\ \A q \in Instances : CallOK(q)'
<1> DEFINE s == [inst[p] EXCEPT !.at = "up", !.write = NoWrite]
<1>1. NoWrite \in [kind : Kinds, id : 0 .. MaxId, change : Changes, new : Maybe]
  BY DownType DEF Instance, Down
<1>2. s \in Instance /\ inst' = [inst EXCEPT ![p] = s]
  BY <1>1 DEF TypeOK, Instance, Return, Places
<1>3. inst'[p].at = "up" /\ inst'[p].write = NoWrite
  BY DEF TypeOK, Instance, Return
<1>4. CallOK(p)'
  BY <1>3, DownType DEF CallOK, At
<1> HIDE DEF s
<1> QED BY <1>2, <1>4, InstanceStep

\* A call that begins.
LEMMA BeginType ==
  ASSUME TypeOK, NEW p \in Instances,
         NEW kind \in Kinds \ {"none"}, NEW i \in 0 .. MaxId,
         NEW change \in Changes, NEW last \in 0 .. MaxId,
         IF kind = "compact" THEN i = 0 ELSE i \in Ids,
         kind = "create" => change \in Record,
         kind = "update" => change \in Fields \X Values,
         kind = "delete" => change = NoRec,
         inst' = [inst EXCEPT ![p].at = "acquire", ![p].last = last,
                              ![p].write = [NoWrite EXCEPT !.kind = kind, !.id = i,
                                                           !.change = change]]
  PROVE  inst' \in [Instances -> Instance] /\ \A q \in Instances : CallOK(q)'
<1> DEFINE w == [NoWrite EXCEPT !.kind = kind, !.id = i, !.change = change]
           s == [inst[p] EXCEPT !.at = "acquire", !.last = last, !.write = w]
<1>1. /\ w \in [kind : Kinds, id : 0 .. MaxId, change : Changes, new : Maybe]
      /\ w.kind = kind /\ w.id = i /\ w.change = change
  BY MaybeFacts DEF NoWrite
<1> HIDE DEF w
<1>2. s \in Instance /\ inst' = [inst EXCEPT ![p] = s]
  <2>1. s \in Instance
    <3>1. inst[p] \in Instance /\ "acquire" \in Places
      BY DEF TypeOK, Places
    <3> QED BY <1>1, <3>1 DEF Instance
  <2>2. inst' = [inst EXCEPT ![p] = s]
    BY DEF TypeOK, w
  <2> QED BY <2>1, <2>2
<1>3. inst'[p].at = "acquire" /\ inst'[p].write = w
  BY DEF TypeOK, Instance, w
<1>4. CallOK(p)'
  BY <1>1, <1>3 DEF CallOK, At, Kinds
<1> HIDE DEF s
<1> QED BY <1>2, <1>4, InstanceStep

LEMMA OpenType == TypeOK /\ (\E p \in Instances : Open(p)) => TypeOK'
<1> SUFFICES ASSUME TypeOK, NEW p \in Instances, Open(p) PROVE TypeOK'
  OBVIOUS
<1> DEFINE s == [inst[p] EXCEPT !.at = IF log = <<>> THEN "up" ELSE "replay",
                                !.last = file, !.rq = log]
<1>1. s \in Instance
  BY DEF TypeOK, Instance, Places
<1>2. inst' = [inst EXCEPT ![p] = s]
  BY DEF Open
<1>3. inst'[p].at \in {"up", "replay"} /\ inst'[p].write = inst[p].write
  BY <1>2 DEF TypeOK, Instance
<1>4. CallOK(p)'
  BY <1>3 DEF TypeOK, CallOK, At
<1> HIDE DEF s
<1>5. inst' \in [Instances -> Instance] /\ \A q \in Instances : CallOK(q)'
  BY <1>1, <1>2, <1>4, InstanceStep
<1> QED BY <1>5 DEF TypeOK, Open, files

LEMMA ReplayType == TypeOK /\ (\E p \in Instances : Replay(p)) => TypeOK'
<1> SUFFICES ASSUME TypeOK, NEW p \in Instances, Replay(p) PROVE TypeOK'
  OBVIOUS
<1> DEFINE s == [inst[p] EXCEPT !.rq = Tail(@)]
           e == Head(inst[p].rq)
<1>1. inst[p].rq \in Seq(Entry) /\ inst[p].rq # <<>>
  BY DEF TypeOK, Instance, Replay
<1>2. e \in Entry /\ Tail(inst[p].rq) \in Seq(Entry)
  BY <1>1, HeadTailProperties
<1>3. s \in Instance
  BY <1>2 DEF TypeOK, Instance
<1>4. inst' = [inst EXCEPT ![p] = s]
  BY DEF Replay, TypeOK
<1>5. inst'[p].at = inst[p].at /\ inst'[p].write = inst[p].write
  BY <1>4 DEF TypeOK, Instance
<1>6. CallOK(p)'
  BY <1>5 DEF TypeOK, CallOK, At
<1>7. data' \in [Ids -> Maybe]
  BY <1>2 DEF TypeOK, Replay, Entry
<1> HIDE DEF s
<1>8. inst' \in [Instances -> Instance] /\ \A q \in Instances : CallOK(q)'
  BY <1>3, <1>4, <1>6, InstanceStep
<1> QED BY <1>7, <1>8 DEF TypeOK, Replay

LEMMA RecoverType == TypeOK /\ (\E p \in Instances : RecoverCheckpoint(p)) => TypeOK'
<1> SUFFICES ASSUME TypeOK, NEW p \in Instances, RecoverCheckpoint(p) PROVE TypeOK'
  OBVIOUS
<1>1. inst' \in [Instances -> Instance] /\ \A q \in Instances : CallOK(q)'
  BY GoType DEF RecoverCheckpoint, Places
<1>2. log' \in Seq(Entry)
  BY DEF RecoverCheckpoint
<1>3. \A i \in Ids : \A k \in LastEntry(i) : log[k].rec \in Maybe
  <2>1. \A k \in DOMAIN log : log[k] \in Entry
    BY EntriesOf DEF TypeOK
  <2> QED BY <2>1 DEF LastEntry, Entry
<1>4. \A i \in Ids : {log[k].rec : k \in LastEntry(i)} \in SUBSET Maybe
  BY <1>3
<1>5. outcomes' \in [Ids -> SUBSET Maybe]
  BY <1>4 DEF TypeOK, RecoverCheckpoint, Recovered
<1> QED BY <1>1, <1>2, <1>5 DEF TypeOK, RecoverCheckpoint

LEMMA CallType ==
  TypeOK /\ (\E p \in Instances : CallCreate(p) \/ CallOther(p)) => TypeOK'
<1> SUFFICES ASSUME TypeOK, NEW p \in Instances, CallCreate(p) \/ CallOther(p)
             PROVE  TypeOK'
  OBVIOUS
<1>1. CASE CallCreate(p)
  <2> DEFINE i == inst[p].last + 1
  <2>1. i \in Ids /\ i \in 0 .. MaxId /\ file' = i
    <3>1. i \in Ids /\ file' = i
      BY <1>1 DEF CallCreate
    <3> HIDE DEF i
    <3> QED BY <3>1, ProcessesAssumption DEF Ids
  <2>2. PICK r \in Record :
          inst' = [inst EXCEPT ![p].at = "acquire", ![p].last = i,
                               ![p].write = [NoWrite EXCEPT !.kind = "create",
                                                            !.id = i,
                                                            !.change = r]]
    BY <1>1 DEF CallCreate
  <2>3. r \in Changes /\ "create" \in Kinds \ {"none"}
    BY DEF Changes, Kinds
  <2> HIDE DEF i
  <2>4. inst' \in [Instances -> Instance] /\ \A q \in Instances : CallOK(q)'
    BY <2>1, <2>2, <2>3, BeginType
  <2> QED BY <1>1, <2>1, <2>4 DEF TypeOK, CallCreate
<1>2. CASE CallOther(p)
  <2>1. PICK kind \in {"update", "delete", "compact"}, i \in 0 .. MaxId,
             change \in Changes :
          /\ Begin(p, kind, i, change)
          /\ IF kind = "compact" THEN i = 0 ELSE i \in Ids
          /\ kind = "update" => change \in Fields \X Values
          /\ kind = "delete" => change = NoRec
    <3>1. CASE \E i \in Ids, f \in Fields, v \in Values :
                 Begin(p, "update", i, <<f, v>>)
      <4>1. PICK i \in Ids, f \in Fields, v \in Values :
              Begin(p, "update", i, <<f, v>>)
        BY <3>1
      <4>2. i \in 0 .. MaxId /\ <<f, v>> \in Fields \X Values
            /\ <<f, v>> \in Changes
        BY ProcessesAssumption DEF Ids, Changes
      <4> QED BY <4>1, <4>2
    <3>2. CASE \E i \in Ids : Begin(p, "delete", i, NoRec)
      <4>1. PICK i \in Ids : Begin(p, "delete", i, NoRec)
        BY <3>2
      <4>2. i \in 0 .. MaxId /\ NoRec \in Changes
        BY ProcessesAssumption DEF Ids, Changes
      <4> QED BY <4>1, <4>2
    <3>3. CASE Begin(p, "compact", 0, NoRec)
      <4>1. 0 \in 0 .. MaxId /\ NoRec \in Changes
        BY ProcessesAssumption DEF Changes
      <4> QED BY <3>3, <4>1
    <3> QED BY <1>2, <3>1, <3>2, <3>3 DEF CallOther
  <2> DEFINE last == inst[p].last
  <2>2. inst' = [inst EXCEPT ![p].at = "acquire", ![p].last = last,
                             ![p].write = [NoWrite EXCEPT !.kind = kind, !.id = i,
                                                          !.change = change]]
    BY <2>1 DEF Begin, TypeOK, Instance
  <2>3. last \in 0 .. MaxId /\ kind \in Kinds \ {"none"} /\ kind # "create"
    BY DEF TypeOK, Instance, Kinds
  <2> HIDE DEF last
  <2>4. inst' \in [Instances -> Instance] /\ \A q \in Instances : CallOK(q)'
    BY <2>1, <2>2, <2>3, BeginType
  <2> QED BY <1>2, <2>4 DEF TypeOK, CallOther, files
<1> QED BY <1>1, <1>2

LEMMA AcquireType ==
  TypeOK /\ (\E p \in Instances : Acquire(p) \/ AcquireCompact(p)) => TypeOK'
<1> SUFFICES ASSUME TypeOK, NEW p \in Instances, Acquire(p) \/ AcquireCompact(p)
             PROVE  TypeOK'
  OBVIOUS
<1>1. CASE Acquire(p)
  <2> DEFINE w == inst[p].write
             new == Changed(data[w.id], w.kind, w.change)
             s == [inst[p] EXCEPT !.at = "log", !.write.new = new]
  <2>1. w.kind \in {"create", "update", "delete"} /\ w.id \in Ids
    BY <1>1 DEF TypeOK, CallOK, Acquire, At, Instance, Kinds
  <2>2. data[w.id] \in Maybe /\ (w.kind = "update" => data[w.id] \in Record)
    BY <1>1, <2>1 DEF TypeOK, Acquire, Missing, Maybe
  <2>3. new \in Maybe
    BY <2>1, <2>2, ChangedType
  <2> HIDE DEF new
  <2>4. s \in Instance
    BY <2>3 DEF TypeOK, Instance, Places
  <2>5. inst' = [inst EXCEPT ![p] = s]
    BY <1>1 DEF Acquire, TypeOK, new
  <2>6. /\ inst'[p].at = "log"
        /\ inst'[p].write = [w EXCEPT !.new = new]
    BY <2>5 DEF TypeOK, Instance
  <2>7. CallOK(p)'
    BY <2>1, <2>6 DEF TypeOK, CallOK, At, Instance
  <2> HIDE DEF s
  <2>8. inst' \in [Instances -> Instance] /\ \A q \in Instances : CallOK(q)'
    BY <2>4, <2>5, <2>7, InstanceStep
  <2> QED BY <1>1, <2>8 DEF TypeOK, Acquire
<1>2. CASE AcquireCompact(p)
  <2>1. inst' \in [Instances -> Instance] /\ \A q \in Instances : CallOK(q)'
    BY <1>2, GoType DEF AcquireCompact, Places
  <2> QED BY <1>2, <2>1 DEF TypeOK, AcquireCompact
<1> QED BY <1>1, <1>2

LEMMA RefusedType ==
  TypeOK /\ (\E p \in Instances : Timeout(p) \/ NotFound(p)) => TypeOK'
<1> SUFFICES ASSUME TypeOK, NEW p \in Instances, Timeout(p) \/ NotFound(p)
             PROVE  TypeOK'
  OBVIOUS
<1>1. inst' \in [Instances -> Instance] /\ \A q \in Instances : CallOK(q)'
  BY ReturnType DEF Timeout, NotFound
<1> QED BY <1>1 DEF TypeOK, Timeout, NotFound, files

LEMMA WriteType ==
  TypeOK /\ (\E p \in Instances : LogWrite(p) \/ AppendRecord(p)) => TypeOK'
<1> SUFFICES ASSUME TypeOK, NEW p \in Instances, LogWrite(p) \/ AppendRecord(p)
             PROVE  TypeOK'
  OBVIOUS
<1>1. /\ inst[p].write.kind \in {"create", "update", "delete"}
      /\ inst[p].write.id \in Ids /\ inst[p].write.new \in Maybe
  BY DEF TypeOK, CallOK, LogWrite, AppendRecord, At, Instance
<1>2. inst' \in [Instances -> Instance] /\ \A q \in Instances : CallOK(q)'
  BY <1>1, GoType DEF LogWrite, AppendRecord, Places
<1>3. log' \in Seq(Entry) /\ data' \in [Ids -> Maybe]
  <2>1. [id |-> inst[p].write.id, rec |-> inst[p].write.new] \in Entry
    BY <1>1 DEF Entry
  <2>2. CASE LogWrite(p)
    <3>1. log' \in Seq(Entry)
      BY <2>1, <2>2, AppendProperties DEF TypeOK, LogWrite
    <3> QED BY <2>2, <3>1 DEF TypeOK, LogWrite
  <2>3. CASE AppendRecord(p)
    BY <1>1, <2>3 DEF TypeOK, AppendRecord
  <2> QED BY <2>2, <2>3
<1> QED BY <1>2, <1>3 DEF TypeOK, LogWrite, AppendRecord

LEMMA CheckpointType == TypeOK /\ (\E p \in Instances : Checkpoint(p)) => TypeOK'
<1> SUFFICES ASSUME TypeOK, NEW p \in Instances, Checkpoint(p) PROVE TypeOK'
  OBVIOUS
<1> DEFINE w == inst[p].write
<1>1. inst' \in [Instances -> Instance] /\ \A q \in Instances : CallOK(q)'
  BY ReturnType DEF Checkpoint
<1>2. log' \in Seq(Entry)
  BY DEF Checkpoint
<1>3. ASSUME NEW i \in Ids PROVE Returned(w)[i] \in SUBSET Maybe
  <2>1. CASE i # w.id
    BY <2>1 DEF TypeOK, Returned
  <2>2. CASE i = w.id /\ w.kind # "update"
    BY <2>2 DEF TypeOK, Instance, Returned
  <2>3. CASE i = w.id /\ w.kind = "update"
    <3>1. \A r \in outcomes[i] \ {NoRec} : r \in Maybe /\ r \in Record
      BY DEF TypeOK, Maybe
    <3>2. \A r \in outcomes[i] \ {NoRec} : Changed(r, w.kind, w.change) \in Maybe
      BY <2>3, <3>1, ChangedType
    <3>3. Returned(w)[i] =
            {Changed(r, w.kind, w.change) : r \in outcomes[i] \ {NoRec}}
      BY <2>3 DEF Returned
    <3> QED BY <3>2, <3>3
  <2> QED BY <2>1, <2>2, <2>3
<1>4. outcomes' \in [Ids -> SUBSET Maybe]
  <2>1. outcomes' = [i \in Ids |-> Returned(w)[i]]
    BY DEF Checkpoint, Returned
  <2> QED BY <1>3, <2>1
<1> QED BY <1>1, <1>2, <1>4 DEF TypeOK, Checkpoint

LEMMA StopType == TypeOK /\ (\E p \in Instances : Stop(p)) => TypeOK'
<1> SUFFICES ASSUME TypeOK, NEW p \in Instances, Stop(p) PROVE TypeOK'
  OBVIOUS
<1>1. CallOK(p)'
  BY DownType DEF TypeOK, Stop, CallOK, At, Down
<1>2. inst' \in [Instances -> Instance] /\ \A q \in Instances : CallOK(q)'
  BY <1>1, DownType, InstanceStep DEF Stop
<1>3. outcomes' \in [Ids -> SUBSET Maybe]
  <2>1. Interrupted(inst[p].write) \in [Ids -> SUBSET Maybe]
    BY DEF TypeOK, Instance, Interrupted
  <2> QED BY <2>1 DEF TypeOK, Stop
<1>4. deaths' \in 0 .. MaxDeaths
  BY ProcessesAssumption DEF TypeOK, Stop
<1> QED BY <1>2, <1>3, <1>4 DEF TypeOK, Stop

LEMMA TypeStep == TypeOK /\ [Next]_vars => TypeOK'
<1>1. TypeOK /\ UNCHANGED vars => TypeOK'
  BY DEF TypeOK, vars, files, CallOK, At
<1> QED BY <1>1, OpenType, ReplayType, RecoverType, CallType, AcquireType,
           RefusedType, WriteType, CheckpointType, StopType DEF Next

\* Every value stays of its type: no write takes an id that is none, and a
\* write that logs or appends has an id and a record, or none, to write.
THEOREM TypeCorrect == Spec => []TypeOK
  BY TypeInit, TypeStep, PTL DEF Spec

-----------------------------------------------------------------------------
(* The ids that are drawn *)

\* The only step that puts an id to use which was not in use is that which
\* logs the record of a create; the others move ids that are.
LEMMA UseInstance ==
  ASSUME TypeOK, NEW p \in Instances,
         \A q \in Instances \ {p} : inst'[q] = inst[q],
         NEW i \in Ids, InUse(i)'
  PROVE  \/ data'[i] # NoRec
         \/ \E k \in DOMAIN log' : log'[k].id = i
         \/ \E k \in DOMAIN inst'[p].rq : inst'[p].rq[k].id = i
         \/ Touches(p, i)'
         \/ InUse(i)
<1> SUFFICES ASSUME NEW q \in Instances \ {p},
                    \/ \E k \in DOMAIN inst'[q].rq : inst'[q].rq[k].id = i
                    \/ Touches(q, i)'
             PROVE  InUse(i)
  BY DEF InUse
<1>1. inst'[q] = inst[q]
  OBVIOUS
<1>2. \/ \E k \in DOMAIN inst[q].rq : inst[q].rq[k].id = i
      \/ Touches(q, i)
  BY <1>1 DEF Touches, At
<1> QED BY <1>2 DEF InUse

\* A step of p that stores and logs no record puts to use only what it touches.
LEMMA UseKept ==
  ASSUME TypeOK, NEW p \in Instances,
         \A q \in Instances \ {p} : inst'[q] = inst[q],
         data' = data, log' \in {log, <<>>}, inst'[p].rq \in {inst[p].rq, log},
         NEW i \in Ids, InUse(i)', Touches(p, i)' => InUse(i)
  PROVE  InUse(i)
<1>1. CASE data'[i] # NoRec
  BY <1>1 DEF InUse
<1>2. CASE \E k \in DOMAIN log' : log'[k].id = i
  BY <1>2 DEF InUse
<1>3. CASE \E k \in DOMAIN inst'[p].rq : inst'[p].rq[k].id = i
  BY <1>3 DEF InUse
<1> QED BY <1>1, <1>2, <1>3, UseInstance

\* A step after which nothing is in use that was not, and that draws no id and
\* leaves the counters alone.
LEMMA CounterKept ==
  ASSUME TypeOK, CounterInv, TypeOK', file' = file,
         \A i \in Ids : InUse(i)' => InUse(i),
         \A p \in Instances :
           /\ Drawing(p)' => Drawing(p) /\ inst'[p].write.id = inst[p].write.id
           /\ inst'[p].write.kind = "create" => inst[p].write.kind = "create"
           /\ At(p, "down")' \/ (~At(p, "down") /\ inst'[p].last = inst[p].last)
                             \/ inst'[p].last = file
  PROVE  CounterInv'
<1>1. \A i \in Ids : InUse(i)' => i <= file'
  BY DEF CounterInv
<1>2. ASSUME NEW p \in Instances, Drawing(p)'
      PROVE  inst'[p].write.id <= file' /\ ~InUse(inst[p].write.id)'
             /\ inst'[p].write.id = inst[p].write.id
  <2>1. inst[p].write.id \in Ids
    BY <1>2 DEF Drawing, TypeOK, CallOK
  <2> QED BY <1>2, <2>1 DEF CounterInv
<1>3. \A p \in Instances : inst'[p].write.kind = "create" => p \in Creators
  BY DEF CounterInv
<1>4. \A p \in Creators : ~At(p, "down")' => inst'[p].last = file'
  BY ProcessesAssumption DEF CounterInv
<1> QED BY <1>1, <1>2, <1>3, <1>4 DEF CounterInv

\* The same for a step of p, with the conditions that concern p.
LEMMA CounterKeptBy ==
  ASSUME TypeOK, CounterInv, TypeOK', file' = file, NEW p \in Instances,
         \A q \in Instances \ {p} : inst'[q] = inst[q],
         \A i \in Ids : InUse(i)' => InUse(i),
         Drawing(p)' => Drawing(p) /\ inst'[p].write.id = inst[p].write.id,
         inst'[p].write.kind = "create" => inst[p].write.kind = "create",
         At(p, "down")' \/ (~At(p, "down") /\ inst'[p].last = inst[p].last)
                       \/ inst'[p].last = file
  PROVE  CounterInv'
<1>1. ASSUME NEW q \in Instances \ {p}
      PROVE  /\ Drawing(q)' => Drawing(q) /\ inst'[q].write.id = inst[q].write.id
             /\ inst'[q].write.kind = "create" => inst[q].write.kind = "create"
             /\ At(q, "down")' \/ (~At(q, "down") /\ inst'[q].last = inst[q].last)
  BY <1>1 DEF Drawing, At
<1> QED BY <1>1, CounterKept

\* Where a step of p leaves its write and its counter.
LEMMA MoveFacts ==
  ASSUME TypeOK, NEW p \in Instances, NEW where, Go(p, where) \/ Return(p)
  PROVE  /\ \A q \in Instances \ {p} : inst'[q] = inst[q]
         /\ inst'[p].rq = inst[p].rq /\ inst'[p].last = inst[p].last
         /\ Go(p, where) => inst'[p].at = where /\ inst'[p].write = inst[p].write
         /\ Return(p) => inst'[p].at = "up" /\ inst'[p].write = NoWrite
  BY DEF TypeOK, Instance, Go, Return

LEMMA CounterInit == Init => CounterInv
<1> SUFFICES ASSUME Init PROVE CounterInv
  OBVIOUS
<1>1. \A p \in Instances : inst[p].at = "down" /\ inst[p].write.kind = "none"
                           /\ inst[p].rq = <<>>
  BY DEF Init, Down, NoWrite
<1>2. \A i \in Ids : ~InUse(i)
  BY <1>1 DEF Init, InUse, Touches, At
<1> QED BY <1>1, <1>2, ProcessesAssumption DEF CounterInv, Drawing, At

LEMMA OpenCounter ==
  ASSUME TypeOK, CounterInv, TypeOK', NEW p \in Instances, Open(p)
  PROVE  CounterInv'
<1>1. /\ \A q \in Instances \ {p} : inst'[q] = inst[q]
      /\ inst'[p].at \in {"up", "replay"} /\ inst'[p].last = file
      /\ inst'[p].rq = log /\ inst'[p].write = inst[p].write
  BY DEF TypeOK, Instance, Open
<1>2. \A i \in Ids : InUse(i)' => InUse(i)
  <2> SUFFICES ASSUME NEW i \in Ids, InUse(i)' PROVE InUse(i)
    OBVIOUS
  <2>1. ~Touches(p, i)'
    BY <1>1 DEF Touches, At
  <2> QED BY <1>1, <2>1, UseKept DEF Open, files
<1> QED BY <1>1, <1>2, CounterKeptBy DEF Open, files, Drawing

LEMMA ReplayCounter ==
  ASSUME TypeOK, CounterInv, TypeOK', NEW p \in Instances, Replay(p)
  PROVE  CounterInv'
<1> DEFINE rq == inst[p].rq
<1>1. /\ \A q \in Instances \ {p} : inst'[q] = inst[q]
      /\ inst'[p].at = inst[p].at /\ inst'[p].last = inst[p].last
      /\ inst'[p].rq = Tail(rq) /\ inst'[p].write = inst[p].write
  BY DEF TypeOK, Instance, Replay
<1>2. rq \in Seq(Entry) /\ rq # <<>>
  BY DEF TypeOK, Instance, Replay
<1>3. /\ 1 \in DOMAIN rq /\ Head(rq) = rq[1]
      /\ \A k \in DOMAIN Tail(rq) : k + 1 \in DOMAIN rq /\ Tail(rq)[k] = rq[k + 1]
  BY <1>2
<1>4. \A i \in Ids : InUse(i)' => InUse(i)
  <2> SUFFICES ASSUME NEW i \in Ids, InUse(i)' PROVE InUse(i)
    OBVIOUS
  <2>1. CASE data'[i] # NoRec
    <3>1. data'[i] = data[i] \/ i = Head(rq).id
      BY DEF TypeOK, Replay
    <3> QED BY <1>3, <2>1, <3>1 DEF InUse
  <2>2. CASE \E k \in DOMAIN inst'[p].rq : inst'[p].rq[k].id = i
    BY <1>1, <1>3, <2>2 DEF InUse
  <2>3. CASE (\E k \in DOMAIN log' : log'[k].id = i) \/ Touches(p, i)'
    BY <1>1, <2>3 DEF InUse, Touches, At, Replay
  <2> QED BY <1>1, <2>1, <2>2, <2>3, UseInstance
<1> QED BY <1>1, <1>4, CounterKeptBy DEF Replay, Drawing, At

LEMMA RecoverCounter ==
  ASSUME TypeOK, CounterInv, TypeOK', NEW p \in Instances, RecoverCheckpoint(p)
  PROVE  CounterInv'
<1>1. /\ \A q \in Instances \ {p} : inst'[q] = inst[q]
      /\ inst'[p].at = "up" /\ inst'[p].last = inst[p].last
      /\ inst'[p].rq = inst[p].rq /\ inst'[p].write = inst[p].write
  BY MoveFacts DEF RecoverCheckpoint
<1>2. \A i \in Ids : InUse(i)' => InUse(i)
  <2> SUFFICES ASSUME NEW i \in Ids, InUse(i)' PROVE InUse(i)
    OBVIOUS
  <2>1. ~Touches(p, i)'
    BY <1>1 DEF Touches, At
  <2> QED BY <1>1, <2>1, UseKept DEF RecoverCheckpoint
<1> QED BY <1>1, <1>2, CounterKeptBy DEF RecoverCheckpoint, Drawing, At

LEMMA CallOtherCounter ==
  ASSUME TypeOK, CounterInv, TypeOK', NEW p \in Instances, CallOther(p)
  PROVE  CounterInv'
<1>1. /\ \A q \in Instances \ {p} : inst'[q] = inst[q]
      /\ inst'[p].at = "acquire" /\ inst'[p].last = inst[p].last
      /\ inst'[p].rq = inst[p].rq /\ inst'[p].write.kind # "create"
  <2>1. PICK kind \in {"update", "delete", "compact"}, i \in 0 .. MaxId,
             change \in Changes :
          Begin(p, kind, i, change)
    <3>1. /\ Ids \subseteq 0 .. MaxId /\ 0 \in 0 .. MaxId
          /\ NoRec \in Changes /\ Fields \X Values \subseteq Changes
      BY ProcessesAssumption DEF Ids, Changes
    <3> QED BY <3>1 DEF CallOther
  <2>2. [NoWrite EXCEPT !.kind = kind, !.id = i, !.change = change].kind = kind
    BY DEF NoWrite
  <2> QED BY <2>1, <2>2 DEF TypeOK, Instance, Begin
<1>2. \A i \in Ids : InUse(i)' => InUse(i)
  <2> SUFFICES ASSUME NEW i \in Ids, InUse(i)' PROVE InUse(i)
    OBVIOUS
  <2>1. ~Touches(p, i)'
    BY <1>1 DEF Touches, At
  <2> QED BY <1>1, <2>1, UseKept DEF CallOther, files
<1> QED BY <1>1, <1>2, CounterKeptBy DEF CallOther, MayCall, files, Drawing, At

LEMMA RefusedCounter ==
  ASSUME TypeOK, CounterInv, TypeOK', NEW p \in Instances, Timeout(p) \/ NotFound(p)
  PROVE  CounterInv'
<1>1. Return(p) /\ At(p, "acquire") /\ UNCHANGED files
  BY DEF Timeout, NotFound
<1>2. /\ \A q \in Instances \ {p} : inst'[q] = inst[q]
      /\ inst'[p].at = "up" /\ inst'[p].last = inst[p].last
      /\ inst'[p].rq = inst[p].rq /\ inst'[p].write.kind # "create"
  BY <1>1, MoveFacts, DownType
<1>3. \A i \in Ids : InUse(i)' => InUse(i)
  <2> SUFFICES ASSUME NEW i \in Ids, InUse(i)' PROVE InUse(i)
    OBVIOUS
  <2>1. ~Touches(p, i)'
    BY <1>2 DEF Touches, At
  <2> QED BY <1>1, <1>2, <2>1, UseKept DEF files
<1> QED BY <1>1, <1>2, <1>3, CounterKeptBy DEF files, Drawing, At

LEMMA AcquireCounter ==
  ASSUME TypeOK, CounterInv, TypeOK', NEW p \in Instances, Acquire(p)
  PROVE  CounterInv'
<1> DEFINE w == inst[p].write
<1>1. /\ \A q \in Instances \ {p} : inst'[q] = inst[q]
      /\ inst'[p].at = "log" /\ inst'[p].last = inst[p].last
      /\ inst'[p].rq = inst[p].rq
      /\ inst'[p].write.kind = w.kind /\ inst'[p].write.id = w.id
  BY DEF TypeOK, Instance, Acquire
<1>2. \A i \in Ids : InUse(i)' => InUse(i)
  <2> SUFFICES ASSUME NEW i \in Ids, InUse(i)' PROVE InUse(i)
    OBVIOUS
  <2>1. ASSUME Touches(p, i)' PROVE InUse(i)
    <3>1. i = w.id /\ w.kind # "create"
      BY <1>1, <2>1 DEF Touches, At
    <3>2. w.kind \in {"update", "delete"}
      BY <3>1 DEF TypeOK, Instance, Kinds, CallOK, Acquire, At
    <3> QED BY <3>1, <3>2 DEF Acquire, Missing, InUse
  <2> QED BY <1>1, <2>1, UseKept DEF Acquire
<1> QED BY <1>1, <1>2, CounterKeptBy DEF Acquire, Drawing, At

LEMMA AcquireCompactCounter ==
  ASSUME TypeOK, CounterInv, TypeOK', NEW p \in Instances, AcquireCompact(p)
  PROVE  CounterInv'
<1>1. /\ \A q \in Instances \ {p} : inst'[q] = inst[q]
      /\ inst'[p].at = "checkpoint" /\ inst'[p].last = inst[p].last
      /\ inst'[p].rq = inst[p].rq /\ inst'[p].write = inst[p].write
  BY MoveFacts DEF AcquireCompact
<1>2. \A i \in Ids : InUse(i)' => InUse(i)
  <2> SUFFICES ASSUME NEW i \in Ids, InUse(i)' PROVE InUse(i)
    OBVIOUS
  <2>1. ~Touches(p, i)'
    BY <1>1 DEF Touches, AcquireCompact, TypeOK, CallOK, Ids
  <2> QED BY <1>1, <2>1, UseKept DEF AcquireCompact
<1> QED BY <1>1, <1>2, CounterKeptBy DEF AcquireCompact, Drawing, At

\* The one step that puts a new id to use: it was drawn before.
LEMMA LogCounter ==
  ASSUME TypeOK, CounterInv, TypeOK', OneCreator, NEW p \in Instances, LogWrite(p)
  PROVE  CounterInv'
<1> DEFINE w == inst[p].write
<1>1. /\ \A q \in Instances \ {p} : inst'[q] = inst[q]
      /\ inst'[p].at = "append" /\ inst'[p].last = inst[p].last
      /\ inst'[p].rq = inst[p].rq /\ inst'[p].write = w
  BY MoveFacts DEF LogWrite
<1>2. \A k \in DOMAIN log' : log'[k].id = w.id \/ \E m \in DOMAIN log : log'[k] = log[m]
  BY DEF TypeOK, LogWrite
<1>3. \A i \in Ids : InUse(i)' => InUse(i) \/ i = w.id
  <2> SUFFICES ASSUME NEW i \in Ids, InUse(i)' PROVE InUse(i) \/ i = w.id
    OBVIOUS
  <2>1. CASE data'[i] # NoRec
    BY <2>1 DEF InUse, LogWrite
  <2>2. CASE \E k \in DOMAIN log' : log'[k].id = i
    BY <1>2, <2>2 DEF InUse
  <2>3. CASE \E k \in DOMAIN inst'[p].rq : inst'[p].rq[k].id = i
    BY <1>1, <2>3 DEF InUse
  <2>4. CASE Touches(p, i)'
    BY <1>1, <2>4 DEF Touches
  <2> QED BY <1>1, <2>1, <2>2, <2>3, <2>4, UseInstance
<1>4. w.kind # "create" => InUse(w.id)
  BY DEF LogWrite, InUse, Touches, At
<1>5. w.kind = "create" => w.id <= file
  BY DEF CounterInv, Drawing, LogWrite, At
<1>6. \A i \in Ids : InUse(i)' => i <= file'
  BY <1>3, <1>4, <1>5 DEF CounterInv, LogWrite, TypeOK, Ids
<1>7. ASSUME NEW q \in Instances, Drawing(q)'
      PROVE  inst'[q].write.id <= file' /\ ~InUse(inst[q].write.id)'
             /\ inst'[q].write.id = inst[q].write.id
  <2>1. q # p /\ inst'[q] = inst[q]
    BY <1>1, <1>7 DEF Drawing
  <2>2. Drawing(q) /\ inst[q].write.id \in Ids
    BY <1>7, <2>1 DEF Drawing, TypeOK, CallOK
  <2>3. w.kind # "create"
    BY <2>1, <2>2 DEF Drawing, CounterInv, OneCreator
  <2>4. inst[q].write.id # w.id
    BY <1>4, <2>2, <2>3 DEF CounterInv
  <2> QED BY <1>3, <2>1, <2>2, <2>4 DEF CounterInv, LogWrite
<1>8. \A q \in Instances : inst'[q].write.kind = "create" => q \in Creators
  BY <1>1 DEF CounterInv
<1>9. \A q \in Creators : ~At(q, "down")' => inst'[q].last = file'
  BY <1>1, ProcessesAssumption DEF CounterInv, LogWrite, At
<1> QED BY <1>6, <1>7, <1>8, <1>9 DEF CounterInv

LEMMA AppendCounter ==
  ASSUME TypeOK, CounterInv, TypeOK', NEW p \in Instances, AppendRecord(p)
  PROVE  CounterInv'
<1>1. /\ \A q \in Instances \ {p} : inst'[q] = inst[q]
      /\ inst'[p].at = "checkpoint" /\ inst'[p].last = inst[p].last
      /\ inst'[p].rq = inst[p].rq /\ inst'[p].write = inst[p].write
  BY MoveFacts DEF AppendRecord
<1>2. \A i \in Ids : InUse(i)' => InUse(i)
  <2> SUFFICES ASSUME NEW i \in Ids, InUse(i)' PROVE InUse(i)
    OBVIOUS
  <2>1. InUse(inst[p].write.id)
    BY DEF InUse, Touches, AppendRecord, At
  <2>2. CASE data'[i] # NoRec
    <3>1. data'[i] = data[i] \/ i = inst[p].write.id
      BY DEF TypeOK, AppendRecord
    <3> QED BY <2>1, <2>2, <3>1 DEF InUse
  <2>3. CASE \E k \in DOMAIN log' : log'[k].id = i
    BY <2>3 DEF InUse, AppendRecord
  <2>4. CASE \E k \in DOMAIN inst'[p].rq : inst'[p].rq[k].id = i
    BY <1>1, <2>4 DEF InUse
  <2>5. CASE Touches(p, i)'
    BY <1>1, <2>1, <2>5 DEF Touches
  <2> QED BY <1>1, <2>2, <2>3, <2>4, <2>5, UseInstance
<1> QED BY <1>1, <1>2, CounterKeptBy DEF AppendRecord, Drawing, At

LEMMA CheckpointCounter ==
  ASSUME TypeOK, CounterInv, TypeOK', NEW p \in Instances, Checkpoint(p)
  PROVE  CounterInv'
<1>1. /\ \A q \in Instances \ {p} : inst'[q] = inst[q]
      /\ inst'[p].at = "up" /\ inst'[p].last = inst[p].last
      /\ inst'[p].rq = inst[p].rq /\ inst'[p].write.kind # "create"
  BY MoveFacts, DownType DEF Checkpoint
<1>2. \A i \in Ids : InUse(i)' => InUse(i)
  <2> SUFFICES ASSUME NEW i \in Ids, InUse(i)' PROVE InUse(i)
    OBVIOUS
  <2>1. ~Touches(p, i)'
    BY <1>1 DEF Touches, At
  <2> QED BY <1>1, <2>1, UseKept DEF Checkpoint
<1> QED BY <1>1, <1>2, CounterKeptBy DEF Checkpoint, Drawing, At

LEMMA StopCounter ==
  ASSUME TypeOK, CounterInv, TypeOK', NEW p \in Instances, Stop(p)
  PROVE  CounterInv'
<1>1. /\ \A q \in Instances \ {p} : inst'[q] = inst[q]
      /\ inst'[p].at = "down" /\ inst'[p].rq = <<>>
      /\ inst'[p].write.kind # "create"
  BY DownType DEF TypeOK, Stop, Down
<1>2. \A i \in Ids : InUse(i)' => InUse(i)
  <2> SUFFICES ASSUME NEW i \in Ids, InUse(i)' PROVE InUse(i)
    OBVIOUS
  <2>1. ~Touches(p, i)'
    BY <1>1 DEF Touches, At
  <2>2. ~\E k \in DOMAIN inst'[p].rq : inst'[p].rq[k].id = i
    BY <1>1
  <2>3. data' = data /\ log' = log
    BY DEF Stop
  <2> QED BY <1>1, <2>1, <2>2, <2>3, UseInstance DEF InUse
<1> QED BY <1>1, <1>2, CounterKeptBy DEF Stop, Drawing, At

\* The one step that draws: one past the counter file, so past what is in use.
LEMMA CreateCounter ==
  ASSUME TypeOK, CounterInv, TypeOK', OneCreator, NEW p \in Instances, CallCreate(p)
  PROVE  CounterInv'
<1>1. PICK i : i = inst[p].last + 1
  OBVIOUS
<1>2. PICK r \in Record :
        inst' = [inst EXCEPT ![p].at = "acquire", ![p].last = i,
                             ![p].write = [NoWrite EXCEPT !.kind = "create",
                                                          !.id = i,
                                                          !.change = r]]
  BY <1>1 DEF CallCreate
<1>3. /\ \A q \in Instances \ {p} : inst'[q] = inst[q]
      /\ inst'[p].at = "acquire" /\ inst'[p].last = i
      /\ inst'[p].rq = inst[p].rq
      /\ inst'[p].write.kind = "create" /\ inst'[p].write.id = i
  <2>1. /\ [NoWrite EXCEPT !.kind = "create", !.id = i, !.change = r].kind = "create"
        /\ [NoWrite EXCEPT !.kind = "create", !.id = i, !.change = r].id = i
    BY DEF NoWrite
  <2> QED BY <1>2, <2>1 DEF TypeOK, Instance
<1>4. inst[p].last = file /\ p \in Creators /\ i \in Ids /\ file' = i
  BY <1>1 DEF CallCreate, MayCall, CounterInv, At
<1>5. file \in Nat /\ i = file + 1
  BY <1>1, <1>4, ProcessesAssumption DEF TypeOK
<1>6. \A j \in Ids : InUse(j)' => InUse(j)
  <2> SUFFICES ASSUME NEW j \in Ids, InUse(j)' PROVE InUse(j)
    OBVIOUS
  <2>1. ~Touches(p, j)'
    BY <1>3 DEF Touches, At
  <2> QED BY <1>3, <2>1, UseKept DEF CallCreate
<1>7. \A j \in Ids : InUse(j)' => j <= file'
  BY <1>4, <1>5, <1>6 DEF CounterInv, Ids
<1>8. ~InUse(i)'
  <2>1. ~(i <= file)
    BY <1>5
  <2> QED BY <1>4, <1>6, <2>1 DEF CounterInv
<1>9. \A q \in Instances : inst'[q].write.kind = "create" => q \in Creators
  BY <1>3, <1>4 DEF CounterInv
<1>10. \A q \in Creators : q = p
  BY <1>4 DEF OneCreator
<1>11. ASSUME NEW q \in Instances, Drawing(q)'
       PROVE  inst'[q].write.id <= file' /\ inst'[q].write.id = i
  <2>1. q = p
    BY <1>9, <1>10, <1>11 DEF Drawing
  <2> QED BY <1>3, <1>4, <1>5, <2>1
<1>12. \A q \in Creators : ~At(q, "down")' => inst'[q].last = file'
  BY <1>3, <1>4, <1>10
<1> QED BY <1>7, <1>8, <1>9, <1>11, <1>12 DEF CounterInv

LEMMA CounterStep ==
  ASSUME OneCreator, TypeOK, CounterInv, TypeOK', [Next]_vars
  PROVE  CounterInv'
<1>1. CASE UNCHANGED vars
  BY <1>1 DEF CounterInv, InUse, Touches, Drawing, At, vars, files
<1>2. CASE Next
  BY <1>2, OpenCounter, ReplayCounter, RecoverCounter, CreateCounter,
     CallOtherCounter, RefusedCounter, AcquireCounter, AcquireCompactCounter,
     LogCounter, AppendCounter, CheckpointCounter, StopCounter DEF Next
<1> QED BY <1>1, <1>2

\* With a single creating instance an id is drawn once: while its record is
\* not logged it is stored, logged or drawn nowhere else, whatever the other
\* instances update, delete, compact and replay, and whoever dies.
THEOREM DrawnOnce ==
  ASSUME OneCreator
  PROVE  Spec => []DrawnIsNew
<1>1. Init => IInv
  BY TypeInit, CounterInit DEF IInv
<1>2. IInv /\ [Next]_vars => IInv'
  BY TypeStep, CounterStep DEF IInv
<1>3. IInv => DrawnIsNew
  <2> SUFFICES ASSUME IInv, NEW p \in Instances, Drawing(p)
               PROVE  LET i == inst[p].write.id IN
                      /\ data[i] = NoRec
                      /\ \A k \in DOMAIN log : log[k].id # i
                      /\ \A q \in Instances \ {p} :
                           inst[q].write.kind = "create" => inst[q].write.id # i
    BY DEF DrawnIsNew, Drawing
  <2>1. ~InUse(inst[p].write.id)
    BY DEF IInv, CounterInv
  <2>2. \A q \in Instances \ {p} : inst[q].write.kind # "create"
    BY DEF IInv, CounterInv, OneCreator, Drawing
  <2> QED BY <2>1, <2>2 DEF InUse
<1> QED BY <1>1, <1>2, <1>3, PTL DEF Spec

-----------------------------------------------------------------------------
(* WritesKept, when a collection is opened only while nobody writes to it   *)

Holding == {"log", "append", "checkpoint"}

\* The lock file belongs to the instance that writes, and who replays is alone.
LockInv ==
  /\ \A p \in Instances : inst[p].at \in Holding <=> holder = p
  /\ \A p, q \in Instances :
       At(p, "replay") /\ q # p => inst[q].at \in {"down", "up"}

\* Instance p is writing r to id i, and is at one of these places.
Makes(p, i, r, places) ==
  inst[p].at \in places /\ inst[p].write.id = i /\ inst[p].write.new = r

\* What is stored, and what is logged, is what the writes may have made of the
\* record, or is being made of it now.
StoredInv ==
  /\ \A i \in Ids :
       \/ data[i] \in outcomes[i]
       \/ \E p \in Instances : Makes(p, i, data[i], {"checkpoint"})
  /\ \A k \in DOMAIN log :
       \/ log[k].rec \in outcomes[log[k].id]
       \/ \E p \in Instances :
            Makes(p, log[k].id, log[k].rec, {"append", "checkpoint"})

\* What an update writes was made from a version that may have been there, and
\* a write that is about to return is in the data file.
WriteOK(p) ==
  LET w == inst[p].write IN
  /\ inst[p].at \in Holding /\ w.kind = "update" =>
       \E r \in outcomes[w.id] \ {NoRec} : w.new = Changed(r, w.kind, w.change)
  /\ At(p, "checkpoint") /\ w.kind # "compact" => data[w.id] = w.new

WriteInv == \A p \in Instances : WriteOK(p)

\* n entries have been replayed: the rest is still to come, and the last of
\* the n entries for an id stands.
Replayed(p, n) ==
  LET rq == inst[p].rq IN
  /\ Len(log) = n + Len(rq)
  /\ \A k \in 1 .. Len(rq) : rq[k] = log[n + k]
  /\ \A k \in 1 .. n :
       (\A m \in k + 1 .. n : log[m].id # log[k].id) =>
         data[log[k].id] = log[k].rec

ReplayInv ==
  \A p \in Instances : At(p, "replay") => \E n \in 0 .. Len(log) : Replayed(p, n)

KeptInv == LockInv /\ StoredInv /\ WriteInv /\ ReplayInv

-----------------------------------------------------------------------------
(* Lemmas *)

LEMMA OneHolder ==
  ASSUME LockInv, NEW p \in Instances, NEW q \in Instances,
         inst[p].at \in Holding, inst[q].at \in Holding
  PROVE  p = q
  BY DEF LockInv

\* Nobody holds the lock file while the log is replayed.
LEMMA ReplayQuiet ==
  ASSUME LockInv, NEW p \in Instances, At(p, "replay")
  PROVE  \A q \in Instances : inst[q].at \notin Holding
  BY DEF LockInv, At, Holding

\* A step of p keeps LockInv.
LEMMA LockStep ==
  ASSUME LockInv, NEW p \in Instances,
         \A q \in Instances \ {p} : inst'[q] = inst[q],
         inst'[p].at \in Holding <=> holder' = p,
         holder' = holder \/ (holder' = p /\ holder \notin Instances \ {p})
                          \/ (holder' \notin Instances /\ holder = p),
         At(p, "replay")' =>
           \A q \in Instances \ {p} : inst[q].at \in {"down", "up"},
         inst'[p].at \notin {"down", "up"} =>
           \A q \in Instances \ {p} : ~At(q, "replay")
  PROVE  LockInv'
<1>1. ASSUME NEW q \in Instances \ {p}
      PROVE  inst'[q].at \in Holding <=> holder' = q
  BY DEF LockInv
<1>2. ASSUME NEW q \in Instances, NEW r \in Instances, At(q, "replay")', r # q
      PROVE  inst'[r].at \in {"down", "up"}
  <2>1. CASE q = p
    BY <1>2, <2>1
  <2>2. CASE q # p /\ r = p
    BY <1>2, <2>2 DEF At
  <2>3. CASE q # p /\ r # p
    BY <1>2, <2>3 DEF LockInv, At
  <2> QED BY <2>1, <2>2, <2>3
<1> QED BY <1>1, <1>2 DEF LockInv

\* A step of p that leaves data, log and outcomes alone keeps what is said of
\* them, if p was not making anything of a record.
LEMMA FilesStep ==
  ASSUME KeptInv, NEW p \in Instances,
         \A q \in Instances \ {p} : inst'[q] = inst[q],
         UNCHANGED <<data, log, outcomes>>,
         inst[p].at \notin {"append", "checkpoint"},
         WriteOK(p)',
         At(p, "replay")' => inst'[p].rq = log /\ log \in Seq(Entry)
  PROVE  StoredInv' /\ WriteInv' /\ ReplayInv'
<1>1. ASSUME NEW q \in Instances, NEW i, NEW r, NEW places,
             places \subseteq {"append", "checkpoint"}, Makes(q, i, r, places)
      PROVE  Makes(q, i, r, places)'
  <2>1. q # p
    BY <1>1 DEF Makes
  <2> QED BY <1>1, <2>1 DEF Makes
<1>2. StoredInv'
  <2>1. ASSUME NEW i \in Ids
        PROVE  \/ data'[i] \in outcomes'[i]
               \/ \E q \in Instances : Makes(q, i, data[i], {"checkpoint"})'
    BY <1>1 DEF KeptInv, StoredInv
  <2>2. ASSUME NEW k \in DOMAIN log
        PROVE  \/ log'[k].rec \in outcomes'[log'[k].id]
               \/ \E q \in Instances :
                    Makes(q, log[k].id, log[k].rec, {"append", "checkpoint"})'
    BY <1>1 DEF KeptInv, StoredInv
  <2> QED BY <2>1, <2>2 DEF StoredInv
<1>3. WriteInv'
  <2>1. ASSUME NEW q \in Instances \ {p} PROVE WriteOK(q)'
    BY DEF KeptInv, WriteInv, WriteOK, At
  <2> QED BY <2>1 DEF WriteInv
<1>4. ReplayInv'
  <2> SUFFICES ASSUME NEW q \in Instances, At(q, "replay")'
               PROVE  \E n \in 0 .. Len(log') : Replayed(q, n)'
    BY DEF ReplayInv
  <2>1. CASE q = p
    <3>1. 0 \in 0 .. Len(log') /\ Replayed(q, 0)'
      BY <2>1 DEF Replayed
    <3> QED BY <3>1
  <2>2. CASE q # p
    <3>1. PICK n \in 0 .. Len(log) : Replayed(q, n)
      BY <2>2 DEF KeptInv, ReplayInv, At
    <3>2. Replayed(q, n)'
      BY <2>2, <3>1 DEF Replayed
    <3> QED BY <3>2
  <2> QED BY <2>1, <2>2
<1> QED BY <1>2, <1>3, <1>4

-----------------------------------------------------------------------------
(* The steps *)

LEMMA KeptInit == Init => KeptInv
<1> SUFFICES ASSUME Init PROVE KeptInv
  OBVIOUS
<1>1. \A p \in Instances : inst[p].at = "down"
  BY DEF Init, Down
<1>2. LockInv
  BY <1>1, ProcessesAssumption DEF Init, LockInv, Holding, At
<1>3. StoredInv
  BY DEF Init, StoredInv
<1>4. WriteInv /\ ReplayInv
  BY <1>1 DEF WriteInv, WriteOK, ReplayInv, Holding, At
<1> QED BY <1>2, <1>3, <1>4 DEF KeptInv

LEMMA OpenKept ==
  ASSUME QuietOpens, TypeOK, KeptInv, NEW p \in Instances, Open(p)
  PROVE  KeptInv'
<1>1. /\ \A q \in Instances \ {p} : inst'[q] = inst[q]
      /\ inst'[p].at \in {"up", "replay"} /\ inst'[p].rq = log
      /\ inst[p].at = "down"
  BY DEF TypeOK, Instance, Open, At
<1>2. \A q \in Instances : inst[q].at \in {"down", "up"}
  BY DEF Open
<1>3. LockInv'
  <2>1. inst'[p].at \notin Holding /\ inst[p].at \notin Holding
    BY <1>1 DEF Holding
  <2>2. holder # p /\ holder' = holder
    BY <2>1 DEF KeptInv, LockInv, Open, files
  <2> QED BY <1>1, <1>2, <2>1, <2>2, LockStep DEF KeptInv, At
<1>4. WriteOK(p)'
  BY <1>1 DEF WriteOK, Holding, At
<1>5. StoredInv' /\ WriteInv' /\ ReplayInv'
  BY <1>1, <1>4, FilesStep DEF Open, files, TypeOK
<1> QED BY <1>3, <1>5 DEF KeptInv

LEMMA CallKept ==
  ASSUME QuietOpens, TypeOK, KeptInv, NEW p \in Instances,
         CallCreate(p) \/ CallOther(p)
  PROVE  KeptInv'
<1>1. /\ \A q \in Instances \ {p} : inst'[q] = inst[q]
      /\ inst'[p].at = "acquire" /\ inst[p].at = "up"
  BY DEF TypeOK, Instance, CallCreate, CallOther, Begin, MayCall, At
<1>2. \A q \in Instances : ~At(q, "replay")
  BY DEF CallCreate, CallOther, MayCall
<1>3. UNCHANGED <<data, log, holder, outcomes>>
  BY DEF CallCreate, CallOther, files
<1>4. LockInv'
  <2>1. inst'[p].at \notin Holding /\ inst[p].at \notin Holding
    BY <1>1 DEF Holding
  <2>2. holder # p
    BY <2>1 DEF KeptInv, LockInv
  <2> QED BY <1>1, <1>2, <1>3, <2>1, <2>2, LockStep DEF KeptInv, At
<1>5. WriteOK(p)'
  BY <1>1 DEF WriteOK, Holding, At
<1>6. StoredInv' /\ WriteInv' /\ ReplayInv'
  BY <1>1, <1>3, <1>5, FilesStep DEF At
<1> QED BY <1>4, <1>6 DEF KeptInv

LEMMA RefusedKept ==
  ASSUME TypeOK, KeptInv, NEW p \in Instances, Timeout(p) \/ NotFound(p)
  PROVE  KeptInv'
<1>1. Return(p) /\ inst[p].at = "acquire" /\ UNCHANGED <<data, log, holder, outcomes>>
  BY DEF Timeout, NotFound, files, At
<1>2. /\ \A q \in Instances \ {p} : inst'[q] = inst[q]
      /\ inst'[p].at = "up"
  BY <1>1, MoveFacts
<1>3. LockInv'
  <2>1. inst'[p].at \notin Holding /\ inst[p].at \notin Holding
    BY <1>1, <1>2 DEF Holding
  <2>2. holder # p
    BY <2>1 DEF KeptInv, LockInv
  <2> QED BY <1>1, <1>2, <2>1, <2>2, LockStep DEF KeptInv, At
<1>4. WriteOK(p)'
  BY <1>2 DEF WriteOK, Holding, At
<1>5. StoredInv' /\ WriteInv' /\ ReplayInv'
  BY <1>1, <1>2, <1>4, FilesStep DEF At
<1> QED BY <1>3, <1>5 DEF KeptInv

\* Nobody is in a step of a write or of a replay when p takes the lock file.
LEMMA AcquireAlone ==
  ASSUME TypeOK, KeptInv, NEW p \in Instances, At(p, "acquire"), holder = Nobody
  PROVE  /\ \A q \in Instances : inst[q].at \notin Holding
         /\ \A q \in Instances : ~At(q, "replay")
  BY ProcessesAssumption DEF KeptInv, LockInv, At

LEMMA AcquireKept ==
  ASSUME TypeOK, KeptInv, NEW p \in Instances, Acquire(p)
  PROVE  KeptInv'
<1> DEFINE w == inst[p].write
<1>1. /\ \A q \in Instances \ {p} : inst'[q] = inst[q]
      /\ inst'[p].at = "log" /\ inst[p].at = "acquire"
      /\ inst'[p].write.kind = w.kind /\ inst'[p].write.id = w.id
      /\ inst'[p].write.change = w.change
      /\ inst'[p].write.new = Changed(data[w.id], w.kind, w.change)
  BY DEF TypeOK, Instance, Acquire, At
<1>2. /\ \A q \in Instances : inst[q].at \notin Holding
      /\ \A q \in Instances : ~At(q, "replay")
  BY AcquireAlone DEF Acquire
<1>3. LockInv'
  <2>1. inst'[p].at \in Holding /\ holder' = p /\ holder \notin Instances
    BY <1>1, ProcessesAssumption DEF Acquire, Holding
  <2> QED BY <1>1, <1>2, <2>1, LockStep DEF KeptInv, At
<1>4. WriteOK(p)'
  <2>1. w.kind = "update" => w.id \in Ids /\ data[w.id] # NoRec
    BY DEF TypeOK, CallOK, Acquire, Missing
  <2>2. w.kind = "update" => data[w.id] \in outcomes[w.id] \ {NoRec}
    BY <1>2, <2>1 DEF KeptInv, StoredInv, Makes, Holding
  <2>3. outcomes' = outcomes
    BY DEF Acquire
  <2> QED BY <1>1, <2>2, <2>3 DEF WriteOK, At
<1>5. StoredInv' /\ WriteInv' /\ ReplayInv'
  BY <1>1, <1>4, FilesStep DEF Acquire, At
<1> QED BY <1>3, <1>5 DEF KeptInv

LEMMA AcquireCompactKept ==
  ASSUME TypeOK, KeptInv, NEW p \in Instances, AcquireCompact(p)
  PROVE  KeptInv'
<1>1. /\ \A q \in Instances \ {p} : inst'[q] = inst[q]
      /\ inst'[p].at = "checkpoint" /\ inst[p].at = "acquire"
      /\ inst'[p].write.kind = "compact"
  BY MoveFacts DEF AcquireCompact, At
<1>2. /\ \A q \in Instances : inst[q].at \notin Holding
      /\ \A q \in Instances : ~At(q, "replay")
  BY AcquireAlone DEF AcquireCompact
<1>3. LockInv'
  <2>1. inst'[p].at \in Holding /\ holder' = p /\ holder \notin Instances
    BY <1>1, ProcessesAssumption DEF AcquireCompact, Holding
  <2> QED BY <1>1, <1>2, <2>1, LockStep DEF KeptInv, At
<1>4. WriteOK(p)'
  BY <1>1 DEF WriteOK
<1>5. StoredInv' /\ WriteInv' /\ ReplayInv'
  BY <1>1, <1>4, FilesStep DEF AcquireCompact, At
<1> QED BY <1>3, <1>5 DEF KeptInv

\* While p writes nobody else does, and nobody replays, so that what is left to
\* show of a step of p concerns p, the data file and the log.
LEMMA HolderAlone ==
  ASSUME TypeOK, KeptInv, NEW p \in Instances, inst[p].at \in Holding
  PROVE  /\ \A q \in Instances \ {p} : inst[q].at \notin Holding
         /\ \A q \in Instances : ~At(q, "replay")
         /\ holder = p
  BY DEF KeptInv, LockInv, At, Holding

LEMMA HolderStep ==
  ASSUME TypeOK, KeptInv, NEW p \in Instances, inst[p].at \in Holding,
         \A q \in Instances \ {p} : inst'[q] = inst[q],
         IF inst'[p].at \in Holding THEN holder' = p
         ELSE holder' = Nobody /\ ~At(p, "replay")',
         WriteOK(p)'
  PROVE  LockInv' /\ WriteInv' /\ ReplayInv'
<1>1. /\ \A q \in Instances \ {p} : inst[q].at \notin Holding
      /\ \A q \in Instances : ~At(q, "replay")
      /\ holder = p
  BY HolderAlone
<1>2. ~At(p, "replay")'
  BY DEF Holding, At
<1>3. LockInv'
  <2>1. inst'[p].at \in Holding <=> holder' = p
    BY ProcessesAssumption
  <2>2. holder' = holder \/ (holder' \notin Instances /\ holder = p)
    BY <1>1, ProcessesAssumption
  <2> QED BY <1>1, <1>2, <2>1, <2>2, LockStep DEF KeptInv
<1>4. WriteInv'
  <2>1. ASSUME NEW q \in Instances \ {p} PROVE WriteOK(q)'
    BY <1>1 DEF WriteOK, At, Holding
  <2> QED BY <2>1 DEF WriteInv
<1>5. ReplayInv'
  BY <1>1, <1>2 DEF ReplayInv, At
<1> QED BY <1>3, <1>4, <1>5

LEMMA LogKept ==
  ASSUME TypeOK, KeptInv, NEW p \in Instances, LogWrite(p)
  PROVE  KeptInv'
<1> DEFINE w == inst[p].write
<1>1. /\ \A q \in Instances \ {p} : inst'[q] = inst[q]
      /\ inst'[p].at = "append" /\ inst'[p].write = w
      /\ inst[p].at = "log"
  BY MoveFacts DEF LogWrite, At
<1>2. inst[p].at \in Holding /\ inst'[p].at \in Holding
  BY <1>1 DEF Holding
<1>3. /\ \A q \in Instances \ {p} : inst[q].at \notin Holding
      /\ holder = p
  BY <1>2, HolderAlone
<1>4. /\ UNCHANGED <<data, holder, outcomes>>
      /\ log' = Append(log, [id |-> w.id, rec |-> w.new])
  BY DEF LogWrite
<1>5. WriteOK(p)'
  <2>1. WriteOK(p)
    BY DEF KeptInv, WriteInv
  <2> QED BY <1>1, <1>2, <1>4, <2>1 DEF WriteOK, At
<1>6. LockInv' /\ WriteInv' /\ ReplayInv'
  BY <1>1, <1>2, <1>3, <1>4, <1>5, HolderStep
<1>7. StoredInv'
  <2>1. ASSUME NEW i \in Ids PROVE data'[i] \in outcomes'[i]
    BY <1>1, <1>3, <1>4 DEF KeptInv, StoredInv, Makes, Holding
  <2>2. ASSUME NEW k \in DOMAIN log'
        PROVE  \/ log'[k].rec \in outcomes'[log'[k].id]
               \/ Makes(p, log[k].id, log[k].rec, {"append", "checkpoint"})'
    <3>1. CASE k \in DOMAIN log
      <4>1. log'[k] = log[k]
        BY <1>4, <3>1 DEF TypeOK
      <4>2. log[k].rec \in outcomes[log[k].id]
        BY <1>1, <1>3, <3>1 DEF KeptInv, StoredInv, Makes, Holding
      <4> QED BY <1>4, <4>1, <4>2
    <3>2. CASE k \notin DOMAIN log
      <4>1. log'[k] = [id |-> w.id, rec |-> w.new]
        BY <1>4, <2>2, <3>2 DEF TypeOK
      <4> QED BY <1>1, <4>1 DEF Makes
    <3> QED BY <3>1, <3>2
  <2> QED BY <2>1, <2>2 DEF StoredInv
<1> QED BY <1>6, <1>7 DEF KeptInv

LEMMA AppendKept ==
  ASSUME TypeOK, KeptInv, NEW p \in Instances, AppendRecord(p)
  PROVE  KeptInv'
<1> DEFINE w == inst[p].write
<1>1. /\ \A q \in Instances \ {p} : inst'[q] = inst[q]
      /\ inst'[p].at = "checkpoint" /\ inst'[p].write = w
      /\ inst[p].at = "append"
  BY MoveFacts DEF AppendRecord, At
<1>2. inst[p].at \in Holding /\ inst'[p].at \in Holding
  BY <1>1 DEF Holding
<1>3. /\ \A q \in Instances \ {p} : inst[q].at \notin Holding
      /\ holder = p
  BY <1>2, HolderAlone
<1>4. /\ UNCHANGED <<log, holder, outcomes>>
      /\ data' = [data EXCEPT ![w.id] = w.new]
  BY DEF AppendRecord
<1>5. w.id \in Ids
  BY <1>1 DEF TypeOK, CallOK
<1>6. WriteOK(p)'
  <2>1. WriteOK(p)
    BY DEF KeptInv, WriteInv
  <2>2. data'[w.id] = w.new
    BY <1>4, <1>5 DEF TypeOK
  <2> QED BY <1>1, <1>2, <1>4, <2>1, <2>2 DEF WriteOK, At
<1>7. LockInv' /\ WriteInv' /\ ReplayInv'
  BY <1>1, <1>2, <1>3, <1>4, <1>6, HolderStep
<1>8. StoredInv'
  <2>1. ASSUME NEW i \in Ids
        PROVE  \/ data'[i] \in outcomes'[i]
               \/ Makes(p, i, data[i], {"checkpoint"})'
    <3>1. CASE i = w.id
      BY <1>1, <1>4, <3>1 DEF Makes, TypeOK
    <3>2. CASE i # w.id
      <4>1. data[i] \in outcomes[i]
        BY <1>1, <1>3 DEF KeptInv, StoredInv, Makes, Holding
      <4> QED BY <1>4, <3>2, <4>1 DEF TypeOK
    <3> QED BY <3>1, <3>2
  <2>2. ASSUME NEW k \in DOMAIN log'
        PROVE  \/ log'[k].rec \in outcomes'[log'[k].id]
               \/ Makes(p, log[k].id, log[k].rec, {"append", "checkpoint"})'
    BY <1>1, <1>3, <1>4 DEF KeptInv, StoredInv, Makes, Holding
  <2> QED BY <2>1, <2>2 DEF StoredInv
<1> QED BY <1>7, <1>8 DEF KeptInv

LEMMA CheckpointKept ==
  ASSUME TypeOK, KeptInv, NEW p \in Instances, Checkpoint(p)
  PROVE  KeptInv'
<1> DEFINE w == inst[p].write
<1>1. /\ \A q \in Instances \ {p} : inst'[q] = inst[q]
      /\ inst'[p].at = "up" /\ inst[p].at = "checkpoint"
  BY MoveFacts DEF Checkpoint, At
<1>2. inst[p].at \in Holding /\ inst'[p].at \notin Holding
  BY <1>1 DEF Holding
<1>3. \A q \in Instances \ {p} : inst[q].at \notin Holding
  BY <1>2, HolderAlone
<1>4. data' = data /\ log' = <<>> /\ holder' = Nobody /\ outcomes' = Returned(w)
  BY DEF Checkpoint
<1>5. WriteOK(p)'
  BY <1>1 DEF WriteOK, Holding, At
<1>6. LockInv' /\ WriteInv' /\ ReplayInv'
  BY <1>1, <1>2, <1>4, <1>5, HolderStep DEF At
<1>7. ASSUME NEW i \in Ids PROVE data[i] \in Returned(w)[i]
  <2>1. CASE i # w.id
    <3>1. data[i] \in outcomes[i]
      BY <1>1, <1>3, <2>1 DEF KeptInv, StoredInv, Makes, Holding
    <3> QED BY <2>1, <3>1 DEF Returned
  <2>2. CASE i = w.id
    <3>1. w.kind # "compact"
      BY <2>2 DEF TypeOK, CallOK, Ids
    <3>2. WriteOK(p)
      BY DEF KeptInv, WriteInv
    <3>3. data[i] = w.new
      BY <1>1, <2>2, <3>1, <3>2 DEF WriteOK, At
    <3>4. CASE w.kind # "update"
      BY <2>2, <3>3, <3>4 DEF Returned
    <3>5. CASE w.kind = "update"
      <4>1. \E r \in outcomes[w.id] \ {NoRec} : w.new = Changed(r, w.kind, w.change)
        BY <1>2, <3>2, <3>5 DEF WriteOK
      <4> QED BY <2>2, <3>3, <3>5, <4>1 DEF Returned
    <3> QED BY <3>4, <3>5
  <2> QED BY <2>1, <2>2
<1>8. StoredInv'
  BY <1>4, <1>7 DEF StoredInv
<1> QED BY <1>6, <1>8 DEF KeptInv

LEMMA StopKept ==
  ASSUME TypeOK, KeptInv, NEW p \in Instances, Stop(p)
  PROVE  KeptInv'
<1> DEFINE w == inst[p].write
<1>1. /\ \A q \in Instances \ {p} : inst'[q] = inst[q]
      /\ inst'[p].at = "down"
      /\ data' = data /\ log' = log
      /\ holder' = IF holder = p THEN Nobody ELSE holder
  BY DEF TypeOK, Stop, Down
<1>2. \A i \in Ids : outcomes[i] \subseteq outcomes'[i]
  BY DEF Stop, Interrupted
<1>3. LockInv'
  <2>1. inst'[p].at \notin Holding /\ holder' # p
    BY <1>1, ProcessesAssumption DEF Holding
  <2>2. holder' = holder \/ (holder' \notin Instances /\ holder = p)
    BY <1>1, ProcessesAssumption
  <2> QED BY <1>1, <2>1, <2>2, LockStep DEF KeptInv, At
<1>4. \A i \in Ids : \A r : Makes(p, i, r, {"append", "checkpoint"}) => r \in outcomes'[i]
  BY DEF Makes, Stop, Interrupted
<1>5. StoredInv'
  <2>1. ASSUME NEW i \in Ids
        PROVE  \/ data'[i] \in outcomes'[i]
               \/ \E q \in Instances : Makes(q, i, data[i], {"checkpoint"})'
    <3>1. CASE data[i] \in outcomes[i]
      BY <1>1, <1>2, <3>1
    <3>2. CASE Makes(p, i, data[i], {"checkpoint"})
      BY <1>1, <1>4, <3>2 DEF Makes
    <3>3. ASSUME NEW q \in Instances \ {p}, Makes(q, i, data[i], {"checkpoint"})
          PROVE  Makes(q, i, data[i], {"checkpoint"})'
      BY <1>1, <3>3 DEF Makes
    <3> QED BY <3>1, <3>2, <3>3 DEF KeptInv, StoredInv
  <2>2. ASSUME NEW k \in DOMAIN log
        PROVE  \/ log'[k].rec \in outcomes'[log'[k].id]
               \/ \E q \in Instances :
                    Makes(q, log[k].id, log[k].rec, {"append", "checkpoint"})'
    <3> DEFINE i == log[k].id  r == log[k].rec
    <3>1. i \in Ids
      BY EntriesOf DEF TypeOK, Entry
    <3>2. CASE r \in outcomes[i]
      BY <1>1, <1>2, <3>1, <3>2
    <3>3. CASE Makes(p, i, r, {"append", "checkpoint"})
      BY <1>1, <1>4, <3>1, <3>3
    <3>4. ASSUME NEW q \in Instances \ {p}, Makes(q, i, r, {"append", "checkpoint"})
          PROVE  Makes(q, i, r, {"append", "checkpoint"})'
      BY <1>1, <3>4 DEF Makes
    <3> QED BY <3>2, <3>3, <3>4 DEF KeptInv, StoredInv
  <2> QED BY <1>1, <2>1, <2>2 DEF StoredInv
<1>6. WriteInv'
  <2>1. ASSUME NEW q \in Instances \ {p} PROVE WriteOK(q)'
    <3>1. WriteOK(q) /\ inst'[q] = inst[q]
      BY <1>1 DEF KeptInv, WriteInv
    <3>2. inst[q].write.kind = "update" => inst[q].write.id \in Ids
      BY DEF TypeOK, CallOK
    <3> QED BY <1>1, <1>2, <3>1, <3>2 DEF WriteOK, At
  <2>2. WriteOK(p)'
    BY <1>1 DEF WriteOK, Holding, At
  <2> QED BY <2>1, <2>2 DEF WriteInv
<1>7. ReplayInv'
  <2> SUFFICES ASSUME NEW q \in Instances, At(q, "replay")'
               PROVE  \E n \in 0 .. Len(log') : Replayed(q, n)'
    BY DEF ReplayInv
  <2>1. q # p /\ inst'[q] = inst[q]
    BY <1>1 DEF At
  <2>2. PICK n \in 0 .. Len(log) : Replayed(q, n)
    BY <2>1 DEF KeptInv, ReplayInv, At
  <2>3. Replayed(q, n)'
    BY <1>1, <2>1, <2>2 DEF Replayed
  <2> QED BY <1>1, <2>3
<1> QED BY <1>3, <1>5, <1>6, <1>7 DEF KeptInv

\* While p replays, everything stored or logged may have been made.
LEMMA ReplayAlone ==
  ASSUME TypeOK, KeptInv, NEW p \in Instances, At(p, "replay")
  PROVE  /\ \A q \in Instances : inst[q].at \notin Holding
         /\ \A q \in Instances \ {p} : ~At(q, "replay")
         /\ \A i \in Ids : data[i] \in outcomes[i]
         /\ \A k \in DOMAIN log : log[k].rec \in outcomes[log[k].id]
<1>1. \A q \in Instances : inst[q].at \notin Holding
  BY ReplayQuiet DEF KeptInv
<1>2. \A q \in Instances \ {p} : ~At(q, "replay")
  BY DEF KeptInv, LockInv, At
<1> QED BY <1>1, <1>2 DEF KeptInv, StoredInv, Makes, Holding

\* One more of the entries of l: numbers and sequences apart, for the provers.
LEMMA OneMore ==
  ASSUME NEW l \in Nat, NEW n \in 0 .. l, NEW a \in Nat, l = n + a, a >= 1
  PROVE  /\ l = n + 1 + (a - 1)
         /\ n + 1 \in 0 .. l /\ n + 1 \in 1 .. l
         /\ \A k \in 1 .. n : k \in 1 .. l
  OBVIOUS

LEMMA ReplayKept ==
  ASSUME TypeOK, KeptInv, NEW p \in Instances, Replay(p)
  PROVE  KeptInv'
<1> DEFINE rq == inst[p].rq
<1>1. /\ \A q \in Instances \ {p} : inst'[q] = inst[q]
      /\ inst'[p].at = inst[p].at /\ inst[p].at = "replay"
      /\ inst'[p].rq = Tail(rq)
  BY DEF TypeOK, Instance, Replay, At
<1>2. rq \in Seq(Entry) /\ rq # <<>> /\ log \in Seq(Entry)
  BY DEF TypeOK, Instance, Replay
<1>3. /\ \A q \in Instances : inst[q].at \notin Holding
      /\ \A q \in Instances \ {p} : ~At(q, "replay")
      /\ \A i \in Ids : data[i] \in outcomes[i]
      /\ \A k \in DOMAIN log : log[k].rec \in outcomes[log[k].id]
  BY <1>1, ReplayAlone DEF At
<1>4. /\ UNCHANGED <<log, holder, outcomes>>
      /\ data' = [data EXCEPT ![Head(rq).id] = Head(rq).rec]
  BY DEF Replay
<1>5. PICK n \in 0 .. Len(log) : Replayed(p, n)
  BY <1>1 DEF KeptInv, ReplayInv, At
<1>6. /\ Len(log) = n + 1 + (Len(rq) - 1) /\ DOMAIN log = 1 .. Len(log)
      /\ n + 1 \in 0 .. Len(log) /\ n + 1 \in DOMAIN log
      /\ \A k \in 1 .. n : k \in DOMAIN log
  <2>1. Len(log) \in Nat /\ DOMAIN log = 1 .. Len(log) /\ Len(rq) \in Nat /\ Len(rq) >= 1
    BY <1>2
  <2>2. Len(log) = n + Len(rq)
    BY <1>5 DEF Replayed
  <2> QED BY <2>1, <2>2, OneMore
<1>7. /\ n + 1 \in DOMAIN log /\ Head(rq) = log[n + 1]
      /\ Len(log) = n + 1 + Len(Tail(rq))
      /\ \A k \in 1 .. Len(Tail(rq)) : Tail(rq)[k] = log[n + 1 + k]
  <2>1. /\ Len(rq) >= 1 /\ Head(rq) = rq[1] /\ Len(Tail(rq)) = Len(rq) - 1
        /\ \A k \in 1 .. Len(rq) - 1 : Tail(rq)[k] = rq[k + 1]
    BY <1>2
  <2>2. Len(log) = n + Len(rq) /\ \A k \in 1 .. Len(rq) : rq[k] = log[n + k]
    BY <1>5 DEF Replayed
  <2>3. n + 1 \in DOMAIN log /\ Head(rq) = log[n + 1]
    BY <1>2, <2>1, <2>2
  <2>4. ASSUME NEW k \in 1 .. Len(rq) - 1 PROVE Tail(rq)[k] = log[n + 1 + k]
    <3>1. k + 1 \in 1 .. Len(rq) /\ n + (k + 1) = n + 1 + k
      BY <1>2
    <3> QED BY <2>1, <2>2, <3>1
  <2>5. Len(log) = n + 1 + Len(Tail(rq)) /\ Len(Tail(rq)) = Len(rq) - 1
    BY <1>6, <2>1
  <2>6. \A k \in 1 .. Len(Tail(rq)) : Tail(rq)[k] = log[n + 1 + k]
    BY <2>4, <2>5
  <2> QED BY <2>3, <2>5, <2>6
<1>8. log[n + 1].id \in Ids
  BY <1>2, <1>7, EntriesOf DEF Entry
<1>9. data' = [data EXCEPT ![log[n + 1].id] = log[n + 1].rec]
  BY <1>4, <1>7
<1>10. LockInv'
  BY <1>1, <1>3, <1>4, LockStep DEF KeptInv, LockInv, At
<1>11. StoredInv'
  <2>1. \A i \in Ids : data'[i] \in outcomes'[i]
    BY <1>3, <1>4, <1>7, <1>8, <1>9 DEF TypeOK
  <2> QED BY <1>3, <1>4, <2>1 DEF StoredInv
<1>12. WriteInv'
  <2>1. \A q \in Instances : inst'[q].at \notin Holding
    BY <1>1, <1>3
  <2> QED BY <2>1 DEF WriteInv, WriteOK, At, Holding
<1>13. Replayed(p, n + 1)'
  <2>1. ASSUME NEW k \in 1 .. n + 1,
               \A m \in k + 1 .. n + 1 : log[m].id # log[k].id
        PROVE  data'[log[k].id] = log[k].rec
    <3>1. CASE k = n + 1
      BY <1>8, <1>9, <3>1 DEF TypeOK
    <3>2. CASE k # n + 1
      <4>1. k \in 1 .. n /\ n + 1 \in k + 1 .. n + 1
            /\ \A m \in k + 1 .. n : m \in k + 1 .. n + 1
        BY <3>2
      <4>2. data[log[k].id] = log[k].rec
        <5>1. \A m \in k + 1 .. n : log[m].id # log[k].id
          BY <2>1, <4>1
        <5> QED BY <1>5, <4>1, <5>1 DEF Replayed
      <4>3. k \in DOMAIN log
        BY <1>6, <4>1
      <4>4. log[k].id \in Ids /\ log[n + 1].id # log[k].id
        BY <1>2, <2>1, <4>1, <4>3, EntriesOf DEF Entry
      <4> QED BY <1>9, <4>2, <4>4 DEF TypeOK
    <3> QED BY <3>1, <3>2
  <2>2. log' = log /\ inst'[p].rq = Tail(rq)
    BY <1>1, <1>4
  <2>3. Len(log) = (n + 1) + Len(Tail(rq))
    BY <1>7
  <2> QED BY <1>7, <2>1, <2>2, <2>3 DEF Replayed
<1>14. ReplayInv'
  <2>1. n + 1 \in 0 .. Len(log')
    BY <1>6, <1>4
  <2> QED BY <1>1, <1>3, <1>13, <2>1 DEF ReplayInv, At
<1> QED BY <1>10, <1>11, <1>12, <1>14 DEF KeptInv

LEMMA RecoverKept ==
  ASSUME TypeOK, KeptInv, NEW p \in Instances, RecoverCheckpoint(p)
  PROVE  KeptInv'
<1>1. /\ \A q \in Instances \ {p} : inst'[q] = inst[q]
      /\ inst'[p].at = "up" /\ inst[p].at = "replay" /\ inst[p].rq = <<>>
  BY MoveFacts DEF RecoverCheckpoint, At
<1>2. /\ \A q \in Instances : inst[q].at \notin Holding
      /\ \A q \in Instances \ {p} : ~At(q, "replay")
      /\ \A i \in Ids : data[i] \in outcomes[i]
  BY <1>1, ReplayAlone DEF At
<1>3. UNCHANGED <<data, holder>> /\ log' = <<>> /\ outcomes' = Recovered
  BY DEF RecoverCheckpoint
<1>4. \A q \in Instances : inst'[q].at \notin Holding /\ ~At(q, "replay")'
  BY <1>1, <1>2 DEF Holding, At
<1>5. LockInv'
  BY <1>1, <1>2, <1>3, <1>4, LockStep DEF KeptInv, LockInv, At
<1>6. \A k \in DOMAIN log : (\A m \in DOMAIN log : log[m].id = log[k].id => m <= k)
                            => data[log[k].id] = log[k].rec
  <2>1. PICK n \in 0 .. Len(log) : Replayed(p, n)
    BY <1>1 DEF KeptInv, ReplayInv, At
  <2>2. n = Len(log) /\ log \in Seq(Entry)
    BY <1>1, <2>1 DEF Replayed, TypeOK
  <2>3. ASSUME NEW k \in DOMAIN log,
               \A m \in DOMAIN log : log[m].id = log[k].id => m <= k
        PROVE  data[log[k].id] = log[k].rec
    <3>1. k \in 1 .. n
      BY <2>2
    <3>2. \A m \in k + 1 .. n : m \in DOMAIN log /\ ~(m <= k)
      BY <2>2, <3>1
    <3> QED BY <2>1, <2>3, <3>1, <3>2 DEF Replayed
  <2> QED BY <2>3
<1>7. ASSUME NEW i \in Ids PROVE data'[i] \in outcomes'[i]
  <2>1. CASE LastEntry(i) = {}
    BY <1>2, <1>3, <2>1 DEF Recovered
  <2>2. CASE LastEntry(i) # {}
    <3>1. PICK k \in LastEntry(i) : TRUE
      BY <2>2
    <3>2. data[i] = log[k].rec
      BY <1>6, <3>1 DEF LastEntry
    <3> QED BY <1>3, <2>2, <3>2 DEF Recovered
  <2> QED BY <2>1, <2>2
<1>8. StoredInv'
  BY <1>3, <1>7 DEF StoredInv
<1>9. WriteInv' /\ ReplayInv'
  BY <1>4 DEF WriteInv, WriteOK, ReplayInv, Holding, At
<1> QED BY <1>5, <1>8, <1>9 DEF KeptInv

LEMMA KeptStep ==
  ASSUME QuietOpens, TypeOK, KeptInv, [Next]_vars
  PROVE  KeptInv'
<1>1. CASE UNCHANGED vars
  <2>1. LockInv'
    BY <1>1 DEF KeptInv, LockInv, At, vars, files
  <2>2. StoredInv' /\ WriteInv'
    BY <1>1 DEF KeptInv, StoredInv, WriteInv, WriteOK, Makes, At, vars, files
  <2>3. ReplayInv'
    BY <1>1 DEF KeptInv, ReplayInv, Replayed, At, vars, files
  <2> QED BY <2>1, <2>2, <2>3 DEF KeptInv
<1>2. CASE Next
  BY <1>2, OpenKept, ReplayKept, RecoverKept, CallKept, RefusedKept, AcquireKept,
     AcquireCompactKept, LogKept, AppendKept, CheckpointKept, StopKept DEF Next
<1> QED BY <1>1, <1>2

\* If a collection is opened only while nobody writes to it, then whatever the
\* instances do, and wherever they die, the data file has what their writes
\* amount to, one after the other, and each of them whole or not at all.
THEOREM NoWriteLost ==
  ASSUME QuietOpens
  PROVE  Spec => []WritesKept
<1>1. Init => TypeOK /\ KeptInv
  BY TypeInit, KeptInit
<1>2. TypeOK /\ KeptInv /\ [Next]_vars => (TypeOK /\ KeptInv)'
  BY TypeStep, KeptStep
<1>3. TypeOK /\ KeptInv => WritesKept
  <2> SUFFICES ASSUME TypeOK, KeptInv, Quiet, NEW i \in Ids
               PROVE  data[i] \in outcomes[i]
    BY DEF WritesKept
  <2>1. \A p \in Instances : inst[p].at \notin Holding
    BY ProcessesAssumption DEF Quiet, KeptInv, LockInv
  <2> QED BY <2>1 DEF KeptInv, StoredInv, Makes, Holding
<1> QED BY <1>1, <1>2, <1>3, PTL DEF Spec
=============================================================================

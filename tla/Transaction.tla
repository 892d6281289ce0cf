------------------------------ MODULE Transaction ------------------------------
(***************************************************************************)
(* Transaction blocks over a Collection (_TransactionBuffer and            *)
(* Collection.transaction, pyro_db/collection.py).  A block buffers        *)
(* operations; its commit runs them one after the other, each under the    *)
(* collection lock of its own, and other threads, a crash or an exception  *)
(* can come between two of them.                                           *)
(***************************************************************************)
EXTENDS Collection

CONSTANTS
  MaxOps,    \* bound on the operations buffered in a block
  InBlock    \* blocks may call commit and rollback themselves

ASSUME TransactionAssumption == MaxOps \in Nat /\ InBlock \in BOOLEAN

\* Each thread's block: at is "out" of any, "open" for more operations, in a
\* "commit" called by the block itself, or in the one of its clean "exit".
\* The last three fields are the history the properties speak of.
VARIABLE txn

tvars == <<vars, txn>>

NewBlock(at) ==
  [at         |-> at,
   ops        |-> <<>>,    \* _ops
   next       |-> 1,       \* position of the loop of commit
   committed  |-> FALSE,   \* _committed
   rolledBack |-> FALSE,   \* _rolled_back
   outcome    |-> "none",  \* "ok" or "raised" once the block is left
   tried      |-> FALSE,   \* a commit has been started
   landed     |-> <<>>]    \* entries logged by the last commit started

TxnInit == Init /\ txn = [t \in Threads |-> NewBlock("out")]

Set(t, blk) == txn' = [txn EXCEPT ![t] = blk]

\* _ensure_open.
IsOpen(blk) == ~blk.committed /\ ~blk.rolledBack

\* rollback: in a block that is finished it raises, which changes nothing.
RolledBack(blk) ==
  IF IsOpen(blk) THEN [blk EXCEPT !.ops = <<>>, !.rolledBack = TRUE] ELSE blk

\* The exception leaves the with-statement after the rollback.
Raised(blk) == [RolledBack(blk) EXCEPT !.at = "out", !.outcome = "raised"]

-----------------------------------------------------------------------------
Enter(t) ==
  /\ mode = "up"
  /\ txn[t].at = "out"
  /\ pc[t] = "idle"
  /\ Set(t, NewBlock("open"))
  /\ UNCHANGED vars

CanBuffer(t, kind) ==
  /\ kind \in Kinds
  /\ txn[t].at = "open"
  /\ IsOpen(txn[t])
  /\ Len(txn[t].ops) < MaxOps

Buffer(t, o) == Set(t, [txn[t] EXCEPT !.ops = Append(@, o)])

\* Mutant: the id is only drawn when the block commits.
PeekId(t) ==
  /\ CanBuffer(t, "create")
  /\ counter < MaxId
  /\ \E r \in NewRecs : Buffer(t, Request("create", counter + 1, r, r, {}))
  /\ UNCHANGED vars

\* The id is drawn when the create is buffered.
BufferCreate(t) ==
  /\ CanBuffer(t, "create")
  /\ counter < MaxId
  /\ counter' = counter + 1
  /\ \E r \in NewRecs : Buffer(t, Request("create", counter + 1, r, r, {}))
  /\ UNCHANGED <<datav, walv, idxv, cache, thrv, runv, errors>>

BufferUpdate(t) ==
  /\ CanBuffer(t, "update")
  /\ \E i \in Ids, p \in Patches : Buffer(t, Request("update", i, p, NoRec, {}))
  /\ UNCHANGED vars

BufferDelete(t) ==
  /\ CanBuffer(t, "delete")
  /\ \E i \in Ids : Buffer(t, Request("delete", i, NoRec, NoRec, {}))
  /\ UNCHANGED vars

\* The loop starts from the first operation, also when an earlier commit of
\* the block has failed and the block has caught what it raised.
StartLoop(t, at) ==
  /\ Len(wal) < MaxPending
  /\ Set(t, [txn[t] EXCEPT !.at = at, !.next = 1, !.tried = TRUE,
                           !.landed = <<>>])
  /\ UNCHANGED vars

Commit(t) ==
  /\ InBlock
  /\ txn[t].at = "open"
  /\ IsOpen(txn[t])
  /\ StartLoop(t, "commit")

Rollback(t) ==
  /\ InBlock
  /\ txn[t].at = "open"
  /\ IsOpen(txn[t])
  /\ Set(t, RolledBack(txn[t]))
  /\ UNCHANGED vars

\* An exception is raised in the block.
Abort(t) ==
  /\ txn[t].at = "open"
  /\ Set(t, Raised(txn[t]))
  /\ UNCHANGED vars

\* The end of the block is reached: commit raises if the block is finished.
Exit(t) ==
  /\ txn[t].at = "open"
  /\ \/ IsOpen(txn[t]) /\ StartLoop(t, "exit")
     \/ ~IsOpen(txn[t]) /\ Set(t, Raised(txn[t])) /\ UNCHANGED vars

-----------------------------------------------------------------------------
InLoop(t) == txn[t].at \in {"commit", "exit"}

Apply(t) ==
  LET blk == txn[t] IN
  /\ InLoop(t)
  /\ pc[t] = "idle"
  /\ blk.next <= Len(blk.ops)
  /\ op' = [op EXCEPT ![t] = blk.ops[blk.next]]
  /\ Goto(t, "acquire")
  /\ UNCHANGED <<datav, walv, idxv, cache, counter, lock, runv, errors, txn>>

Logged(t) ==
  LET e == [id |-> op[t].id, rec |-> op[t].new] IN
  /\ InLoop(t)
  /\ LogWrite(t)
  /\ Set(t, [txn[t] EXCEPT !.landed = Append(@, e)])

\* Steps of the operation that neither log nor end it.
Proceed(t) ==
  /\ InLoop(t)
  /\ \/ AcquireCreate(t) \/ AcquireExisting(t) \/ Unindex(t) \/ Reindex(t)
     \/ AppendRecord(t) \/ CacheWrite(t)
  /\ UNCHANGED txn

Applied(t) ==
  /\ InLoop(t)
  /\ Checkpoint(t)
  /\ Set(t, [txn[t] EXCEPT !.next = @ + 1])

\* The operation raises and ends the loop.  In a commit of its own the block
\* may catch the exception (or let it go: Abort).
Breaks(t) ==
  /\ InLoop(t)
  /\ NotFound(t) \/ Reject(t) \/ Fail(t)
  /\ Set(t, IF txn[t].at = "commit" THEN [txn[t] EXCEPT !.at = "open"]
            ELSE Raised(txn[t]))

\* Mutant: the loop stops before its last operation.
CommittedEarly(t) ==
  LET blk == txn[t] IN
  /\ InLoop(t)
  /\ pc[t] = "idle"
  /\ blk.next >= Len(blk.ops)
  /\ Set(t, IF blk.at = "commit"
            THEN [blk EXCEPT !.at = "open", !.committed = TRUE]
            ELSE [blk EXCEPT !.at = "out", !.committed = TRUE,
                             !.outcome = "ok"])
  /\ UNCHANGED vars

Committed(t) ==
  LET blk == txn[t] IN
  /\ InLoop(t)
  /\ pc[t] = "idle"
  /\ blk.next > Len(blk.ops)
  /\ Set(t, IF blk.at = "commit"
            THEN [blk EXCEPT !.at = "open", !.committed = TRUE]
            ELSE [blk EXCEPT !.at = "out", !.committed = TRUE,
                             !.outcome = "ok"])
  /\ UNCHANGED vars

\* Blocks go with the process.
TxnCrash == Crash /\ txn' = [t \in Threads |-> NewBlock("out")]

TxnNext ==
  \/ \E t \in Threads :
       \/ Enter(t) \/ Abort(t) \/ Exit(t)
       \/ BufferCreate(t) \/ BufferUpdate(t) \/ BufferDelete(t)
       \/ Commit(t) \/ Rollback(t)
       \/ Apply(t) \/ Logged(t) \/ Proceed(t) \/ Applied(t)
       \/ Breaks(t) \/ Committed(t)
  \/ TxnCrash
  \/ (Open \/ Recovers) /\ UNCHANGED txn

TxnSpec == TxnInit /\ [][TxnNext]_tvars

-----------------------------------------------------------------------------
\* Entry e is what operation o logs.
Carries(e, o) ==
  /\ e.id = o.id
  /\ \/ o.kind = "create" /\ e.rec = o.new
     \/ o.kind = "update" /\ e.rec # NoRec /\ Patched(e.rec, o.arg) = e.rec
     \/ o.kind = "delete" /\ e.rec = NoRec

\* A commit logs the operations of its block in their order, each once, with
\* what the block buffered, whatever others do in between; a block left without
\* an exception has logged all of them (collection.py:724 "On a clean exit they
\* are committed in order").
CommitsInOrder ==
  \A t \in Threads :
    LET blk == txn[t] IN
    InLoop(t) \/ blk.outcome = "ok" =>
      /\ Len(blk.landed) <= Len(blk.ops)
      /\ \A n \in DOMAIN blk.landed : Carries(blk.landed[n], blk.ops[n])
      /\ blk.outcome = "ok" => Len(blk.landed) = Len(blk.ops)

\* The id of a create that waits in a block, across everything other threads
\* and other blocks do until the commit, belongs to no live record, no pending
\* entry and no other block or create.
BufferedIdsFresh ==
  \A t \in Threads : ~txn[t].tried =>
    \A k \in {j \in DOMAIN txn[t].ops : txn[t].ops[j].kind = "create"} :
      LET i == txn[t].ops[k].id IN
      /\ data[i] = NoRec
      /\ \A n \in DOMAIN wal : wal[n].id # i
      /\ \A v \in Threads \ {t} :
           /\ op[v].kind = "create" => op[v].id # i
           /\ \A n \in DOMAIN txn[v].ops :
                txn[v].ops[n].kind = "create" => txn[v].ops[n].id # i

\* An exception rolls back the whole block: it has logged nothing (README.md:282
\* "Any exception rolls back the entire batch").
AllOrNothing ==
  \A t \in Threads : txn[t].outcome = "raised" => txn[t].landed = <<>>
=============================================================================

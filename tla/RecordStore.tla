----------------------------- MODULE RecordStore ------------------------------
(***************************************************************************)
(* What a collection promises its callers, with no log, no files, no index *)
(* and no cache: a durable map from ids to records.  An id is issued       *)
(* before it is used, is used for one record at most, and is lost if the   *)
(* create that drew it does not get to write.                              *)
(***************************************************************************)
EXTENDS FieldIndex

CONSTANT MaxId

Ids == 1 .. MaxId

VARIABLES
  store,    \* the record of each id; NoRec when there is none
  last,     \* the last id issued
  fresh     \* ids issued and still to be written

vars == <<store, last, fresh>>

Init ==
  /\ store = [i \in Ids |-> NoRec]
  /\ last = 0
  /\ fresh = {}

\* A create draws its id.
Issue ==
  /\ last < MaxId
  /\ last' = last + 1
  /\ fresh' = fresh \cup {last + 1}
  /\ UNCHANGED store

\* It becomes durable under that id.
Insert(i, r) ==
  /\ i \in fresh
  /\ store[i] = NoRec
  /\ fresh' = fresh \ {i}
  /\ store' = [store EXCEPT ![i] = r]
  /\ UNCHANGED last

\* An update replaces the patched fields and preserves the others.
Update(i, patch) ==
  /\ store[i] # NoRec
  /\ store' = [store EXCEPT ![i] = Patched(store[i], patch)]
  /\ UNCHANGED <<last, fresh>>

Delete(i) ==
  /\ store[i] # NoRec
  /\ store' = [store EXCEPT ![i] = NoRec]
  /\ UNCHANGED <<last, fresh>>

\* Creates that had drawn an id do not happen: the process died.
Forget ==
  /\ \E kept \in SUBSET fresh : fresh' = kept
  /\ UNCHANGED <<store, last>>

Next ==
  \/ Issue
  \/ Forget
  \/ \E i \in Ids : \E r \in Record : Insert(i, r) \/ Update(i, r)
  \/ \E i \in Ids : Delete(i)

Spec == Init /\ [][Next]_vars
=============================================================================

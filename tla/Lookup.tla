-------------------------------- MODULE Lookup --------------------------------
(***************************************************************************)
(* Collection with a history of each lookup by value that is under way:    *)
(* which records were live and carried the value in every state since the  *)
(* call, which in some state, and which had a writer at work on their      *)
(* postings when the index was asked.                                      *)
(***************************************************************************)
EXTENDS Collection

VARIABLES steady, seen, unsettled

history == <<steady, seen, unsettled>>

Matching(t) ==
  {i \in Ids : data[i] # NoRec /\ Matches(data[i], op[t].arg)}

\* Ids some of whose postings are out of the index for the moment.
Unsettled ==
  {i \in Ids : \E t \in Threads :
     pc[t] = "fill" \/ (pc[t] = "reindex" /\ op[t].id = i)}

None == [t \in Threads |-> {}]

LookupInit == Init /\ steady = None /\ seen = None /\ unsettled = None

\* What a history variable of t becomes: nothing outside a lookup, and at the
\* call and after it the given sets.
Follow(t, atCall, later) ==
  IF op'[t].kind # "find" THEN {} ELSE IF pc[t] = "idle" THEN atCall ELSE later

LookupNext ==
  /\ Next
  /\ steady' = [t \in Threads |->
                  Follow(t, Matching(t)', steady[t] \cap Matching(t)')]
  /\ seen' = [t \in Threads |->
                Follow(t, Matching(t)', seen[t] \cup Matching(t)')]
  /\ unsettled' = [t \in Threads |-> Follow(t, Unsettled, unsettled[t])]

LookupSpec == LookupInit /\ [][LookupNext]_<<vars, history>>

-----------------------------------------------------------------------------
\* The record get(field=value) returns was live and had that value at some
\* moment of the call, although the index is ahead of the data file while a
\* writer is at work (collection.py:410 "Fetch a single record by id or by a
\* field value").
FoundWasThere ==
  \A t \in Threads :
    pc[t] = "found" /\ op[t].kind = "find" => op[t].id \in seen[t]

\* A record that was live and matching for the whole of the call is missed
\* (which collection.py:428 "If no matching live record is found" excludes)
\* only if an update of that very record, or a rebuild, had its postings out
\* of the index when the lookup began.
MissIsExcused ==
  \A t \in Threads :
    pc[t] = "missed" /\ op[t].kind = "find" => steady[t] \subseteq unsettled[t]
=============================================================================

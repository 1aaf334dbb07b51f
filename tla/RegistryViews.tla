---------------------------- MODULE RegistryViews ----------------------------
(***************************************************************************)
(* The listing views of FocPlatformRegistry: pages of object ids, newest   *)
(* first, below an exclusive cursor, and offset pages of the enumeration   *)
(* lists.  A page is [ids, reverted]; only the active listings can revert  *)
(* (MAX_LIST_LIMIT is a constant check of the arguments, left out).        *)
(***************************************************************************)
EXTENDS FocPlatformRegistry

CONSTANT MaxLimit   (* bound on the page sizes that are asked for *)

ASSUME MaxLimitAssumption == MaxLimit \in Nat

ActiveTraversalStepLimit(limit) == limit * 4

PageWith(ids) == [ids |-> ids, reverted |-> FALSE]

ListActiveStorageObjectIds(cursor, limit) ==
  IF limit = 0 \/ activeCount = 0 THEN PageWith(<<>>)
  ELSE PageOf(activeList, activeIndexed,
              IF cursor = 0 THEN activeList.heads[GlobalList]
                            ELSE activeList.next[cursor],
              IF activeCount < limit THEN activeCount ELSE limit,
              ActiveTraversalStepLimit(limit))

ListActiveAccountObjectIds(a, cursor, limit) ==
  IF limit = 0 \/ (cursor # 0 /\ objects[cursor].accountId # a)
  THEN PageWith(<<>>)
  ELSE PageOf(accountActiveList, activeIndexed,
              IF cursor = 0 THEN accountActiveList.heads[a]
                            ELSE accountActiveList.next[cursor],
              limit, ActiveTraversalStepLimit(limit))

(* A plausible bug, used to show that the properties notice it: a cursor   *)
(* above the newest id is taken for one that was issued.                   *)
StartObjectIdBelow_unclipped(cursor) ==
  IF cursor = 0 THEN nextObjectId - 1 ELSE cursor - 1

(* Any uint256 is a legal cursor: one above the newest id means the top. *)
StartObjectIdBelow(cursor) ==
  LET newest == nextObjectId - 1
  IN  IF cursor = 0 \/ cursor > newest THEN newest ELSE cursor - 1

ListAllStorageObjectIds(cursor, limit) ==
  LET start == StartObjectIdBelow(cursor)
      count == IF start < limit THEN start ELSE limit
  IN  PageWith([i \in 1..count |-> start - i + 1])

ListAllAccountObjectIds(a, cursor, limit) ==
  IF limit = 0 \/ (cursor # 0 /\ objects[cursor].accountId # a)
  THEN PageWith(<<>>)
  ELSE PageOf(accountObjectList, ObjectId,
              IF cursor = 0 THEN accountObjectList.heads[a]
                            ELSE accountObjectList.next[cursor],
              limit, MaxObjects)

-----------------------------------------------------------------------------
(* Correctness *)

Limits == 0..MaxLimit
AnyCursor == 0..MaxObjects + 1

\* The newest n of a set of ids, newest first.
Newest(S, n) ==
  LET size == IF Cardinality(S) < n THEN Cardinality(S) ELSE n
  IN  [i \in 1..size |->
         CHOOSE o \in S : Cardinality({p \in S : p > o}) = i - 1]

Below(S, cursor) == {o \in S : cursor = 0 \/ o < cursor}

Exact(page, S, cursor, limit) ==
  page.reverted \/ page.ids = Newest(Below(S, cursor), limit)

\* A page is exact whatever happened to the object the cursor names: it holds
\* the newest ids below the cursor, skips none and repeats none, or the call
\* reverts; the history of an account, which has no step limit, never does.
\* The history of the registry, which counts ids down, is exact below any
\* cursor, also one that names no object yet; a list is followed from 0 or
\* from an object that was issued (to the account that is asked about).
PagesExact ==
  /\ \A cursor \in AnyCursor, limit \in Limits :
       Exact(ListAllStorageObjectIds(cursor, limit), IssuedIds, cursor, limit)
  /\ \A cursor \in IssuedIds \cup {0}, limit \in Limits :
       /\ Exact(ListActiveStorageObjectIds(cursor, limit), LiveIds, cursor, limit)
       /\ \A a \in Account : cursor \in IssuedTo(a) \cup {0} =>
            /\ Exact(ListActiveAccountObjectIds(a, cursor, limit),
                     LiveIds \cap IssuedTo(a), cursor, limit)
            /\ Exact(ListAllAccountObjectIds(a, cursor, limit), IssuedTo(a),
                     cursor, limit)
            /\ ~ListAllAccountObjectIds(a, cursor, limit).reverted

\* ActiveCursorTraversalLimitExceeded is only ever the cursor's fault: from
\* the head, and from a cursor that is still live, the nodes are all live, so
\* a reader that starts over from the head is always served.
OnlyStaleCursorsRevert ==
  \A cursor \in LiveIds \cup {0}, limit \in Limits :
    /\ ~ListActiveStorageObjectIds(cursor, limit).reverted
    /\ \A a \in Account : ~ListActiveAccountObjectIds(a, cursor, limit).reverted
=============================================================================

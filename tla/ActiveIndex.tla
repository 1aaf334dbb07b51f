----------------------------- MODULE ActiveIndex -----------------------------
(***************************************************************************)
(* The intrusive linked lists in which FocPlatformRegistry keeps its       *)
(* object ids, newest first:                                               *)
(*                                                                         *)
(*   - the global list of active (non-terminal) objects,                   *)
(*   - one list of active objects per account,                             *)
(*   - one append-only list of all objects per account.                    *)
(*                                                                         *)
(* A list is a record of the contract's mappings: heads[k] is the head of  *)
(* list k (the global list has the single key GlobalList), next and prev   *)
(* are indexed by object id and shared by all lists of the record, since   *)
(* an object is on one of them.  0 is Solidity's default: no node.         *)
(* Unlinking a node keeps its next pointer, so that a page cursor that     *)
(* names a removed object can continue (a tombstone).                      *)
(***************************************************************************)
EXTENDS Integers, Sequences

CONSTANT MaxObjects   (* bound on the number of objects ever requested *)

ASSUME MaxObjectsAssumption == MaxObjects \in Nat

ObjectId == 1..MaxObjects
NodeId   == 0..MaxObjects

GlobalList == "active"

ListType(Key) == [heads : [Key -> NodeId],
                  next  : [ObjectId -> NodeId],
                  prev  : [ObjectId -> NodeId]]

EmptyList(Key) == [heads |-> [k \in Key |-> 0],
                   next  |-> [o \in ObjectId |-> 0],
                   prev  |-> [o \in ObjectId |-> 0]]

-----------------------------------------------------------------------------
(* A plausible bug, used to show that the properties notice it. *)

Unlink_clears_next(l, k, o) ==
  LET p == l.prev[o]
      n == l.next[o]
  IN  [heads |-> IF p = 0 THEN [l.heads EXCEPT ![k] = n] ELSE l.heads,
       next  |-> IF p = 0 THEN [l.next EXCEPT ![o] = 0]
                          ELSE [l.next EXCEPT ![p] = n, ![o] = 0],
       prev  |-> IF n = 0 THEN [l.prev EXCEPT ![o] = 0]
                          ELSE [l.prev EXCEPT ![n] = p, ![o] = 0]]

-----------------------------------------------------------------------------
(* Insertion of a new object at the head of its list. *)
PushFront(l, k, o) ==
  [heads |-> [l.heads EXCEPT ![k] = o],
   next  |-> [l.next EXCEPT ![o] = l.heads[k]],
   prev  |-> IF l.heads[k] = 0 THEN l.prev
                               ELSE [l.prev EXCEPT ![l.heads[k]] = o]]

(* Removal: the neighbours are joined, prev[o] is deleted, next[o] stays. *)
Unlink(l, k, o) ==
  LET p == l.prev[o]
      n == l.next[o]
  IN  [heads |-> IF p = 0 THEN [l.heads EXCEPT ![k] = n] ELSE l.heads,
       next  |-> IF p = 0 THEN l.next ELSE [l.next EXCEPT ![p] = n],
       prev  |-> IF n = 0 THEN [l.prev EXCEPT ![o] = 0]
                          ELSE [l.prev EXCEPT ![n] = p, ![o] = 0]]

(* The traversal both active listings share: follow next from start, keep  *)
(* the indexed nodes, stop when the page is full or the list ends, revert  *)
(* (ActiveCursorTraversalLimitExceeded) if neither happened in maxSteps.   *)
PageOf(l, indexed, start, size, maxSteps) ==
  LET walk[s \in 0..maxSteps] ==
        IF s = 0 THEN [at |-> start, ids |-> <<>>]
        ELSE LET w == walk[s - 1]
             IN  IF w.at = 0 \/ Len(w.ids) = size THEN w
                 ELSE [at  |-> l.next[w.at],
                       ids |-> IF w.at \in indexed THEN Append(w.ids, w.at)
                                                   ELSE w.ids]
      end == walk[maxSteps]
  IN  [ids |-> end.ids, reverted |-> ~(end.at = 0 \/ Len(end.ids) = size)]

-----------------------------------------------------------------------------
(***************************************************************************)
(* What the lists must satisfy.  members is the set of ids that should be  *)
(* on list k, ever the set of ids that were ever pushed on it.             *)
(***************************************************************************)

\* The head is the newest member, or 0 if there is none.
HeadIsNewest(l, k, members) ==
  /\ l.heads[k] \in members \cup {0}
  /\ \A m \in members : m <= l.heads[k]

\* Every node that was ever on the list, removed ones too, points downwards
\* and jumps over no member: a cursor that names it misses nothing.
NoMemberSkipped(l, members, ever) ==
  \A o \in ever : /\ l.next[o] \in ever \cup {0}
                  /\ l.next[o] < o
                  /\ \A m \in members : m < o => m <= l.next[o]

\* Members are linked only to members, and prev is the inverse of next.
DoublyLinked(l, k, members, ever) ==
  /\ \A o \in members :
       /\ l.next[o] \in members \cup {0}
       /\ l.next[o] # 0 => l.prev[l.next[o]] = o
       /\ l.prev[o] \in members \cup {0}
       /\ l.prev[o] # 0 => l.next[l.prev[o]] = o
       /\ l.prev[o] = 0 <=> l.heads[k] = o
  /\ \A o \in ever \ members : l.prev[o] = 0

WellLinked(l, k, members, ever) ==
  /\ HeadIsNewest(l, k, members)
  /\ NoMemberSkipped(l, members, ever)
  /\ DoublyLinked(l, k, members, ever)
=============================================================================

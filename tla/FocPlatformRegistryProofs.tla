---------------------- MODULE FocPlatformRegistryProofs ----------------------
(***************************************************************************)
(* Theorems about FocPlatformRegistry, for every set of accounts, keys,    *)
(* addresses and inputs and every bound on objects, time and cost: its     *)
(* types, indexes, counters, keys and lists, the cap, and the refinement   *)
(* of UploadLedger.  They rest on facts about its data structures: linked  *)
(* lists, the walk of a page and sums over uploads.  Counting and walking  *)
(* need induction; the theorems of the library that have a formula for a   *)
(* parameter cannot be used by the provers, so induction over the numbers  *)
(* is stated for sets, and a sum is the cardinality of a set of units.     *)
(***************************************************************************)
EXTENDS FocPlatformRegistry, FiniteSetTheorems, WellFoundedInduction, TLAPS

-----------------------------------------------------------------------------
(* Lists: PushFront and Unlink keep a list well linked, tombstones         *)
(* included, and do not disturb the other lists of the record.             *)

\* Both operations keep the type of the record.
LEMMA PushFrontType ==
  ASSUME NEW Key, NEW k \in Key, NEW l \in ListType(Key), NEW o \in ObjectId
  PROVE  PushFront(l, k, o) \in ListType(Key)
BY MaxObjectsAssumption DEF PushFront, ListType, ObjectId, NodeId

LEMMA UnlinkType ==
  ASSUME NEW Key, NEW k, NEW l \in ListType(Key), NEW o \in ObjectId
  PROVE  Unlink(l, k, o) \in ListType(Key)
<1> DEFINE p == l.prev[o]
           n == l.next[o]
<1>1. /\ l.heads \in [Key -> NodeId] /\ l.next \in [ObjectId -> NodeId]
      /\ l.prev \in [ObjectId -> NodeId]
      /\ p \in NodeId /\ n \in NodeId
  BY DEF ListType
<1>2. Unlink(l, k, o) =
        [heads |-> IF p = 0 THEN [l.heads EXCEPT ![k] = n] ELSE l.heads,
         next  |-> IF p = 0 THEN l.next ELSE [l.next EXCEPT ![p] = n],
         prev  |-> IF n = 0 THEN [l.prev EXCEPT ![o] = 0]
                            ELSE [l.prev EXCEPT ![n] = p, ![o] = 0]]
  BY DEF Unlink
<1> HIDE DEF p, n
<1>3. (IF p = 0 THEN [l.heads EXCEPT ![k] = n] ELSE l.heads) \in [Key -> NodeId]
  BY <1>1
<1>4. (IF p = 0 THEN l.next ELSE [l.next EXCEPT ![p] = n]) \in [ObjectId -> NodeId]
  BY <1>1
<1>5. (IF n = 0 THEN [l.prev EXCEPT ![o] = 0]
                ELSE [l.prev EXCEPT ![n] = p, ![o] = 0]) \in [ObjectId -> NodeId]
  <2>1. 0 \in NodeId
    BY MaxObjectsAssumption DEF NodeId
  <2>2. n # 0 => [l.prev EXCEPT ![n] = p] \in [ObjectId -> NodeId]
    BY <1>1
  <2> QED
    BY <1>1, <2>1, <2>2
<1> QED
  BY <1>2, <1>3, <1>4, <1>5 DEF ListType

\* A new object, newer than all that were ever on list k, goes to its head.
LEMMA PushFrontWellLinked ==
  ASSUME NEW Key, NEW k \in Key, NEW l \in ListType(Key),
         NEW ever \in SUBSET ObjectId, NEW members \in SUBSET ever,
         NEW o \in ObjectId, \A e \in ever : e < o, l.prev[o] = 0,
         WellLinked(l, k, members, ever)
  PROVE  /\ PushFront(l, k, o) \in ListType(Key)
         /\ WellLinked(PushFront(l, k, o), k, members \cup {o}, ever \cup {o})
<1> DEFINE m == PushFront(l, k, o)
           h == l.heads[k]
<1>0. /\ HeadIsNewest(l, k, members) /\ NoMemberSkipped(l, members, ever)
      /\ DoublyLinked(l, k, members, ever)
  BY DEF WellLinked
<1> USE MaxObjectsAssumption DEF ObjectId, NodeId
<1>1. /\ m.heads[k] = o
      /\ m.next = [l.next EXCEPT ![o] = h]
      /\ m.prev = IF h = 0 THEN l.prev ELSE [l.prev EXCEPT ![h] = o]
      /\ m \in ListType(Key)
  BY DEF PushFront, ListType
<1>2. /\ l.next \in [ObjectId -> NodeId] /\ l.prev \in [ObjectId -> NodeId]
      /\ h \in members \cup {0} /\ \A e \in members : e <= h
      /\ h # o
  BY DEF WellLinked, HeadIsNewest, ListType
<1>6. o \notin members /\ 0 \notin members /\ members \subseteq ObjectId
  <2>1. o \notin ever /\ 0 \notin ever
    OBVIOUS
  <2> QED
    BY <2>1
<1> HIDE DEF m, h
<1>3. HeadIsNewest(m, k, members \cup {o})
  <2>1. \A e \in members \cup {o} : e <= o
    OBVIOUS
  <2> QED
    BY <1>1, <2>1 DEF HeadIsNewest
<1>4. NoMemberSkipped(m, members \cup {o}, ever \cup {o})
  <2>1. ASSUME NEW e \in ever \cup {o}
        PROVE  /\ m.next[e] \in ever \cup {o, 0} /\ m.next[e] < e
               /\ \A x \in members \cup {o} : x < e => x <= m.next[e]
    <3>1. CASE e = o
      BY <1>1, <1>2, <3>1
    <3>2. CASE e # o
      <4>1. m.next[e] = l.next[e]
        BY <1>1, <1>2, <3>2
      <4>2. /\ l.next[e] \in ever \cup {0} /\ l.next[e] < e
            /\ \A x \in members : x < e => x <= l.next[e]
        BY <3>2 DEF WellLinked, NoMemberSkipped
      <4>3. ~(o < e)
        <5>1. e \in ever /\ e < o
          BY <2>1, <3>2
        <5>2. e \in Nat /\ o \in Nat
          BY <5>1
        <5> QED
          BY <5>1, <5>2
      <4> QED
        BY <4>1, <4>2, <4>3
    <3> QED
      BY <3>1, <3>2
  <2> QED
    BY <2>1 DEF NoMemberSkipped
<1>5. DoublyLinked(m, k, members \cup {o}, ever \cup {o})
  <2>1. ASSUME NEW e \in members \cup {o}
        PROVE  /\ m.next[e] \in members \cup {o, 0}
               /\ m.next[e] # 0 => m.prev[m.next[e]] = e
               /\ m.prev[e] \in members \cup {o, 0}
               /\ m.prev[e] # 0 => m.next[m.prev[e]] = e
               /\ m.prev[e] = 0 <=> m.heads[k] = e
    <3>1. CASE e = o
      BY <1>1, <1>2, <3>1
    <3>2. CASE e # o
      <4>0. e \in members /\ e \in ObjectId
        BY <3>2
      <4>1. m.next[e] = l.next[e] /\ l.next[e] \in members \cup {0}
        BY <1>0, <1>1, <1>2, <3>2, <4>0 DEF DoublyLinked
      <4>2. l.next[e] # 0 => l.prev[l.next[e]] = e /\ l.next[e] # h
        BY <1>0, <1>2, <4>0 DEF DoublyLinked, h
      <4>3. m.next[e] # 0 => m.prev[m.next[e]] = e
        BY <1>1, <1>2, <4>1, <4>2
      <4>4. CASE e = h
        BY <1>1, <1>2, <3>2, <4>0, <4>1, <4>3, <4>4
      <4>5. CASE e # h
        <5>1. /\ m.prev[e] = l.prev[e] /\ l.prev[e] \in members
              /\ l.next[l.prev[e]] = e
          <6>1. /\ l.prev[e] \in members \cup {0} /\ l.prev[e] # 0
                /\ l.prev[e] # 0 => l.next[l.prev[e]] = e
            BY <1>0, <4>0, <4>5 DEF DoublyLinked, h
          <6>2. m.prev[e] = l.prev[e]
            BY <1>1, <1>2, <4>0, <4>5
          <6> QED
            BY <6>1, <6>2
        <5>2. l.prev[e] \in ObjectId /\ l.prev[e] # o /\ l.prev[e] # 0
          BY <1>6, <5>1, Zenon
        <5>3. m.next[l.prev[e]] = l.next[l.prev[e]]
          BY <1>1, <1>2, <5>2
        <5>4. m.heads[k] # e
          BY <1>1, <3>2
        <5> QED
          BY <4>1, <4>3, <5>1, <5>2, <5>3, <5>4
      <4> QED
        BY <4>4, <4>5
    <3> QED
      BY <3>1, <3>2
  <2>2. ASSUME NEW e \in ever \ members
        PROVE  m.prev[e] = 0
    <3>1. l.prev[e] = 0
      BY <1>0 DEF DoublyLinked
    <3>2. h \in members \cup {0}
      BY <1>2
    <3>3. e \notin members /\ e # 0
      OBVIOUS
    <3>4. e # h
      BY <3>2, <3>3
    <3> QED
      BY <1>1, <1>2, <3>1, <3>4
  <2> QED
    BY <2>1, <2>2 DEF DoublyLinked
<1> QED
  BY <1>1, <1>3, <1>4, <1>5 DEF WellLinked, m

\* Removing a member keeps it as a tombstone: it stays in ever.
LEMMA UnlinkWellLinked ==
  ASSUME NEW Key, NEW k \in Key, NEW l \in ListType(Key),
         NEW ever \in SUBSET ObjectId, NEW members \in SUBSET ever,
         NEW o \in members,
         WellLinked(l, k, members, ever)
  PROVE  /\ Unlink(l, k, o) \in ListType(Key)
         /\ WellLinked(Unlink(l, k, o), k, members \ {o}, ever)
<1> DEFINE m == Unlink(l, k, o)
           p == l.prev[o]
           n == l.next[o]
           h == l.heads[k]
<1>0. /\ HeadIsNewest(l, k, members) /\ NoMemberSkipped(l, members, ever)
      /\ DoublyLinked(l, k, members, ever)
  BY DEF WellLinked
<1> USE MaxObjectsAssumption DEF ObjectId, NodeId
<1>1. /\ m.heads[k] = (IF p = 0 THEN n ELSE h)
      /\ m.next = (IF p = 0 THEN l.next ELSE [l.next EXCEPT ![p] = n])
      /\ m.prev = (IF n = 0 THEN [l.prev EXCEPT ![o] = 0]
                            ELSE [l.prev EXCEPT ![n] = p, ![o] = 0])
      /\ m \in ListType(Key)
  <2>1. k \in DOMAIN l.heads
    BY DEF ListType
  <2>2. o \in ObjectId
    OBVIOUS
  <2> QED
    BY <2>1, <2>2, UnlinkType DEF Unlink
<1>2. l.next \in [ObjectId -> NodeId] /\ l.prev \in [ObjectId -> NodeId]
  BY DEF ListType
<1>3. /\ n \in members \cup {0} /\ n < o
      /\ p \in members \cup {0} /\ (p # 0 => l.next[p] = o /\ o < p)
      /\ (p = 0 <=> h = o)
      /\ n # 0 => l.prev[n] = o
  <2>1. /\ n \in members \cup {0} /\ (n # 0 => l.prev[n] = o)
        /\ p \in members \cup {0} /\ (p # 0 => l.next[p] = o)
        /\ (p = 0 <=> h = o)
    BY <1>0 DEF DoublyLinked
  <2>2. n < o /\ \A e \in members : l.next[e] < e
    BY <1>0 DEF NoMemberSkipped
  <2> HIDE DEF p
  <2> QED
    BY <2>1, <2>2
<1>4. h \in members \cup {0} /\ \A e \in members : e <= h
  BY <1>0 DEF HeadIsNewest
<1>5. \A e \in members : e < o => e <= n
  BY <1>0 DEF NoMemberSkipped
<1>6. \A e \in ever : /\ l.next[e] \in ever \cup {0} /\ l.next[e] < e
                      /\ \A x \in members : x < e => x <= l.next[e]
  BY <1>0 DEF NoMemberSkipped
<1>7. \A e \in members :
        /\ l.next[e] \in members \cup {0}
        /\ l.next[e] # 0 => l.prev[l.next[e]] = e
        /\ l.prev[e] \in members \cup {0}
        /\ l.prev[e] # 0 => l.next[l.prev[e]] = e
        /\ l.prev[e] = 0 <=> h = e
  BY <1>0 DEF DoublyLinked
<1>8. \A e \in ever \ members : l.prev[e] = 0
  BY <1>0 DEF DoublyLinked
<1> HIDE DEF m, p, n, h
<1>9. HeadIsNewest(m, k, members \ {o})
  <2>1. m.heads[k] \in (members \ {o}) \cup {0}
    BY <1>1, <1>3, <1>4
  <2>2. ASSUME NEW e \in members \ {o}  PROVE e <= m.heads[k]
    BY <1>1, <1>3, <1>4, <1>5
  <2> QED
    BY <2>1, <2>2 DEF HeadIsNewest
<1>10. NoMemberSkipped(m, members \ {o}, ever)
  <2>1. ASSUME NEW e \in ever
        PROVE  /\ m.next[e] \in ever \cup {0} /\ m.next[e] < e
               /\ \A x \in members \ {o} : x < e => x <= m.next[e]
    <3>1. CASE p # 0 /\ e = p
      <4>1. m.next[e] = n
        BY <1>1, <1>2, <3>1
      <4> QED
        BY <1>3, <1>5, <1>6, <3>1, <4>1
    <3>2. CASE ~(p # 0 /\ e = p)
      <4>1. m.next[e] = l.next[e]
        BY <1>1, <1>2, <3>2
      <4> QED
        BY <1>6, <4>1
    <3> QED
      BY <3>1, <3>2
  <2> QED
    BY <2>1 DEF NoMemberSkipped
<1>11. DoublyLinked(m, k, members \ {o}, ever)
  <2>1. ASSUME NEW e \in members \ {o}
        PROVE  /\ m.next[e] \in (members \ {o}) \cup {0}
               /\ m.next[e] # 0 => m.prev[m.next[e]] = e
               /\ m.prev[e] \in (members \ {o}) \cup {0}
               /\ m.prev[e] # 0 => m.next[m.prev[e]] = e
               /\ m.prev[e] = 0 <=> m.heads[k] = e
    <3>0. e \in ObjectId /\ o \in ObjectId /\ e # o
      OBVIOUS
    <3>1. CASE e = p
      <4>1. p # 0 /\ p # n /\ n # o
        BY <1>3, <3>0, <3>1
      <4>2. m.next[e] = n /\ (n # 0 => m.prev[n] = p)
        BY <1>1, <1>2, <1>3, <3>0, <3>1, <4>1
      <4>3. m.prev[e] = l.prev[e]
        BY <1>1, <1>2, <3>0, <3>1, <4>1
      <4>4. l.prev[e] # o
        BY <1>7, <3>0, <3>1, <4>1 DEF n
      <4>5. l.prev[e] # 0 => l.prev[e] # p /\ l.next[l.prev[e]] = e
        BY <1>3, <1>7, <3>0, <3>1
      <4>6. l.prev[e] # 0 => m.next[l.prev[e]] = l.next[l.prev[e]]
        BY <1>1, <1>2, <1>7, <4>1, <4>5
      <4>7. m.heads[k] = h
        BY <1>1, <4>1
      <4> QED
        BY <1>3, <1>7, <3>0, <3>1, <4>1, <4>2, <4>3, <4>4, <4>5, <4>6, <4>7
    <3>2. CASE e = n
      <4>1. n # 0 /\ p # n
        BY <1>3, <3>0, <3>2
      <4>2. m.prev[e] = p
        BY <1>1, <1>2, <3>0, <3>2, <4>1
      <4>3. m.next[e] = l.next[e] /\ l.next[e] < e
        BY <1>1, <1>2, <1>6, <3>0, <3>2, <4>1
      <4>4. l.next[e] # n /\ l.next[e] # o
        BY <1>2, <1>3, <3>0, <3>2, <4>3
      <4>5. l.next[e] # 0 => m.prev[l.next[e]] = l.prev[l.next[e]]
        BY <1>1, <1>2, <1>7, <4>4
      <4>6. p # 0 => m.next[p] = n
        BY <1>1, <1>2, <1>3
      <4>7. p = 0 <=> m.heads[k] = e
        BY <1>1, <1>3, <1>7, <3>0, <3>2, <4>1
      <4> QED
        BY <1>3, <1>7, <3>0, <3>2, <4>2, <4>3, <4>4, <4>5, <4>6, <4>7
    <3>3. CASE e # p /\ e # n
      <4>1. m.next[e] = l.next[e] /\ m.prev[e] = l.prev[e]
        BY <1>1, <1>2, <3>0, <3>3
      <4>2. l.next[e] # o
        BY <1>7, <3>0, <3>3 DEF p
      <4>3. l.next[e] # 0 => l.next[e] # n /\ l.prev[l.next[e]] = e
        BY <1>3, <1>7, <3>0
      <4>4. l.next[e] # 0 => m.prev[l.next[e]] = e
        BY <1>1, <1>2, <1>7, <4>2, <4>3
      <4>5. l.prev[e] # o
        BY <1>7, <3>0, <3>3 DEF n
      <4>6. l.prev[e] # 0 => l.prev[e] # p /\ l.next[l.prev[e]] = e
        BY <1>3, <1>7, <3>0
      <4>7. l.prev[e] # 0 => m.next[l.prev[e]] = e
        BY <1>1, <1>2, <1>7, <4>6
      <4>8. l.prev[e] = 0 <=> m.heads[k] = e
        BY <1>1, <1>3, <1>7, <3>0, <3>3
      <4> QED
        BY <1>7, <4>1, <4>2, <4>4, <4>5, <4>7, <4>8
    <3> QED
      BY <3>1, <3>2, <3>3
  <2>2. ASSUME NEW e \in ever \ (members \ {o})  PROVE m.prev[e] = 0
    BY <1>1, <1>2, <1>3, <1>8
  <2> QED
    BY <2>1, <2>2 DEF DoublyLinked
<1> QED
  BY <1>1, <1>9, <1>10, <1>11 DEF WellLinked, m

\* Lists of different keys have no node in common, so a change to one leaves
\* the others as they were.
LEMMA OtherListUntouched ==
  ASSUME NEW Key, NEW k \in Key, NEW j \in Key \ {k},
         NEW l \in ListType(Key), NEW m \in ListType(Key),
         NEW members, NEW ever \in SUBSET ObjectId, members \subseteq ever,
         m.heads[j] = l.heads[j],
         \A e \in ever : m.next[e] = l.next[e] /\ m.prev[e] = l.prev[e],
         WellLinked(l, j, members, ever)
  PROVE  WellLinked(m, j, members, ever)
<1>1. HeadIsNewest(m, j, members)
  BY DEF WellLinked, HeadIsNewest
<1>2. NoMemberSkipped(m, members, ever)
  <2>1. NoMemberSkipped(l, members, ever)
    BY DEF WellLinked
  <2> QED
    BY <2>1 DEF NoMemberSkipped
<1>3. DoublyLinked(m, j, members, ever)
  <2>0. DoublyLinked(l, j, members, ever)
    BY DEF WellLinked
  <2>1. ASSUME NEW o \in members
        PROVE  /\ m.next[o] \in members \cup {0}
               /\ m.next[o] # 0 => m.prev[m.next[o]] = o
               /\ m.prev[o] \in members \cup {0}
               /\ m.prev[o] # 0 => m.next[m.prev[o]] = o
               /\ m.prev[o] = 0 <=> m.heads[j] = o
    <3>1. m.next[o] = l.next[o] /\ m.prev[o] = l.prev[o]
      OBVIOUS
    <3>2. /\ l.next[o] \in members \cup {0}
          /\ l.next[o] # 0 => l.prev[l.next[o]] = o
          /\ l.prev[o] \in members \cup {0}
          /\ l.prev[o] # 0 => l.next[l.prev[o]] = o
          /\ l.prev[o] = 0 <=> l.heads[j] = o
      BY <2>0 DEF DoublyLinked
    <3> QED
      BY <3>1, <3>2
  <2>2. \A o \in ever \ members : m.prev[o] = 0
    BY <2>0 DEF DoublyLinked
  <2> QED
    BY <2>1, <2>2 DEF DoublyLinked
<1> QED
  BY <1>1, <1>2, <1>3 DEF WellLinked

-----------------------------------------------------------------------------
(* Sums *)

\* The units of one item.
LEMMA ItemUnits ==
  ASSUME NEW x, NEW n \in Nat
  PROVE  IsFiniteSet({x} \X (1..n)) /\ Cardinality({x} \X (1..n)) = n
<1>1. IsFiniteSet({x}) /\ Cardinality({x}) = 1
  BY FS_Singleton
<1>2. IsFiniteSet(1..n) /\ Cardinality(1..n) = n
  BY FS_Interval
<1>3. /\ IsFiniteSet({x} \X (1..n))
      /\ Cardinality({x} \X (1..n)) = Cardinality({x}) * Cardinality(1..n)
  BY <1>1, <1>2, FS_Product, Zenon
<1> QED
  BY <1>1, <1>2, <1>3

\* Finitely many items of finite weight have finitely many units.
LEMMA UnitsFinite ==
  ASSUME NEW S, IsFiniteSet(S), NEW w \in [S -> Nat]
  PROVE  IsFiniteSet(Units(w))
<1> DEFINE T == { {x} \X (1..w[x]) : x \in S }
           f == [x \in S |-> {x} \X (1..w[x])]
<1>1. f \in Surjection(S, T)
  BY DEF Surjection
<1>2. IsFiniteSet(T)
  BY <1>1, FS_Surjection
<1>3. \A t \in T : IsFiniteSet(t)
  <2>1. ASSUME NEW t \in T  PROVE IsFiniteSet(t)
    <3>1. PICK x \in S : t = {x} \X (1..w[x])
      OBVIOUS
    <3> QED
      BY <3>1, ItemUnits
  <2> QED
    BY <2>1
<1>4. Units(w) = UNION T
  BY DEF Units
<1> QED
  BY <1>2, <1>3, <1>4, FS_UNION

LEMMA TotalType ==
  ASSUME NEW S, IsFiniteSet(S), NEW w \in [S -> Nat]
  PROVE  Total(w) \in Nat
BY UnitsFinite, FS_CardinalityType DEF Total

\* The total is the weight of one item and the total of the others.
LEMMA TotalSplit ==
  ASSUME NEW S, IsFiniteSet(S), NEW w \in [S -> Nat], NEW x \in S
  PROVE  Total(w) = Total([y \in S \ {x} |-> w[y]]) + w[x]
<1> DEFINE rest == [y \in S \ {x} |-> w[y]]
           mine == {x} \X (1..w[x])
<1>1. IsFiniteSet(S \ {x}) /\ rest \in [S \ {x} -> Nat]
  BY FS_RemoveElement
<1>2. IsFiniteSet(Units(rest))
  BY <1>1, UnitsFinite
<1>3. IsFiniteSet(mine) /\ Cardinality(mine) = w[x]
  BY ItemUnits
<1>4. Units(w) = Units(rest) \cup mine
  BY DEF Units
<1>5. Units(rest) \cap mine = {}
  BY DEF Units
<1>6. Cardinality(Units(rest) \cup mine)
        = Cardinality(Units(rest)) + Cardinality(mine)
            - Cardinality(Units(rest) \cap mine)
  BY <1>2, <1>3, FS_Union
<1>7. Cardinality({}) = 0
  BY FS_EmptySet
<1>8. Cardinality(Units(rest)) \in Nat
  BY <1>2, FS_CardinalityType
<1>9. Cardinality(Units(w)) = Cardinality(Units(rest)) + w[x]
  <2> HIDE DEF rest, mine
  <2> QED
    BY <1>3, <1>4, <1>5, <1>6, <1>7, <1>8
<1> QED
  BY <1>9 DEF Total

\* Changing the weight of one item changes the total by the difference.
LEMMA TotalUpdate ==
  ASSUME NEW S, IsFiniteSet(S), NEW w \in [S -> Nat], NEW v \in [S -> Nat],
         NEW x \in S, \A y \in S \ {x} : v[y] = w[y]
  PROVE  Total(v) = Total(w) - w[x] + v[x]
<1>1. [y \in S \ {x} |-> v[y]] = [y \in S \ {x} |-> w[y]]
  OBVIOUS
<1>2. Total(w) = Total([y \in S \ {x} |-> w[y]]) + w[x]
  BY TotalSplit
<1>3. Total(v) = Total([y \in S \ {x} |-> w[y]]) + v[x]
  BY <1>1, TotalSplit
<1>4. Total([y \in S \ {x} |-> w[y]]) \in Nat
  <2>1. IsFiniteSet(S \ {x})
    BY FS_RemoveElement
  <2> QED
    BY <2>1, TotalType
<1> QED
  BY <1>2, <1>3, <1>4

\* No item weighs more than the total.
LEMMA TotalBound ==
  ASSUME NEW S, IsFiniteSet(S), NEW w \in [S -> Nat], NEW x \in S
  PROVE  w[x] <= Total(w)
<1>1. Total(w) = Total([y \in S \ {x} |-> w[y]]) + w[x]
  BY TotalSplit
<1>2. Total([y \in S \ {x} |-> w[y]]) \in Nat
  <2>1. IsFiniteSet(S \ {x})
    BY FS_RemoveElement
  <2> QED
    BY <2>1, TotalType
<1> QED
  BY <1>1, <1>2

\* A weight that is zero outside T adds nothing there.
LEMMA TotalWithin ==
  ASSUME NEW S, NEW T \in SUBSET S, NEW w \in [S -> Nat], NEW v,
         v = [x \in T |-> w[x]], \A x \in S \ T : w[x] = 0
  PROVE  Total(v) = Total(w)
<1>1. Units(v) = Units(w)
  <2>1. ASSUME NEW x \in S \ T PROVE 1..w[x] = {}
    BY <2>1
  <2>2. Units(w) = UNION { {x} \X (1..w[x]) : x \in S }
    BY DEF Units
  <2>3. Units(v) = UNION { {x} \X (1..w[x]) : x \in T }
    BY DEF Units
  <2>4. ASSUME NEW u \in Units(w) PROVE u \in Units(v)
    <3>1. PICK x \in S : u \in {x} \X (1..w[x])
      BY <2>2, <2>4
    <3>2. x \in T
      BY <2>1, <3>1
    <3> QED
      BY <2>3, <3>1, <3>2
  <2>5. ASSUME NEW u \in Units(v) PROVE u \in Units(w)
    <3>1. PICK x \in T : u \in {x} \X (1..w[x])
      BY <2>3, <2>5
    <3> QED
      BY <2>2, <3>1
  <2> QED
    BY <2>4, <2>5
<1> QED
  BY <1>1 DEF Total

LEMMA TotalZero ==
  ASSUME NEW S, NEW w \in [S -> Nat], \A x \in S : w[x] = 0
  PROVE  Total(w) = 0
<1>1. Units(w) = {}
  BY DEF Units
<1> QED
  BY <1>1, FS_EmptySet DEF Total

-----------------------------------------------------------------------------
(* Induction over the numbers, from the library's well-founded order on     *)
(* them: stated for a set, which the provers can instantiate.               *)

\* Every nonempty set of numbers has a least element.
LEMMA LeastNumber ==
  ASSUME NEW T, T \subseteq Nat, T # {}
  PROVE  \E x \in T : \A y \in T : x <= y
<1> DEFINE R == OpToRel(<, Nat)
<1>1. IsWellFoundedOn(R, Nat)
  BY NatLessThanWellFounded
<1>2. \A x, y \in Nat : y < x => <<y, x>> \in R
  BY DEF OpToRel
<1> HIDE DEF R
<1>3. PICK x \in T : \A y \in T : ~ (<<y, x>> \in R)
  BY <1>1, WFMin
<1>4. ASSUME NEW y \in T PROVE x <= y
  <2>1. ~(y < x)
    BY <1>2, <1>3
  <2> QED
    BY <2>1
<1> QED
  BY <1>4

\* Induction over the numbers, for a set of numbers.
LEMMA NumbersInduction ==
  ASSUME NEW T, 0 \in T, \A n \in Nat : n \in T => n + 1 \in T
  PROVE  \A n \in Nat : n \in T
<1> SUFFICES ASSUME Nat \ T # {} PROVE FALSE
  OBVIOUS
<1>1. PICK x \in Nat \ T : \A y \in Nat \ T : x <= y
  BY LeastNumber
<1>2. x # 0 /\ x - 1 \in Nat /\ x - 1 \in T
  BY <1>1
<1> QED
  BY <1>1, <1>2

\* g holds the first n steps of G, from x, in a set S.
Iterates(g, S, x, G, n) ==
  /\ g \in [0..n -> S]
  /\ g[0] = x
  /\ \A s \in 1..n : g[s] = G[g[s - 1]]

LEMMA Iteration ==
  ASSUME NEW S, NEW x \in S, NEW G \in [S -> S], NEW n \in Nat
  PROVE  \E g : Iterates(g, S, x, G, n)
<1> DEFINE T == {m \in Nat : \E g : Iterates(g, S, x, G, m)}
<1>1. 0 \in T
  <2> DEFINE g == [s \in 0..0 |-> x]
  <2>1. Iterates(g, S, x, G, 0)
    BY DEF Iterates
  <2> QED
    BY <2>1
<1>2. ASSUME NEW m \in T PROVE m + 1 \in T
  <2>1. PICK g : Iterates(g, S, x, G, m)
    OBVIOUS
  <2> DEFINE h == [s \in 0..(m + 1) |-> IF s = m + 1 THEN G[g[m]] ELSE g[s]]
  <2>2. h \in [0..(m + 1) -> S]
    BY <2>1 DEF Iterates
  <2>3. ASSUME NEW s \in 1..(m + 1)
        PROVE  h[s] = G[h[s - 1]]
    <3>1. CASE s = m + 1
      BY <3>1
    <3>2. CASE s \in 1..m
      <4>1. g[s] = G[g[s - 1]]
        BY <2>1, <3>2 DEF Iterates
      <4> QED
        BY <3>2, <4>1
    <3> QED
      BY <3>1, <3>2
  <2>4. Iterates(h, S, x, G, m + 1)
    BY <2>1, <2>2, <2>3 DEF Iterates
  <2> HIDE DEF h
  <2> QED
    BY <2>4
<1> HIDE DEF T
<1>3. \A m \in Nat : m \in T
  BY <1>1, <1>2, NumbersInduction
<1> QED
  BY <1>3 DEF T

-----------------------------------------------------------------------------
(* Pages of a list.  PageOf's walk as a relation between successive states:  *)
(* a state of the walk, and the step PageOf repeats.                         *)
Walker == [at : NodeId, ids : Seq(ObjectId)]

WalkStep(l, indexed, size, w) ==
  IF w.at = 0 \/ Len(w.ids) = size THEN w
  ELSE [at  |-> l.next[w.at],
        ids |-> IF w.at \in indexed THEN Append(w.ids, w.at) ELSE w.ids]

IsWalk(walk, l, indexed, start, size, maxSteps) ==
  /\ walk \in [0..maxSteps -> Walker]
  /\ walk[0] = [at |-> start, ids |-> <<>>]
  /\ \A s \in 0..maxSteps : s # 0 =>
       walk[s] = WalkStep(l, indexed, size, walk[s - 1])

LEMMA WalkStepType ==
  ASSUME NEW l, l.next \in [ObjectId -> NodeId], NEW indexed, NEW size,
         NEW w \in Walker
  PROVE  WalkStep(l, indexed, size, w) \in Walker
<1>1. CASE w.at = 0 \/ Len(w.ids) = size
  BY <1>1 DEF WalkStep
<1>2. CASE ~(w.at = 0 \/ Len(w.ids) = size)
  <2>1. w.at \in ObjectId /\ w.ids \in Seq(ObjectId)
    BY <1>2, MaxObjectsAssumption DEF Walker, NodeId, ObjectId
  <2>2. l.next[w.at] \in NodeId
    BY <2>1
  <2>3. Append(w.ids, w.at) \in Seq(ObjectId)
    BY <2>1
  <2> QED
    BY <1>2, <2>1, <2>2, <2>3 DEF WalkStep, Walker
<1> QED
  BY <1>1, <1>2

\* PageOf is the outcome of such a walk.
LEMMA PageOfWalk ==
  ASSUME NEW l, l.next \in [ObjectId -> NodeId], NEW indexed,
         NEW start \in NodeId, NEW size \in Nat, NEW maxSteps \in Nat
  PROVE  \E walk : /\ IsWalk(walk, l, indexed, start, size, maxSteps)
                   /\ PageOf(l, indexed, start, size, maxSteps)
                        = [ids |-> walk[maxSteps].ids,
                           reverted |-> ~(walk[maxSteps].at = 0
                                          \/ Len(walk[maxSteps].ids) = size)]
<1> DEFINE first == [at |-> start, ids |-> <<>>]
           G == [w \in Walker |-> WalkStep(l, indexed, size, w)]
           F(f) == [s \in 0..maxSteps |->
                      IF s = 0 THEN [at |-> start, ids |-> <<>>]
                      ELSE LET w == f[s - 1]
                           IN  IF w.at = 0 \/ Len(w.ids) = size THEN w
                               ELSE [at  |-> l.next[w.at],
                                     ids |-> IF w.at \in indexed
                                             THEN Append(w.ids, w.at)
                                             ELSE w.ids]]
           walk == CHOOSE f : f = F(f)
<1>1. PICK g : Iterates(g, Walker, first, G, maxSteps)
  <2>1. first \in Walker
    BY DEF Walker
  <2>2. G \in [Walker -> Walker]
    BY WalkStepType
  <2> HIDE DEF first, G
  <2> QED
    BY <2>1, <2>2, Iteration
<1>2. g = F(g)
  <2>1. ASSUME NEW s \in 0..maxSteps PROVE g[s] = F(g)[s]
    <3>1. CASE s = 0
      BY <1>1, <3>1 DEF Iterates
    <3>2. CASE s # 0
      <4>1. s \in 1..maxSteps /\ g[s - 1] \in Walker
        BY <1>1, <3>2 DEF Iterates
      <4>2. g[s] = G[g[s - 1]]
        BY <1>1, <4>1 DEF Iterates
      <4>3. g[s] = WalkStep(l, indexed, size, g[s - 1])
        BY <4>1, <4>2
      <4> QED
        BY <3>2, <4>3 DEF WalkStep
    <3> QED
      BY <3>1, <3>2
  <2> QED
    BY <1>1, <2>1 DEF Iterates
<1>3. walk = F(walk)
  BY <1>2
<1>4. PageOf(l, indexed, start, size, maxSteps)
        = [ids |-> walk[maxSteps].ids,
           reverted |-> ~(walk[maxSteps].at = 0 \/ Len(walk[maxSteps].ids) = size)]
  BY DEF PageOf
<1> HIDE DEF walk
<1>5. walk[0] = first
  BY <1>3
<1>6. \A s \in 0..maxSteps : s # 0 =>
        walk[s] = WalkStep(l, indexed, size, walk[s - 1])
  BY <1>3 DEF WalkStep
<1>7. walk \in [0..maxSteps -> Walker]
  <2> DEFINE T == {s \in Nat : s <= maxSteps => walk[s] \in Walker}
  <2>1. 0 \in T
    <3>1. walk[0] \in Walker
      BY <1>5 DEF Walker
    <3> QED
      BY <3>1
  <2>2. ASSUME NEW n \in Nat, n \in T PROVE n + 1 \in T
    <3>1. CASE n + 1 <= maxSteps
      <4>1. walk[n] \in Walker /\ walk[n + 1] = WalkStep(l, indexed, size, walk[n])
        BY <1>6, <2>2, <3>1
      <4> QED
        BY <4>1, WalkStepType
    <3> QED
      BY <3>1
  <2>3. \A n \in Nat : n \in T
    <3> HIDE DEF T
    <3> QED
      BY <2>1, <2>2, NumbersInduction
  <2>4. DOMAIN walk = 0..maxSteps /\ walk = [s \in 0..maxSteps |-> walk[s]]
    BY <1>3
  <2>5. \A s \in 0..maxSteps : walk[s] \in Walker
    BY <2>3
  <2> QED
    BY <2>4, <2>5
<1> QED
  BY <1>4, <1>5, <1>6, <1>7 DEF IsWalk

Descending(ids) ==
  \A i, j \in 1..Len(ids) : i < j => ids[i] > ids[j]

(* Where a walk is: the members below its cursor (B) that it has not kept  *)
(* are still ahead of it, and it has kept nothing else.                    *)
WalkInv(w, members, B, ever, size) ==
  /\ w.at \in ever \cup {0}
  /\ Len(w.ids) <= size
  /\ \A i \in 1..Len(w.ids) : w.ids[i] \in B /\ w.ids[i] > w.at
  /\ Descending(w.ids)
  /\ \A m \in members : m <= w.at => m \in B
  /\ \A m \in B : m <= w.at \/ \E i \in 1..Len(w.ids) : w.ids[i] = m

LEMMA WalkStepKeeps ==
  ASSUME NEW l, l.next \in [ObjectId -> NodeId], NEW indexed,
         NEW ever \in SUBSET ObjectId, NEW members \in SUBSET ever,
         NEW B \in SUBSET members, NoMemberSkipped(l, members, ever),
         \A o \in ever : o \in indexed <=> o \in members,
         NEW size \in Nat, NEW w \in Walker, WalkInv(w, members, B, ever, size)
  PROVE  WalkInv(WalkStep(l, indexed, size, w), members, B, ever, size)
<1>1. CASE w.at = 0 \/ Len(w.ids) = size
  BY <1>1 DEF WalkStep
<1>2. CASE ~(w.at = 0 \/ Len(w.ids) = size)
  <2> SUFFICES ASSUME NEW v, v = WalkStep(l, indexed, size, w)
               PROVE  WalkInv(v, members, B, ever, size)
    OBVIOUS
  <2> SUFFICES ASSUME NEW x, x = w.at, NEW y, y = l.next[x], NEW n, n = Len(w.ids)
               PROVE  WalkInv(v, members, B, ever, size)
    OBVIOUS
  <2>1. /\ w.ids \in Seq(ObjectId)
        /\ n \in Nat /\ n < size
        /\ x \in ever /\ x \in ObjectId
    BY <1>2 DEF WalkInv, Walker
  <2>2. /\ ObjectId \subseteq Int /\ NodeId \subseteq Int
        /\ ever \subseteq Int /\ members \subseteq Int /\ B \subseteq Int
    BY MaxObjectsAssumption DEF NodeId, ObjectId
  <2>3. /\ y \in ever \cup {0} /\ y < x
        /\ \A m \in members : m < x => m <= y
    BY <2>1 DEF NoMemberSkipped
  <2>4. y \in Int /\ x \in Int
    BY <2>1, <2>2
  <2>5. /\ \A i \in 1..n : w.ids[i] \in B /\ w.ids[i] \in Int /\ w.ids[i] > x
        /\ \A i, j \in 1..n : i < j => w.ids[i] > w.ids[j]
        /\ \A m \in members : m <= x => m \in B
        /\ \A m \in B : m <= x \/ \E i \in 1..n : w.ids[i] = m
    BY <2>2 DEF WalkInv, Descending
  <2>6. CASE x \in indexed
    <3>1. v.at = y /\ v.ids = Append(w.ids, x)
      BY <1>2, <2>6 DEF WalkStep
    <3>2. /\ Len(v.ids) = n + 1 /\ v.ids[n + 1] = x
          /\ \A i \in 1..n : v.ids[i] = w.ids[i]
      BY <3>1, <2>1
    <3>3. x \in members /\ x \in B
      BY <2>1, <2>4, <2>5, <2>6
    <3> HIDE <2>6
    <3>4. \A i \in 1..(n + 1) : v.ids[i] \in B /\ v.ids[i] > y
      <4> SUFFICES ASSUME NEW i \in 1..(n + 1)
                   PROVE  v.ids[i] \in B /\ v.ids[i] > y
        OBVIOUS
      <4>1. CASE i = n + 1
        BY <4>1, <3>2, <3>3, <2>3, <2>4
      <4>2. CASE i \in 1..n
        <5>1. w.ids[i] \in B /\ w.ids[i] > x /\ w.ids[i] \in Int
          BY <4>2, <2>5
        <5> QED
          BY <5>1, <4>2, <3>2, <2>3, <2>4
      <4> QED
        BY <4>1, <4>2, <2>1
    <3>5. \A i, j \in 1..(n + 1) : i < j => v.ids[i] > v.ids[j]
      <4> SUFFICES ASSUME NEW i \in 1..(n + 1), NEW j \in 1..(n + 1), i < j
                   PROVE  v.ids[i] > v.ids[j]
        OBVIOUS
      <4>1. i \in 1..n /\ v.ids[i] = w.ids[i]
        BY <2>1, <3>2
      <4>2. CASE j = n + 1
        BY <4>1, <4>2, <3>2, <2>5
      <4>3. CASE j \in 1..n
        BY <4>1, <4>3, <3>2, <2>5
      <4> QED
        BY <4>2, <4>3, <2>1
    <3>6. \A m \in members : m <= y => m \in B
      BY <2>2, <2>3, <2>4, <2>5
    <3>7. ASSUME NEW m \in B
          PROVE  m <= y \/ \E i \in 1..(n + 1) : v.ids[i] = m
      <4>1. CASE m <= x
        <5>1. m = x \/ m < x
          BY <4>1, <2>2, <2>4
        <5>2. CASE m = x
          BY <5>2, <3>2, <2>1
        <5>3. CASE m < x
          BY <5>3, <2>3
        <5> QED
          BY <5>1, <5>2, <5>3
      <4>2. CASE \E i \in 1..n : w.ids[i] = m
        <5>1. PICK i \in 1..n : w.ids[i] = m
          BY <4>2
        <5>2. i \in 1..(n + 1) /\ v.ids[i] = m
          BY <5>1, <3>2, <2>1
        <5> QED
          BY <5>2
      <4> QED
        BY <4>1, <4>2, <2>5
    <3> QED
      BY <3>1, <3>2, <3>4, <3>5, <3>6, <3>7, <2>1, <2>3 DEF WalkInv, Descending
  <2>7. CASE x \notin indexed
    <3>1. v.at = y /\ v.ids = w.ids
      BY <1>2, <2>7 DEF WalkStep
    <3>2. x \notin members
      BY <2>1, <2>7
    <3>3. \A m \in members : m <= x => m <= y
      BY <3>2, <2>2, <2>3, <2>4
    <3>4. \A i \in 1..n : w.ids[i] > y
      BY <2>3, <2>4, <2>5
    <3>5. \A m \in members : m <= y => m \in B
      BY <2>2, <2>3, <2>4, <2>5
    <3>6. \A m \in B : m <= y \/ \E i \in 1..n : w.ids[i] = m
      BY <3>3, <2>5
    <3> QED
      BY <3>1, <3>4, <3>5, <3>6, <2>1, <2>3, <2>5 DEF WalkInv, Descending
  <2> QED
    BY <2>6, <2>7
<1> QED
  BY <1>1, <1>2

LEMMA WalkHolds ==
  ASSUME NEW l, l.next \in [ObjectId -> NodeId], NEW indexed,
         NEW ever \in SUBSET ObjectId, NEW members \in SUBSET ever,
         NEW B \in SUBSET members, NoMemberSkipped(l, members, ever),
         \A o \in ever : o \in indexed <=> o \in members,
         NEW start \in ever \cup {0}, NEW size \in Nat, NEW maxSteps \in Nat,
         B = {m \in members : m <= start},
         NEW walk, IsWalk(walk, l, indexed, start, size, maxSteps)
  PROVE  \A s \in 0..maxSteps : WalkInv(walk[s], members, B, ever, size)
<1> DEFINE T == {s \in Nat : s <= maxSteps =>
                               WalkInv(walk[s], members, B, ever, size)}
<1>1. 0 \in T
  BY DEF IsWalk, WalkInv, Descending
<1>2. ASSUME NEW n \in Nat, n \in T PROVE n + 1 \in T
  <2>1. CASE n + 1 <= maxSteps
    <3>1. walk[n] \in Walker /\ WalkInv(walk[n], members, B, ever, size)
      BY <1>2, <2>1 DEF IsWalk
    <3>2. walk[n + 1] = WalkStep(l, indexed, size, walk[n])
      BY <2>1 DEF IsWalk
    <3> QED
      BY <3>1, <3>2, WalkStepKeeps
  <2> QED
    BY <2>1
<1> HIDE DEF T
<1>3. \A n \in Nat : n \in T
  BY <1>1, <1>2, NumbersInduction
<1> QED
  BY <1>3 DEF T

(* Where a walk over members is after s steps: it has kept one in each.    *)
OverMembers(w, members, size, s) ==
  /\ w.at \in members \cup {0}
  /\ Len(w.ids) <= size
  /\ w.at = 0 \/ Len(w.ids) = size \/ Len(w.ids) = s

\* A walk that starts at a member, or nowhere, visits members only and keeps
\* one in each step.
LEMMA WalkOverMembers ==
  ASSUME NEW l, l.next \in [ObjectId -> NodeId], NEW indexed,
         NEW members \in SUBSET ObjectId, members \subseteq indexed,
         \A m \in members : l.next[m] \in members \cup {0},
         NEW start \in members \cup {0}, NEW size \in Nat, NEW maxSteps \in Nat,
         NEW walk, IsWalk(walk, l, indexed, start, size, maxSteps)
  PROVE  \A s \in 0..maxSteps : OverMembers(walk[s], members, size, s)
<1> DEFINE T == {s \in Nat : s <= maxSteps => OverMembers(walk[s], members, size, s)}
<1>1. 0 \in T
  BY DEF IsWalk, OverMembers
<1>2. ASSUME NEW n \in Nat, n \in T PROVE n + 1 \in T
  <2>1. CASE n + 1 <= maxSteps
    <3>1. walk[n] \in Walker /\ OverMembers(walk[n], members, size, n)
      BY <1>2, <2>1 DEF IsWalk
    <3>2. walk[n + 1] = WalkStep(l, indexed, size, walk[n])
      BY <2>1 DEF IsWalk
    <3>3. CASE walk[n].at = 0 \/ Len(walk[n].ids) = size
      BY <3>1, <3>2, <3>3 DEF WalkStep, OverMembers
    <3>4. CASE ~(walk[n].at = 0 \/ Len(walk[n].ids) = size)
      <4>1. walk[n].at \in members /\ Len(walk[n].ids) = n /\ n <= size /\ n # size
        BY <3>1, <3>4 DEF OverMembers
      <4>2. /\ walk[n + 1].at = l.next[walk[n].at]
            /\ walk[n + 1].ids = Append(walk[n].ids, walk[n].at)
        BY <3>2, <3>4, <4>1 DEF WalkStep
      <4>3. walk[n].ids \in Seq(ObjectId)
        BY <3>1 DEF Walker
      <4>4. Len(walk[n + 1].ids) = n + 1
        BY <4>1, <4>2, <4>3
      <4>5. walk[n + 1].at \in members \cup {0}
        BY <4>1, <4>2
      <4> QED
        BY <4>1, <4>4, <4>5 DEF OverMembers
    <3> QED
      BY <3>3, <3>4
  <2> QED
    BY <2>1
<1> HIDE DEF T
<1>3. \A n \in Nat : n \in T
  BY <1>1, <1>2, NumbersInduction
<1> QED
  BY <1>3 DEF T

-----------------------------------------------------------------------------
(* Types *)

LEMMA AddKnownType ==
  ASSUME NEW S, NEW list \in Seq(S), NEW x \in S
  PROVE  AddKnown(list, x) \in Seq(S)
BY DEF AddKnown

LEMMA RequestedBytesType ==
  ASSUME NEW x, x.size \in Nat, x.requestedCopies \in Nat
  PROVE  RequestedBytes(x) \in Nat
BY DEF RequestedBytes

LEMMA StoredBytesType ==
  ASSUME NEW x, x.size \in Nat, x.completedCopies \in Nat
  PROVE  StoredBytes(x) \in Nat
BY DEF StoredBytes

\* Updates of several fields of a usage record.
LEMMA UsageUpdateType ==
  ASSUME NEW u \in AccountUsage, NEW x \in Nat, NEW y \in Nat, NEW z \in Nat,
         NEW w \in Nat
  PROVE  /\ [u EXCEPT !.pendingBytes = x, !.reservedCost = y] \in AccountUsage
         /\ [u EXCEPT !.reservedCost = x, !.pendingBytes = y,
                      !.totalRequestedUploads = z] \in AccountUsage
         /\ [u EXCEPT !.totalActualCost = x] \in AccountUsage
         /\ [u EXCEPT !.totalFailedUploads = x] \in AccountUsage
         /\ [u EXCEPT !.activeBytes = x, !.activeObjects = y,
                      !.totalUploadedBytes = z, !.totalFinalizedUploads = w]
              \in AccountUsage
BY Zenon DEF AccountUsage

LEMMA UsageFields ==
  ASSUME NEW u \in AccountUsage
  PROVE  /\ u.activeBytes \in Nat /\ u.activeObjects \in Nat
         /\ u.pendingBytes \in Nat /\ u.reservedCost \in Nat
         /\ u.totalActualCost \in Nat /\ u.totalUploadedBytes \in Nat
         /\ u.totalRequestedUploads \in Nat
         /\ u.totalFinalizedUploads \in Nat /\ u.totalFailedUploads \in Nat
BY DEF AccountUsage

LEMMA ReserveUsageType ==
  ASSUME NEW u \in AccountUsage, NEW p \in RequestUploadParams
  PROVE  ReserveUsage(u, p) \in AccountUsage
<1>1. RequestedBytes(p) \in Nat /\ p.maxCost \in Nat
  BY RequestedBytesType DEF RequestUploadParams
<1>2. /\ u.reservedCost + p.maxCost \in Nat
      /\ u.pendingBytes + RequestedBytes(p) \in Nat
      /\ u.totalRequestedUploads + 1 \in Nat
  BY <1>1, UsageFields
<1> QED
  BY <1>2, UsageUpdateType DEF ReserveUsage

LEMMA ReleaseUsageType ==
  ASSUME NEW u \in AccountUsage, NEW obj \in StorageObject, Releasable(u, obj)
  PROVE  ReleaseUsage(u, obj) \in AccountUsage
<1>1. RequestedBytes(obj) \in Nat /\ obj.reservedCost \in Nat
  BY RequestedBytesType DEF StorageObject
<1>2. /\ u.pendingBytes - RequestedBytes(obj) \in Nat
      /\ u.reservedCost - obj.reservedCost \in Nat
  BY <1>1, UsageFields DEF Releasable
<1> QED
  BY <1>2, UsageUpdateType DEF ReleaseUsage

LEMMA SettledUsageType ==
  ASSUME NEW u \in AccountUsage, NEW obj \in StorageObject,
         NEW done \in StorageObject, NEW charge \in Nat, Releasable(u, obj)
  PROVE  OutcomeUsage(ChargeUsage(ReleaseUsage(u, obj), charge), done)
           \in AccountUsage
<1> DEFINE c == ChargeUsage(ReleaseUsage(u, obj), charge)
<1>1. ReleaseUsage(u, obj) \in AccountUsage
  BY ReleaseUsageType
<1>2. ReleaseUsage(u, obj).totalActualCost + charge \in Nat
  BY <1>1, UsageFields
<1>3. c \in AccountUsage
  BY <1>1, <1>2, UsageUpdateType DEF ChargeUsage
<1>4. StoredBytes(done) \in Nat
  BY StoredBytesType DEF StorageObject
<1> HIDE DEF c
<1>5. /\ c.activeBytes + StoredBytes(done) \in Nat /\ c.activeObjects + 1 \in Nat
      /\ c.totalUploadedBytes + StoredBytes(done) \in Nat
      /\ c.totalFinalizedUploads + 1 \in Nat /\ c.totalFailedUploads + 1 \in Nat
  BY <1>3, <1>4, UsageFields
<1>6. OutcomeUsage(c, done) \in AccountUsage
  BY <1>3, <1>5, UsageUpdateType DEF OutcomeUsage
<1> QED
  BY <1>6 DEF c

\* Updates of several fields of an object or a receipt record.
LEMMA ObjectUpdateType ==
  ASSUME NEW obj \in StorageObject, NEW s \in UploadStatus,
         NEW c \in Address \cup {Zero}, NEW n \in Nat, NEW x \in Nat
  PROVE  /\ [obj EXCEPT !.status = s] \in StorageObject
         /\ [obj EXCEPT !.status = s, !.coordinator = c] \in StorageObject
         /\ [obj EXCEPT !.status = s, !.coordinator = c, !.actualCost = x]
              \in StorageObject
         /\ [obj EXCEPT !.status = s, !.coordinator = c,
                        !.completedCopies = n, !.actualCost = x]
              \in StorageObject
BY Zenon DEF StorageObject

\* Removing an object from the active indexes.
LEMMA RemoveActiveObjectType ==
  ASSUME TypeOK, NEW o \in ObjectId, RemoveActiveObject(o)
  PROVE  /\ activeIndexed' \subseteq ObjectId
         /\ activeCount' \in Nat
         /\ activeList' \in ListType({GlobalList})
         /\ accountActiveList' \in ListType(Account)
<1>1. /\ Unlink(activeList, GlobalList, o) \in ListType({GlobalList})
      /\ Unlink(accountActiveList, objects[o].accountId, o) \in ListType(Account)
  BY UnlinkType DEF TypeOK
<1> QED
  BY <1>1 DEF TypeOK, RemoveActiveObject, indexVars

LEMMA IndexRequestedObjectType ==
  ASSUME TypeOK, NEW o \in ObjectId, NEW a \in Account,
         IndexRequestedObject(o, a)
  PROVE  /\ accountIds' \in Seq(Account)
         /\ accountObjectList' \in [heads : [Account -> NodeId],
                                    next  : [ObjectId -> NodeId]]
         /\ activeIndexed' \subseteq ObjectId
         /\ activeCount' \in Nat
         /\ activeList' \in ListType({GlobalList})
         /\ accountActiveList' \in ListType(Account)
<1>1. /\ PushFront(activeList, GlobalList, o) \in ListType({GlobalList})
      /\ PushFront(accountActiveList, a, o) \in ListType(Account)
  BY PushFrontType DEF TypeOK
<1>2. AddKnown(accountIds, a) \in Seq(Account)
  BY AddKnownType DEF TypeOK
<1>3. o \in NodeId
  BY MaxObjectsAssumption DEF ObjectId, NodeId
<1> QED
  BY <1>1, <1>2, <1>3 DEF TypeOK, IndexRequestedObject

LEMMA TypeInit == Init => TypeOK
<1> SUFFICES ASSUME Init PROVE TypeOK
  OBVIOUS
<1>1. NoObject \in StorageObject
  BY DEF NoObject, StorageObject, UploadStatus, FinalizationStatus
<1>2. NoUsage \in AccountUsage
  BY DEF NoUsage, AccountUsage
<1>3. 0 \in NodeId /\ 1 \in 1..(MaxObjects + 1)
  BY MaxObjectsAssumption DEF NodeId
<1>4. /\ EmptyList({GlobalList}) \in ListType({GlobalList})
      /\ EmptyList(Account) \in ListType(Account)
  BY <1>3 DEF EmptyList, ListType
<1>5. /\ [allowed |-> FALSE, sessionKeyExpiresAt |-> 0] \in CoordinatorPolicy
      /\ [payer |-> Zero, copies |-> 0] \in [payer : Address \cup {Zero}, copies : Nat]
      /\ [payer |-> Zero, createdAt |-> 0, updatedAt |-> 0]
           \in [payer : Address \cup {Zero}, createdAt : Nat, updatedAt : Nat]
  BY DEF CoordinatorPolicy
<1> HIDE DEF StorageObject, AccountUsage, CoordinatorPolicy, ListType, NodeId
<1> QED
  BY <1>1, <1>2, <1>3, <1>4, <1>5, ConstantsAssumption DEF Init, TypeOK

LEMMA TypeStep == TypeOK /\ [Next]_vars => TypeOK'
<1> SUFFICES ASSUME TypeOK, [Next]_vars PROVE TypeOK'
  OBVIOUS
<1> USE ConstantsAssumption
<1>1. ASSUME NEW caller \in Address, NEW p \in Requests,
             NEW signer \in Address \cup {Zero}, RequestUpload(caller, p, signer)
      PROVE  TypeOK'
  <2> DEFINE o == nextObjectId
             a == p.accountId
  <2>1. p \in RequestUploadParams /\ a \in Account /\ p.idempotencyKey \in IdempotencyKey
    BY <1>1 DEF RequestUpload, RequestAccepted, ValidRequest, RequestUploadParams
  <2>2. o \in ObjectId /\ o \in NodeId /\ nextObjectId' \in 1..(MaxObjects + 1)
    BY <1>1, MaxObjectsAssumption DEF RequestUpload, RequestAccepted, TypeOK, ObjectId, NodeId
  <2>3. RequestedObject(p) \in StorageObject
    <3>1. ExpiryOf(p) \in Nat
      BY <2>1 DEF ExpiryOf, TypeOK, PolicyConfig, RequestUploadParams
    <3>2. /\ p.user \in Address \cup {Zero}
          /\ p.size \in Nat /\ p.requestedCopies \in Nat /\ p.maxCost \in Nat
          /\ "Requested" \in UploadStatus /\ 0 \in Nat
      BY <2>1 DEF RequestUploadParams, UploadStatus
    <3> QED
      BY <2>1, <3>1, <3>2, Zenon DEF RequestedObject, StorageObject
  <2>4. ReserveUsage(usage[a], p) \in AccountUsage
    BY <2>1, ReserveUsageType DEF TypeOK
  <2>5. /\ objects' \in [ObjectId -> StorageObject]
        /\ usage' \in [Account -> AccountUsage]
        /\ objectByIdempotencyKey' \in [Account -> [IdempotencyKey -> NodeId]]
    BY <1>1, <2>1, <2>2, <2>3, <2>4 DEF RequestUpload, RequestAccepted, TypeOK
  <2>6. IndexRequestedObject(o, a)
    BY <1>1 DEF RequestUpload, RequestAccepted
  <2> QED
    BY <1>1, <2>1, <2>2, <2>5, <2>6, IndexRequestedObjectType
    DEF RequestUpload, RequestAccepted, TypeOK, adminVars, datasetVars
<1>2. ASSUME NEW o \in ObjectId, NEW c \in Address, StartUpload(c, o)
      PROVE  TypeOK'
  <2>1. objects' \in [ObjectId -> StorageObject]
    <3>1. objects[o] \in StorageObject /\ "Uploading" \in UploadStatus
      BY DEF TypeOK, UploadStatus
    <3>2. [objects[o] EXCEPT !.status = "Uploading", !.coordinator = c]
             \in StorageObject
      BY <3>1, ObjectUpdateType
    <3>3. objects' = [objects EXCEPT ![o] =
            [objects[o] EXCEPT !.status = "Uploading", !.coordinator = c]]
      BY <1>2 DEF StartUpload, StartAccepted, TypeOK
    <3> QED
      BY <3>2, <3>3 DEF TypeOK
  <2> QED
    BY <1>2, <2>1 DEF StartUpload, StartAccepted, TypeOK, indexVars, requestVars, adminVars,
                      datasetVars
<1>3. ASSUME NEW o \in ObjectId, NEW c \in Address, NEW r \in Receipts,
             FinalizeUpload(c, o, r)
      PROVE  TypeOK'
  <2> DEFINE obj  == objects[o]
             a    == obj.accountId
             done == FinalizedObject(obj, c, r)
  <2>1. r \in UploadReceipt /\ obj \in StorageObject
    BY DEF TypeOK
  <2>2. done \in StorageObject
    BY <2>1, ObjectUpdateType DEF FinalizedObject, UploadReceipt, UploadStatus
  <2>3. usage' \in [Account -> AccountUsage]
    <3>1. a \in Account =>
            OutcomeUsage(ChargeUsage(ReleaseUsage(usage[a], obj), r.actualCost), done)
              \in AccountUsage
      BY <1>3, <2>1, <2>2, SettledUsageType DEF TypeOK, FinalizeUpload, ReceiptAccepted, UploadReceipt
    <3> QED
      BY <1>3, <3>1 DEF TypeOK, FinalizeUpload, ReceiptAccepted
  <2>4. objects' \in [ObjectId -> StorageObject]
    BY <1>3, <2>2 DEF TypeOK, FinalizeUpload, ReceiptAccepted
  <2>5. receipts' \in [ObjectId -> [payer : Address \cup {Zero}, copies : Nat]]
    <3>1. /\ receipts[o] \in [payer : Address \cup {Zero}, copies : Nat]
          /\ r.payer \in Address \cup {Zero} /\ r.copies \in Nat
      BY <2>1 DEF TypeOK, UploadReceipt
    <3>2. receipts[o].copies + r.copies \in Nat
      BY <3>1
    <3>3. receipts' = [receipts EXCEPT ![o] =
            [payer |-> r.payer, copies |-> receipts[o].copies + r.copies]]
      BY <1>3, <3>1 DEF FinalizeUpload, ReceiptAccepted, TypeOK
    <3> QED
      BY <3>1, <3>2, <3>3 DEF TypeOK
  <2>6. RemoveActiveObject(o)
    BY <1>3 DEF FinalizeUpload, ReceiptAccepted
  <2> QED
    BY <1>3, <2>3, <2>4, <2>5, <2>6, RemoveActiveObjectType
    DEF FinalizeUpload, ReceiptAccepted, TypeOK, requestVars, adminVars, datasetVars
<1>4. ASSUME NEW o \in ObjectId, NEW c \in Address, NEW charge \in FailureCharges,
             FailUpload(c, o, charge)
      PROVE  TypeOK'
  <2> DEFINE obj  == objects[o]
             a    == obj.accountId
             done == [obj EXCEPT !.status = "Failed", !.coordinator = c,
                                 !.actualCost = charge]
  <2>1. charge \in Nat /\ obj \in StorageObject
    BY DEF TypeOK
  <2>2. done \in StorageObject
    BY <2>1, ObjectUpdateType DEF UploadStatus, FinalizationStatus
  <2>3. usage' \in [Account -> AccountUsage]
    <3>1. a \in Account =>
            OutcomeUsage(ChargeUsage(ReleaseUsage(usage[a], obj), charge), done)
              \in AccountUsage
      BY <1>4, <2>1, <2>2, SettledUsageType DEF TypeOK, FailUpload
    <3> QED
      BY <1>4, <3>1 DEF TypeOK, FailUpload
  <2>4. objects' \in [ObjectId -> StorageObject]
    BY <1>4, <2>2 DEF TypeOK, FailUpload
  <2>5. RemoveActiveObject(o)
    BY <1>4 DEF FailUpload
  <2> QED
    BY <1>4, <2>3, <2>4, <2>5, RemoveActiveObjectType
    DEF FailUpload, TypeOK, requestVars, adminVars, datasetVars
<1>5. ASSUME NEW o \in ObjectId, NEW status \in {"Cancelled", "Expired"},
             CloseUnsettled(o, status)
      PROVE  TypeOK'
  <2> DEFINE obj == objects[o]
             a   == obj.accountId
  <2>1. objects' \in [ObjectId -> StorageObject]
    <3>1. obj \in StorageObject /\ status \in UploadStatus
      BY DEF TypeOK, UploadStatus
    <3>2. [obj EXCEPT !.status = status] \in StorageObject
      BY <3>1, ObjectUpdateType
    <3>3. objects' = [objects EXCEPT ![o] = [obj EXCEPT !.status = status]]
      BY <1>5 DEF CloseUnsettled, TypeOK
    <3> QED
      BY <3>2, <3>3 DEF TypeOK
  <2>2. usage' \in [Account -> AccountUsage]
    <3>1. a \in Account => ReleaseUsage(usage[a], obj) \in AccountUsage
      BY <1>5, ReleaseUsageType DEF CloseUnsettled, TypeOK
    <3> QED
      BY <1>5, <3>1 DEF CloseUnsettled, TypeOK
  <2>3. RemoveActiveObject(o)
    BY <1>5 DEF CloseUnsettled
  <2> QED
    BY <1>5, <2>1, <2>2, <2>3, RemoveActiveObjectType
    DEF CloseUnsettled, TypeOK, requestVars, adminVars, datasetVars
<1>6. ASSUME NEW caller \in Address, NEW newOwner \in NewOwners,
             TransferOwnership(caller, newOwner)
      PROVE  TypeOK'
  BY <1>6 DEF TransferOwnership, TypeOK, uploadVars, indexVars, requestVars,
              datasetVars
<1>7. ASSUME NEW caller \in Address, NEW newPolicy \in Policies,
             SetPolicy(caller, newPolicy)
      PROVE  TypeOK'
  BY <1>7 DEF SetPolicy, TypeOK, uploadVars, indexVars, requestVars, datasetVars
<1>8. ASSUME NEW caller \in Address, NEW c \in CoordinatorInputs,
             NEW cp \in CoordinatorPolicies, SetCoordinator(caller, c, cp)
      PROVE  TypeOK'
  <2>1. c \in Address /\ cp \in CoordinatorPolicy
    BY <1>8 DEF SetCoordinator
  <2>2. AddKnown(coordinatorAddresses, c) \in Seq(Address)
    BY <2>1, AddKnownType DEF TypeOK
  <2> QED
    BY <1>8, <2>1, <2>2
    DEF SetCoordinator, TypeOK, uploadVars, indexVars, requestVars, datasetVars
<1>9. ASSUME NEW caller \in Address, NEW r \in RelayerInputs,
             NEW allowed \in BOOLEAN, SetRelayer(caller, r, allowed)
      PROVE  TypeOK'
  <2>1. r \in Address
    BY <1>9 DEF SetRelayer
  <2>2. AddKnown(relayerAddresses, r) \in Seq(Address)
    BY <2>1, AddKnownType DEF TypeOK
  <2> QED
    BY <1>9, <2>1, <2>2
    DEF SetRelayer, TypeOK, uploadVars, indexVars, requestVars, datasetVars
<1>10. ASSUME NEW c \in Address, NEW d \in DatasetInputs, RecordDataset(c, d)
       PROVE  TypeOK'
  <2>1. /\ d.accountId \in Account /\ d.dataset \in Dataset
        /\ d.payer \in Address \cup {Zero} /\ d.createdAt \in Nat
    BY <1>10 DEF RecordDataset, DatasetAccepted, DatasetRecord
  <2>2. AddKnown(datasetKeys, <<d.accountId, d.dataset>>) \in Seq(Account \X Dataset)
    BY <2>1, AddKnownType DEF TypeOK
  <2>3. datasets' \in [Account -> [Dataset -> [payer : Address \cup {Zero},
                                               createdAt : Nat, updatedAt : Nat]]]
    BY <1>10, <2>1 DEF RecordDataset, DatasetAccepted, TypeOK
  <2> QED
    BY <1>10, <2>2, <2>3
    DEF RecordDataset, DatasetAccepted, TypeOK, uploadVars, indexVars, requestVars, adminVars
<1>11. ASSUME Tick  PROVE TypeOK'
  BY <1>11 DEF Tick, TypeOK, uploadVars, indexVars, requestVars, adminVars,
               datasetVars
<1>12. CASE UNCHANGED vars
  BY <1>12 DEF vars, TypeOK, uploadVars, indexVars, requestVars, adminVars,
               datasetVars
<1> QED
  BY <1>1, <1>2, <1>3, <1>4, <1>5, <1>6, <1>7, <1>8, <1>9, <1>10, <1>11, <1>12
  DEF Next, Administration, CancelUpload, ExpireUpload

\* Every variable keeps its type: in particular no counter of an account is
\* ever negative and every list pointer is 0 or an object id.
THEOREM TypeCorrect == Spec => []TypeOK
BY TypeInit, TypeStep, PTL DEF Spec

-----------------------------------------------------------------------------
(* The indexes *)

\* An upload that is neither absent nor over is live.
LEMMA LiveIsMutable ==
  ASSUME TypeOK, NEW o \in ObjectId
  PROVE  MutableObject(o) <=> o \in LiveIds
BY DEF TypeOK, StorageObject, UploadStatus, FinalizationStatus, MutableObject,
       Terminal, Live, LiveIds

LEMMA LiveIdsFinite ==
  IsFiniteSet(LiveIds) /\ Cardinality(LiveIds) \in Nat
<1>1. IsFiniteSet(ObjectId)
  BY MaxObjectsAssumption, FS_Interval DEF ObjectId
<1> QED
  BY <1>1, FS_Subset, FS_CardinalityType DEF LiveIds

\* A live upload has been issued.
LEMMA LiveIsIssued ==
  ASSUME TypeOK, IssuedInOrder
  PROVE  LiveIds \subseteq IssuedIds
BY DEF LiveIds, IssuedIds, IssuedInOrder, Live, NoObject, TypeOK

LEMMA IndexInit == Init => IndexMatchesStatus
<1> SUFFICES ASSUME Init PROVE IndexMatchesStatus
  OBVIOUS
<1>1. LiveIds = {} /\ IssuedIds = {}
  BY DEF Init, LiveIds, IssuedIds, Live, NoObject, ObjectId
<1>2. IssuedInOrder
  BY DEF Init, IssuedInOrder, ObjectId, EmptyList
<1>3. ASSUME NEW Key, NEW k \in Key
      PROVE  WellLinked(EmptyList(Key), k, {}, {})
  BY DEF WellLinked, HeadIsNewest, NoMemberSkipped, DoublyLinked, EmptyList
<1>4. WellLinked(activeList, GlobalList, LiveIds, IssuedIds)
  BY <1>1, <1>3 DEF Init
<1>5. ASSUME NEW a \in Account
      PROVE  WellLinked(accountActiveList, a, LiveIds \cap IssuedTo(a), IssuedTo(a))
  <2>1. IssuedTo(a) = {} /\ LiveIds \cap IssuedTo(a) = {}
    BY <1>1 DEF IssuedTo
  <2> QED
    BY <1>3, <2>1 DEF Init
<1> QED
  BY <1>1, <1>2, <1>4, <1>5, FS_EmptySet DEF Init, IndexMatchesStatus

\* Closing an upload takes it off both lists and out of the count.
LEMMA CloseKeepsIndex ==
  ASSUME TypeOK, TypeOK', IndexMatchesStatus,
         NEW o \in ObjectId, MutableObject(o), RemoveActiveObject(o),
         Terminal(objects'[o].status),
         objects'[o].accountId = objects[o].accountId,
         objects'[o].idempotencyKey = objects[o].idempotencyKey,
         \A p \in ObjectId \ {o} : objects'[p] = objects[p],
         nextObjectId' = nextObjectId
  PROVE  IndexMatchesStatus'
<1> DEFINE a == objects[o].accountId
           l == accountActiveList
           m == Unlink(l, a, o)
<1>1. o \in LiveIds /\ o \in activeIndexed /\ o \in IssuedIds
  BY LiveIsMutable, LiveIsIssued DEF IndexMatchesStatus
<1>2. /\ activeIndexed' = activeIndexed \ {o}
      /\ activeCount' = activeCount - 1
      /\ activeList' = Unlink(activeList, GlobalList, o)
      /\ accountActiveList' = m
  BY <1>1 DEF RemoveActiveObject
<1>3. /\ IssuedIds' = IssuedIds
      /\ \A b \in Account : IssuedTo(b)' = IssuedTo(b)
      /\ LiveIds' = LiveIds \ {o}
  BY DEF IssuedIds, IssuedTo, LiveIds, Live, Terminal, FinalizationStatus
<1>4. a \in Account /\ o \in IssuedTo(a)
  BY <1>1 DEF IndexMatchesStatus, IssuedInOrder, IssuedIds, IssuedTo
<1>5. /\ activeIndexed' = LiveIds'
      /\ activeCount' = Cardinality(LiveIds')
  <2>1. Cardinality(LiveIds \ {o}) = Cardinality(LiveIds) - 1
    BY <1>1, LiveIdsFinite, FS_RemoveElement
  <2> QED
    BY <1>2, <1>3, <2>1 DEF IndexMatchesStatus
<1>6. WellLinked(activeList, GlobalList, LiveIds, IssuedIds)'
  <2>1. /\ activeList \in ListType({GlobalList}) /\ GlobalList \in {GlobalList}
        /\ IssuedIds \in SUBSET ObjectId /\ LiveIds \in SUBSET IssuedIds
    BY LiveIsIssued DEF TypeOK, IssuedIds, IndexMatchesStatus
  <2>2. WellLinked(Unlink(activeList, GlobalList, o), GlobalList,
                   LiveIds \ {o}, IssuedIds)
    BY <1>1, <2>1, UnlinkWellLinked DEF IndexMatchesStatus
  <2> QED
    BY <1>2, <1>3, <2>2
<1>7. ASSUME NEW b \in Account
      PROVE  WellLinked(m, b, (LiveIds \ {o}) \cap IssuedTo(b), IssuedTo(b))
  <2>1. /\ l \in ListType(Account) /\ m \in ListType(Account)
        /\ IssuedTo(b) \in SUBSET ObjectId /\ IssuedTo(a) \in SUBSET ObjectId
        /\ WellLinked(l, b, LiveIds \cap IssuedTo(b), IssuedTo(b))
        /\ WellLinked(l, a, LiveIds \cap IssuedTo(a), IssuedTo(a))
    BY <1>2, <1>4 DEF TypeOK, IssuedTo, IssuedIds, IndexMatchesStatus
  <2>2. CASE b = a
    <3>1. WellLinked(m, a, (LiveIds \cap IssuedTo(a)) \ {o}, IssuedTo(a))
      BY <1>1, <1>4, <2>1, UnlinkWellLinked
    <3>2. (LiveIds \ {o}) \cap IssuedTo(a) = (LiveIds \cap IssuedTo(a)) \ {o}
      OBVIOUS
    <3> QED
      BY <2>2, <3>1, <3>2
  <2>3. CASE b # a
    <3>1. (LiveIds \ {o}) \cap IssuedTo(b) = LiveIds \cap IssuedTo(b)
      BY <1>4, <2>3 DEF IssuedTo
    <3>2. /\ l.prev[o] \in IssuedTo(a) \cup {0}
          /\ l.next[o] \in IssuedTo(a) \cup {0}
      BY <1>1, <1>4, <2>1 DEF WellLinked, DoublyLinked
    <3>3. \A e \in IssuedTo(b) : e # o /\ e # l.prev[o] /\ e # l.next[o]
      BY <1>4, <2>3, <3>2 DEF IssuedTo, IssuedIds, ObjectId
    <3>4. /\ m.heads[b] = l.heads[b]
          /\ \A e \in IssuedTo(b) : m.next[e] = l.next[e] /\ m.prev[e] = l.prev[e]
      BY <2>1, <2>3, <3>3 DEF Unlink, ListType
    <3> DEFINE members == LiveIds \cap IssuedTo(b)
    <3>5. members \subseteq IssuedTo(b) /\ b \in Account \ {a}
      BY <2>3
    <3> HIDE DEF m, l, members, a
    <3>6. WellLinked(m, b, members, IssuedTo(b))
      <4>1. WellLinked(l, b, members, IssuedTo(b))
        BY <2>1 DEF members
      <4> QED
        BY <2>1, <1>4, <3>4, <3>5, <4>1, OtherListUntouched
    <3> QED
      BY <3>1, <3>6 DEF members
  <2> QED
    BY <2>2, <2>3
<1>8. IssuedInOrder'
  <2>1. ASSUME NEW p \in ObjectId, p >= nextObjectId
        PROVE  /\ activeList'.prev[p] = 0 /\ accountActiveList'.prev[p] = 0
    <3>1. /\ activeList.prev[p] = 0 /\ l.prev[p] = 0
          /\ nextObjectId \in Nat
      BY <2>1, MaxObjectsAssumption
      DEF IndexMatchesStatus, IssuedInOrder, TypeOK, ObjectId
    <3>2. /\ activeList.next[o] \in IssuedIds \cup {0}
          /\ l.next[o] \in IssuedIds \cup {0}
      BY <1>1, <1>4 DEF IndexMatchesStatus, WellLinked, NoMemberSkipped, IssuedTo
    <3>3. p # activeList.next[o] /\ p # l.next[o] /\ p # o
      BY <1>1, <2>1, <3>1, <3>2 DEF IssuedIds, ObjectId
    <3> QED
      BY <1>2, <3>1, <3>3 DEF Unlink, TypeOK, ListType
  <2>2. o < nextObjectId /\ nextObjectId \in Nat
    BY <1>1, MaxObjectsAssumption DEF IssuedIds, TypeOK
  <2> QED
    BY <2>1, <2>2 DEF IndexMatchesStatus, IssuedInOrder, Terminal,
                      FinalizationStatus, ObjectId
<1> QED
  BY <1>2, <1>3, <1>5, <1>6, <1>7, <1>8 DEF IndexMatchesStatus

\* A request puts a new id, newer than all others, at the head of both lists.
LEMMA RequestKeepsIndex ==
  ASSUME TypeOK, TypeOK', IndexMatchesStatus,
         NEW caller \in Address, NEW p \in Requests,
         NEW signer \in Address \cup {Zero}, RequestUpload(caller, p, signer)
  PROVE  IndexMatchesStatus'
<1> DEFINE o == nextObjectId
           a == p.accountId
           l == accountActiveList
           m == PushFront(l, a, o)
<1>1. /\ o \in ObjectId /\ a \in Account /\ p.idempotencyKey \in IdempotencyKey
      /\ nextObjectId' = o + 1
  BY ConstantsAssumption, MaxObjectsAssumption
  DEF RequestUpload, RequestAccepted, ValidRequest, RequestUploadParams, TypeOK, ObjectId
<1>2. /\ activeIndexed' = activeIndexed \cup {o}
      /\ activeCount' = activeCount + 1
      /\ activeList' = PushFront(activeList, GlobalList, o)
      /\ accountActiveList' = m
  BY DEF RequestUpload, RequestAccepted, IndexRequestedObject
<1>3. /\ objects'[o] = RequestedObject(p)
      /\ \A q \in ObjectId \ {o} : objects'[q] = objects[q]
  BY <1>1 DEF RequestUpload, RequestAccepted, TypeOK
<1>4. /\ RequestedObject(p).status = "Requested"
      /\ RequestedObject(p).accountId = a
      /\ RequestedObject(p).idempotencyKey = p.idempotencyKey
  BY DEF RequestedObject
<1>5. /\ o \notin IssuedIds /\ o \notin LiveIds
      /\ activeList.prev[o] = 0 /\ l.prev[o] = 0
  BY <1>1, LiveIsIssued DEF IssuedIds, IndexMatchesStatus, IssuedInOrder, ObjectId
<1>6. /\ IssuedIds' = IssuedIds \cup {o}
      /\ LiveIds' = LiveIds \cup {o}
      /\ \A b \in Account :
           IssuedTo(b)' = IF b = a THEN IssuedTo(b) \cup {o} ELSE IssuedTo(b)
  <2>1. IssuedIds' = IssuedIds \cup {o}
    BY <1>1 DEF IssuedIds, ObjectId
  <2>2. LiveIds' = LiveIds \cup {o}
    BY <1>1, <1>3, <1>4 DEF LiveIds, Live
  <2> QED
    BY <1>1, <1>3, <1>4, <1>5, <2>1, <2>2 DEF IssuedTo, IssuedIds
<1>7. /\ activeIndexed' = LiveIds'
      /\ activeCount' = Cardinality(LiveIds')
  <2>1. Cardinality(LiveIds \cup {o}) = Cardinality(LiveIds) + 1
    BY <1>5, LiveIdsFinite, FS_AddElement
  <2> QED
    BY <1>2, <1>6, <2>1 DEF IndexMatchesStatus
<1>8. WellLinked(activeList, GlobalList, LiveIds, IssuedIds)'
  <2>1. /\ activeList \in ListType({GlobalList}) /\ GlobalList \in {GlobalList}
        /\ IssuedIds \in SUBSET ObjectId /\ LiveIds \in SUBSET IssuedIds
        /\ \A e \in IssuedIds : e < o
    BY LiveIsIssued DEF TypeOK, IssuedIds, IndexMatchesStatus
  <2>2. WellLinked(PushFront(activeList, GlobalList, o), GlobalList,
                   LiveIds \cup {o}, IssuedIds \cup {o})
    BY <1>1, <1>5, <2>1, PushFrontWellLinked DEF IndexMatchesStatus
  <2> QED
    BY <1>2, <1>6, <2>2
<1>9. ASSUME NEW b \in Account
      PROVE  WellLinked(m, b, LiveIds' \cap IssuedTo(b)', IssuedTo(b)')
  <2> DEFINE ever    == IssuedTo(b)
             members == LiveIds \cap ever
  <2>1. /\ l \in ListType(Account) /\ m \in ListType(Account)
        /\ ever \in SUBSET ObjectId /\ members \in SUBSET ever
        /\ \A e \in ever : e < o
        /\ WellLinked(l, b, members, ever)
    BY <1>2 DEF TypeOK, IssuedTo, IssuedIds, IndexMatchesStatus
  <2> HIDE DEF ever, members
  <2>2. CASE b = a
    <3>1. WellLinked(m, a, members \cup {o}, ever \cup {o})
      BY <1>1, <1>5, <2>1, <2>2, PushFrontWellLinked
    <3>2. LiveIds' \cap IssuedTo(b)' = members \cup {o}
      BY <1>6, <2>2 DEF members, ever
    <3>3. IssuedTo(b)' = ever \cup {o}
      BY <1>6, <2>2 DEF ever
    <3> QED
      BY <2>2, <3>1, <3>2, <3>3
  <2>3. CASE b # a
    <3>1. LiveIds' \cap IssuedTo(b)' = members /\ IssuedTo(b)' = ever
      BY <1>5, <1>6, <2>3 DEF members, ever, IssuedTo
    <3>2. l.heads[a] \in IssuedTo(a) \cup {0}
      BY <1>1 DEF IndexMatchesStatus, WellLinked, HeadIsNewest
    <3>3. \A e \in ever : e # o /\ e # l.heads[a]
      BY <1>1, <1>5, <2>3, <3>2 DEF ever, IssuedTo, IssuedIds, ObjectId
    <3>4. /\ m.heads[b] = l.heads[b]
          /\ \A e \in ever : m.next[e] = l.next[e] /\ m.prev[e] = l.prev[e]
      BY <2>1, <2>3, <3>3 DEF PushFront, ListType
    <3> HIDE DEF m, l, a
    <3>5. b \in Account \ {a} /\ members \subseteq ever
      BY <2>1, <2>3
    <3>6. WellLinked(m, b, members, ever)
      BY <1>1, <2>1, <3>4, <3>5, OtherListUntouched
    <3> QED
      BY <3>1, <3>6
  <2> QED
    BY <2>2, <2>3
<1>10. IssuedInOrder'
  <2>1. ASSUME NEW q \in ObjectId, q >= o + 1
        PROVE  /\ activeList'.prev[q] = 0 /\ accountActiveList'.prev[q] = 0
    <3>1. /\ activeList.prev[q] = 0 /\ l.prev[q] = 0
          /\ q # o
      BY <1>1, <2>1 DEF IndexMatchesStatus, IssuedInOrder, ObjectId
    <3>2. activeList.heads[GlobalList] # q /\ l.heads[a] # q
      <4>1. /\ activeList.heads[GlobalList] \in IssuedIds \cup {0}
            /\ l.heads[a] \in IssuedIds \cup {0}
        BY <1>1, LiveIsIssued
        DEF IndexMatchesStatus, WellLinked, HeadIsNewest, IssuedTo
      <4> QED
        BY <1>1, <2>1, <4>1 DEF IssuedIds, ObjectId
    <3> QED
      BY <1>2, <3>1, <3>2 DEF PushFront, TypeOK, ListType
  <2>2. ASSUME NEW q \in ObjectId
        PROVE  IF q < o + 1
               THEN /\ objects'[q].status # "None"
                    /\ objects'[q].accountId \in Account
                    /\ objects'[q].idempotencyKey \in IdempotencyKey
               ELSE objects'[q] = NoObject
    <3>1. CASE q = o
      BY <1>1, <1>3, <1>4, <3>1 DEF ObjectId
    <3>2. CASE q # o
      BY <1>1, <1>3, <3>2 DEF ObjectId, IndexMatchesStatus, IssuedInOrder
    <3> QED
      BY <3>1, <3>2
  <2> QED
    BY <1>1, <2>1, <2>2 DEF IssuedInOrder, ObjectId
<1> QED
  BY <1>2, <1>6, <1>7, <1>8, <1>9, <1>10 DEF IndexMatchesStatus

\* A step that closes no upload and requests none leaves the indexes alone.
LEMMA SameLiveKeepsIndex ==
  ASSUME TypeOK, IndexMatchesStatus, UNCHANGED <<indexVars, nextObjectId>>,
         \A o \in ObjectId :
           \/ objects'[o] = objects[o]
           \/ /\ Live(objects[o].status) /\ Live(objects'[o].status)
              /\ objects'[o].accountId = objects[o].accountId
              /\ objects'[o].idempotencyKey = objects[o].idempotencyKey
  PROVE  IndexMatchesStatus'
<1>1. /\ IssuedIds' = IssuedIds /\ LiveIds' = LiveIds
      /\ \A a \in Account : IssuedTo(a)' = IssuedTo(a)
  BY DEF IssuedIds, IssuedTo, LiveIds
<1>2. IssuedInOrder'
  BY DEF IssuedInOrder, IndexMatchesStatus, indexVars, Live, NoObject
<1> QED
  BY <1>1, <1>2 DEF IndexMatchesStatus, indexVars

LEMMA IndexStep == TypeOK /\ TypeOK' /\ IndexMatchesStatus /\ [Next]_vars
                     => IndexMatchesStatus'
<1> SUFFICES ASSUME TypeOK, TypeOK', IndexMatchesStatus, [Next]_vars
             PROVE  IndexMatchesStatus'
  OBVIOUS
<1>1. ASSUME NEW caller \in Address, NEW p \in Requests,
             NEW signer \in Address \cup {Zero}, RequestUpload(caller, p, signer)
      PROVE  IndexMatchesStatus'
  BY <1>1, RequestKeepsIndex
<1>2. ASSUME NEW o \in ObjectId, NEW c \in Address, StartUpload(c, o)
      PROVE  IndexMatchesStatus'
  <2>1. \A q \in ObjectId :
           \/ objects'[q] = objects[q]
           \/ /\ Live(objects[q].status) /\ Live(objects'[q].status)
              /\ objects'[q].accountId = objects[q].accountId
              /\ objects'[q].idempotencyKey = objects[q].idempotencyKey
    BY <1>2 DEF StartUpload, StartAccepted, TypeOK, Live, StorageObject
  <2> QED
    BY <1>2, <2>1, SameLiveKeepsIndex DEF StartUpload, StartAccepted, requestVars
<1>3. ASSUME NEW o \in ObjectId, NEW c \in Address, NEW r \in Receipts,
             FinalizeUpload(c, o, r)
      PROVE  IndexMatchesStatus'
  <2>1. objects' = [objects EXCEPT ![o] = FinalizedObject(objects[o], c, r)]
    BY <1>3 DEF FinalizeUpload, ReceiptAccepted
  <2>2. /\ FinalizedObject(objects[o], c, r).status = r.finalizationStatus
        /\ FinalizedObject(objects[o], c, r).accountId = objects[o].accountId
        /\ FinalizedObject(objects[o], c, r).idempotencyKey
             = objects[o].idempotencyKey
        /\ r.finalizationStatus \in FinalizationStatus
    BY ConstantsAssumption DEF FinalizedObject, TypeOK, StorageObject, UploadReceipt
  <2>3. /\ Terminal(objects'[o].status)
        /\ objects'[o].accountId = objects[o].accountId
        /\ objects'[o].idempotencyKey = objects[o].idempotencyKey
        /\ \A q \in ObjectId \ {o} : objects'[q] = objects[q]
    BY <2>1, <2>2 DEF TypeOK, Terminal
  <2> QED
    BY <1>3, <2>3, CloseKeepsIndex DEF FinalizeUpload, ReceiptAccepted, requestVars
<1>4. ASSUME NEW o \in ObjectId, NEW c \in Address, NEW charge \in FailureCharges,
             FailUpload(c, o, charge)
      PROVE  IndexMatchesStatus'
  <2>1. /\ Terminal(objects'[o].status)
        /\ objects'[o].accountId = objects[o].accountId
        /\ objects'[o].idempotencyKey = objects[o].idempotencyKey
        /\ \A q \in ObjectId \ {o} : objects'[q] = objects[q]
    BY <1>4 DEF FailUpload, TypeOK, StorageObject, Terminal, FinalizationStatus
  <2> QED
    BY <1>4, <2>1, CloseKeepsIndex DEF FailUpload, requestVars
<1>5. ASSUME NEW o \in ObjectId, NEW status \in {"Cancelled", "Expired"},
             MutableObject(o), CloseUnsettled(o, status)
      PROVE  IndexMatchesStatus'
  <2>1. /\ Terminal(objects'[o].status)
        /\ objects'[o].accountId = objects[o].accountId
        /\ objects'[o].idempotencyKey = objects[o].idempotencyKey
        /\ \A q \in ObjectId \ {o} : objects'[q] = objects[q]
    BY <1>5 DEF CloseUnsettled, TypeOK, StorageObject, Terminal
  <2> QED
    BY <1>5, <2>1, CloseKeepsIndex DEF CloseUnsettled, requestVars
<1>6. ASSUME UNCHANGED uploadVars
      PROVE  IndexMatchesStatus'
  BY <1>6, SameLiveKeepsIndex DEF uploadVars, requestVars
<1>7. CASE UNCHANGED vars
  BY <1>6, <1>7 DEF vars
<1> QED
  BY <1>1, <1>2, <1>3, <1>4, <1>5, <1>6, <1>7
  DEF Next, Administration, CancelUpload, ExpireUpload, Tick, TransferOwnership, SetPolicy,
      SetCoordinator, SetRelayer, RecordDataset, DatasetAccepted

\* The active indexes list exactly the live uploads, newest first, and no
\* cursor, of a removed upload either, skips one.
THEOREM IndexCorrect == Spec => []IndexMatchesStatus
BY TypeInit, TypeStep, IndexInit, IndexStep, PTL DEF Spec

-----------------------------------------------------------------------------
(* The ledger *)

\* What an upload contributes to the totals of account a.
Shares(e, a) ==
  [pendingBytes |-> Ledger!Part(e, a, e.phase = "open", e.bytes),
   reservedCost |-> Ledger!Part(e, a, e.phase = "open", e.cost),
   activeBytes  |-> Ledger!Part(e, a, e.phase = "stored", e.stored),
   actualCost   |-> Ledger!Part(e, a, Ledger!Settled(e), e.charge),
   requested    |-> Ledger!Part(e, a, Ledger!Opened(e), 1),
   finalized    |-> Ledger!Part(e, a, e.phase = "stored", 1),
   failed       |-> Ledger!Part(e, a, e.phase = "failed", 1)]

\* Totals t with a contribution x replaced by y are totals u.
Balanced(t, x, u, y) ==
  /\ u.pendingBytes = t.pendingBytes - x.pendingBytes + y.pendingBytes
  /\ u.reservedCost = t.reservedCost - x.reservedCost + y.reservedCost
  /\ u.activeBytes  = t.activeBytes  - x.activeBytes  + y.activeBytes
  /\ u.actualCost   = t.actualCost   - x.actualCost   + y.actualCost
  /\ u.requested    = t.requested    - x.requested    + y.requested
  /\ u.finalized    = t.finalized    - x.finalized    + y.finalized
  /\ u.failed       = t.failed       - x.failed       + y.failed

\* The entries of a book, as far as the totals read them.
Weighed(b) ==
  \A o \in ObjectId : /\ b[o].bytes \in Nat /\ b[o].cost \in Nat
                      /\ b[o].stored \in Nat /\ b[o].charge \in Nat

LEMMA LedgerTotal == \A w : Ledger!Total(w) = Total(w)
BY DEF Ledger!Total, Ledger!Units, Total, Units, Ledger!Cardinality, Cardinality

LEMMA ObjectIdFinite == IsFiniteSet(ObjectId)
BY MaxObjectsAssumption, FS_Interval DEF ObjectId

\* A total when one weight changes.
LEMMA LedgerTotalUpdate ==
  ASSUME NEW w \in [ObjectId -> Nat], NEW v \in [ObjectId -> Nat],
         NEW o \in ObjectId, \A p \in ObjectId \ {o} : v[p] = w[p]
  PROVE  /\ Ledger!Total(v) = Ledger!Total(w) - w[o] + v[o]
         /\ w[o] <= Ledger!Total(w) /\ Ledger!Total(w) \in Nat
BY ObjectIdFinite, TotalUpdate, TotalBound, TotalType, LedgerTotal

\* All totals of an account when one entry changes.
LEMMA TotalsOfUpdate ==
  ASSUME NEW b, NEW c, Weighed(b), Weighed(c), NEW o \in ObjectId,
         \A p \in ObjectId \ {o} : c[p] = b[p], NEW a \in Account
  PROVE  Balanced(Ledger!TotalsOf(b)[a], Shares(b[o], a),
                  Ledger!TotalsOf(c)[a], Shares(c[o], a))
<1> DEFINE bt == Ledger!TotalsOf(b)[a]
           ct == Ledger!TotalsOf(c)[a]
           bs == Shares(b[o], a)
           cs == Shares(c[o], a)
<1> USE DEF Weighed, Ledger!Part
<1>1. ct.pendingBytes = bt.pendingBytes - bs.pendingBytes + cs.pendingBytes
  <2> DEFINE w == [p \in ObjectId |-> Ledger!Part(b[p], a, b[p].phase = "open", b[p].bytes)]
             v == [p \in ObjectId |-> Ledger!Part(c[p], a, c[p].phase = "open", c[p].bytes)]
  <2>1. /\ w \in [ObjectId -> Nat] /\ v \in [ObjectId -> Nat]
        /\ \A p \in ObjectId \ {o} : v[p] = w[p]
        /\ bs.pendingBytes = w[o] /\ cs.pendingBytes = v[o]
    BY DEF Shares
  <2>2. bt.pendingBytes = Ledger!Total(w) /\ ct.pendingBytes = Ledger!Total(v)
    BY DEF Ledger!TotalsOf
  <2> HIDE DEF w, v, bt, ct, bs, cs
  <2> QED
    BY <2>1, <2>2, LedgerTotalUpdate
<1>2. ct.reservedCost = bt.reservedCost - bs.reservedCost + cs.reservedCost
  <2> DEFINE w == [p \in ObjectId |-> Ledger!Part(b[p], a, b[p].phase = "open", b[p].cost)]
             v == [p \in ObjectId |-> Ledger!Part(c[p], a, c[p].phase = "open", c[p].cost)]
  <2>1. /\ w \in [ObjectId -> Nat] /\ v \in [ObjectId -> Nat]
        /\ \A p \in ObjectId \ {o} : v[p] = w[p]
        /\ bs.reservedCost = w[o] /\ cs.reservedCost = v[o]
    BY DEF Shares
  <2>2. bt.reservedCost = Ledger!Total(w) /\ ct.reservedCost = Ledger!Total(v)
    BY DEF Ledger!TotalsOf
  <2> HIDE DEF w, v, bt, ct, bs, cs
  <2> QED
    BY <2>1, <2>2, LedgerTotalUpdate
<1>3. ct.activeBytes = bt.activeBytes - bs.activeBytes + cs.activeBytes
  <2> DEFINE w == [p \in ObjectId |-> Ledger!Part(b[p], a, b[p].phase = "stored", b[p].stored)]
             v == [p \in ObjectId |-> Ledger!Part(c[p], a, c[p].phase = "stored", c[p].stored)]
  <2>1. /\ w \in [ObjectId -> Nat] /\ v \in [ObjectId -> Nat]
        /\ \A p \in ObjectId \ {o} : v[p] = w[p]
        /\ bs.activeBytes = w[o] /\ cs.activeBytes = v[o]
    BY DEF Shares
  <2>2. bt.activeBytes = Ledger!Total(w) /\ ct.activeBytes = Ledger!Total(v)
    BY DEF Ledger!TotalsOf
  <2> HIDE DEF w, v, bt, ct, bs, cs
  <2> QED
    BY <2>1, <2>2, LedgerTotalUpdate
<1>4. ct.actualCost = bt.actualCost - bs.actualCost + cs.actualCost
  <2> DEFINE w == [p \in ObjectId |-> Ledger!Part(b[p], a, Ledger!Settled(b[p]), b[p].charge)]
             v == [p \in ObjectId |-> Ledger!Part(c[p], a, Ledger!Settled(c[p]), c[p].charge)]
  <2>1. /\ w \in [ObjectId -> Nat] /\ v \in [ObjectId -> Nat]
        /\ \A p \in ObjectId \ {o} : v[p] = w[p]
        /\ bs.actualCost = w[o] /\ cs.actualCost = v[o]
    BY DEF Shares
  <2>2. bt.actualCost = Ledger!Total(w) /\ ct.actualCost = Ledger!Total(v)
    BY DEF Ledger!TotalsOf
  <2> HIDE DEF w, v, bt, ct, bs, cs
  <2> QED
    BY <2>1, <2>2, LedgerTotalUpdate
<1>5. ct.requested = bt.requested - bs.requested + cs.requested
  <2> DEFINE w == [p \in ObjectId |-> Ledger!Part(b[p], a, Ledger!Opened(b[p]), 1)]
             v == [p \in ObjectId |-> Ledger!Part(c[p], a, Ledger!Opened(c[p]), 1)]
  <2>1. /\ w \in [ObjectId -> Nat] /\ v \in [ObjectId -> Nat]
        /\ \A p \in ObjectId \ {o} : v[p] = w[p]
        /\ bs.requested = w[o] /\ cs.requested = v[o]
    BY DEF Shares
  <2>2. bt.requested = Ledger!Total(w) /\ ct.requested = Ledger!Total(v)
    BY DEF Ledger!TotalsOf
  <2> HIDE DEF w, v, bt, ct, bs, cs
  <2> QED
    BY <2>1, <2>2, LedgerTotalUpdate
<1>6. ct.finalized = bt.finalized - bs.finalized + cs.finalized
  <2> DEFINE w == [p \in ObjectId |-> Ledger!Part(b[p], a, b[p].phase = "stored", 1)]
             v == [p \in ObjectId |-> Ledger!Part(c[p], a, c[p].phase = "stored", 1)]
  <2>1. /\ w \in [ObjectId -> Nat] /\ v \in [ObjectId -> Nat]
        /\ \A p \in ObjectId \ {o} : v[p] = w[p]
        /\ bs.finalized = w[o] /\ cs.finalized = v[o]
    BY DEF Shares
  <2>2. bt.finalized = Ledger!Total(w) /\ ct.finalized = Ledger!Total(v)
    BY DEF Ledger!TotalsOf
  <2> HIDE DEF w, v, bt, ct, bs, cs
  <2> QED
    BY <2>1, <2>2, LedgerTotalUpdate
<1>7. ct.failed = bt.failed - bs.failed + cs.failed
  <2> DEFINE w == [p \in ObjectId |-> Ledger!Part(b[p], a, b[p].phase = "failed", 1)]
             v == [p \in ObjectId |-> Ledger!Part(c[p], a, c[p].phase = "failed", 1)]
  <2>1. /\ w \in [ObjectId -> Nat] /\ v \in [ObjectId -> Nat]
        /\ \A p \in ObjectId \ {o} : v[p] = w[p]
        /\ bs.failed = w[o] /\ cs.failed = v[o]
    BY DEF Shares
  <2>2. bt.failed = Ledger!Total(w) /\ ct.failed = Ledger!Total(v)
    BY DEF Ledger!TotalsOf
  <2> HIDE DEF w, v, bt, ct, bs, cs
  <2> QED
    BY <2>1, <2>2, LedgerTotalUpdate
<1> QED
  BY <1>1, <1>2, <1>3, <1>4, <1>5, <1>6, <1>7 DEF Balanced

\* Which uploads the totals weigh, and by how much.
LEMMA BookWeighed == TypeOK => Weighed(Book)
<1> SUFFICES ASSUME TypeOK, NEW o \in ObjectId
             PROVE  /\ Book[o].bytes \in Nat /\ Book[o].cost \in Nat
                    /\ Book[o].stored \in Nat /\ Book[o].charge \in Nat
  BY DEF Weighed
<1>1. objects[o] \in StorageObject
  BY DEF TypeOK
<1>2. RequestedBytes(objects[o]) \in Nat /\ StoredBytes(objects[o]) \in Nat
  BY <1>1, RequestedBytesType, StoredBytesType DEF StorageObject
<1> QED
  BY <1>1, <1>2 DEF Book, BookEntry, StorageObject

\* Two records of totals are equal if they agree on each.
LEMMA EqualTotals ==
  ASSUME NEW a \in Account, NEW b, NEW u \in AccountUsage,
         NEW t, t = [pendingBytes |-> u.pendingBytes,
                     reservedCost |-> u.reservedCost,
                     activeBytes  |-> u.activeBytes,
                     actualCost   |-> u.totalActualCost,
                     requested    |-> u.totalRequestedUploads,
                     finalized    |-> u.totalFinalizedUploads,
                     failed       |-> u.totalFailedUploads],
         NEW s, NEW x, NEW y,
         Balanced(s, x, t, y), Balanced(s, x, Ledger!TotalsOf(b)[a], y)
  PROVE  t = Ledger!TotalsOf(b)[a]
BY DEF Balanced, Ledger!TotalsOf

\* A step that changes one upload keeps the totals if it moves the published
\* ones by that upload's contributions.
LEMMA LedgerKept ==
  ASSUME TypeOK, TypeOK', LedgerMatchesUploads, NEW o \in ObjectId,
         \A p \in ObjectId \ {o} : objects'[p] = objects[p],
         \A a \in Account :
           /\ Balanced(PublishedTotals[a], Shares(BookEntry(objects[o]), a),
                       PublishedTotals'[a], Shares(BookEntry(objects'[o]), a))
           /\ usage'[a].totalUploadedBytes = usage'[a].activeBytes
           /\ usage'[a].activeObjects = usage'[a].totalFinalizedUploads
  PROVE  LedgerMatchesUploads'
<1>1. Weighed(Book) /\ Weighed(Book')
  <2>1. Weighed(Book)'
    BY BookWeighed, PTL
  <2> QED
    BY <2>1, BookWeighed DEF Weighed
<1>2. /\ Book[o] = BookEntry(objects[o]) /\ Book'[o] = BookEntry(objects'[o])
      /\ \A p \in ObjectId \ {o} : Book'[p] = Book[p]
  BY DEF Book
<1>3. ASSUME NEW a \in Account
      PROVE  PublishedTotals'[a] = Ledger!TotalsOf(Book')[a]
  <2>1. Balanced(Ledger!TotalsOf(Book)[a], Shares(Book[o], a),
                 Ledger!TotalsOf(Book')[a], Shares(Book'[o], a))
    BY <1>1, <1>2, TotalsOfUpdate
  <2>2. Balanced(Ledger!TotalsOf(Book)[a], Shares(Book[o], a),
                 PublishedTotals'[a], Shares(Book'[o], a))
    BY <1>2 DEF LedgerMatchesUploads
  <2>3. usage'[a] \in AccountUsage
    BY DEF TypeOK
  <2>4. PublishedTotals'[a] =
          [pendingBytes |-> usage'[a].pendingBytes,
           reservedCost |-> usage'[a].reservedCost,
           activeBytes  |-> usage'[a].activeBytes,
           actualCost   |-> usage'[a].totalActualCost,
           requested    |-> usage'[a].totalRequestedUploads,
           finalized    |-> usage'[a].totalFinalizedUploads,
           failed       |-> usage'[a].totalFailedUploads]
    BY DEF PublishedTotals
  <2> QED
    BY <2>1, <2>2, <2>3, <2>4, EqualTotals
<1>4. PublishedTotals' = Ledger!TotalsOf(Book')
  BY <1>3 DEF PublishedTotals, Ledger!TotalsOf
<1> QED
  BY <1>4 DEF LedgerMatchesUploads, Ledger!TotalsOf

\* What a live upload reserved is in its account's counters.
LEMMA LiveReleasable ==
  ASSUME TypeOK, LedgerMatchesUploads, NEW o \in ObjectId,
         Live(objects[o].status),
         NEW a \in Account, a = objects[o].accountId
  PROVE  Releasable(usage[a], objects[o])
<1> DEFINE w == [p \in ObjectId |-> Ledger!Part(Book[p], a, Book[p].phase = "open",
                                                Book[p].bytes)]
           v == [p \in ObjectId |-> Ledger!Part(Book[p], a, Book[p].phase = "open",
                                                Book[p].cost)]
<1>1. w \in [ObjectId -> Nat] /\ v \in [ObjectId -> Nat]
  BY BookWeighed DEF Weighed, Ledger!Part
<1>2. w[o] = RequestedBytes(objects[o]) /\ v[o] = objects[o].reservedCost
  <2>1. Phase(objects[o].status) = "open"
    BY DEF Phase, Live, Stored
  <2> QED
    BY <2>1 DEF Book, BookEntry, Ledger!Part
<1>3. /\ usage[a].pendingBytes = Ledger!Total(w)
      /\ usage[a].reservedCost = Ledger!Total(v)
  <2>1. PublishedTotals[a] = Ledger!TotalsOf(Book)[a]
    BY DEF LedgerMatchesUploads
  <2>2. /\ PublishedTotals[a].pendingBytes = usage[a].pendingBytes
        /\ PublishedTotals[a].reservedCost = usage[a].reservedCost
    BY DEF PublishedTotals
  <2>3. /\ Ledger!TotalsOf(Book)[a].pendingBytes = Ledger!Total(w)
        /\ Ledger!TotalsOf(Book)[a].reservedCost = Ledger!Total(v)
    BY DEF Ledger!TotalsOf
  <2> QED
    BY <2>1, <2>2, <2>3
<1> HIDE DEF w, v
<1>4. w[o] <= Ledger!Total(w) /\ Ledger!Total(w) \in Nat
      /\ v[o] <= Ledger!Total(v) /\ Ledger!Total(v) \in Nat
  BY <1>1, LedgerTotalUpdate
<1>5. w[o] \in Nat /\ v[o] \in Nat
  BY <1>1
<1> QED
  BY <1>2, <1>3, <1>4, <1>5 DEF Releasable

LEMMA LedgerInit == Init => LedgerMatchesUploads
<1> SUFFICES ASSUME Init PROVE LedgerMatchesUploads
  OBVIOUS
<1>1. \A o \in ObjectId, a \in Account : Book[o].account # a
  BY ConstantsAssumption DEF Init, Book, BookEntry, NoObject
<1>2. ASSUME NEW w, w \in [ObjectId -> {0}]
      PROVE  Ledger!Total(w) = 0
  <2>1. w \in [ObjectId -> Nat] /\ \A o \in ObjectId : w[o] = 0
    BY <1>2
  <2> QED
    BY <2>1, TotalZero, LedgerTotal
<1>3. ASSUME NEW a \in Account
      PROVE  Ledger!TotalsOf(Book)[a] =
               [pendingBytes |-> 0, reservedCost |-> 0, activeBytes |-> 0,
                actualCost |-> 0, requested |-> 0, finalized |-> 0, failed |-> 0]
  BY <1>1, <1>2 DEF Ledger!TotalsOf, Ledger!Part
<1>4. PublishedTotals = Ledger!TotalsOf(Book)
  BY <1>3 DEF Init, PublishedTotals, NoUsage, Ledger!TotalsOf
<1> QED
  BY <1>4 DEF LedgerMatchesUploads, Init, NoUsage

\* An account without part in an upload is not moved by it.
LEMMA NoShares ==
  ASSUME NEW t, NEW x, NEW y, NEW a \in Account, NEW u \in AccountUsage,
         t = PublishedTotals[a], usage[a] = u,
         x.account # a, y.account # a
  PROVE  Balanced(t, Shares(x, a), t, Shares(y, a))
BY DEF Balanced, Shares, Ledger!Part, PublishedTotals, AccountUsage

\* The contributions of an entry, phase by phase.
LEMMA OpenShares ==
  ASSUME NEW obj, NEW a, obj.accountId = a, Live(obj.status)
  PROVE  Shares(BookEntry(obj), a) =
           [pendingBytes |-> RequestedBytes(obj),
            reservedCost |-> obj.reservedCost, activeBytes |-> 0,
            actualCost |-> 0, requested |-> 1, finalized |-> 0, failed |-> 0]
<1>1. Phase(obj.status) = "open"
  BY DEF Phase, Live, Stored
<1> QED
  BY <1>1 DEF Shares, BookEntry, Ledger!Part, Ledger!Opened, Ledger!Settled

LEMMA StoredShares ==
  ASSUME NEW obj, NEW a, obj.accountId = a, Stored(obj.status)
  PROVE  Shares(BookEntry(obj), a) =
           [pendingBytes |-> 0, reservedCost |-> 0,
            activeBytes |-> StoredBytes(obj), actualCost |-> obj.actualCost,
            requested |-> 1, finalized |-> 1, failed |-> 0]
<1>1. Phase(obj.status) = "stored"
  BY DEF Phase, Live, Stored
<1> QED
  BY <1>1 DEF Shares, BookEntry, Ledger!Part, Ledger!Opened, Ledger!Settled

LEMMA FailedShares ==
  ASSUME NEW obj, NEW a, obj.accountId = a, obj.status = "Failed"
  PROVE  Shares(BookEntry(obj), a) =
           [pendingBytes |-> 0, reservedCost |-> 0, activeBytes |-> 0,
            actualCost |-> obj.actualCost, requested |-> 1, finalized |-> 0,
            failed |-> 1]
<1>1. Phase(obj.status) = "failed"
  BY DEF Phase, Live, Stored
<1> QED
  BY <1>1 DEF Shares, BookEntry, Ledger!Part, Ledger!Opened, Ledger!Settled

LEMMA ReleasedShares ==
  ASSUME NEW obj, NEW a, obj.accountId = a, obj.status \in {"Cancelled", "Expired"}
  PROVE  Shares(BookEntry(obj), a) =
           [pendingBytes |-> 0, reservedCost |-> 0, activeBytes |-> 0,
            actualCost |-> 0, requested |-> 1, finalized |-> 0, failed |-> 0]
<1>1. Phase(obj.status) = "released"
  BY DEF Phase, Live, Stored
<1> QED
  BY <1>1 DEF Shares, BookEntry, Ledger!Part, Ledger!Opened, Ledger!Settled

LEMMA AbsentShares ==
  ASSUME NEW a \in Account
  PROVE  Shares(BookEntry(NoObject), a) =
           [pendingBytes |-> 0, reservedCost |-> 0, activeBytes |-> 0,
            actualCost |-> 0, requested |-> 0, finalized |-> 0, failed |-> 0]
BY ConstantsAssumption
DEF NoObject, Shares, BookEntry, Ledger!Part, Ledger!Opened, Ledger!Settled

\* What a request, a settlement and a release do to the counters.
LEMMA ReservedCounters ==
  ASSUME NEW u \in AccountUsage, NEW p
  PROVE  LET v == ReserveUsage(u, p) IN
           /\ v.pendingBytes = u.pendingBytes + RequestedBytes(p)
           /\ v.reservedCost = u.reservedCost + p.maxCost
           /\ v.totalRequestedUploads = u.totalRequestedUploads + 1
           /\ v.activeBytes = u.activeBytes
           /\ v.activeObjects = u.activeObjects
           /\ v.totalActualCost = u.totalActualCost
           /\ v.totalUploadedBytes = u.totalUploadedBytes
           /\ v.totalFinalizedUploads = u.totalFinalizedUploads
           /\ v.totalFailedUploads = u.totalFailedUploads
BY DEF ReserveUsage, AccountUsage

LEMMA ReleasedCounters ==
  ASSUME NEW u \in AccountUsage, NEW obj
  PROVE  LET v == ReleaseUsage(u, obj) IN
           /\ v.pendingBytes = u.pendingBytes - RequestedBytes(obj)
           /\ v.reservedCost = u.reservedCost - obj.reservedCost
           /\ v.totalRequestedUploads = u.totalRequestedUploads
           /\ v.activeBytes = u.activeBytes
           /\ v.activeObjects = u.activeObjects
           /\ v.totalActualCost = u.totalActualCost
           /\ v.totalUploadedBytes = u.totalUploadedBytes
           /\ v.totalFinalizedUploads = u.totalFinalizedUploads
           /\ v.totalFailedUploads = u.totalFailedUploads
BY DEF ReleaseUsage, AccountUsage

LEMMA SettledCounters ==
  ASSUME NEW u \in AccountUsage, NEW obj \in StorageObject,
         NEW done \in StorageObject, NEW charge \in Nat, Releasable(u, obj)
  PROVE  LET v == OutcomeUsage(ChargeUsage(ReleaseUsage(u, obj), charge), done) IN
           /\ v.pendingBytes = u.pendingBytes - RequestedBytes(obj)
           /\ v.reservedCost = u.reservedCost - obj.reservedCost
           /\ v.totalRequestedUploads = u.totalRequestedUploads
           /\ v.totalActualCost = u.totalActualCost + charge
           /\ IF Stored(done.status)
              THEN /\ v.activeBytes = u.activeBytes + StoredBytes(done)
                   /\ v.activeObjects = u.activeObjects + 1
                   /\ v.totalUploadedBytes = u.totalUploadedBytes + StoredBytes(done)
                   /\ v.totalFinalizedUploads = u.totalFinalizedUploads + 1
                   /\ v.totalFailedUploads = u.totalFailedUploads
              ELSE /\ v.activeBytes = u.activeBytes
                   /\ v.activeObjects = u.activeObjects
                   /\ v.totalUploadedBytes = u.totalUploadedBytes
                   /\ v.totalFinalizedUploads = u.totalFinalizedUploads
                   /\ v.totalFailedUploads = u.totalFailedUploads + 1
<1> DEFINE r == ReleaseUsage(u, obj)
           c == ChargeUsage(r, charge)
<1>1. r \in AccountUsage
  BY ReleaseUsageType
<1>2. c \in AccountUsage
  <2> HIDE DEF r
  <2>1. r.totalActualCost + charge \in Nat
    BY <1>1, UsageFields
  <2> QED
    BY <1>1, <2>1, UsageUpdateType DEF ChargeUsage
<1> HIDE DEF c, r
<1>3. /\ c.totalActualCost = r.totalActualCost + charge
      /\ c.pendingBytes = r.pendingBytes /\ c.reservedCost = r.reservedCost
      /\ c.totalRequestedUploads = r.totalRequestedUploads
      /\ c.activeBytes = r.activeBytes /\ c.activeObjects = r.activeObjects
      /\ c.totalUploadedBytes = r.totalUploadedBytes
      /\ c.totalFinalizedUploads = r.totalFinalizedUploads
      /\ c.totalFailedUploads = r.totalFailedUploads
  BY <1>1 DEF c, ChargeUsage, AccountUsage
<1>4. LET v == OutcomeUsage(c, done) IN
        /\ v.pendingBytes = c.pendingBytes /\ v.reservedCost = c.reservedCost
        /\ v.totalRequestedUploads = c.totalRequestedUploads
        /\ v.totalActualCost = c.totalActualCost
        /\ IF Stored(done.status)
           THEN /\ v.activeBytes = c.activeBytes + StoredBytes(done)
                /\ v.activeObjects = c.activeObjects + 1
                /\ v.totalUploadedBytes = c.totalUploadedBytes + StoredBytes(done)
                /\ v.totalFinalizedUploads = c.totalFinalizedUploads + 1
                /\ v.totalFailedUploads = c.totalFailedUploads
           ELSE /\ v.activeBytes = c.activeBytes
                /\ v.activeObjects = c.activeObjects
                /\ v.totalUploadedBytes = c.totalUploadedBytes
                /\ v.totalFinalizedUploads = c.totalFinalizedUploads
                /\ v.totalFailedUploads = c.totalFailedUploads + 1
  BY <1>2 DEF OutcomeUsage, AccountUsage
<1>5. /\ r.pendingBytes = u.pendingBytes - RequestedBytes(obj)
      /\ r.reservedCost = u.reservedCost - obj.reservedCost
      /\ r.totalRequestedUploads = u.totalRequestedUploads
      /\ r.activeBytes = u.activeBytes /\ r.activeObjects = u.activeObjects
      /\ r.totalActualCost = u.totalActualCost
      /\ r.totalUploadedBytes = u.totalUploadedBytes
      /\ r.totalFinalizedUploads = u.totalFinalizedUploads
      /\ r.totalFailedUploads = u.totalFailedUploads
  BY ReleasedCounters DEF r
<1>6. OutcomeUsage(c, done)
        = OutcomeUsage(ChargeUsage(ReleaseUsage(u, obj), charge), done)
  BY DEF c, r
<1> QED
  BY <1>3, <1>4, <1>5, <1>6

\* A step that changes one upload of account a moves only the totals of a,
\* and keeps the ledger if it moves those by what the upload contributes.
LEMMA LedgerKeptByAccount ==
  ASSUME TypeOK, TypeOK', LedgerMatchesUploads,
         NEW o \in ObjectId, NEW a \in Account,
         objects[o].accountId \in {a, Zero}, objects'[o].accountId = a,
         \A p \in ObjectId \ {o} : objects'[p] = objects[p],
         \A b \in Account \ {a} : usage'[b] = usage[b],
         Balanced(PublishedTotals[a], Shares(BookEntry(objects[o]), a),
                  PublishedTotals'[a], Shares(BookEntry(objects'[o]), a)),
         usage'[a].totalUploadedBytes = usage'[a].activeBytes,
         usage'[a].activeObjects = usage'[a].totalFinalizedUploads
  PROVE  LedgerMatchesUploads'
<1>1. ASSUME NEW b \in Account, b # a
      PROVE  /\ Balanced(PublishedTotals[b], Shares(BookEntry(objects[o]), b),
                         PublishedTotals'[b], Shares(BookEntry(objects'[o]), b))
             /\ usage'[b].totalUploadedBytes = usage'[b].activeBytes
             /\ usage'[b].activeObjects = usage'[b].totalFinalizedUploads
  <2>1. PublishedTotals'[b] = PublishedTotals[b]
    BY <1>1 DEF PublishedTotals
  <2>2. /\ BookEntry(objects[o]).account # b /\ BookEntry(objects'[o]).account # b
    BY <1>1, ConstantsAssumption DEF BookEntry
  <2>3. usage[b] \in AccountUsage
    BY DEF TypeOK
  <2> QED
    BY <1>1, <2>1, <2>2, <2>3, NoShares DEF LedgerMatchesUploads
<1>2. \A b \in Account :
        /\ Balanced(PublishedTotals[b], Shares(BookEntry(objects[o]), b),
                    PublishedTotals'[b], Shares(BookEntry(objects'[o]), b))
        /\ usage'[b].totalUploadedBytes = usage'[b].activeBytes
        /\ usage'[b].activeObjects = usage'[b].totalFinalizedUploads
  BY <1>1
<1> QED
  BY <1>2, LedgerKept

LEMMA RequestKeepsLedger ==
  ASSUME TypeOK, TypeOK', IssuedInOrder, LedgerMatchesUploads,
         NEW caller \in Address, NEW p \in Requests,
         NEW signer \in Address \cup {Zero}, RequestUpload(caller, p, signer)
  PROVE  LedgerMatchesUploads'
<1> DEFINE o == nextObjectId
           a == p.accountId
           u == usage[a]
           v == ReserveUsage(u, p)
<1>1. /\ o \in ObjectId /\ a \in Account /\ p \in RequestUploadParams
      /\ u \in AccountUsage /\ objects[o] = NoObject
  BY ConstantsAssumption, MaxObjectsAssumption
  DEF RequestUpload, RequestAccepted, ValidRequest, RequestUploadParams, TypeOK, ObjectId,
      IssuedInOrder
<1>2. /\ objects'[o] = RequestedObject(p)
      /\ \A q \in ObjectId \ {o} : objects'[q] = objects[q]
      /\ usage'[a] = v
      /\ \A b \in Account \ {a} : usage'[b] = usage[b]
  BY <1>1 DEF RequestUpload, RequestAccepted, TypeOK
<1>3. /\ RequestedObject(p).status = "Requested"
      /\ RequestedObject(p).accountId = a
      /\ RequestedObject(p).reservedCost = p.maxCost
      /\ RequestedBytes(RequestedObject(p)) = RequestedBytes(p)
  BY DEF RequestedObject, RequestedBytes
<1>4. Balanced(PublishedTotals[a], Shares(BookEntry(objects[o]), a),
               PublishedTotals'[a], Shares(BookEntry(objects'[o]), a))
  <2>1. Shares(BookEntry(objects'[o]), a) =
          [pendingBytes |-> RequestedBytes(p), reservedCost |-> p.maxCost,
           activeBytes |-> 0, actualCost |-> 0, requested |-> 1,
           finalized |-> 0, failed |-> 0]
    BY <1>2, <1>3, OpenShares DEF Live
  <2>2. RequestedBytes(p) \in Nat /\ p.maxCost \in Nat
    BY <1>1, RequestedBytesType DEF RequestUploadParams
  <2> HIDE DEF v, u, a
  <2> QED
    BY <1>1, <1>2, <2>1, <2>2, AbsentShares, ReservedCounters, UsageFields
    DEF Balanced, PublishedTotals, v, u
<1>5. /\ v.totalUploadedBytes = v.activeBytes
      /\ v.activeObjects = v.totalFinalizedUploads
  BY <1>1, ReservedCounters DEF LedgerMatchesUploads
<1>6. objects[o].accountId = Zero
  BY <1>1 DEF NoObject
<1> QED
  BY <1>1, <1>2, <1>3, <1>4, <1>5, <1>6, LedgerKeptByAccount

LEMMA SettlementKeepsLedger ==
  ASSUME TypeOK, TypeOK', IssuedInOrder, LedgerMatchesUploads,
         NEW o \in ObjectId, MutableObject(o),
         NEW obj, obj = objects[o], NEW a, a = obj.accountId,
         NEW done, done = objects'[o], NEW charge \in Nat,
         done.status \in FinalizationStatus, done.accountId = a,
         done.actualCost = charge,
         Releasable(usage[a], obj),
         \A p \in ObjectId \ {o} : objects'[p] = objects[p],
         usage' = [usage EXCEPT ![a] =
                     OutcomeUsage(ChargeUsage(ReleaseUsage(@, obj), charge), done)]
  PROVE  LedgerMatchesUploads'
<1> DEFINE u == usage[a]
           v == OutcomeUsage(ChargeUsage(ReleaseUsage(u, obj), charge), done)
<1>1. /\ obj \in StorageObject /\ done \in StorageObject /\ Live(obj.status)
  BY LiveIsMutable DEF TypeOK, LiveIds
<1>2. a \in Account /\ u \in AccountUsage
  BY <1>1 DEF IssuedInOrder, TypeOK, Live, NoObject
<1>3. usage'[a] = v /\ \A b \in Account \ {a} : usage'[b] = usage[b]
  BY <1>2 DEF TypeOK
<1>4. /\ RequestedBytes(obj) \in Nat /\ obj.reservedCost \in Nat
      /\ StoredBytes(done) \in Nat
  BY <1>1, RequestedBytesType, StoredBytesType DEF StorageObject
<1>5. Shares(BookEntry(obj), a) =
        [pendingBytes |-> RequestedBytes(obj), reservedCost |-> obj.reservedCost,
         activeBytes |-> 0, actualCost |-> 0, requested |-> 1, finalized |-> 0,
         failed |-> 0]
  BY <1>1, OpenShares
<1>6. u.totalUploadedBytes = u.activeBytes /\ u.activeObjects = u.totalFinalizedUploads
  BY <1>2 DEF LedgerMatchesUploads
<1> HIDE DEF u, v
<1>7. /\ PublishedTotals[a] =
           [pendingBytes |-> u.pendingBytes, reservedCost |-> u.reservedCost,
            activeBytes |-> u.activeBytes, actualCost |-> u.totalActualCost,
            requested |-> u.totalRequestedUploads,
            finalized |-> u.totalFinalizedUploads,
            failed |-> u.totalFailedUploads]
      /\ PublishedTotals'[a] =
           [pendingBytes |-> v.pendingBytes, reservedCost |-> v.reservedCost,
            activeBytes |-> v.activeBytes, actualCost |-> v.totalActualCost,
            requested |-> v.totalRequestedUploads,
            finalized |-> v.totalFinalizedUploads,
            failed |-> v.totalFailedUploads]
  BY <1>2, <1>3 DEF PublishedTotals, u
<1>8. Releasable(u, obj)
  BY DEF u
<1>9. CASE Stored(done.status)
  <2>1. Shares(BookEntry(done), a) =
          [pendingBytes |-> 0, reservedCost |-> 0,
           activeBytes |-> StoredBytes(done), actualCost |-> charge,
           requested |-> 1, finalized |-> 1, failed |-> 0]
    BY <1>9, StoredShares
  <2>2. Balanced(PublishedTotals[a], Shares(BookEntry(obj), a),
                 PublishedTotals'[a], Shares(BookEntry(done), a))
    <3>1. /\ v.pendingBytes = u.pendingBytes - RequestedBytes(obj)
          /\ v.reservedCost = u.reservedCost - obj.reservedCost
          /\ v.totalRequestedUploads = u.totalRequestedUploads
          /\ v.totalActualCost = u.totalActualCost + charge
          /\ v.activeBytes = u.activeBytes + StoredBytes(done)
          /\ v.totalFinalizedUploads = u.totalFinalizedUploads + 1
          /\ v.totalFailedUploads = u.totalFailedUploads
      BY <1>1, <1>2, <1>9, <1>8, SettledCounters DEF v
    <3> QED
      BY <1>2, <1>4, <1>5, <1>7, <2>1, <3>1, UsageFields DEF Balanced
  <2>3. v.totalUploadedBytes = v.activeBytes /\ v.activeObjects = v.totalFinalizedUploads
    BY <1>1, <1>2, <1>6, <1>9, SettledCounters DEF v, u
  <2> QED
    BY <1>2, <1>3, <2>2, <2>3, LedgerKeptByAccount
<1>10. CASE ~Stored(done.status)
  <2>1. done.status = "Failed"
    BY <1>10 DEF Stored, FinalizationStatus
  <2>2. Shares(BookEntry(done), a) =
          [pendingBytes |-> 0, reservedCost |-> 0, activeBytes |-> 0,
           actualCost |-> charge, requested |-> 1, finalized |-> 0, failed |-> 1]
    BY <2>1, FailedShares
  <2>3. Balanced(PublishedTotals[a], Shares(BookEntry(obj), a),
                 PublishedTotals'[a], Shares(BookEntry(done), a))
    <3>1. /\ v.pendingBytes = u.pendingBytes - RequestedBytes(obj)
          /\ v.reservedCost = u.reservedCost - obj.reservedCost
          /\ v.totalRequestedUploads = u.totalRequestedUploads
          /\ v.totalActualCost = u.totalActualCost + charge
          /\ v.activeBytes = u.activeBytes
          /\ v.totalFinalizedUploads = u.totalFinalizedUploads
          /\ v.totalFailedUploads = u.totalFailedUploads + 1
      BY <1>1, <1>2, <1>10, <1>8, SettledCounters DEF v
    <3> QED
      BY <1>2, <1>4, <1>5, <1>7, <2>2, <3>1, UsageFields DEF Balanced
  <2>4. v.totalUploadedBytes = v.activeBytes /\ v.activeObjects = v.totalFinalizedUploads
    BY <1>1, <1>2, <1>6, <1>10, SettledCounters DEF v, u
  <2> QED
    BY <1>2, <1>3, <2>3, <2>4, LedgerKeptByAccount
<1> QED
  BY <1>9, <1>10

LEMMA ReleaseKeepsLedger ==
  ASSUME TypeOK, TypeOK', IssuedInOrder, LedgerMatchesUploads,
         NEW o \in ObjectId, NEW status \in {"Cancelled", "Expired"},
         MutableObject(o), CloseUnsettled(o, status)
  PROVE  LedgerMatchesUploads'
<1> DEFINE obj  == objects[o]
           a    == obj.accountId
           done == [obj EXCEPT !.status = status]
           u    == usage[a]
           v    == ReleaseUsage(u, obj)
<1>1. /\ obj \in StorageObject /\ Live(obj.status)
  BY LiveIsMutable DEF TypeOK, LiveIds
<1>2. a \in Account /\ u \in AccountUsage
  BY <1>1 DEF IssuedInOrder, TypeOK, Live, NoObject
<1>3. /\ objects'[o] = done /\ \A q \in ObjectId \ {o} : objects'[q] = objects[q]
      /\ usage'[a] = v /\ \A b \in Account \ {a} : usage'[b] = usage[b]
  BY <1>2 DEF CloseUnsettled, TypeOK
<1>4. done.status = status /\ done.accountId = a
  BY <1>1 DEF StorageObject
<1>5. RequestedBytes(obj) \in Nat /\ obj.reservedCost \in Nat
  BY <1>1, RequestedBytesType DEF StorageObject
<1>6. Shares(BookEntry(obj), a) =
        [pendingBytes |-> RequestedBytes(obj), reservedCost |-> obj.reservedCost,
         activeBytes |-> 0, actualCost |-> 0, requested |-> 1, finalized |-> 0,
         failed |-> 0]
  BY <1>1, OpenShares
<1> HIDE DEF done
<1>7. Shares(BookEntry(done), a) =
        [pendingBytes |-> 0, reservedCost |-> 0, activeBytes |-> 0,
         actualCost |-> 0, requested |-> 1, finalized |-> 0, failed |-> 0]
  BY <1>4, ReleasedShares
<1>8. /\ PublishedTotals[a] =
           [pendingBytes |-> u.pendingBytes, reservedCost |-> u.reservedCost,
            activeBytes |-> u.activeBytes, actualCost |-> u.totalActualCost,
            requested |-> u.totalRequestedUploads,
            finalized |-> u.totalFinalizedUploads,
            failed |-> u.totalFailedUploads]
      /\ PublishedTotals'[a] =
           [pendingBytes |-> v.pendingBytes, reservedCost |-> v.reservedCost,
            activeBytes |-> v.activeBytes, actualCost |-> v.totalActualCost,
            requested |-> v.totalRequestedUploads,
            finalized |-> v.totalFinalizedUploads,
            failed |-> v.totalFailedUploads]
  BY <1>2, <1>3 DEF PublishedTotals
<1>9. u.totalUploadedBytes = u.activeBytes /\ u.activeObjects = u.totalFinalizedUploads
  BY <1>2 DEF LedgerMatchesUploads
<1> HIDE DEF u, v
<1>10. /\ v.pendingBytes = u.pendingBytes - RequestedBytes(obj)
       /\ v.reservedCost = u.reservedCost - obj.reservedCost
       /\ v.totalRequestedUploads = u.totalRequestedUploads
       /\ v.totalActualCost = u.totalActualCost
       /\ v.activeBytes = u.activeBytes /\ v.activeObjects = u.activeObjects
       /\ v.totalUploadedBytes = u.totalUploadedBytes
       /\ v.totalFinalizedUploads = u.totalFinalizedUploads
       /\ v.totalFailedUploads = u.totalFailedUploads
  BY <1>2, ReleasedCounters DEF v
<1>11. Balanced(PublishedTotals[a], Shares(BookEntry(obj), a),
                PublishedTotals'[a], Shares(BookEntry(done), a))
  BY <1>2, <1>5, <1>6, <1>7, <1>8, <1>10, UsageFields DEF Balanced
<1> HIDE DEF obj, a
<1>12. objects[o].accountId = a /\ objects[o] = obj
  BY DEF obj, a
<1> QED
  BY <1>2, <1>3, <1>4, <1>9, <1>10, <1>11, <1>12, LedgerKeptByAccount

\* A step that touches neither terms, phase nor counters keeps the ledger.
LEMMA SameBookKeepsLedger ==
  ASSUME LedgerMatchesUploads, Book' = Book, usage' = usage
  PROVE  LedgerMatchesUploads'
<1>1. PublishedTotals' = PublishedTotals
  BY DEF PublishedTotals
<1>2. Ledger!TotalsOf(Book') = Ledger!TotalsOf(Book)
  OBVIOUS
<1> QED
  BY <1>1, <1>2 DEF LedgerMatchesUploads, Ledger!TotalsOf, Ledger!Total,
                    Ledger!Units, Ledger!Part, Ledger!Opened, Ledger!Settled

LEMMA LedgerStep ==
  TypeOK /\ TypeOK' /\ IssuedInOrder /\ LedgerMatchesUploads /\ [Next]_vars
    => LedgerMatchesUploads'
<1> SUFFICES ASSUME TypeOK, TypeOK', IssuedInOrder, LedgerMatchesUploads,
                    [Next]_vars
             PROVE  LedgerMatchesUploads'
  OBVIOUS
<1>1. ASSUME NEW caller \in Address, NEW p \in Requests,
             NEW signer \in Address \cup {Zero}, RequestUpload(caller, p, signer)
      PROVE  LedgerMatchesUploads'
  BY <1>1, RequestKeepsLedger
<1>2. ASSUME NEW o \in ObjectId, NEW c \in Address, StartUpload(c, o)
      PROVE  LedgerMatchesUploads'
  <2>1. ASSUME NEW q \in ObjectId
        PROVE  BookEntry(objects'[q]) = BookEntry(objects[q])
    <3>1. CASE q # o
      BY <1>2, <3>1 DEF StartUpload, StartAccepted, TypeOK
    <3>2. CASE q = o
      <4> DEFINE obj == objects[o]
                 obz == [obj EXCEPT !.status = "Uploading", !.coordinator = c]
      <4>1. objects'[o] = obz /\ obj \in StorageObject /\ obj.status = "Requested"
        BY <1>2 DEF StartUpload, StartAccepted, TypeOK
      <4>2. /\ obz.accountId = obj.accountId /\ obz.status = "Uploading"
            /\ obz.idempotencyKey = obj.idempotencyKey
            /\ obz.requestExpiresAt = obj.requestExpiresAt
            /\ obz.size = obj.size /\ obz.requestedCopies = obj.requestedCopies
            /\ obz.completedCopies = obj.completedCopies
            /\ obz.reservedCost = obj.reservedCost
            /\ obz.actualCost = obj.actualCost
        BY <4>1 DEF StorageObject
      <4>3. Phase("Uploading") = Phase("Requested")
        BY DEF Phase, Live, Stored
      <4> HIDE DEF obz
      <4> QED
        BY <3>2, <4>1, <4>2, <4>3 DEF BookEntry, RequestedBytes, StoredBytes
    <3> QED
      BY <3>1, <3>2
  <2>2. Book' = Book
    BY <2>1 DEF Book
  <2> QED
    BY <1>2, <2>2, SameBookKeepsLedger DEF StartUpload, StartAccepted
<1>3. ASSUME NEW o \in ObjectId, NEW c \in Address, NEW r \in Receipts,
             FinalizeUpload(c, o, r)
      PROVE  LedgerMatchesUploads'
  <2> DEFINE obj  == objects[o]
             done == FinalizedObject(obj, c, r)
  <2>1. /\ r.finalizationStatus \in FinalizationStatus /\ r.actualCost \in Nat
        /\ obj \in StorageObject
    BY ConstantsAssumption DEF UploadReceipt, TypeOK
  <2>2. /\ done.status = r.finalizationStatus /\ done.accountId = obj.accountId
        /\ done.actualCost = r.actualCost
    BY <2>1 DEF FinalizedObject, StorageObject
  <2>3. objects' = [objects EXCEPT ![o] = done]
    BY <1>3 DEF FinalizeUpload, ReceiptAccepted
  <2>4. objects'[o] = done /\ \A q \in ObjectId \ {o} : objects'[q] = objects[q]
    BY <2>3 DEF TypeOK
  <2>5. /\ MutableObject(o) /\ Releasable(usage[obj.accountId], obj)
        /\ usage' = [usage EXCEPT ![obj.accountId] =
             OutcomeUsage(ChargeUsage(ReleaseUsage(@, obj), r.actualCost), done)]
    BY <1>3 DEF FinalizeUpload, ReceiptAccepted
  <2> HIDE DEF done
  <2> QED
    BY <2>1, <2>2, <2>4, <2>5, SettlementKeepsLedger
<1>4. ASSUME NEW o \in ObjectId, NEW c \in Address, NEW charge \in FailureCharges,
             FailUpload(c, o, charge)
      PROVE  LedgerMatchesUploads'
  <2> DEFINE obj  == objects[o]
             done == [obj EXCEPT !.status = "Failed", !.coordinator = c,
                                 !.actualCost = charge]
  <2>1. charge \in Nat /\ obj \in StorageObject
    BY ConstantsAssumption DEF TypeOK
  <2>2. /\ done.status \in FinalizationStatus /\ done.accountId = obj.accountId
        /\ done.actualCost = charge
    BY <2>1 DEF StorageObject, FinalizationStatus
  <2>3. objects' = [objects EXCEPT ![o] = done]
    BY <1>4 DEF FailUpload
  <2>4. objects'[o] = done /\ \A q \in ObjectId \ {o} : objects'[q] = objects[q]
    BY <2>3 DEF TypeOK
  <2>5. /\ MutableObject(o) /\ Releasable(usage[obj.accountId], obj)
        /\ usage' = [usage EXCEPT ![obj.accountId] =
             OutcomeUsage(ChargeUsage(ReleaseUsage(@, obj), charge), done)]
    BY <1>4 DEF FailUpload
  <2> HIDE DEF done
  <2> QED
    BY <2>1, <2>2, <2>4, <2>5, SettlementKeepsLedger
<1>5. ASSUME NEW o \in ObjectId, NEW status \in {"Cancelled", "Expired"},
             MutableObject(o), CloseUnsettled(o, status)
      PROVE  LedgerMatchesUploads'
  BY <1>5, ReleaseKeepsLedger
<1>6. ASSUME UNCHANGED uploadVars
      PROVE  LedgerMatchesUploads'
  BY <1>6, SameBookKeepsLedger DEF uploadVars, Book
<1>7. CASE UNCHANGED vars
  BY <1>6, <1>7 DEF vars
<1> QED
  BY <1>1, <1>2, <1>3, <1>4, <1>5, <1>6, <1>7
  DEF Next, Administration, CancelUpload, ExpireUpload, Tick, TransferOwnership, SetPolicy,
      SetCoordinator, SetRelayer, RecordDataset, DatasetAccepted

\* The counters of every account are at all times the sums over its uploads.
THEOREM LedgerCorrect == Spec => []LedgerMatchesUploads
<1>1. IndexMatchesStatus => IssuedInOrder
  BY DEF IndexMatchesStatus
<1> QED
  BY <1>1, TypeInit, TypeStep, IndexInit, IndexStep, LedgerInit, LedgerStep, PTL
  DEF Spec

\* No live upload can be blocked from closing by an underflow of a counter.
THEOREM ReleaseNeverUnderflows == Spec => []LiveUploadsReleasable
<1>1. TypeOK /\ IndexMatchesStatus /\ LedgerMatchesUploads
        => LiveUploadsReleasable
  <2> SUFFICES ASSUME TypeOK, IndexMatchesStatus, LedgerMatchesUploads,
                      NEW o \in ObjectId, Live(objects[o].status)
               PROVE  Releasable(usage[objects[o].accountId], objects[o])
    BY DEF LiveUploadsReleasable
  <2>1. objects[o].accountId \in Account
    BY DEF IndexMatchesStatus, IssuedInOrder, Live, NoObject
  <2> QED
    BY <2>1, LiveReleasable
<1> QED
  BY <1>1, TypeCorrect, IndexCorrect, LedgerCorrect, PTL

-----------------------------------------------------------------------------
(* Idempotency keys *)

\* No step changes the account or the key of an upload that was issued.
LEMMA ClaimsFixed ==
  ASSUME TypeOK, [Next]_vars,
         ~\E caller \in Address, p \in Requests, signer \in Address \cup {Zero} :
            RequestUpload(caller, p, signer)
  PROVE  /\ UNCHANGED <<nextObjectId, objectByIdempotencyKey, accountObjectList>>
         /\ \A o \in ObjectId :
              /\ objects'[o].accountId = objects[o].accountId
              /\ objects'[o].idempotencyKey = objects[o].idempotencyKey
<1> DEFINE Fixed == /\ UNCHANGED <<nextObjectId, objectByIdempotencyKey, accountObjectList>>
                    /\ \A o \in ObjectId :
                         /\ objects'[o].accountId = objects[o].accountId
                         /\ objects'[o].idempotencyKey = objects[o].idempotencyKey
<1> USE DEF TypeOK, StorageObject, requestVars
<1>1. ASSUME NEW o \in ObjectId, NEW c \in Address, StartUpload(c, o) PROVE Fixed
  BY <1>1 DEF StartUpload, StartAccepted
<1>2. ASSUME NEW o \in ObjectId, NEW c \in Address, NEW r \in Receipts,
             FinalizeUpload(c, o, r)
      PROVE  Fixed
  BY <1>2 DEF FinalizeUpload, ReceiptAccepted, FinalizedObject
<1>3. ASSUME NEW o \in ObjectId, NEW c \in Address, NEW charge \in FailureCharges,
             FailUpload(c, o, charge)
      PROVE  Fixed
  BY <1>3 DEF FailUpload
<1>4. ASSUME NEW o \in ObjectId, NEW status, CloseUnsettled(o, status) PROVE Fixed
  BY <1>4 DEF CloseUnsettled
<1>5. ASSUME UNCHANGED uploadVars PROVE Fixed
  BY <1>5 DEF uploadVars
<1>6. CASE UNCHANGED vars
  BY <1>5, <1>6 DEF vars
<1> QED
  BY <1>1, <1>2, <1>3, <1>4, <1>5, <1>6
  DEF Next, Administration, CancelUpload, ExpireUpload, Tick, TransferOwnership, SetPolicy,
      SetCoordinator, SetRelayer, RecordDataset, DatasetAccepted

LEMMA IdempotencyInit == Init => IdempotencyKeyNamesOneUpload
BY DEF Init, IdempotencyKeyNamesOneUpload, ObjectId

LEMMA IdempotencyStep ==
  TypeOK /\ IssuedInOrder /\ IdempotencyKeyNamesOneUpload /\ [Next]_vars
    => IdempotencyKeyNamesOneUpload'
<1> SUFFICES ASSUME TypeOK, IssuedInOrder, IdempotencyKeyNamesOneUpload,
                    [Next]_vars
             PROVE  IdempotencyKeyNamesOneUpload'
  OBVIOUS
<1>1. ASSUME NEW caller \in Address, NEW p \in Requests,
             NEW signer \in Address \cup {Zero}, RequestUpload(caller, p, signer)
      PROVE  IdempotencyKeyNamesOneUpload'
  <2> DEFINE n == nextObjectId
             a == p.accountId
             k == p.idempotencyKey
  <2>1. /\ n \in ObjectId /\ a \in Account /\ k \in IdempotencyKey
        /\ nextObjectId' = n + 1 /\ objectByIdempotencyKey[a][k] = 0
    BY <1>1, ConstantsAssumption, MaxObjectsAssumption
    DEF RequestUpload, RequestAccepted, ValidRequest, RequestUploadParams, TypeOK, ObjectId, Unclaimed
  <2>2. /\ objects'[n].accountId = a /\ objects'[n].idempotencyKey = k
        /\ \A q \in ObjectId \ {n} : objects'[q] = objects[q]
    BY <1>1, <2>1 DEF RequestUpload, RequestAccepted, RequestedObject, TypeOK
  <2>3. \A b \in Account, j \in IdempotencyKey :
          objectByIdempotencyKey'[b][j] =
            IF b = a /\ j = k THEN n ELSE objectByIdempotencyKey[b][j]
    BY <1>1, <2>1 DEF RequestUpload, RequestAccepted, TypeOK
  <2>4. ASSUME NEW b \in Account, NEW j \in IdempotencyKey,
               objectByIdempotencyKey'[b][j] # 0
        PROVE  LET o == objectByIdempotencyKey'[b][j]
               IN  /\ o < n + 1
                   /\ objects'[o].accountId = b /\ objects'[o].idempotencyKey = j
    <3>1. CASE b = a /\ j = k
      BY <2>1, <2>2, <2>3, <3>1 DEF ObjectId
    <3>2. CASE ~(b = a /\ j = k)
      <4> DEFINE o == objectByIdempotencyKey[b][j]
      <4>1. objectByIdempotencyKey'[b][j] = o /\ o # 0
        BY <2>3, <2>4, <3>2
      <4>2. o < n /\ objects[o].accountId = b /\ objects[o].idempotencyKey = j
        BY <4>1 DEF IdempotencyKeyNamesOneUpload
      <4>3. o \in ObjectId \ {n}
        BY <2>1, <4>1, <4>2, MaxObjectsAssumption DEF TypeOK, NodeId, ObjectId
      <4> QED
        BY <2>1, <2>2, <4>1, <4>2, <4>3 DEF ObjectId
    <3> QED
      BY <3>1, <3>2
  <2>5. ASSUME NEW o \in ObjectId, o < n + 1
        PROVE  objectByIdempotencyKey'[objects'[o].accountId]
                                      [objects'[o].idempotencyKey] = o
    <3>1. CASE o = n
      BY <2>1, <2>2, <2>3, <3>1
    <3>2. CASE o # n
      <4>1. o < n
        BY <2>1, <2>5, <3>2 DEF ObjectId
      <4>2. /\ objects[o].accountId \in Account
            /\ objects[o].idempotencyKey \in IdempotencyKey
            /\ objectByIdempotencyKey[objects[o].accountId]
                                     [objects[o].idempotencyKey] = o
        BY <4>1 DEF IssuedInOrder, IdempotencyKeyNamesOneUpload
      <4>3. o # 0
        BY DEF ObjectId
      <4> QED
        BY <2>1, <2>2, <2>3, <3>2, <4>2, <4>3
    <3> QED
      BY <3>1, <3>2
  <2> QED
    BY <2>1, <2>4, <2>5 DEF IdempotencyKeyNamesOneUpload
<1>2. CASE ~\E caller \in Address, p \in Requests, signer \in Address \cup {Zero} :
              RequestUpload(caller, p, signer)
  <2>1. /\ nextObjectId' = nextObjectId
        /\ objectByIdempotencyKey' = objectByIdempotencyKey
        /\ \A o \in ObjectId :
              /\ objects'[o].accountId = objects[o].accountId
              /\ objects'[o].idempotencyKey = objects[o].idempotencyKey
    BY <1>2, ClaimsFixed
  <2>2. \A a \in Account, k \in IdempotencyKey :
          objectByIdempotencyKey[a][k] # 0 => objectByIdempotencyKey[a][k] \in ObjectId
    BY DEF TypeOK, NodeId, ObjectId
  <2> QED
    BY <2>1, <2>2 DEF IdempotencyKeyNamesOneUpload
<1> QED
  BY <1>1, <1>2

\* Of all the requests ever made under an account and a key, one was granted,
\* and getObjectByIdempotencyKey names it for ever.
THEOREM IdempotencyCorrect == Spec => []IdempotencyKeyNamesOneUpload
<1>1. IndexMatchesStatus => IssuedInOrder
  BY DEF IndexMatchesStatus
<1> QED
  BY <1>1, TypeInit, TypeStep, IndexInit, IndexStep, IdempotencyInit,
     IdempotencyStep, PTL
  DEF Spec

-----------------------------------------------------------------------------
(* The terms of live uploads *)

(* A live upload asks for some bytes in some copies.                      *)
Terms(obj) == Live(obj.status) => obj.size # 0 /\ obj.requestedCopies # 0

TermsInv == \A o \in ObjectId : Terms(objects[o])

LEMMA RequestedTerms ==
  ASSUME TypeOK, IssuedInOrder, NEW caller \in Address, NEW p \in Requests,
         NEW signer \in Address \cup {Zero}, RequestUpload(caller, p, signer)
  PROVE  /\ nextObjectId \in ObjectId /\ objects[nextObjectId] = NoObject
         /\ p \in RequestUploadParams /\ p.accountId \in Account
         /\ p.idempotencyKey \in IdempotencyKey
         /\ p.size # 0 /\ p.requestedCopies # 0
         /\ objects'[nextObjectId] = RequestedObject(p)
         /\ \A q \in ObjectId \ {nextObjectId} : objects'[q] = objects[q]
<1>1. nextObjectId \in ObjectId
  BY MaxObjectsAssumption DEF RequestUpload, RequestAccepted, TypeOK, ObjectId
<1>2. /\ p \in RequestUploadParams /\ p.accountId \in Account
      /\ p.idempotencyKey \in IdempotencyKey
      /\ p.size # 0 /\ p.requestedCopies # 0
  BY ConstantsAssumption DEF RequestUpload, RequestAccepted, ValidRequest, RequestUploadParams
<1>3. objects[nextObjectId] = NoObject
  BY <1>1 DEF IssuedInOrder, ObjectId
<1> QED
  BY <1>1, <1>2, <1>3 DEF RequestUpload, RequestAccepted, TypeOK

LEMMA TermsInit == Init => TermsInv
BY DEF Init, TermsInv, Terms, NoObject, Live

LEMMA TermsStep ==
  TypeOK /\ IssuedInOrder /\ TermsInv /\ [Next]_vars => TermsInv'
<1> SUFFICES ASSUME TypeOK, IssuedInOrder, TermsInv, [Next]_vars
             PROVE  TermsInv'
  OBVIOUS
<1>1. ASSUME NEW o \in ObjectId, NEW done, Terms(done),
             objects' = [objects EXCEPT ![o] = done]
      PROVE  TermsInv'
  BY <1>1 DEF TermsInv, TypeOK
<1>2. ASSUME NEW caller \in Address, NEW p \in Requests,
             NEW signer \in Address \cup {Zero}, RequestUpload(caller, p, signer)
      PROVE  TermsInv'
  <2>1. /\ nextObjectId \in ObjectId /\ p.size # 0 /\ p.requestedCopies # 0
    BY <1>2, RequestedTerms
  <2>2. Terms(RequestedObject(p))
    BY <2>1 DEF Terms, RequestedObject
  <2> QED
    BY <1>1, <1>2, <2>1, <2>2 DEF RequestUpload, RequestAccepted
<1>3. ASSUME NEW o \in ObjectId, NEW c \in Address, StartUpload(c, o)
      PROVE  TermsInv'
  <2> DEFINE done == [objects[o] EXCEPT !.status = "Uploading", !.coordinator = c]
  <2>1. /\ objects[o] \in StorageObject /\ Terms(objects[o])
        /\ Live(objects[o].status)
    BY <1>3 DEF TypeOK, TermsInv, StartUpload, StartAccepted, Live
  <2>2. Terms(done)
    BY <2>1 DEF Terms, StorageObject
  <2>3. objects' = [objects EXCEPT ![o] = done]
    BY <1>3 DEF StartUpload, StartAccepted, TypeOK
  <2> HIDE DEF done
  <2> QED
    BY <1>1, <2>2, <2>3
<1>4. ASSUME NEW o \in ObjectId, NEW done, ~Live(done.status),
             objects' = [objects EXCEPT ![o] = done]
      PROVE  TermsInv'
  BY <1>1, <1>4 DEF Terms
<1>5. ASSUME NEW o \in ObjectId, NEW c \in Address, NEW r \in Receipts,
             FinalizeUpload(c, o, r)
      PROVE  TermsInv'
  <2>1. objects[o] \in StorageObject /\ r \in UploadReceipt
    BY ConstantsAssumption DEF TypeOK
  <2>2. ~Live(FinalizedObject(objects[o], c, r).status)
    BY <2>1 DEF FinalizedObject, StorageObject, UploadReceipt,
                FinalizationStatus, Live
  <2>3. objects' = [objects EXCEPT ![o] = FinalizedObject(objects[o], c, r)]
    BY <1>5 DEF FinalizeUpload, ReceiptAccepted
  <2> QED
    BY <1>4, <2>2, <2>3
<1>6. ASSUME NEW o \in ObjectId, NEW c \in Address, NEW charge \in FailureCharges,
             FailUpload(c, o, charge)
      PROVE  TermsInv'
  <2> DEFINE done == [objects[o] EXCEPT !.status = "Failed", !.coordinator = c,
                                        !.actualCost = charge]
  <2>1. objects[o] \in StorageObject
    BY DEF TypeOK
  <2>2. ~Live(done.status)
    BY <2>1 DEF StorageObject, Live
  <2>3. objects' = [objects EXCEPT ![o] = done]
    BY <1>6 DEF FailUpload
  <2> HIDE DEF done
  <2> QED
    BY <1>4, <2>2, <2>3
<1>7. ASSUME NEW o \in ObjectId, NEW status \in {"Cancelled", "Expired"},
             CloseUnsettled(o, status)
      PROVE  TermsInv'
  <2> DEFINE done == [objects[o] EXCEPT !.status = status]
  <2>1. objects[o] \in StorageObject
    BY DEF TypeOK
  <2>2. ~Live(done.status)
    BY <2>1 DEF StorageObject, Live
  <2>3. objects' = [objects EXCEPT ![o] = done]
    BY <1>7 DEF CloseUnsettled, TypeOK
  <2> HIDE DEF done
  <2> QED
    BY <1>4, <2>2, <2>3
<1>8. ASSUME UNCHANGED uploadVars PROVE TermsInv'
  BY <1>8 DEF uploadVars, TermsInv
<1>9. CASE UNCHANGED vars
  BY <1>8, <1>9 DEF vars
<1> QED
  BY <1>2, <1>3, <1>5, <1>6, <1>7, <1>8, <1>9
  DEF Next, Administration, CancelUpload, ExpireUpload, Tick, TransferOwnership,
      SetPolicy, SetCoordinator, SetRelayer, RecordDataset, DatasetAccepted
-----------------------------------------------------------------------------
(* Outcomes: how an upload ended *)

(* Of one upload: its terms, how it ended, and what its receipt recorded. *)
Outcome(obj, recorded) ==
  /\ obj.maxCost = obj.reservedCost
  /\ obj.status = "Committed" => obj.completedCopies = obj.requestedCopies
  /\ obj.status = "Partial" => /\ 0 < obj.completedCopies
                               /\ obj.completedCopies < obj.requestedCopies
  /\ ~Stored(obj.status) => obj.completedCopies = 0
  /\ obj.actualCost <= obj.reservedCost
  /\ ~Stored(obj.status) /\ obj.status # "Failed" => obj.actualCost = 0
  /\ recorded.copies = obj.completedCopies
  /\ Stored(obj.status) => recorded.payer # Zero
  /\ recorded.payer # Zero => Stored(obj.status) \/ obj.status = "Failed"
  /\ obj.coordinator = Zero =>
       obj.status \in {"None", "Requested", "Cancelled", "Expired"}

Outcomes == \A o \in ObjectId : Outcome(objects[o], receipts[o])

LEMMA OutcomesConsistent == Outcomes => OutcomeConsistent
<1> SUFFICES ASSUME Outcomes, NEW o \in ObjectId
             PROVE  LET obj == objects[o]
                    IN  /\ CASE obj.status = "Committed" ->
                                  obj.completedCopies = obj.requestedCopies
                             [] obj.status = "Partial" ->
                                  /\ 0 < obj.completedCopies
                                  /\ obj.completedCopies < obj.requestedCopies
                             [] OTHER -> obj.completedCopies = 0
                        /\ obj.actualCost <= obj.reservedCost
                        /\ ~Stored(obj.status) /\ obj.status # "Failed" =>
                             obj.actualCost = 0
                        /\ receipts[o].copies = obj.completedCopies
                        /\ Stored(obj.status) => receipts[o].payer # Zero
                        /\ receipts[o].payer # Zero =>
                             Stored(obj.status) \/ obj.status = "Failed"
                        /\ obj.coordinator = Zero =>
                             obj.status \in {"None", "Requested", "Cancelled", "Expired"}
  BY DEF OutcomeConsistent
<1> Outcome(objects[o], receipts[o])
  BY DEF Outcomes
<1> QED
  BY DEF Outcome, Stored

LEMMA OutcomesInit == Init => Outcomes
BY DEF Init, Outcomes, Outcome, NoObject, Stored

\* A step that changes at most one upload keeps the outcomes of the others.
LEMMA OutcomesByUpload ==
  ASSUME Outcomes, NEW o \in ObjectId, Outcome(objects'[o], receipts'[o]),
         \A q \in ObjectId \ {o} :
           objects'[q] = objects[q] /\ receipts'[q] = receipts[q]
  PROVE  Outcomes'
BY DEF Outcomes

\* What each outcome says of the copies.
LEMMA CopiesOfStatus ==
  ASSUME NEW obj, NEW r
  PROVE  /\ r.finalizationStatus = "Committed" =>
              (CopiesMatchStatus(obj, r) <=> r.completedCopies = obj.requestedCopies)
         /\ r.finalizationStatus = "Partial" =>
              (CopiesMatchStatus(obj, r) <=>
                 r.completedCopies # 0 /\ r.completedCopies < obj.requestedCopies)
         /\ r.finalizationStatus = "Failed" =>
              (CopiesMatchStatus(obj, r) <=> r.completedCopies = 0)
<1>1. CASE r.finalizationStatus = "Committed"
  BY <1>1, Zenon DEF CopiesMatchStatus
<1>2. CASE r.finalizationStatus = "Partial"
  BY <1>2, Zenon DEF CopiesMatchStatus
<1>3. CASE r.finalizationStatus = "Failed"
  BY <1>3, Zenon DEF CopiesMatchStatus
<1> QED
  BY <1>1, <1>2, <1>3

\* An upload that is requested has nothing recorded.
LEMMA RequestKeepsOutcomes ==
  ASSUME TypeOK, IssuedInOrder, Outcomes, NEW caller \in Address,
         NEW p \in Requests, NEW signer \in Address \cup {Zero},
         RequestUpload(caller, p, signer)
  PROVE  Outcomes'
<1> DEFINE n == nextObjectId
<1>1. n \in ObjectId /\ p.maxCost \in Nat
  BY ConstantsAssumption, MaxObjectsAssumption
  DEF RequestUpload, RequestAccepted, RequestUploadParams, TypeOK, ObjectId
<1>2. objects[n].status = "None" /\ objects[n].completedCopies = 0
  BY <1>1 DEF IssuedInOrder, NoObject, ObjectId
<1>3. receipts[n].payer = Zero /\ receipts[n].copies = 0
  BY <1>1, <1>2 DEF Outcomes, Outcome, Stored
<1>4. /\ objects'[n] = RequestedObject(p)
      /\ \A q \in ObjectId \ {n} : objects'[q] = objects[q]
      /\ receipts' = receipts
  BY <1>1 DEF RequestUpload, RequestAccepted, TypeOK
<1>5. Outcome(RequestedObject(p), receipts[n])
  BY <1>1, <1>3 DEF Outcome, RequestedObject, Stored
<1> QED
  BY <1>1, <1>4, <1>5, OutcomesByUpload

LEMMA StartKeepsOutcomes ==
  ASSUME TypeOK, Outcomes, NEW c \in Address, NEW o \in ObjectId,
         StartUpload(c, o)
  PROVE  Outcomes'
<1>1. /\ objects'[o] = [objects[o] EXCEPT !.status = "Uploading",
                                          !.coordinator = c]
      /\ \A q \in ObjectId \ {o} : objects'[q] = objects[q]
      /\ receipts' = receipts
  BY DEF StartUpload, StartAccepted, TypeOK
<1>2. objects[o] \in StorageObject /\ objects[o].status = "Requested"
  BY DEF StartUpload, StartAccepted, TypeOK
<1>3. Outcome(objects[o], receipts[o])
  BY DEF Outcomes
<1>4. c # Zero
  BY ConstantsAssumption
<1>5. Outcome(objects'[o], receipts'[o])
  BY <1>1, <1>2, <1>3, <1>4 DEF Outcome, Stored, StorageObject
<1> QED
  BY <1>1, <1>5, OutcomesByUpload

LEMMA FinalizeKeepsOutcomes ==
  ASSUME TypeOK, Outcomes, NEW c \in Address, NEW o \in ObjectId,
         NEW r \in Receipts, FinalizeUpload(c, o, r)
  PROVE  Outcomes'
<1> DEFINE obj == objects[o]
<1>1. /\ objects'[o] = FinalizedObject(obj, c, r)
      /\ receipts'[o].payer = r.payer
      /\ receipts'[o].copies = receipts[o].copies + r.copies
      /\ \A q \in ObjectId \ {o} :
           objects'[q] = objects[q] /\ receipts'[q] = receipts[q]
  BY DEF FinalizeUpload, ReceiptAccepted, TypeOK
<1>2. obj \in StorageObject /\ r \in UploadReceipt /\ c # Zero
  BY ConstantsAssumption DEF TypeOK
<1>3. /\ MutableObject(o) /\ ValidReceipt(obj, r) /\ CopiesMatchStatus(obj, r)
      /\ r.actualCost <= obj.reservedCost
  BY DEF FinalizeUpload, ReceiptAccepted
<1>4. Outcome(obj, receipts[o]) /\ ~Stored(obj.status)
  BY <1>3 DEF Outcomes, MutableObject, Terminal, Stored, FinalizationStatus
<1>5. receipts[o].copies = 0
  BY <1>4 DEF Outcome
<1>6. receipts'[o].copies = r.completedCopies /\ receipts'[o].payer # Zero
  BY <1>1, <1>2, <1>3, <1>5 DEF ValidReceipt, UploadReceipt
<1>7. /\ objects'[o].status = r.finalizationStatus
      /\ objects'[o].coordinator = c
      /\ objects'[o].completedCopies = r.completedCopies
      /\ objects'[o].actualCost = r.actualCost
      /\ objects'[o].requestedCopies = obj.requestedCopies
      /\ objects'[o].reservedCost = obj.reservedCost
      /\ objects'[o].maxCost = obj.maxCost
  BY <1>1, <1>2 DEF FinalizedObject, StorageObject
<1>8. r.finalizationStatus \in FinalizationStatus /\ r.completedCopies \in Nat
  BY <1>2 DEF UploadReceipt
<1>9. /\ r.finalizationStatus = "Committed" =>
           r.completedCopies = obj.requestedCopies
      /\ r.finalizationStatus = "Partial" =>
           r.completedCopies > 0 /\ r.completedCopies < obj.requestedCopies
      /\ r.finalizationStatus = "Failed" => r.completedCopies = 0
  BY <1>2, <1>3, <1>8, CopiesOfStatus DEF FinalizationStatus
<1>10. Outcome(objects'[o], receipts'[o])
  BY <1>2, <1>3, <1>4, <1>6, <1>7, <1>8, <1>9
  DEF Outcome, Stored, FinalizationStatus
<1> QED
  BY <1>1, <1>10, OutcomesByUpload

\* What closes an upload without a receipt: a failure, or a status that
\* releases it.
LEMMA ClosedOutcome ==
  ASSUME NEW obj \in StorageObject, NEW recorded, Outcome(obj, recorded),
         NEW done \in StorageObject, Live(obj.status),
         done.status \in {"Failed", "Cancelled", "Expired"},
         done.completedCopies = obj.completedCopies,
         done.maxCost = obj.maxCost, done.reservedCost = obj.reservedCost,
         done.actualCost <= done.reservedCost,
         done.status # "Failed" => done.actualCost = 0,
         done.coordinator = Zero => done.status \in {"Cancelled", "Expired"}
  PROVE  Outcome(done, recorded)
BY DEF Outcome, Stored, Live

LEMMA FailKeepsOutcomes ==
  ASSUME TypeOK, Outcomes, NEW c \in Address, NEW o \in ObjectId,
         NEW charge \in FailureCharges, FailUpload(c, o, charge)
  PROVE  Outcomes'
<1> DEFINE obj == objects[o]
           done == [obj EXCEPT !.status = "Failed", !.coordinator = c,
                               !.actualCost = charge]
<1>1. /\ objects'[o] = done
      /\ \A q \in ObjectId \ {o} : objects'[q] = objects[q]
      /\ receipts' = receipts
  BY DEF FailUpload, TypeOK
<1>2. obj \in StorageObject /\ charge \in Nat /\ c # Zero
  BY ConstantsAssumption DEF TypeOK
<1>3. done \in StorageObject
  BY <1>2, ObjectUpdateType DEF UploadStatus, FinalizationStatus
<1>4. Live(obj.status)
  BY LiveIsMutable DEF FailUpload, LiveIds
<1>5. charge <= obj.reservedCost
  BY DEF FailUpload, FailureChargeAllowed
<1>6. /\ done.status = "Failed" /\ done.coordinator = c
      /\ done.completedCopies = obj.completedCopies
      /\ done.maxCost = obj.maxCost /\ done.reservedCost = obj.reservedCost
      /\ done.actualCost = charge
  BY <1>2 DEF StorageObject
<1>7. Outcome(obj, receipts[o])
  BY DEF Outcomes
<1> HIDE DEF done
<1>8. Outcome(done, receipts[o])
  BY <1>2, <1>3, <1>4, <1>5, <1>6, <1>7, ClosedOutcome
<1> QED
  BY <1>1, <1>8, OutcomesByUpload

LEMMA ReleaseKeepsOutcomes ==
  ASSUME TypeOK, Outcomes, NEW o \in ObjectId, MutableObject(o),
         NEW status \in {"Cancelled", "Expired"}, CloseUnsettled(o, status)
  PROVE  Outcomes'
<1> DEFINE obj == objects[o]
           done == [obj EXCEPT !.status = status]
<1>1. /\ objects'[o] = done
      /\ \A q \in ObjectId \ {o} : objects'[q] = objects[q]
      /\ receipts' = receipts
  BY DEF CloseUnsettled, TypeOK
<1>2. obj \in StorageObject
  BY DEF TypeOK
<1>3. done \in StorageObject
  BY <1>2, ObjectUpdateType DEF UploadStatus, FinalizationStatus
<1>4. Live(obj.status)
  BY LiveIsMutable DEF LiveIds
<1>5. Outcome(obj, receipts[o])
  BY DEF Outcomes
<1>6. obj.actualCost = 0
  BY <1>4, <1>5 DEF Outcome, Stored, Live
<1>7. /\ done.status = status
      /\ done.completedCopies = obj.completedCopies
      /\ done.maxCost = obj.maxCost /\ done.reservedCost = obj.reservedCost
      /\ done.actualCost = 0
  BY <1>2, <1>6 DEF StorageObject
<1>8. done.actualCost <= done.reservedCost
  BY <1>5, <1>6, <1>7 DEF Outcome
<1> HIDE DEF done
<1>9. Outcome(done, receipts[o])
  BY <1>2, <1>3, <1>4, <1>5, <1>7, <1>8, ClosedOutcome
<1> QED
  BY <1>1, <1>9, OutcomesByUpload

LEMMA OutcomesStep ==
  TypeOK /\ IssuedInOrder /\ Outcomes /\ [Next]_vars => Outcomes'
<1> SUFFICES ASSUME TypeOK, IssuedInOrder, Outcomes, [Next]_vars
             PROVE  Outcomes'
  OBVIOUS
<1>1. ASSUME UNCHANGED <<objects, receipts>> PROVE Outcomes'
  BY <1>1 DEF Outcomes
<1>2. CASE UNCHANGED vars
  BY <1>1, <1>2 DEF vars, uploadVars
<1>3. CASE Tick
  BY <1>1, <1>3 DEF Tick, uploadVars
<1>4. CASE Administration
  BY <1>1, <1>4 DEF Administration, TransferOwnership, SetPolicy, SetCoordinator,
                    SetRelayer, RecordDataset, DatasetAccepted, uploadVars
<1>5. ASSUME NEW o \in ObjectId, NEW caller \in Address, CancelUpload(caller, o)
      PROVE  Outcomes'
  BY <1>5, ReleaseKeepsOutcomes DEF CancelUpload
<1>6. ASSUME NEW o \in ObjectId, ExpireUpload(o) PROVE Outcomes'
  BY <1>6, ReleaseKeepsOutcomes DEF ExpireUpload
<1> QED
  BY <1>2, <1>3, <1>4, <1>5, <1>6, RequestKeepsOutcomes, StartKeepsOutcomes,
     FinalizeKeepsOutcomes, FailKeepsOutcomes
  DEF Next

LEMMA OutcomesAlways == Spec => []Outcomes
<1>1. IndexMatchesStatus => IssuedInOrder
  BY DEF IndexMatchesStatus
<1> QED
  BY <1>1, TypeInit, TypeStep, IndexInit, IndexStep, OutcomesInit, OutcomesStep,
     PTL
  DEF Spec

\* Whatever raced to close an upload, its status, copies, charge, payer and
\* coordinator tell one story (finalizeUpload, failUpload, _closeUnsettled).
THEOREM OutcomeCorrect == Spec => []OutcomeConsistent
BY OutcomesAlways, OutcomesConsistent, PTL

-----------------------------------------------------------------------------
(* The lists the registry enumerates: accounts, datasets, coordinators and *)
(* relayers, each once, none missing.                                      *)

\* A guarded push adds its element once.
LEMMA AddKnownEnumerates ==
  ASSUME NEW T, NEW list \in Seq(T), NEW x \in T, NEW S, Enumerates(list, S)
  PROVE  Enumerates(AddKnown(list, x), S \cup {x})
<1>1. CASE x \in Range(list)
  BY <1>1 DEF AddKnown, Enumerates
<1>2. CASE x \notin Range(list)
  <2> DEFINE n == Len(list)
             longer == Append(list, x)
  <2>1. /\ n \in Nat /\ DOMAIN list = 1..n /\ DOMAIN longer = 1..(n + 1)
        /\ longer[n + 1] = x /\ \A i \in 1..n : longer[i] = list[i]
    OBVIOUS
  <2>2. \A i \in 1..n : list[i] # x
    BY <1>2, <2>1 DEF Range
  <2> HIDE DEF longer, n
  <2>3. \A i, j \in DOMAIN longer : longer[i] = longer[j] => i = j
    <3>1. ASSUME NEW i \in 1..(n + 1), NEW j \in 1..(n + 1), longer[i] = longer[j]
          PROVE  i = j
      <4>1. CASE i \in 1..n /\ j \in 1..n
        BY <2>1, <3>1, <4>1 DEF Enumerates
      <4>2. CASE i = n + 1 /\ j \in 1..n
        BY <2>1, <2>2, <3>1, <4>2
      <4>3. CASE i \in 1..n /\ j = n + 1
        BY <2>1, <2>2, <3>1, <4>3
      <4> QED
        BY <2>1, <3>1, <4>1, <4>2, <4>3
    <3> QED
      BY <2>1, <3>1
  <2>4. Range(longer) = S \cup {x}
    <3>1. ASSUME NEW y \in Range(longer) PROVE y \in S \cup {x}
      <4>1. PICK i \in 1..(n + 1) : y = longer[i]
        BY <2>1, <3>1 DEF Range
      <4>2. i \in 1..n \/ i = n + 1
        BY <2>1, <4>1
      <4> QED
        BY <2>1, <4>1, <4>2 DEF Enumerates, Range
    <3>2. ASSUME NEW y \in S PROVE y \in Range(longer)
      <4>1. PICK i \in 1..n : y = list[i]
        BY <2>1, <3>2 DEF Enumerates, Range
      <4>2. i \in 1..(n + 1)
        BY <2>1, <4>1
      <4> QED
        BY <2>1, <4>1, <4>2 DEF Range
    <3>3. x \in Range(longer)
      BY <2>1 DEF Range
    <3> QED
      BY <3>1, <3>2, <3>3
  <2> QED
    BY <1>2, <2>3, <2>4 DEF AddKnown, Enumerates, longer
<1> QED
  BY <1>1, <1>2

-----------------------------------------------------------------------------
(* The four lists *)

RequestedAccounts == {a \in Account : IssuedTo(a) # {}}
RecordedDatasets  == {k \in Account \X Dataset : datasets[k[1]][k[2]].updatedAt # 0}

AccountsExact == Enumerates(accountIds, RequestedAccounts)
DatasetsExact == now > 0 /\ Enumerates(datasetKeys, RecordedDatasets)
CoordinatorsExact ==
  /\ Enumerates(coordinatorAddresses, Range(coordinatorAddresses))
  /\ {c \in Address : coordinatorPolicies[c].allowed}
       \subseteq Range(coordinatorAddresses)
RelayersExact ==
  /\ Enumerates(relayerAddresses, Range(relayerAddresses))
  /\ relayers \subseteq Range(relayerAddresses)

\* The lists that only the owner and the coordinators write.
RolesExact == DatasetsExact /\ CoordinatorsExact /\ RelayersExact

ListsExact == AccountsExact /\ RolesExact

LEMMA EmptyEnumerates ==
  ASSUME NEW S, S = {}
  PROVE  Enumerates(<<>>, S) /\ Range(<<>>) = {}
BY DEF Enumerates, Range

LEMMA ListsInit == Init => ListsExact
<1> SUFFICES ASSUME Init PROVE ListsExact
  OBVIOUS
<1>1. RequestedAccounts = {}
  BY DEF Init, RequestedAccounts, IssuedTo, IssuedIds, ObjectId
<1>2. RecordedDatasets = {}
  BY DEF Init, RecordedDatasets
<1>3. {c \in Address : coordinatorPolicies[c].allowed} = {} /\ relayers = {}
  BY DEF Init
<1>4. /\ accountIds = <<>> /\ datasetKeys = <<>> /\ now = 1
      /\ coordinatorAddresses = <<>> /\ relayerAddresses = <<>>
  BY DEF Init
<1> QED
  BY <1>1, <1>2, <1>3, <1>4, EmptyEnumerates
  DEF ListsExact, RolesExact, AccountsExact, DatasetsExact, CoordinatorsExact,
      RelayersExact

LEMMA RequestListsAccount ==
  ASSUME TypeOK, AccountsExact, NEW caller \in Address, NEW p \in Requests,
         NEW signer \in Address \cup {Zero}, RequestUpload(caller, p, signer)
  PROVE  AccountsExact'
<1> DEFINE n == nextObjectId
           a == p.accountId
<1>1. n \in ObjectId /\ a \in Account
  BY ConstantsAssumption, MaxObjectsAssumption
  DEF RequestUpload, RequestAccepted, ValidRequest, RequestUploadParams, TypeOK, ObjectId
<1>2. /\ accountIds' = AddKnown(accountIds, a) /\ nextObjectId' = n + 1
      /\ objects'[n].accountId = a
      /\ \A q \in ObjectId \ {n} : objects'[q] = objects[q]
  BY <1>1 DEF RequestUpload, RequestAccepted, IndexRequestedObject, RequestedObject, TypeOK
<1>3. accountIds \in Seq(Account) /\ n \in Nat
  BY DEF TypeOK
<1>4. \A b \in Account : IssuedTo(b)' = IF b = a THEN IssuedTo(b) \cup {n}
                                                 ELSE IssuedTo(b)
  BY <1>1, <1>2, <1>3 DEF IssuedTo, IssuedIds, ObjectId
<1>5. RequestedAccounts' = RequestedAccounts \cup {a}
  BY <1>1, <1>4 DEF RequestedAccounts
<1>6. Enumerates(AddKnown(accountIds, a), RequestedAccounts \cup {a})
  BY <1>1, <1>3, AddKnownEnumerates DEF AccountsExact
<1> QED
  BY <1>2, <1>5, <1>6 DEF AccountsExact

LEMMA AccountsStep ==
  TypeOK /\ AccountsExact /\ [Next]_vars => AccountsExact'
<1> SUFFICES ASSUME TypeOK, AccountsExact, [Next]_vars PROVE AccountsExact'
  OBVIOUS
<1>1. CASE \E caller \in Address, p \in Requests, signer \in Address \cup {Zero} :
             RequestUpload(caller, p, signer)
  BY <1>1, RequestListsAccount
<1>2. CASE ~\E caller \in Address, p \in Requests, signer \in Address \cup {Zero} :
              RequestUpload(caller, p, signer)
  <2>1. /\ nextObjectId' = nextObjectId
        /\ \A o \in ObjectId : objects'[o].accountId = objects[o].accountId
    BY <1>2, ClaimsFixed
  <2>2. accountIds' = accountIds
    BY <1>2 DEF Next, Administration, CancelUpload, ExpireUpload, Tick, TransferOwnership,
      SetPolicy, SetCoordinator, SetRelayer, RecordDataset, DatasetAccepted, StartUpload, StartAccepted,
      FinalizeUpload, ReceiptAccepted, FailUpload, CloseUnsettled, uploadVars, requestVars, vars
  <2>3. \A a \in Account : IssuedTo(a)' = IssuedTo(a)
    BY <2>1 DEF IssuedTo, IssuedIds
  <2>4. RequestedAccounts' = RequestedAccounts
    BY <2>3 DEF RequestedAccounts
  <2> QED
    BY <2>2, <2>4 DEF AccountsExact
<1> QED
  BY <1>1, <1>2

LEMMA RecordListsDataset ==
  ASSUME TypeOK, DatasetsExact, NEW c \in Address, NEW d \in DatasetInputs,
         RecordDataset(c, d)
  PROVE  DatasetsExact'
<1> DEFINE a == d.accountId
           s == d.dataset
           key == <<a, s>>
<1>1. a \in Account /\ s \in Dataset
  BY ConstantsAssumption DEF RecordDataset, DatasetAccepted, DatasetRecord
<1>2. /\ datasetKeys' = AddKnown(datasetKeys, key) /\ now' = now
      /\ datasetKeys \in Seq(Account \X Dataset) /\ key \in Account \X Dataset
      /\ now \in Nat
  BY <1>1 DEF RecordDataset, DatasetAccepted, TypeOK
<1>3. \A b \in Account, t \in Dataset :
        datasets'[b][t].updatedAt =
          IF b = a /\ t = s THEN now ELSE datasets[b][t].updatedAt
  BY <1>1 DEF RecordDataset, DatasetAccepted, TypeOK
<1>4. now # 0
  BY <1>2 DEF DatasetsExact
<1>5. RecordedDatasets' = RecordedDatasets \cup {key}
  BY <1>1, <1>3, <1>4 DEF RecordedDatasets
<1>6. Enumerates(AddKnown(datasetKeys, key), RecordedDatasets \cup {key})
  BY <1>2, AddKnownEnumerates DEF DatasetsExact
<1> QED
  BY <1>2, <1>5, <1>6 DEF DatasetsExact

LEMMA AuthorizedAddsCoordinator ==
  ASSUME TypeOK, CoordinatorsExact, NEW caller \in Address,
         NEW c \in CoordinatorInputs, NEW cp \in CoordinatorPolicies,
         SetCoordinator(caller, c, cp)
  PROVE  CoordinatorsExact'
<1>1. c \in Address
  BY ConstantsAssumption DEF SetCoordinator
<1>2. /\ coordinatorAddresses' = AddKnown(coordinatorAddresses, c)
      /\ coordinatorPolicies' = [coordinatorPolicies EXCEPT ![c] = cp]
      /\ coordinatorAddresses \in Seq(Address)
  BY DEF SetCoordinator, TypeOK
<1>3. Enumerates(coordinatorAddresses', Range(coordinatorAddresses) \cup {c})
  BY <1>1, <1>2, AddKnownEnumerates DEF CoordinatorsExact
<1>4. Range(coordinatorAddresses') = Range(coordinatorAddresses) \cup {c}
  BY <1>3 DEF Enumerates
<1>5. \A x \in Address \ {c} : coordinatorPolicies'[x] = coordinatorPolicies[x]
  BY <1>1, <1>2 DEF TypeOK
<1>6. {x \in Address : coordinatorPolicies'[x].allowed}
        \subseteq {x \in Address : coordinatorPolicies[x].allowed} \cup {c}
  BY <1>5, Zenon
<1> QED
  BY <1>3, <1>4, <1>6 DEF CoordinatorsExact

LEMMA SetRelayerListsRelayer ==
  ASSUME TypeOK, RelayersExact, NEW caller \in Address,
         NEW r \in RelayerInputs, NEW allowed \in BOOLEAN,
         SetRelayer(caller, r, allowed)
  PROVE  RelayersExact'
<1>1. r \in Address
  BY ConstantsAssumption DEF SetRelayer
<1>2. /\ relayerAddresses' = AddKnown(relayerAddresses, r)
      /\ relayers' \subseteq relayers \cup {r}
      /\ relayerAddresses \in Seq(Address)
  BY DEF SetRelayer, TypeOK
<1>3. Enumerates(relayerAddresses', Range(relayerAddresses) \cup {r})
  BY <1>1, <1>2, AddKnownEnumerates DEF RelayersExact
<1>4. Range(relayerAddresses') = Range(relayerAddresses) \cup {r}
  BY <1>3 DEF Enumerates
<1> QED
  BY <1>2, <1>3, <1>4 DEF RelayersExact

\* The lists an action leaves alone stay exact.
LEMMA OtherListsKept ==
  /\ UNCHANGED <<datasetVars, now>> /\ DatasetsExact => DatasetsExact'
  /\ UNCHANGED <<coordinatorPolicies, coordinatorAddresses>> /\ CoordinatorsExact
       => CoordinatorsExact'
  /\ UNCHANGED <<relayers, relayerAddresses>> /\ RelayersExact => RelayersExact'
BY DEF datasetVars, DatasetsExact, RecordedDatasets, CoordinatorsExact, RelayersExact

LEMMA RolesStep == TypeOK /\ RolesExact /\ [Next]_vars => RolesExact'
<1> SUFFICES ASSUME TypeOK, RolesExact, [Next]_vars PROVE RolesExact'
  OBVIOUS
<1>1. DatasetsExact /\ CoordinatorsExact /\ RelayersExact
  BY DEF RolesExact
<1>2. ASSUME UNCHANGED <<now, adminVars, datasetVars>> PROVE RolesExact'
  BY <1>1, <1>2, OtherListsKept DEF adminVars, RolesExact
<1>3. CASE \E caller \in Address, p \in Requests, signer \in Address \cup {Zero} :
             RequestUpload(caller, p, signer)
  BY <1>2, <1>3 DEF RequestUpload, RequestAccepted
<1>4. ASSUME NEW o \in ObjectId, NEW c \in Address, StartUpload(c, o) PROVE RolesExact'
  BY <1>2, <1>4 DEF StartUpload, StartAccepted
<1>5. ASSUME NEW o \in ObjectId, NEW c \in Address, NEW r \in Receipts,
             FinalizeUpload(c, o, r)
      PROVE  RolesExact'
  BY <1>2, <1>5 DEF FinalizeUpload, ReceiptAccepted
<1>6. ASSUME NEW o \in ObjectId, NEW c \in Address, NEW charge \in FailureCharges,
             FailUpload(c, o, charge)
      PROVE  RolesExact'
  BY <1>2, <1>6 DEF FailUpload
<1>7. ASSUME NEW o \in ObjectId, NEW status, CloseUnsettled(o, status)
      PROVE  RolesExact'
  BY <1>2, <1>7 DEF CloseUnsettled
<1>8. CASE Tick
  <2>1. DatasetsExact'
    BY <1>1, <1>8 DEF Tick, DatasetsExact, RecordedDatasets, datasetVars, TypeOK
  <2> QED
    BY <1>1, <1>8, <2>1, OtherListsKept DEF Tick, adminVars, RolesExact
<1>9. ASSUME NEW caller \in Address, NEW d \in DatasetInputs, RecordDataset(caller, d)
      PROVE  RolesExact'
  <2>1. DatasetsExact'
    BY <1>1, <1>9, RecordListsDataset
  <2> QED
    BY <1>1, <1>9, <2>1, OtherListsKept DEF RecordDataset, DatasetAccepted, adminVars, RolesExact
<1>10. ASSUME NEW caller \in Address, NEW c \in CoordinatorInputs,
              NEW cp \in CoordinatorPolicies, SetCoordinator(caller, c, cp)
       PROVE  RolesExact'
  <2>1. CoordinatorsExact'
    BY <1>1, <1>10, AuthorizedAddsCoordinator
  <2> QED
    BY <1>1, <1>10, <2>1, OtherListsKept DEF SetCoordinator, RolesExact
<1>11. ASSUME NEW caller \in Address, NEW r \in RelayerInputs,
              NEW allowed \in BOOLEAN, SetRelayer(caller, r, allowed)
       PROVE  RolesExact'
  <2>1. RelayersExact'
    BY <1>1, <1>11, SetRelayerListsRelayer
  <2> QED
    BY <1>1, <1>11, <2>1, OtherListsKept DEF SetRelayer, RolesExact
<1>12. ASSUME NEW caller \in Address,
              \/ \E newOwner \in NewOwners : TransferOwnership(caller, newOwner)
              \/ \E newPolicy \in Policies : SetPolicy(caller, newPolicy)
       PROVE  RolesExact'
  BY <1>1, <1>12, OtherListsKept DEF TransferOwnership, SetPolicy, RolesExact
<1>13. CASE Administration
  BY <1>9, <1>10, <1>11, <1>12, <1>13 DEF Administration
<1>14. CASE UNCHANGED vars
  BY <1>2, <1>14 DEF vars
<1> QED
  BY <1>3, <1>4, <1>5, <1>6, <1>7, <1>8, <1>13, <1>14
  DEF Next, CancelUpload, ExpireUpload

LEMMA ListsStep == TypeOK /\ ListsExact /\ [Next]_vars => ListsExact'
BY AccountsStep, RolesStep DEF ListsExact

\* Every account that ever requested, every dataset ever recorded and every
\* coordinator and relayer in force is on its list, and none of them twice
\* (_indexRequestedObject, recordDataset, setCoordinator, setRelayer, for the
\* offset pages of listAccountIds, listDatasetKeys and their likes).
THEOREM EnumerationsCorrect == Spec => []EnumerationsExact
<1>1. ListsExact => EnumerationsExact
  BY DEF ListsExact, RolesExact, AccountsExact, DatasetsExact, CoordinatorsExact,
         RelayersExact, RequestedAccounts, RecordedDatasets, EnumerationsExact
<1> QED
  BY <1>1, TypeCorrect, ListsInit, ListsStep, PTL DEF Spec

-----------------------------------------------------------------------------
(* The bytes an account holds or has in flight. *)

HeldBytes(u) == u.activeBytes + u.pendingBytes

\* What a step may do to the bytes of an account.
NoMoreThanCap(u, v) ==
  HeldBytes(v) > HeldBytes(u) => HeldBytes(v) <= policy.maxActiveBytesPerAccount

\* A step that changes the usage of at most one account.
LEMMA CapByAccount ==
  ASSUME NEW a \in Account, NoMoreThanCap(usage[a], usage'[a]), TypeOK,
         \A b \in Account \ {a} : usage'[b] = usage[b]
  PROVE  \A b \in Account : NoMoreThanCap(usage[b], usage'[b])
<1>1. ASSUME NEW b \in Account, b # a
      PROVE  NoMoreThanCap(usage[b], usage'[b])
  <2>1. usage'[b] = usage[b] /\ usage[b] \in AccountUsage
    BY <1>1 DEF TypeOK
  <2>2. HeldBytes(usage[b]) \in Nat
    BY <2>1, UsageFields DEF HeldBytes
  <2> QED
    BY <2>1, <2>2 DEF NoMoreThanCap
<1> QED
  BY <1>1

\* What is stored of an upload is no more than was requested.
LEMMA StoredIsRequested ==
  ASSUME NEW size \in Nat, NEW completed \in Nat, NEW requested \in Nat,
         completed <= requested
  PROVE  size * completed <= size * requested
OBVIOUS

LEMMA RequestWithinCap ==
  ASSUME TypeOK, NEW caller \in Address, NEW p \in Requests,
         NEW signer \in Address \cup {Zero}, RequestUpload(caller, p, signer)
  PROVE  \A a \in Account : NoMoreThanCap(usage[a], usage'[a])
<1> DEFINE a == p.accountId
           u == usage[a]
           v == ReserveUsage(u, p)
<1>1. /\ a \in Account /\ p \in RequestUploadParams /\ u \in AccountUsage
  BY ConstantsAssumption
  DEF RequestUpload, RequestAccepted, ValidRequest, RequestUploadParams, TypeOK
<1>2. usage'[a] = v /\ \A b \in Account \ {a} : usage'[b] = usage[b]
  BY <1>1 DEF RequestUpload, RequestAccepted, TypeOK
<1>3. WithinCap(u, RequestedBytes(p))
  BY DEF RequestUpload, RequestAccepted
<1>4. RequestedBytes(p) \in Nat
  BY <1>1, RequestedBytesType DEF RequestUploadParams
<1>5. /\ v.activeBytes = u.activeBytes
      /\ v.pendingBytes = u.pendingBytes + RequestedBytes(p)
  BY <1>1 DEF ReserveUsage, AccountUsage
<1> HIDE DEF u, v
<1>6. NoMoreThanCap(u, v)
  BY <1>1, <1>3, <1>4, <1>5, UsageFields DEF NoMoreThanCap, HeldBytes, WithinCap
<1> QED
  BY <1>1, <1>2, <1>6, CapByAccount DEF u

\* Closing an upload moves at most its pending bytes to the stored ones.
LEMMA CloseWithinCap ==
  ASSUME TypeOK, NEW a \in Account, NEW obj \in StorageObject,
         Releasable(usage[a], obj), NEW stored \in Nat,
         stored <= RequestedBytes(obj),
         usage'[a].activeBytes = usage[a].activeBytes + stored,
         usage'[a].pendingBytes = usage[a].pendingBytes - RequestedBytes(obj),
         \A b \in Account \ {a} : usage'[b] = usage[b]
  PROVE  \A b \in Account : NoMoreThanCap(usage[b], usage'[b])
<1>1. usage[a] \in AccountUsage
  BY DEF TypeOK
<1>2. RequestedBytes(obj) \in Nat
  BY RequestedBytesType DEF StorageObject
<1>3. NoMoreThanCap(usage[a], usage'[a])
  BY <1>1, <1>2, UsageFields DEF NoMoreThanCap, HeldBytes
<1> QED
  BY <1>3, CapByAccount

LEMMA SettleWithinCap ==
  ASSUME TypeOK, IssuedInOrder, NEW o \in ObjectId, MutableObject(o),
         NEW obj, obj = objects[o], NEW a, a = obj.accountId,
         NEW done \in StorageObject, NEW charge \in Nat,
         done.size = obj.size,
         Stored(done.status) => done.completedCopies <= obj.requestedCopies,
         Releasable(usage[a], obj),
         usage' = [usage EXCEPT ![a] =
                     OutcomeUsage(ChargeUsage(ReleaseUsage(@, obj), charge), done)]
  PROVE  \A b \in Account : NoMoreThanCap(usage[b], usage'[b])
<1> DEFINE u == usage[a]
           v == OutcomeUsage(ChargeUsage(ReleaseUsage(u, obj), charge), done)
<1>1. obj \in StorageObject /\ Live(obj.status)
  BY LiveIsMutable DEF TypeOK, LiveIds
<1>2. a \in Account /\ u \in AccountUsage
  BY <1>1 DEF IssuedInOrder, TypeOK, Live, NoObject
<1>3. usage'[a] = v /\ \A b \in Account \ {a} : usage'[b] = usage[b]
  BY <1>2 DEF TypeOK
<1> HIDE DEF v
<1>4. /\ v.pendingBytes = u.pendingBytes - RequestedBytes(obj)
      /\ Stored(done.status) => v.activeBytes = u.activeBytes + StoredBytes(done)
      /\ ~Stored(done.status) => v.activeBytes = u.activeBytes
  BY <1>1, <1>2, SettledCounters DEF v
<1>5. CASE Stored(done.status)
  <2>1. /\ obj.size \in Nat /\ done.completedCopies \in Nat
        /\ obj.requestedCopies \in Nat
    BY <1>1 DEF StorageObject
  <2>2. obj.size * done.completedCopies <= obj.size * obj.requestedCopies
    BY <1>5, <2>1, StoredIsRequested
  <2>3. StoredBytes(done) <= RequestedBytes(obj)
    BY <2>2 DEF StoredBytes, RequestedBytes
  <2>4. StoredBytes(done) \in Nat
    BY StoredBytesType DEF StorageObject
  <2> QED
    BY <1>1, <1>2, <1>3, <1>4, <1>5, <2>3, <2>4, CloseWithinCap
<1>6. CASE ~Stored(done.status)
  <2>1. RequestedBytes(obj) \in Nat /\ u.activeBytes \in Nat
    BY <1>1, <1>2, RequestedBytesType, UsageFields DEF StorageObject
  <2>2. 0 <= RequestedBytes(obj) /\ u.activeBytes = u.activeBytes + 0
    BY <2>1
  <2> HIDE DEF u
  <2>3. /\ usage'[a].activeBytes = usage[a].activeBytes + 0
        /\ usage'[a].pendingBytes = usage[a].pendingBytes - RequestedBytes(obj)
    BY <1>3, <1>4, <1>6, <2>2 DEF u
  <2> QED
    BY <1>1, <1>2, <1>3, <2>2, <2>3, CloseWithinCap
<1> QED
  BY <1>5, <1>6

LEMMA StepWithinCap ==
  TypeOK /\ IssuedInOrder /\ [Next]_vars =>
    \A a \in Account : NoMoreThanCap(usage[a], usage'[a])
<1> DEFINE Kept == \A a \in Account : NoMoreThanCap(usage[a], usage'[a])
<1> SUFFICES ASSUME TypeOK, IssuedInOrder, [Next]_vars
             PROVE  Kept
  OBVIOUS
<1>1. ASSUME UNCHANGED usage PROVE Kept
  <2>1. \A a \in Account : HeldBytes(usage[a]) \in Nat
    BY UsageFields DEF TypeOK, HeldBytes
  <2> QED
    BY <1>1, <2>1 DEF NoMoreThanCap
<1>2. ASSUME NEW caller \in Address, NEW p \in Requests,
             NEW signer \in Address \cup {Zero}, RequestUpload(caller, p, signer)
      PROVE  Kept
  BY <1>2, RequestWithinCap
<1>3. ASSUME NEW o \in ObjectId, NEW c \in Address, StartUpload(c, o)
      PROVE  Kept
  BY <1>1, <1>3 DEF StartUpload, StartAccepted
<1>4. ASSUME NEW o \in ObjectId, NEW c \in Address, NEW r \in Receipts,
             FinalizeUpload(c, o, r)
      PROVE  Kept
  <2> DEFINE obj  == objects[o]
             done == FinalizedObject(obj, c, r)
  <2>1. obj \in StorageObject /\ r \in UploadReceipt
    BY ConstantsAssumption DEF TypeOK
  <2>2. /\ r.finalizationStatus \in UploadStatus /\ r.actualCost \in Nat
        /\ r.completedCopies \in Nat /\ obj.requestedCopies \in Nat
    BY <2>1 DEF UploadReceipt, UploadStatus, StorageObject
  <2>3. done \in StorageObject
    BY <2>1, <2>2, ObjectUpdateType DEF FinalizedObject
  <2>4. /\ done.size = obj.size /\ done.status = r.finalizationStatus
        /\ done.completedCopies = r.completedCopies
    BY <2>1 DEF FinalizedObject, StorageObject
  <2>5. MutableObject(o) /\ CopiesMatchStatus(obj, r) /\ Releasable(usage[obj.accountId], obj)
    BY <1>4 DEF FinalizeUpload, ReceiptAccepted
  <2>6. Stored(done.status) => done.completedCopies <= obj.requestedCopies
    BY <2>2, <2>4, <2>5, CopiesOfStatus DEF Stored
  <2>7. usage' = [usage EXCEPT ![obj.accountId] =
                    OutcomeUsage(ChargeUsage(ReleaseUsage(@, obj), r.actualCost),
                                 done)]
    BY <1>4 DEF FinalizeUpload, ReceiptAccepted
  <2> HIDE DEF done
  <2> QED
    BY <2>2, <2>3, <2>4, <2>5, <2>6, <2>7, SettleWithinCap
<1>5. ASSUME NEW o \in ObjectId, NEW c \in Address, NEW charge \in FailureCharges,
             FailUpload(c, o, charge)
      PROVE  Kept
  <2> DEFINE obj  == objects[o]
             done == [obj EXCEPT !.status = "Failed", !.coordinator = c,
                                 !.actualCost = charge]
  <2>1. obj \in StorageObject /\ charge \in Nat
    BY ConstantsAssumption DEF TypeOK
  <2>2. done \in StorageObject
    BY <2>1, ObjectUpdateType DEF UploadStatus, FinalizationStatus
  <2>3. done.size = obj.size /\ ~Stored(done.status)
    BY <2>1 DEF StorageObject, Stored
  <2>4. MutableObject(o) /\ Releasable(usage[obj.accountId], obj)
    BY <1>5 DEF FailUpload
  <2>5. usage' = [usage EXCEPT ![obj.accountId] =
                    OutcomeUsage(ChargeUsage(ReleaseUsage(@, obj), charge), done)]
    BY <1>5 DEF FailUpload
  <2> HIDE DEF done
  <2> QED
    BY <2>1, <2>2, <2>3, <2>4, <2>5, SettleWithinCap
<1>6. ASSUME NEW o \in ObjectId, NEW status \in {"Cancelled", "Expired"},
             MutableObject(o), CloseUnsettled(o, status)
      PROVE  Kept
  <2> DEFINE obj == objects[o]
             a == obj.accountId
             u == usage[a]
  <2>1. obj \in StorageObject /\ Live(obj.status)
    BY <1>6, LiveIsMutable DEF TypeOK, LiveIds
  <2>2. a \in Account /\ u \in AccountUsage
    BY <2>1 DEF IssuedInOrder, TypeOK, Live, NoObject
  <2>3. /\ usage'[a] = ReleaseUsage(u, obj) /\ Releasable(u, obj)
        /\ \A b \in Account \ {a} : usage'[b] = usage[b]
    BY <1>6, <2>2 DEF CloseUnsettled, TypeOK
  <2>4. RequestedBytes(obj) \in Nat /\ u.activeBytes \in Nat
    BY <2>1, <2>2, RequestedBytesType, UsageFields DEF StorageObject
  <2>5. /\ usage'[a].activeBytes = u.activeBytes + 0
        /\ usage'[a].pendingBytes = u.pendingBytes - RequestedBytes(obj)
    BY <2>2, <2>3, <2>4 DEF ReleaseUsage, AccountUsage
  <2> QED
    BY <2>1, <2>2, <2>3, <2>4, <2>5, CloseWithinCap
<1>7. ASSUME NEW o \in ObjectId, NEW caller \in Address, CancelUpload(caller, o)
      PROVE  Kept
  BY <1>6, <1>7 DEF CancelUpload
<1>8. ASSUME NEW o \in ObjectId, ExpireUpload(o)
      PROVE  Kept
  BY <1>6, <1>8 DEF ExpireUpload
<1>9. CASE Administration
  BY <1>1, <1>9 DEF Administration, TransferOwnership, SetPolicy, SetCoordinator,
                    SetRelayer, RecordDataset, DatasetAccepted, uploadVars
<1>10. CASE Tick
  BY <1>1, <1>10 DEF Tick, uploadVars
<1>11. CASE UNCHANGED vars
  BY <1>1, <1>11 DEF vars, uploadVars
<1> QED
  BY <1>2, <1>3, <1>4, <1>5, <1>7, <1>8, <1>9, <1>10, <1>11 DEF Next

\* However uploads are requested, settled, failed, cancelled and expired, and
\* however the owner moves the cap meanwhile, an account's bytes grow only up
\* to the cap in force (_enforcePolicy, _releaseUsage, finalizeUpload).
THEOREM CapHolds == Spec => BytesGrowOnlyWithinCap
<1>1. TypeOK /\ IndexMatchesStatus /\ [Next]_vars =>
        [\A a \in Account :
           LET held == usage[a].activeBytes + usage[a].pendingBytes
           IN  held' > held => held' <= policy.maxActiveBytesPerAccount]_vars
  <2> SUFFICES ASSUME TypeOK, IndexMatchesStatus, [Next]_vars,
                      NEW a \in Account
               PROVE  LET held == usage[a].activeBytes + usage[a].pendingBytes
                      IN  held' > held => held' <= policy.maxActiveBytesPerAccount
    OBVIOUS
  <2>1. NoMoreThanCap(usage[a], usage'[a])
    BY StepWithinCap DEF IndexMatchesStatus
  <2> QED
    BY <2>1 DEF NoMoreThanCap, HeldBytes
<1> QED
  BY <1>1, TypeCorrect, IndexCorrect, PTL DEF Spec, BytesGrowOnlyWithinCap

-----------------------------------------------------------------------------
(* The refinement: with Book and PublishedTotals for the ledger's          *)
(* variables, every transaction opens one upload under a fresh claim,      *)
(* settles one before its deadline within what it reserved, releases one,  *)
(* or is no step of the ledger.                                            *)

LEMMA PhaseOf ==
  ASSUME NEW s
  PROVE  /\ s = "None" => Phase(s) = "absent"
         /\ Live(s) => Phase(s) = "open"
         /\ Stored(s) => Phase(s) = "stored"
         /\ s = "Failed" => Phase(s) = "failed"
         /\ s \in {"Cancelled", "Expired"} => Phase(s) = "released"
<1>1. CASE s = "None"
  BY <1>1 DEF Phase, Live, Stored
<1>2. CASE Live(s)
  BY <1>2 DEF Phase, Live, Stored
<1>3. CASE Stored(s)
  BY <1>3 DEF Phase, Live, Stored
<1>4. CASE s = "Failed"
  BY <1>4 DEF Phase, Live, Stored
<1>5. CASE s \in {"Cancelled", "Expired"}
  BY <1>5 DEF Phase, Live, Stored
<1> QED
  BY <1>1, <1>2, <1>3, <1>4, <1>5 DEF Live, Stored

LEMMA EntryFields ==
  ASSUME NEW obj
  PROVE  /\ BookEntry(obj).phase = Phase(obj.status)
         /\ BookEntry(obj).account = obj.accountId
         /\ BookEntry(obj).key = obj.idempotencyKey
         /\ BookEntry(obj).deadline = obj.requestExpiresAt
         /\ BookEntry(obj).bytes = RequestedBytes(obj)
         /\ BookEntry(obj).cost = obj.reservedCost
         /\ BookEntry(obj).stored = StoredBytes(obj)
         /\ BookEntry(obj).charge = obj.actualCost
BY DEF BookEntry

LEMMA BookAt ==
  \A o \in ObjectId : /\ Book[o] = BookEntry(objects[o])
                      /\ Book'[o] = BookEntry(objects'[o])
BY DEF Book

\* What the statuses mean for the ledger.
LEMMA Statuses ==
  ASSUME TypeOK, NEW o \in ObjectId
  PROVE  Ledger!Opened(Book[o]) <=> objects[o].status # "None"
<1>1. objects[o].status \in UploadStatus
  BY DEF TypeOK, StorageObject
<1>2. Book[o].phase = Phase(objects[o].status)
  BY BookAt, EntryFields
<1> QED
  BY <1>1, <1>2, PhaseOf
  DEF Ledger!Opened, UploadStatus, FinalizationStatus, Live, Stored

-----------------------------------------------------------------------------
(* Requests *)

LEMMA RequestOpens ==
  ASSUME TypeOK, IssuedInOrder, IdempotencyKeyNamesOneUpload,
         NEW caller \in Address, NEW p \in Requests,
         NEW signer \in Address \cup {Zero}, RequestUpload(caller, p, signer)
  PROVE  Ledger!Open(nextObjectId)
<1> DEFINE n == nextObjectId
           a == p.accountId
           k == p.idempotencyKey
<1>1. /\ n \in ObjectId /\ objects[n] = NoObject /\ a \in Account
      /\ k \in IdempotencyKey /\ objects'[n] = RequestedObject(p)
      /\ \A q \in ObjectId \ {n} : objects'[q] = objects[q]
  BY RequestedTerms
<1>2. ~Ledger!Opened(Book[n])
  BY <1>1, Statuses DEF NoObject
<1>3. Ledger!OnlyChanges(n)
  BY <1>1, BookAt DEF Ledger!OnlyChanges
<1>4. /\ Book'[n].phase = "open" /\ Book'[n].account = a /\ Book'[n].key = k
      /\ Book'[n].deadline = ExpiryOf(p)
  BY <1>1, BookAt, EntryFields, PhaseOf DEF RequestedObject, Live
<1>5. ExpiryOf(p) > now /\ objectByIdempotencyKey[a][k] = 0
  BY DEF RequestUpload, RequestAccepted, Unclaimed
<1>6. ASSUME NEW q \in ObjectId, Ledger!Opened(Book[q])
      PROVE  <<Book[q].account, Book[q].key>> # <<Book'[n].account, Book'[n].key>>
  <2>1. q < n
    BY <1>6, Statuses DEF IssuedInOrder, NoObject
  <2>2. objectByIdempotencyKey[objects[q].accountId][objects[q].idempotencyKey] = q
    BY <2>1 DEF IdempotencyKeyNamesOneUpload
  <2>3. Book[q].account = objects[q].accountId /\ Book[q].key = objects[q].idempotencyKey
    BY BookAt, EntryFields
  <2>4. q # 0
    BY DEF ObjectId
  <2> QED
    BY <1>4, <1>5, <2>2, <2>3, <2>4
<1> QED
  BY <1>1, <1>2, <1>3, <1>4, <1>5, <1>6 DEF Ledger!Open

-----------------------------------------------------------------------------
(* Closing *)

\* A live upload of which done is written.
LEMMA WriteSettles ==
  ASSUME TypeOK, NEW o \in ObjectId, NEW obj, obj = objects[o],
         Live(obj.status), ~Expired(o), NEW done, objects'[o] = done,
         \A q \in ObjectId \ {o} : objects'[q] = objects[q],
         done.accountId = obj.accountId,
         done.idempotencyKey = obj.idempotencyKey,
         done.requestExpiresAt = obj.requestExpiresAt,
         done.size = obj.size, done.requestedCopies = obj.requestedCopies,
         done.reservedCost = obj.reservedCost,
         done.status \in FinalizationStatus,
         done.actualCost <= obj.reservedCost,
         StoredBytes(done) <= RequestedBytes(obj),
         StoredBytes(done) > 0 <=> Stored(done.status)
  PROVE  Ledger!Settle(o)
<1>1. Book[o] = BookEntry(obj) /\ Book'[o] = BookEntry(done)
  BY BookAt
<1>2. Book[o].phase = "open"
  BY <1>1, EntryFields, PhaseOf
<1>3. now <= Book[o].deadline
  <2>1. now \in Nat /\ obj.requestExpiresAt \in Nat
    BY DEF TypeOK, StorageObject
  <2> QED
    BY <1>1, <2>1, EntryFields DEF Expired
<1>4. Ledger!OnlyChanges(o)
  BY BookAt DEF Ledger!OnlyChanges
<1>5. Ledger!SameTerms(o)
  <2>1. RequestedBytes(done) = RequestedBytes(obj)
    BY DEF RequestedBytes
  <2> QED
    BY <1>1, <2>1, EntryFields DEF Ledger!SameTerms
<1>6. \/ Stored(done.status) /\ Book'[o].phase = "stored"
      \/ ~Stored(done.status) /\ Book'[o].phase = "failed"
  BY <1>1, EntryFields, PhaseOf DEF FinalizationStatus, Stored
<1>7. /\ Book'[o].charge <= Book[o].cost /\ Book'[o].stored <= Book[o].bytes
      /\ Book'[o].stored = StoredBytes(done)
  BY <1>1, EntryFields
<1>8. (Book'[o].stored > 0) <=> (Book'[o].phase = "stored")
  BY <1>6, <1>7
<1>9. Ledger!Settled(Book'[o])
  BY <1>6 DEF Ledger!Settled
<1> QED
  BY <1>2, <1>3, <1>4, <1>5, <1>7, <1>8, <1>9 DEF Ledger!Settle

\* The bytes of some copies of some content.
LEMMA SomeBytes ==
  ASSUME NEW size \in Nat, size # 0, NEW copies \in Nat
  PROVE  size * copies > 0 <=> copies # 0
OBVIOUS

LEMMA FinalizeSettles ==
  ASSUME TypeOK, Outcomes, TermsInv, NEW c \in Address, NEW o \in ObjectId,
         NEW r \in Receipts, FinalizeUpload(c, o, r)
  PROVE  Ledger!Settle(o)
<1> DEFINE obj  == objects[o]
           done == FinalizedObject(obj, c, r)
<1>1. obj \in StorageObject /\ r \in UploadReceipt
  BY ConstantsAssumption DEF TypeOK
<1>2. /\ MutableObject(o) /\ ~Expired(o) /\ CopiesMatchStatus(obj, r)
      /\ r.actualCost <= obj.reservedCost
  BY DEF FinalizeUpload, ReceiptAccepted
<1>3. Live(obj.status)
  BY <1>2, LiveIsMutable DEF LiveIds
<1>4. objects'[o] = done /\ \A q \in ObjectId \ {o} : objects'[q] = objects[q]
  BY DEF FinalizeUpload, ReceiptAccepted, TypeOK
<1>5. /\ done.accountId = obj.accountId
      /\ done.idempotencyKey = obj.idempotencyKey
      /\ done.requestExpiresAt = obj.requestExpiresAt
      /\ done.size = obj.size /\ done.requestedCopies = obj.requestedCopies
      /\ done.reservedCost = obj.reservedCost
      /\ done.status = r.finalizationStatus /\ done.actualCost = r.actualCost
      /\ done.completedCopies = r.completedCopies
  BY <1>1 DEF FinalizedObject, StorageObject
<1>6. /\ obj.size \in Nat /\ obj.requestedCopies \in Nat
      /\ r.completedCopies \in Nat /\ r.finalizationStatus \in FinalizationStatus
  BY <1>1 DEF StorageObject, UploadReceipt
<1>7. obj.size # 0 /\ obj.requestedCopies # 0
  BY <1>3 DEF TermsInv, Terms
<1>8. /\ r.completedCopies <= obj.requestedCopies
      /\ r.completedCopies # 0 <=> Stored(r.finalizationStatus)
  BY <1>2, <1>6, <1>7, CopiesOfStatus DEF FinalizationStatus, Stored
<1> HIDE DEF obj, done
<1>9. obj.size * r.completedCopies <= obj.size * obj.requestedCopies
  BY <1>6, <1>8, StoredIsRequested
<1>10. StoredBytes(done) <= RequestedBytes(obj)
  BY <1>5, <1>9 DEF StoredBytes, RequestedBytes
<1>11. StoredBytes(done) > 0 <=> Stored(done.status)
  BY <1>5, <1>6, <1>7, <1>8, SomeBytes DEF StoredBytes
<1> QED
  BY <1>2, <1>3, <1>4, <1>5, <1>6, <1>10, <1>11, WriteSettles DEF obj

LEMMA FailSettles ==
  ASSUME TypeOK, Outcomes, NEW c \in Address, NEW o \in ObjectId,
         NEW charge \in FailureCharges, FailUpload(c, o, charge)
  PROVE  Ledger!Settle(o)
<1> DEFINE obj  == objects[o]
           done == [obj EXCEPT !.status = "Failed", !.coordinator = c,
                               !.actualCost = charge]
<1>1. obj \in StorageObject
  BY DEF TypeOK
<1>2. MutableObject(o) /\ ~Expired(o) /\ charge <= obj.reservedCost
  BY DEF FailUpload, FailureChargeAllowed
<1>3. Live(obj.status)
  BY <1>2, LiveIsMutable DEF LiveIds
<1>4. objects'[o] = done /\ \A q \in ObjectId \ {o} : objects'[q] = objects[q]
  BY DEF FailUpload, TypeOK
<1>5. /\ done.accountId = obj.accountId
      /\ done.idempotencyKey = obj.idempotencyKey
      /\ done.requestExpiresAt = obj.requestExpiresAt
      /\ done.size = obj.size /\ done.requestedCopies = obj.requestedCopies
      /\ done.reservedCost = obj.reservedCost
      /\ done.status = "Failed" /\ done.actualCost = charge
      /\ done.completedCopies = obj.completedCopies
  BY <1>1 DEF StorageObject
<1>6. obj.completedCopies = 0
  BY <1>3 DEF Outcomes, Outcome, Live, Stored
<1>7. obj.size \in Nat /\ RequestedBytes(obj) \in Nat
  BY <1>1, RequestedBytesType DEF StorageObject
<1> HIDE DEF obj, done
<1>8. StoredBytes(done) = 0
  BY <1>5, <1>6, <1>7 DEF StoredBytes
<1>9. StoredBytes(done) <= RequestedBytes(obj)
  BY <1>7, <1>8
<1>10. StoredBytes(done) > 0 <=> Stored(done.status)
  BY <1>5, <1>8 DEF Stored
<1> QED
  BY <1>2, <1>3, <1>4, <1>5, <1>9, <1>10, WriteSettles DEF obj, FinalizationStatus

LEMMA CloseReleases ==
  ASSUME TypeOK, NEW o \in ObjectId, MutableObject(o),
         NEW status \in {"Cancelled", "Expired"}, CloseUnsettled(o, status)
  PROVE  Ledger!Release(o)
<1> DEFINE obj  == objects[o]
           done == [obj EXCEPT !.status = status]
<1>1. obj \in StorageObject /\ Live(obj.status)
  BY LiveIsMutable DEF TypeOK, LiveIds
<1>2. objects'[o] = done /\ \A q \in ObjectId \ {o} : objects'[q] = objects[q]
  BY DEF CloseUnsettled, TypeOK
<1>3. /\ done.accountId = obj.accountId
      /\ done.idempotencyKey = obj.idempotencyKey
      /\ done.requestExpiresAt = obj.requestExpiresAt
      /\ done.size = obj.size /\ done.requestedCopies = obj.requestedCopies
      /\ done.reservedCost = obj.reservedCost
      /\ done.status = status /\ done.actualCost = obj.actualCost
      /\ done.completedCopies = obj.completedCopies
  BY <1>1 DEF StorageObject
<1> HIDE DEF done
<1>4. Book[o].phase = "open"
  BY <1>1, BookAt, EntryFields, PhaseOf
<1>5. Ledger!OnlyChanges(o)
  BY <1>2, BookAt DEF Ledger!OnlyChanges
<1>6. Phase(done.status) = "released"
  BY <1>3, PhaseOf
<1>7. BookEntry(done) = [BookEntry(obj) EXCEPT !.phase = "released"]
  BY <1>3, <1>6 DEF BookEntry, RequestedBytes, StoredBytes
<1>8. Book'[o] = [Book[o] EXCEPT !.phase = "released"]
  BY <1>2, <1>7, BookAt
<1> QED
  BY <1>4, <1>5, <1>8 DEF Ledger!Release

LEMMA StartKeepsBook ==
  ASSUME TypeOK, NEW c \in Address, NEW o \in ObjectId, StartUpload(c, o)
  PROVE  Book' = Book
<1> DEFINE obj  == objects[o]
           done == [obj EXCEPT !.status = "Uploading", !.coordinator = c]
<1>1. /\ obj \in StorageObject /\ obj.status = "Requested"
      /\ objects'[o] = done
      /\ \A q \in ObjectId \ {o} : objects'[q] = objects[q]
  BY DEF StartUpload, StartAccepted, TypeOK
<1>2. /\ done.accountId = obj.accountId
      /\ done.idempotencyKey = obj.idempotencyKey
      /\ done.requestExpiresAt = obj.requestExpiresAt
      /\ done.size = obj.size /\ done.requestedCopies = obj.requestedCopies
      /\ done.reservedCost = obj.reservedCost
      /\ done.status = "Uploading" /\ done.actualCost = obj.actualCost
      /\ done.completedCopies = obj.completedCopies
  BY <1>1 DEF StorageObject
<1> HIDE DEF done
<1>3. Phase(done.status) = Phase(obj.status)
  BY <1>1, <1>2, PhaseOf DEF Live
<1>4. BookEntry(done) = BookEntry(obj)
  BY <1>2, <1>3 DEF BookEntry, RequestedBytes, StoredBytes
<1>5. \A q \in ObjectId : BookEntry(objects'[q]) = BookEntry(objects[q])
  BY <1>1, <1>4
<1> QED
  BY <1>5 DEF Book

-----------------------------------------------------------------------------
(* The refinement *)

BookMoves ==
  \/ \E o \in ObjectId : Ledger!Open(o) \/ Ledger!Settle(o) \/ Ledger!Release(o)
  \/ Book' = Book

LEMMA BookStep ==
  ASSUME TypeOK, IssuedInOrder, IdempotencyKeyNamesOneUpload, Outcomes, TermsInv,
         [Next]_vars
  PROVE  BookMoves
<1>1. ASSUME NEW caller \in Address, NEW p \in Requests,
             NEW signer \in Address \cup {Zero}, RequestUpload(caller, p, signer)
      PROVE  BookMoves
  BY <1>1, RequestOpens, RequestedTerms DEF BookMoves
<1>2. ASSUME NEW o \in ObjectId, NEW c \in Address, StartUpload(c, o) PROVE BookMoves
  BY <1>2, StartKeepsBook DEF BookMoves
<1>3. ASSUME NEW o \in ObjectId, NEW c \in Address, NEW r \in Receipts,
             FinalizeUpload(c, o, r)
      PROVE  BookMoves
  BY <1>3, FinalizeSettles DEF BookMoves
<1>4. ASSUME NEW o \in ObjectId, NEW c \in Address, NEW charge \in FailureCharges,
             FailUpload(c, o, charge)
      PROVE  BookMoves
  BY <1>4, FailSettles DEF BookMoves
<1>5. ASSUME NEW o \in ObjectId, NEW status \in {"Cancelled", "Expired"},
             MutableObject(o), CloseUnsettled(o, status)
      PROVE  BookMoves
  BY <1>5, CloseReleases DEF BookMoves
<1>6. ASSUME UNCHANGED uploadVars PROVE BookMoves
  BY <1>6 DEF uploadVars, Book, BookMoves
<1>7. CASE UNCHANGED vars
  BY <1>6, <1>7 DEF vars
<1>8. CASE Tick
  BY <1>6, <1>8 DEF Tick
<1>9. CASE Administration
  BY <1>6, <1>9 DEF Administration, TransferOwnership, SetPolicy,
                    SetCoordinator, SetRelayer, RecordDataset, DatasetAccepted
<1>10. ASSUME NEW o \in ObjectId, NEW caller \in Address, CancelUpload(caller, o)
       PROVE  BookMoves
  BY <1>5, <1>10 DEF CancelUpload
<1>11. ASSUME NEW o \in ObjectId, ExpireUpload(o) PROVE BookMoves
  BY <1>5, <1>11 DEF ExpireUpload
<1> QED
  BY <1>1, <1>2, <1>3, <1>4, <1>7, <1>8, <1>9, <1>10, <1>11 DEF Next

LEMMA LedgerStarts == Init => Ledger!Init
<1> SUFFICES ASSUME Init PROVE Ledger!Init
  OBVIOUS
<1>1. PublishedTotals = Ledger!TotalsOf(Book)
  BY LedgerInit DEF LedgerMatchesUploads
<1>2. TypeOK
  BY TypeInit
<1>3. \A o \in ObjectId : ~Ledger!Opened(Book[o])
  BY <1>2, Statuses DEF Init, NoObject
<1> QED
  BY <1>1, <1>3 DEF Ledger!Init

LEMMA LedgerFollows ==
  ASSUME TypeOK, IssuedInOrder, IdempotencyKeyNamesOneUpload, Outcomes, TermsInv,
         LedgerMatchesUploads, LedgerMatchesUploads', [Next]_vars
  PROVE  [Ledger!Next]_(Ledger!ledgerVars)
<1>1. /\ PublishedTotals = Ledger!TotalsOf(Book)
      /\ PublishedTotals' = Ledger!TotalsOf(Book)'
  BY DEF LedgerMatchesUploads
<1>2. CASE \E o \in ObjectId : Ledger!Open(o) \/ Ledger!Settle(o) \/ Ledger!Release(o)
  BY <1>1, <1>2 DEF Ledger!Next
<1>3. CASE Book' = Book
  <2>1. Ledger!TotalsOf(Book)' = Ledger!TotalsOf(Book)
    BY <1>3 DEF Ledger!TotalsOf
  <2> QED
    BY <1>1, <1>3, <2>1 DEF Ledger!ledgerVars
<1> QED
  BY <1>2, <1>3, BookStep DEF BookMoves

\* The contract implements the ledger: its lists, indexes, receipts and
\* administration apart, each transaction opens one upload under a claim no
\* other holds, closes one open upload for good, or changes nothing, and the
\* totals it shows are the sums (FocPlatformRegistry.sol as a whole).
THEOREM LedgerRefined == Spec => ImplementsUploadLedger
<1>1. IndexMatchesStatus => IssuedInOrder
  BY DEF IndexMatchesStatus
<1>2. TypeOK /\ IssuedInOrder /\ TermsInv /\ [Next]_vars => TermsInv'
  BY TermsStep
<1>3. TypeOK /\ IssuedInOrder /\ IdempotencyKeyNamesOneUpload /\ Outcomes
        /\ TermsInv /\ LedgerMatchesUploads /\ LedgerMatchesUploads'
        /\ [Next]_vars => [Ledger!Next]_(Ledger!ledgerVars)
  BY LedgerFollows
<1> QED
  BY <1>1, <1>2, <1>3, TypeCorrect, IndexCorrect, LedgerCorrect,
     IdempotencyCorrect, OutcomesAlways, TermsInit, LedgerStarts, PTL
  DEF Spec, ImplementsUploadLedger, Ledger!Spec
=============================================================================

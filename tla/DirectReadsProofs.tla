-------------------------- MODULE DirectReadsProofs --------------------------
(***************************************************************************)
(* Theorems about reading the registry: the listing views of RegistryViews,*)
(* and the traversals of DirectReads that are made of their pages.         *)
(***************************************************************************)
EXTENDS DirectReads, FocPlatformRegistryProofs, SequenceTheorems

-----------------------------------------------------------------------------
(* Which page is the newest *)

\* Two ids with as many ids of S above them are the same id.
LEMMA RankInjective ==
  ASSUME NEW S \in SUBSET ObjectId, NEW o \in S, NEW q \in S,
         Cardinality({p \in S : p > o}) = Cardinality({p \in S : p > q})
  PROVE  o = q
<1>1. S \subseteq Int /\ IsFiniteSet(S)
  <2>1. IsFiniteSet(ObjectId) /\ ObjectId \subseteq Int
    BY MaxObjectsAssumption, FS_Interval DEF ObjectId
  <2> QED
    BY <2>1, FS_Subset
<1>2. ASSUME NEW x \in S, NEW y \in S, x < y
      PROVE  Cardinality({p \in S : p > x}) # Cardinality({p \in S : p > y})
  <2> DEFINE X == {p \in S : p > x}
             Y == {p \in S : p > y}
  <2>1. x \in Int /\ y \in Int /\ IsFiniteSet(X)
    BY <1>1, FS_Subset
  <2>2. Y \subseteq X /\ y \in X /\ y \notin Y
    <3>1. \A p \in S : p \in Int /\ (p > y => p > x) /\ ~(y > y) /\ y > x
      BY <1>1, <1>2, <2>1
    <3> QED
      BY <3>1
  <2> HIDE DEF X, Y
  <2>3. Cardinality(X) # Cardinality(Y)
    BY <2>1, <2>2, FS_Subset
  <2> QED
    BY <2>3 DEF X, Y
<1> QED
  BY <1>1, <1>2

\* n different ids.
LEMMA CountDescending ==
  ASSUME NEW ids \in Seq(ObjectId), Descending(ids), NEW n \in 0..Len(ids)
  PROVE  /\ Cardinality({ids[j] : j \in 1..n}) = n
         /\ IsFiniteSet({ids[j] : j \in 1..n})
<1> DEFINE T == {ids[j] : j \in 1..n}
           f == [j \in 1..n |-> ids[j]]
<1>1. n \in Nat /\ 1..n \subseteq 1..Len(ids) /\ Len(ids) \in Nat
  OBVIOUS
<1>2. f \in [1..n -> T]
  OBVIOUS
<1>3. ASSUME NEW i \in 1..n, NEW j \in 1..n, f[i] = f[j] PROVE i = j
  <2>1. ids[i] \in ObjectId /\ ids[j] \in ObjectId /\ ids[i] = ids[j]
    BY <1>1, <1>3
  <2>2. ids[i] \in Int /\ ids[j] \in Int
    BY <2>1, MaxObjectsAssumption DEF ObjectId
  <2>3. ~(i < j) /\ ~(j < i)
    BY <1>1, <2>1, <2>2 DEF Descending
  <2> QED
    BY <2>3
<1>4. \A t \in T : \E j \in 1..n : f[j] = t
  OBVIOUS
<1> HIDE DEF f, T
<1>5. f \in Bijection(1..n, T)
  BY <1>2, <1>3, <1>4 DEF Bijection, Injection, Surjection, IsInjective
<1>6. ExistsBijection(1..n, T)
  BY <1>5 DEF ExistsBijection
<1>7. Cardinality(T) = n /\ IsFiniteSet(T)
  BY <1>1, <1>6, FS_CountingElements, FS_NatBijection
<1> QED
  BY <1>7 DEF T

\* A descending list of ids of B, that holds every id of B above at, and as
\* many as were asked for unless it holds all of B, is the newest of B.
LEMMA DescendingIsNewest ==
  ASSUME NEW B \in SUBSET ObjectId, NEW ids \in Seq(ObjectId), NEW at \in Int,
         Descending(ids), NEW size \in Nat, Len(ids) <= size,
         \A i \in 1..Len(ids) : ids[i] \in B /\ ids[i] > at,
         \A m \in B : m <= at \/ \E i \in 1..Len(ids) : ids[i] = m,
         (\A m \in B : ~(m <= at)) \/ Len(ids) = size
  PROVE  ids = Newest(B, size)
<1> SUFFICES ASSUME NEW n \in Nat, n = Len(ids)
             PROVE  ids = Newest(B, size)
  OBVIOUS
<1>1. n \in Nat /\ ids \in [1..n -> ObjectId] /\ B \subseteq Int /\ IsFiniteSet(B)
      /\ Cardinality(B) \in Nat
  <2>1. IsFiniteSet(ObjectId) /\ ObjectId \subseteq Int
    BY MaxObjectsAssumption, FS_Interval DEF ObjectId
  <2> QED
    BY <2>1, FS_Subset, FS_CardinalityType, LenProperties
<1>2. \A i \in 1..n : ids[i] \in Int
  BY <1>1
<1>3. n = IF Cardinality(B) < size THEN Cardinality(B) ELSE size
  <2> DEFINE R == {ids[j] : j \in 1..n}
  <2>1. Cardinality(R) = n /\ R \subseteq B
    <3>1. n \in 0..Len(ids)
      OBVIOUS
    <3> QED
      BY <1>1, <3>1, CountDescending
  <2> HIDE DEF R
  <2>2. n <= Cardinality(B)
    BY <1>1, <2>1, FS_Subset
  <2>3. CASE \A m \in B : ~(m <= at)
    <3>1. R = B
      BY <2>1, <2>3 DEF R
    <3> QED
      BY <1>1, <2>1, <3>1
  <2>4. CASE n = size
    BY <1>1, <2>2, <2>4
  <2> QED
    BY <2>3, <2>4
<1>4. ASSUME NEW i \in 1..n
      PROVE  ids[i] = CHOOSE o \in B : Cardinality({p \in B : p > o}) = i - 1
  <2>1. {p \in B : p > ids[i]} = {ids[j] : j \in 1..(i - 1)}
    <3>1. ASSUME NEW p \in B, p > ids[i]
          PROVE  p \in {ids[j] : j \in 1..(i - 1)}
      <4>1. p \in Int /\ ids[i] \in Int /\ ids[i] > at
        BY <1>1, <1>2
      <4>2. ~(p <= at)
        BY <3>1, <4>1
      <4>3. PICK j \in 1..n : ids[j] = p
        BY <4>2
      <4>4. ~(i < j) /\ i # j
        BY <3>1, <4>1, <4>3 DEF Descending
      <4>5. j \in 1..(i - 1)
        BY <1>1, <4>4
      <4> QED
        BY <4>3, <4>5
    <3>2. ASSUME NEW j \in 1..(i - 1)
          PROVE  ids[j] \in B /\ ids[j] > ids[i]
      <4>1. j \in 1..n /\ j < i
        BY <1>1
      <4> QED
        BY <4>1 DEF Descending
    <3> QED
      BY <3>1, <3>2
  <2>2. Cardinality({p \in B : p > ids[i]}) = i - 1
    <3>1. i - 1 \in 0..Len(ids)
      BY <1>1
    <3> QED
      BY <2>1, <3>1, CountDescending
  <2>3. ids[i] \in B
    OBVIOUS
  <2>4. \A o \in B : Cardinality({p \in B : p > o}) = i - 1 => o = ids[i]
    BY <2>2, <2>3, RankInjective
  <2> QED
    BY <2>2, <2>3, <2>4
<1>5. ids = [i \in 1..n |-> CHOOSE o \in B : Cardinality({p \in B : p > o}) = i - 1]
  BY <1>1, <1>4
<1> QED
  BY <1>3, <1>5 DEF Newest

\* A page of a list, from a start that has exactly B below it, is the newest
\* of B, or the call reverts.
LEMMA PageIsNewest ==
  ASSUME NEW l, l.next \in [ObjectId -> NodeId], NEW indexed,
         NEW ever \in SUBSET ObjectId, NEW members \in SUBSET ever,
         NEW B \in SUBSET members, NoMemberSkipped(l, members, ever),
         \A o \in ever : o \in indexed <=> o \in members,
         NEW start \in ever \cup {0}, NEW size \in Nat, NEW maxSteps \in Nat,
         B = {m \in members : m <= start}
  PROVE  LET page == PageOf(l, indexed, start, size, maxSteps)
         IN  page.reverted \/ page.ids = Newest(B, size)
<1>0. start \in NodeId
  BY MaxObjectsAssumption DEF NodeId, ObjectId
<1>1. PICK walk : /\ IsWalk(walk, l, indexed, start, size, maxSteps)
                  /\ PageOf(l, indexed, start, size, maxSteps)
                        = [ids |-> walk[maxSteps].ids,
                           reverted |-> ~(walk[maxSteps].at = 0
                                          \/ Len(walk[maxSteps].ids) = size)]
  BY <1>0, PageOfWalk
<1> DEFINE page == PageOf(l, indexed, start, size, maxSteps)
<1> SUFFICES ASSUME NEW w, w = walk[maxSteps], w.at = 0 \/ Len(w.ids) = size
             PROVE  w.ids = Newest(B, size)
  <2>1. page.ids = walk[maxSteps].ids
        /\ page.reverted = ~(walk[maxSteps].at = 0 \/ Len(walk[maxSteps].ids) = size)
    BY <1>1
  <2> HIDE DEF page
  <2> QED
    BY <2>1 DEF page
<1> HIDE DEF page
<1>2. w \in Walker
  BY <1>1 DEF IsWalk
<1>3. WalkInv(w, members, B, ever, size)
  <2>1. \A s \in 0..maxSteps : WalkInv(walk[s], members, B, ever, size)
    BY <1>1, WalkHolds
  <2>2. maxSteps \in 0..maxSteps
    OBVIOUS
  <2> QED
    BY <2>1, <2>2
<1>4. /\ w.ids \in Seq(ObjectId) /\ w.at \in Int /\ B \in SUBSET ObjectId
      /\ \A m \in B : m > 0 /\ m \in Int
  <2>1. ObjectId \subseteq Int /\ NodeId \subseteq Int /\ \A m \in ObjectId : m > 0
    BY MaxObjectsAssumption DEF NodeId, ObjectId
  <2> QED
    BY <1>2, <2>1 DEF Walker, NodeId, ObjectId
<1>5. (\A m \in B : ~(m <= w.at)) \/ Len(w.ids) = size
  BY <1>4
<1>6. \A i \in 1..Len(w.ids) : w.ids[i] \in B /\ w.ids[i] > w.at
  BY <1>3 DEF WalkInv
<1>7. \A m \in B : m <= w.at \/ \E i \in 1..Len(w.ids) : w.ids[i] = m
  BY <1>3 DEF WalkInv
<1>8. Descending(w.ids) /\ Len(w.ids) <= size
  BY <1>3 DEF WalkInv
<1> DEFINE ids == w.ids
           at == w.at
<1>9. /\ B \in SUBSET ObjectId /\ ids \in Seq(ObjectId) /\ at \in Int
      /\ Descending(ids) /\ size \in Nat /\ Len(ids) <= size
  BY <1>4, <1>8
<1>10. /\ \A i \in 1..Len(ids) : ids[i] \in B /\ ids[i] > at
       /\ \A m \in B : m <= at \/ \E i \in 1..Len(ids) : ids[i] = m
       /\ (\A m \in B : ~(m <= at)) \/ Len(ids) = size
  BY <1>5, <1>6, <1>7
<1> HIDE DEF ids, at
<1>11. ids = Newest(B, size)
  BY <1>9, <1>10, DescendingIsNewest
<1> QED
  BY <1>11 DEF ids

-----------------------------------------------------------------------------
(* The lists the pages are read from *)

\* The list of all objects of an account holds every upload issued to it.
HistoryMatchesIssued ==
  \A a \in Account :
    /\ HeadIsNewest(accountObjectList, a, IssuedTo(a))
    /\ NoMemberSkipped(accountObjectList, IssuedTo(a), IssuedTo(a))

\* Nothing is issued at the start.
LEMMA HistoryInit == Init => HistoryMatchesIssued
<1> SUFFICES ASSUME Init PROVE HistoryMatchesIssued
  OBVIOUS
<1>1. IssuedIds = {}
  BY DEF Init, IssuedIds, ObjectId
<1>2. \A a \in Account : IssuedTo(a) = {}
  BY <1>1 DEF IssuedTo
<1> QED
  BY <1>2 DEF Init, HistoryMatchesIssued, HeadIsNewest, NoMemberSkipped

\* A request puts the new id at the head of one history.
LEMMA RequestKeepsHistory ==
  ASSUME TypeOK, HistoryMatchesIssued,
         NEW caller, NEW p \in Requests, NEW signer,
         RequestUpload(caller, p, signer)
  PROVE  HistoryMatchesIssued'
<1> DEFINE o == nextObjectId
           b == p.accountId
<1>1. /\ p \in RequestUploadParams /\ b \in Account
      /\ o \in ObjectId /\ nextObjectId \in Int
  BY ConstantsAssumption, MaxObjectsAssumption
  DEF RequestUpload, RequestAccepted, ValidRequest, RequestUploadParams, TypeOK, ObjectId
<1>2. /\ objects' = [objects EXCEPT ![o] = RequestedObject(p)]
      /\ nextObjectId' = o + 1
      /\ accountObjectList'.heads = [accountObjectList.heads EXCEPT ![b] = o]
      /\ accountObjectList'.next =
           [accountObjectList.next EXCEPT ![o] = accountObjectList.heads[b]]
  BY DEF RequestUpload, RequestAccepted, IndexRequestedObject
<1>3. /\ objects \in [ObjectId -> StorageObject]
      /\ accountObjectList.heads \in [Account -> NodeId]
      /\ accountObjectList.next \in [ObjectId -> NodeId]
      /\ RequestedObject(p).accountId = b
  BY DEF TypeOK, RequestedObject
<1> HIDE DEF o, b
<1>4. ObjectId \subseteq Int /\ o \in Int /\ o = nextObjectId /\ o > 0
  BY <1>1, MaxObjectsAssumption DEF ObjectId, o
<1>5. IssuedIds' = IssuedIds \cup {o} /\ \A q \in IssuedIds : q < o /\ q \in ObjectId
  <2>1. \A q \in ObjectId : (q < o + 1) <=> (q < o \/ q = o)
    BY <1>4
  <2> QED
    BY <1>1, <1>2, <1>4, <2>1 DEF IssuedIds
<1> SUFFICES ASSUME NEW a \in Account
             PROVE  (/\ HeadIsNewest(accountObjectList, a, IssuedTo(a))
                     /\ NoMemberSkipped(accountObjectList, IssuedTo(a), IssuedTo(a)))'
  BY DEF HistoryMatchesIssued
<1>6. /\ HeadIsNewest(accountObjectList, a, IssuedTo(a))
      /\ NoMemberSkipped(accountObjectList, IssuedTo(a), IssuedTo(a))
  BY DEF HistoryMatchesIssued
<1>7. \A q \in IssuedIds : objects'[q] = objects[q]
  BY <1>2, <1>3, <1>4, <1>5
<1>8. CASE a = b
  <2>1. IssuedTo(a)' = IssuedTo(a) \cup {o}
    BY <1>1, <1>2, <1>3, <1>5, <1>7, <1>8 DEF IssuedTo
  <2>2. \A q \in IssuedTo(a) : q < o /\ q \in ObjectId
    BY <1>5 DEF IssuedTo
  <2>3. accountObjectList'.heads[a] = o
        /\ accountObjectList'.next[o] = accountObjectList.heads[a]
    BY <1>1, <1>2, <1>3, <1>8
  <2>4. \A q \in IssuedTo(a) : accountObjectList'.next[q] = accountObjectList.next[q]
    BY <1>2, <1>3, <1>4, <2>2
  <2>5. HeadIsNewest(accountObjectList, a, IssuedTo(a))'
    <3>1. \A m \in IssuedTo(a) \cup {o} : m <= o
      <4>1. \A m \in IssuedTo(a) : m \in Int /\ m < o
        BY <1>4, <2>2
      <4> QED
        BY <1>4, <4>1
    <3> QED
      BY <2>1, <2>3, <3>1 DEF HeadIsNewest
  <2>6. accountObjectList.heads[a] \in IssuedTo(a) \cup {0}
        /\ accountObjectList.heads[a] < o
        /\ \A m \in IssuedTo(a) : m <= accountObjectList.heads[a]
    BY <1>4, <1>6, <2>2 DEF HeadIsNewest
  <2>7. ASSUME NEW q \in IssuedTo(a) \cup {o}
        PROVE  /\ accountObjectList'.next[q] \in IssuedTo(a) \cup {o, 0}
               /\ accountObjectList'.next[q] < q
               /\ \A m \in IssuedTo(a) \cup {o} :
                    m < q => m <= accountObjectList'.next[q]
    <3>1. CASE q = o
      <4>1. \A m \in IssuedTo(a) \cup {o} : m < o => m \in IssuedTo(a)
        BY <1>4
      <4> QED
        BY <2>3, <2>6, <3>1, <4>1
    <3>2. CASE q \in IssuedTo(a)
      <4>1. /\ accountObjectList.next[q] \in IssuedTo(a) \cup {0}
            /\ accountObjectList.next[q] < q
            /\ \A m \in IssuedTo(a) : m < q => m <= accountObjectList.next[q]
        BY <1>6, <3>2 DEF NoMemberSkipped
      <4>2. ~(o < q)
        <5>1. q \in Int /\ q < o
          BY <1>4, <2>2, <3>2
        <5> QED
          BY <1>4, <5>1
      <4> QED
        BY <2>4, <3>2, <4>1, <4>2
    <3> QED
      BY <3>1, <3>2
  <2> QED
    BY <2>1, <2>5, <2>7 DEF NoMemberSkipped
<1>9. CASE a # b
  <2>1. IssuedTo(a)' = IssuedTo(a)
    BY <1>1, <1>2, <1>3, <1>5, <1>7, <1>9 DEF IssuedTo
  <2>2. \A q \in IssuedTo(a) : q < o /\ q \in ObjectId
    BY <1>5 DEF IssuedTo
  <2>3. accountObjectList'.heads[a] = accountObjectList.heads[a]
    BY <1>2, <1>3, <1>9
  <2>4. \A q \in IssuedTo(a) : accountObjectList'.next[q] = accountObjectList.next[q]
    BY <1>2, <1>3, <1>4, <2>2
  <2> QED
    BY <1>6, <2>1, <2>3, <2>4 DEF HeadIsNewest, NoMemberSkipped
<1> QED
  BY <1>8, <1>9

\* No step leaves an upload out of the history of its account.
LEMMA HistoryStep ==
  TypeOK /\ HistoryMatchesIssued /\ [Next]_vars => HistoryMatchesIssued'
<1> SUFFICES ASSUME TypeOK, HistoryMatchesIssued, [Next]_vars
             PROVE  HistoryMatchesIssued'
  OBVIOUS
<1>1. CASE \E caller \in Address, p \in Requests, signer \in Address \cup {Zero} :
              RequestUpload(caller, p, signer)
  BY <1>1, RequestKeepsHistory
<1>2. CASE ~\E caller \in Address, p \in Requests, signer \in Address \cup {Zero} :
              RequestUpload(caller, p, signer)
  <2>1. /\ UNCHANGED <<nextObjectId, accountObjectList>>
        /\ \A o \in ObjectId : objects'[o].accountId = objects[o].accountId
    BY <1>2, ClaimsFixed
  <2>2. IssuedIds' = IssuedIds
    BY <2>1 DEF IssuedIds
  <2>3. \A a \in Account : IssuedTo(a)' = IssuedTo(a)
    BY <2>1, <2>2 DEF IssuedTo, IssuedIds
  <2> QED
    BY <2>1, <2>3 DEF HistoryMatchesIssued
<1> QED
  BY <1>1, <1>2

-----------------------------------------------------------------------------
(* Pages *)

\* A page of list k below a cursor that was ever on it.
LEMMA ListPageExact ==
  ASSUME NEW l, l.next \in [ObjectId -> NodeId], NEW k, NEW indexed,
         NEW ever \in SUBSET ObjectId, NEW members \in SUBSET ever,
         HeadIsNewest(l, k, members), NoMemberSkipped(l, members, ever),
         \A o \in ever : o \in indexed <=> o \in members,
         NEW cursor \in ever \cup {0}, NEW size \in Nat, NEW maxSteps \in Nat
  PROVE  Exact(PageOf(l, indexed, IF cursor = 0 THEN l.heads[k] ELSE l.next[cursor],
                      size, maxSteps),
               members, cursor, size)
<1> DEFINE start == IF cursor = 0 THEN l.heads[k] ELSE l.next[cursor]
           B == Below(members, cursor)
<1>1. ever \subseteq Int /\ members \subseteq Int /\ 0 \notin ever
  BY MaxObjectsAssumption DEF ObjectId
<1>2. start \in ever \cup {0} /\ B = {m \in members : m <= start}
  <2>1. CASE cursor = 0
    BY <2>1 DEF HeadIsNewest, Below
  <2>2. CASE cursor # 0
    <3>1. /\ cursor \in ever /\ start \in ever \cup {0} /\ start < cursor
          /\ \A m \in members : m < cursor => m <= start
      BY <2>2 DEF NoMemberSkipped
    <3>2. \A m \in members : m <= start => m < cursor
      BY <1>1, <3>1
    <3> QED
      BY <2>2, <3>1, <3>2 DEF Below
  <2> QED
    BY <2>1, <2>2
<1>3. B \in SUBSET members
  BY DEF Below
<1> HIDE DEF start, B
<1>4. LET page == PageOf(l, indexed, start, size, maxSteps)
      IN  page.reverted \/ page.ids = Newest(B, size)
  BY <1>2, <1>3, PageIsNewest
<1> QED
  BY <1>4 DEF Exact, start, B

\* The contract clips the page size to the number of active objects.
LEMMA ClippedSize ==
  ASSUME NEW S \in SUBSET ObjectId, NEW T \in SUBSET S, NEW n \in Nat
  PROVE  Newest(T, IF Cardinality(S) < n THEN Cardinality(S) ELSE n) = Newest(T, n)
<1>1. /\ Cardinality(S) \in Nat /\ Cardinality(T) \in Nat
      /\ Cardinality(T) <= Cardinality(S)
  <2>1. IsFiniteSet(ObjectId)
    BY MaxObjectsAssumption, FS_Interval DEF ObjectId
  <2>2. IsFiniteSet(S)
    BY <2>1, FS_Subset
  <2> QED
    BY <2>2, FS_Subset, FS_CardinalityType
<1> DEFINE s == Cardinality(S)
           t == Cardinality(T)
           clip == IF s < n THEN s ELSE n
<1>2. (IF t < clip THEN t ELSE clip) = (IF t < n THEN t ELSE n)
  <2> HIDE DEF s, t
  <2>1. s \in Nat /\ t \in Nat /\ t <= s
    BY <1>1 DEF s, t
  <2> QED
    BY <2>1
<1> QED
  BY <1>2 DEF Newest

\* Nothing is on an empty page.
LEMMA NothingBelow ==
  ASSUME NEW S \in SUBSET ObjectId, NEW n \in Nat, S = {} \/ n = 0, NEW cursor
  PROVE  Exact(PageWith(<<>>), S, cursor, n)
<1>1. Newest(Below(S, cursor), n) = <<>>
  <2>1. Below(S, cursor) \in SUBSET ObjectId
        /\ (S = {} => Below(S, cursor) = {})
    BY DEF Below
  <2>2. /\ IsFiniteSet(Below(S, cursor)) /\ Cardinality(Below(S, cursor)) \in Nat
    <3>1. IsFiniteSet(ObjectId)
      BY MaxObjectsAssumption, FS_Interval DEF ObjectId
    <3> QED
      BY <2>1, <3>1, FS_Subset, FS_CardinalityType
  <2> HIDE DEF Below
  <2>3. S = {} => Cardinality(Below(S, cursor)) = 0
    BY <2>1, FS_EmptySet
  <2>4. (IF Cardinality(Below(S, cursor)) < n THEN Cardinality(Below(S, cursor)) ELSE n)
          = 0
    BY <2>2, <2>3
  <2> QED
    BY <2>4 DEF Newest
<1> QED
  BY <1>1 DEF Exact, PageWith

\* The ids from start down, as many as asked for, are the newest up to start.
LEMMA CountdownIsNewest ==
  ASSUME NEW start \in NodeId, NEW limit \in Nat
  PROVE  LET count == IF start < limit THEN start ELSE limit
         IN  [i \in 1..count |-> start - i + 1]
               = Newest({o \in ObjectId : o <= start}, limit)
<1> DEFINE count == IF start < limit THEN start ELSE limit
           ids == [i \in 1..count |-> start - i + 1]
           B == {o \in ObjectId : o <= start}
           at == start - count
<1>1. start \in Nat /\ MaxObjects \in Nat /\ start <= MaxObjects
  BY MaxObjectsAssumption DEF NodeId
<1>2. count \in Nat /\ count <= limit /\ at \in Nat /\ (at = 0 \/ count = limit)
      /\ count <= start
  BY <1>1
<1>3. B = 1..start
  BY <1>1 DEF ObjectId
<1>4. \A i \in 1..count : ids[i] = start - i + 1 /\ ids[i] \in B /\ ids[i] > at
  <2> SUFFICES ASSUME NEW i \in 1..count
               PROVE  start - i + 1 \in B /\ start - i + 1 > at
    OBVIOUS
  <2> HIDE DEF B
  <2> QED
    BY <1>1, <1>2, <1>3
<1>5. \A m \in B : m <= at \/ \E i \in 1..count : ids[i] = m
  <2> SUFFICES ASSUME NEW m \in B, ~(m <= at)
               PROVE  \E i \in 1..count : ids[i] = m
    OBVIOUS
  <2>1. m \in 1..start
    BY <1>3
  <2>2. start - m + 1 \in 1..count
    BY <1>1, <1>2, <2>1
  <2>3. ids[start - m + 1] = m
    BY <1>1, <2>1, <2>2
  <2> QED
    BY <2>2, <2>3
<1>6. ids \in [1..count -> ObjectId]
  BY <1>4
<1>7. \A m \in B : m \in Nat /\ m > 0
  BY <1>1 DEF ObjectId
<1>8. B \in SUBSET ObjectId
  OBVIOUS
<1> SUFFICES ids = Newest(B, limit)
  OBVIOUS
<1>9. \A i, j \in 1..count : i < j => ids[i] > ids[j]
  BY <1>1, <1>2
<1> HIDE DEF ids, B, at, count
<1>10. ids \in Seq(ObjectId) /\ Len(ids) = count
  BY <1>2, <1>6
<1>11. Descending(ids)
  BY <1>9, <1>10 DEF Descending
<1>12. \A m \in B : at = 0 => ~(m <= at)
  BY <1>7
<1>13. (\A m \in B : ~(m <= at)) \/ Len(ids) = limit
  BY <1>2, <1>10, <1>12
<1>14. Len(ids) <= limit /\ at \in Int
  BY <1>2, <1>10
<1>15. /\ \A i \in 1..Len(ids) : ids[i] \in B /\ ids[i] > at
       /\ \A m \in B : m <= at \/ \E i \in 1..Len(ids) : ids[i] = m
  BY <1>4, <1>5, <1>10
<1> QED
  BY <1>8, <1>10, <1>11, <1>13, <1>14, <1>15, DescendingIsNewest

\* The walk over the history of an account descends: it is over before the
\* ids run out.
LEMMA HistoryServed ==
  ASSUME NEW l, l.next \in [ObjectId -> NodeId],
         NEW S \in SUBSET ObjectId, NoMemberSkipped(l, S, S),
         NEW start \in S \cup {0}, NEW size \in Nat
  PROVE  ~PageOf(l, ObjectId, start, size, MaxObjects).reverted
<1> DEFINE page == PageOf(l, ObjectId, start, size, MaxObjects)
           B == {m \in S : m <= start}
<1>1. start \in NodeId /\ MaxObjects \in Nat /\ MaxObjects \in 0..MaxObjects
  BY MaxObjectsAssumption DEF NodeId, ObjectId
<1>2. PICK walk : /\ IsWalk(walk, l, ObjectId, start, size, MaxObjects)
                  /\ PageOf(l, ObjectId, start, size, MaxObjects)
                        = [ids |-> walk[MaxObjects].ids,
                           reverted |-> ~(walk[MaxObjects].at = 0
                                          \/ Len(walk[MaxObjects].ids) = size)]
  BY <1>1, PageOfWalk
<1>3. page.reverted = ~(walk[MaxObjects].at = 0 \/ Len(walk[MaxObjects].ids) = size)
  BY <1>2
<1> HIDE DEF page
<1> SUFFICES ASSUME NEW w, w = walk[MaxObjects], w.at # 0, Len(w.ids) # size
             PROVE  FALSE
  BY <1>3 DEF page
<1>4. w \in Walker
  BY <1>1, <1>2 DEF IsWalk
<1>5. OverMembers(w, S, size, MaxObjects)
  <2>1. \A m \in S : l.next[m] \in S \cup {0}
    BY DEF NoMemberSkipped
  <2>2. \A s \in 0..MaxObjects : OverMembers(walk[s], S, size, s)
    BY <1>1, <1>2, <2>1, WalkOverMembers
  <2> QED
    BY <1>1, <2>2
<1>6. WalkInv(w, S, B, S, size)
  <2>1. B \in SUBSET S /\ S \in SUBSET S /\ \A o \in S : o \in ObjectId <=> o \in S
    OBVIOUS
  <2>2. B = {m \in S : m <= start}
    OBVIOUS
  <2> HIDE DEF B
  <2>3. \A s \in 0..MaxObjects : WalkInv(walk[s], S, B, S, size)
    BY <1>1, <1>2, <2>1, <2>2, WalkHolds
  <2> QED
    BY <1>1, <2>3
<1> DEFINE kept == {w.ids[j] : j \in 1..MaxObjects}
<1>7. w.ids \in Seq(ObjectId) /\ Len(w.ids) = MaxObjects /\ w.at \in ObjectId
  BY <1>4, <1>5 DEF OverMembers, Walker
<1>8. Cardinality(kept) = MaxObjects
  <2>1. MaxObjects \in 0..Len(w.ids) /\ Descending(w.ids)
    BY <1>1, <1>6, <1>7 DEF WalkInv
  <2> QED
    BY <1>7, <2>1, CountDescending
<1>9. kept \subseteq 2..MaxObjects
  <2>1. \A j \in 1..MaxObjects : w.ids[j] > w.at /\ w.ids[j] \in ObjectId
    BY <1>6, <1>7 DEF WalkInv
  <2>2. \A x, y \in 1..MaxObjects : x > y => x \in 2..MaxObjects
    BY <1>1
  <2>3. \A j \in 1..MaxObjects : w.ids[j] \in 2..MaxObjects
    BY <1>7, <2>1, <2>2 DEF ObjectId
  <2> QED
    BY <2>3
<1>10. IsFiniteSet(2..MaxObjects) /\ Cardinality(2..MaxObjects) < MaxObjects
  <2>1. MaxObjects >= 1
    BY <1>1, <1>7 DEF ObjectId
  <2>2. /\ IsFiniteSet(2..MaxObjects)
        /\ Cardinality(2..MaxObjects) = IF 2 > MaxObjects THEN 0 ELSE MaxObjects - 2 + 1
    BY <1>1, FS_Interval
  <2> QED
    BY <1>1, <2>1, <2>2
<1> HIDE DEF kept
<1>11. Cardinality(kept) <= Cardinality(2..MaxObjects)
       /\ Cardinality(2..MaxObjects) \in Nat
  BY <1>9, <1>10, FS_Subset, FS_CardinalityType
<1> QED
  BY <1>1, <1>8, <1>10, <1>11

\* Counting down from below any cursor, or from the top, lists the history.
LEMMA HistoryPageExact ==
  ASSUME TypeOK, NEW cursor \in AnyCursor, NEW limit \in Limits
  PROVE  Exact(ListAllStorageObjectIds(cursor, limit), IssuedIds, cursor, limit)
<1> DEFINE newest == nextObjectId - 1
           start == StartObjectIdBelow(cursor)
<1>1. /\ limit \in Nat /\ cursor \in Nat /\ MaxObjects \in Nat
      /\ newest \in 0..MaxObjects
  BY MaxLimitAssumption, MaxObjectsAssumption DEF TypeOK, Limits, AnyCursor
<1>2. start = IF cursor = 0 \/ cursor > newest THEN newest ELSE cursor - 1
  BY DEF StartObjectIdBelow
<1>3. IssuedIds = {o \in ObjectId : o <= newest}
  <2>1. nextObjectId \in Nat
    BY MaxObjectsAssumption DEF TypeOK
  <2>2. \A o \in ObjectId : o < nextObjectId <=> o <= newest
    BY <2>1 DEF ObjectId
  <2> HIDE DEF newest
  <2> QED
    BY <2>2 DEF IssuedIds
<1>4. ListAllStorageObjectIds(cursor, limit)
        = PageWith(LET count == IF start < limit THEN start ELSE limit
                   IN  [i \in 1..count |-> start - i + 1])
  BY DEF ListAllStorageObjectIds
<1> HIDE DEF newest, start
<1>5. start \in NodeId
  BY <1>1, <1>2 DEF NodeId
<1>6. Below(IssuedIds, cursor) = {o \in ObjectId : o <= start}
  <2>1. \A o \in ObjectId : o <= newest /\ (cursor = 0 \/ o < cursor) <=> o <= start
    BY <1>1, <1>2 DEF ObjectId
  <2> QED
    BY <1>3, <2>1 DEF Below
<1> QED
  BY <1>1, <1>4, <1>5, <1>6, CountdownIsNewest DEF Exact, PageWith

\* What the lists satisfy makes every page exact.
LEMMA PagesExactStep ==
  TypeOK /\ IndexMatchesStatus /\ HistoryMatchesIssued => PagesExact
<1> SUFFICES ASSUME TypeOK, IndexMatchesStatus, HistoryMatchesIssued,
                    NEW cursor \in IssuedIds \cup {0}, NEW limit \in Limits
             PROVE  /\ Exact(ListActiveStorageObjectIds(cursor, limit), LiveIds,
                             cursor, limit)
                    /\ \A a \in Account : cursor \in IssuedTo(a) \cup {0} =>
                         /\ Exact(ListActiveAccountObjectIds(a, cursor, limit),
                                  LiveIds \cap IssuedTo(a), cursor, limit)
                         /\ Exact(ListAllAccountObjectIds(a, cursor, limit),
                                  IssuedTo(a), cursor, limit)
                         /\ ~ListAllAccountObjectIds(a, cursor, limit).reverted
  BY HistoryPageExact DEF PagesExact
<1>1. limit \in Nat /\ ActiveTraversalStepLimit(limit) \in Nat
  BY MaxLimitAssumption DEF Limits, ActiveTraversalStepLimit
<1>2. /\ IssuedIds \in SUBSET ObjectId /\ LiveIds \in SUBSET IssuedIds
      /\ LiveIds \in SUBSET ObjectId /\ activeIndexed = LiveIds
      /\ activeCount = Cardinality(LiveIds)
  BY LiveIsIssued DEF IndexMatchesStatus, IssuedIds, LiveIds
<1>3. /\ activeList.next \in [ObjectId -> NodeId]
      /\ accountActiveList.next \in [ObjectId -> NodeId]
      /\ accountObjectList.next \in [ObjectId -> NodeId]
      /\ nextObjectId \in 1..(MaxObjects + 1)
  BY DEF TypeOK, ListType
<1>4. Exact(ListActiveStorageObjectIds(cursor, limit), LiveIds, cursor, limit)
  <2>1. CASE limit = 0 \/ activeCount = 0
    <3>1. limit = 0 \/ LiveIds = {}
      BY <1>2, <2>1, LiveIdsFinite, FS_EmptySet
    <3>2. ListActiveStorageObjectIds(cursor, limit) = PageWith(<<>>)
      BY <2>1 DEF ListActiveStorageObjectIds
    <3> QED
      BY <1>1, <1>2, <3>1, <3>2, NothingBelow
  <2>2. CASE ~(limit = 0 \/ activeCount = 0)
    <3> DEFINE size == IF activeCount < limit THEN activeCount ELSE limit
    <3>1. size \in Nat
      BY <1>1, <1>2, LiveIdsFinite
    <3>2. /\ HeadIsNewest(activeList, GlobalList, LiveIds)
          /\ NoMemberSkipped(activeList, LiveIds, IssuedIds)
      BY DEF IndexMatchesStatus, WellLinked
    <3>3. Exact(PageOf(activeList, activeIndexed,
                       IF cursor = 0 THEN activeList.heads[GlobalList]
                                     ELSE activeList.next[cursor],
                       size, ActiveTraversalStepLimit(limit)),
                LiveIds, cursor, size)
      <4> HIDE DEF size
      <4> QED
        BY <1>1, <1>2, <1>3, <3>1, <3>2, ListPageExact
    <3>4. Newest(Below(LiveIds, cursor), size) = Newest(Below(LiveIds, cursor), limit)
      <4>1. Below(LiveIds, cursor) \in SUBSET LiveIds
        BY DEF Below
      <4> QED
        BY <1>1, <1>2, <4>1, ClippedSize
    <3>5. ListActiveStorageObjectIds(cursor, limit)
            = PageOf(activeList, activeIndexed,
                     IF cursor = 0 THEN activeList.heads[GlobalList]
                                   ELSE activeList.next[cursor],
                     size, ActiveTraversalStepLimit(limit))
      BY <2>2 DEF ListActiveStorageObjectIds
    <3> HIDE DEF size
    <3> QED
      BY <3>3, <3>4, <3>5 DEF Exact
  <2> QED
    BY <2>1, <2>2
<1>5. ASSUME NEW a \in Account, cursor \in IssuedTo(a) \cup {0}
      PROVE  Exact(ListActiveAccountObjectIds(a, cursor, limit),
                   LiveIds \cap IssuedTo(a), cursor, limit)
  <2>1. /\ IssuedTo(a) \in SUBSET ObjectId
        /\ LiveIds \cap IssuedTo(a) \in SUBSET IssuedTo(a)
        /\ LiveIds \cap IssuedTo(a) \in SUBSET ObjectId
        /\ cursor = 0 \/ objects[cursor].accountId = a
        /\ \A o \in IssuedTo(a) : o \in activeIndexed <=> o \in LiveIds \cap IssuedTo(a)
    BY <1>2, <1>5 DEF IssuedTo
  <2>2. CASE limit = 0
    BY <1>1, <2>1, <2>2, NothingBelow DEF ListActiveAccountObjectIds
  <2>3. CASE limit # 0
    <3>1. /\ HeadIsNewest(accountActiveList, a, LiveIds \cap IssuedTo(a))
          /\ NoMemberSkipped(accountActiveList, LiveIds \cap IssuedTo(a), IssuedTo(a))
      BY DEF IndexMatchesStatus, WellLinked
    <3>2. ListActiveAccountObjectIds(a, cursor, limit)
            = PageOf(accountActiveList, activeIndexed,
                     IF cursor = 0 THEN accountActiveList.heads[a]
                                   ELSE accountActiveList.next[cursor],
                     limit, ActiveTraversalStepLimit(limit))
      BY <2>1, <2>3 DEF ListActiveAccountObjectIds
    <3> QED
      BY <1>1, <1>3, <1>5, <2>1, <3>1, <3>2, ListPageExact
  <2> QED
    BY <2>2, <2>3
<1>6. ASSUME NEW a \in Account, cursor \in IssuedTo(a) \cup {0}
      PROVE  /\ Exact(ListAllAccountObjectIds(a, cursor, limit), IssuedTo(a),
                      cursor, limit)
             /\ ~ListAllAccountObjectIds(a, cursor, limit).reverted
  <2>1. /\ IssuedTo(a) \in SUBSET ObjectId /\ IssuedTo(a) \in SUBSET IssuedTo(a)
        /\ cursor = 0 \/ objects[cursor].accountId = a
        /\ \A o \in IssuedTo(a) : o \in ObjectId <=> o \in IssuedTo(a)
    BY <1>2, <1>6 DEF IssuedTo
  <2>2. CASE limit = 0
    <3>1. ListAllAccountObjectIds(a, cursor, limit) = PageWith(<<>>)
      BY <2>2 DEF ListAllAccountObjectIds
    <3>2. Exact(PageWith(<<>>), IssuedTo(a), cursor, limit)
      BY <1>1, <2>1, <2>2, NothingBelow
    <3> QED
      BY <3>1, <3>2 DEF PageWith
  <2>3. CASE limit # 0
    <3>1. /\ HeadIsNewest(accountObjectList, a, IssuedTo(a))
          /\ NoMemberSkipped(accountObjectList, IssuedTo(a), IssuedTo(a))
      BY DEF HistoryMatchesIssued
    <3>2. ListAllAccountObjectIds(a, cursor, limit)
            = PageOf(accountObjectList, ObjectId,
                     IF cursor = 0 THEN accountObjectList.heads[a]
                                   ELSE accountObjectList.next[cursor],
                     limit, MaxObjects)
      BY <2>1, <2>3 DEF ListAllAccountObjectIds
    <3>3. MaxObjects \in Nat /\ limit \in Nat
      BY <1>1, MaxObjectsAssumption
    <3> DEFINE S == IssuedTo(a)
               l == accountObjectList
    <3>4. /\ S \in SUBSET ObjectId /\ S \in SUBSET S /\ cursor \in S \cup {0}
          /\ \A o \in S : o \in ObjectId <=> o \in S
          /\ HeadIsNewest(l, a, S) /\ NoMemberSkipped(l, S, S)
          /\ l.next \in [ObjectId -> NodeId]
      BY <1>3, <1>6, <2>1, <3>1
    <3> HIDE DEF S, l
    <3>5. Exact(PageOf(l, ObjectId, IF cursor = 0 THEN l.heads[a] ELSE l.next[cursor],
                       limit, MaxObjects),
                S, cursor, limit)
      BY <3>3, <3>4, ListPageExact
    <3> DEFINE start == IF cursor = 0 THEN l.heads[a] ELSE l.next[cursor]
    <3>6. start \in S \cup {0}
      BY <3>4 DEF HeadIsNewest, NoMemberSkipped
    <3> HIDE DEF start
    <3>7. ~PageOf(l, ObjectId, start, limit, MaxObjects).reverted
      BY <3>3, <3>4, <3>6, HistoryServed
    <3> QED
      BY <3>2, <3>5, <3>7 DEF S, l, start
  <2> QED
    BY <2>2, <2>3
<1> QED
  BY <1>4, <1>5, <1>6

\* Every page is the newest ids below its cursor, skipping and repeating none,
\* after any sequence of requests, outcomes, cancellations and expiries.
THEOREM PagesCorrect == Spec => []PagesExact
BY TypeInit, TypeStep, IndexInit, IndexStep, HistoryInit, HistoryStep,
   PagesExactStep, PTL
DEF Spec

\* A walk over live nodes fills the page or ends within the step limit.
LEMMA LiveWalkEnds ==
  ASSUME NEW l, l.next \in [ObjectId -> NodeId], NEW indexed,
         NEW members \in SUBSET ObjectId, members \subseteq indexed,
         \A m \in members : l.next[m] \in members \cup {0},
         NEW start \in members \cup {0}, NEW size \in Nat, NEW maxSteps \in Nat,
         size <= maxSteps
  PROVE  ~PageOf(l, indexed, start, size, maxSteps).reverted
<1>1. start \in NodeId
  BY MaxObjectsAssumption DEF NodeId, ObjectId
<1>2. PICK walk : /\ IsWalk(walk, l, indexed, start, size, maxSteps)
                  /\ PageOf(l, indexed, start, size, maxSteps)
                        = [ids |-> walk[maxSteps].ids,
                           reverted |-> ~(walk[maxSteps].at = 0
                                          \/ Len(walk[maxSteps].ids) = size)]
  BY <1>1, PageOfWalk
<1>3. OverMembers(walk[maxSteps], members, size, maxSteps)
  <2>1. \A s \in 0..maxSteps : OverMembers(walk[s], members, size, s)
    BY <1>2, WalkOverMembers
  <2>2. maxSteps \in 0..maxSteps
    OBVIOUS
  <2> QED
    BY <2>1, <2>2
<1>6. walk[maxSteps].at = 0 \/ Len(walk[maxSteps].ids) = size
  BY <1>3 DEF OverMembers
<1> DEFINE page == PageOf(l, indexed, start, size, maxSteps)
<1>7. page.reverted = ~(walk[maxSteps].at = 0 \/ Len(walk[maxSteps].ids) = size)
  BY <1>2
<1> HIDE DEF page
<1>8. ~page.reverted
  BY <1>6, <1>7
<1> QED
  BY <1>8 DEF page

\* What the active lists satisfy makes every live cursor safe.
LEMMA LiveCursorsServed ==
  TypeOK /\ IndexMatchesStatus => OnlyStaleCursorsRevert
<1> SUFFICES ASSUME TypeOK, IndexMatchesStatus,
                    NEW cursor \in LiveIds \cup {0}, NEW limit \in Limits
             PROVE  /\ ~ListActiveStorageObjectIds(cursor, limit).reverted
                    /\ \A a \in Account :
                         ~ListActiveAccountObjectIds(a, cursor, limit).reverted
  BY DEF OnlyStaleCursorsRevert
<1>1. /\ limit \in Nat /\ ActiveTraversalStepLimit(limit) \in Nat
      /\ limit <= ActiveTraversalStepLimit(limit)
  BY MaxLimitAssumption DEF Limits, ActiveTraversalStepLimit
<1>2. /\ LiveIds \in SUBSET ObjectId /\ activeIndexed = LiveIds
      /\ LiveIds \subseteq IssuedIds
      /\ activeCount \in Nat
  BY LiveIsIssued DEF IndexMatchesStatus, LiveIds, TypeOK
<1>3. /\ activeList.next \in [ObjectId -> NodeId]
      /\ accountActiveList.next \in [ObjectId -> NodeId]
  BY DEF TypeOK, ListType
<1>4. ~ListActiveStorageObjectIds(cursor, limit).reverted
  <2>1. CASE limit = 0 \/ activeCount = 0
    BY <2>1 DEF ListActiveStorageObjectIds, PageWith
  <2>2. CASE ~(limit = 0 \/ activeCount = 0)
    <3> DEFINE size == IF activeCount < limit THEN activeCount ELSE limit
               start == IF cursor = 0 THEN activeList.heads[GlobalList]
                                      ELSE activeList.next[cursor]
    <3>1. size \in Nat /\ size <= ActiveTraversalStepLimit(limit)
      BY <1>1, <1>2
    <3>2. /\ \A m \in LiveIds : activeList.next[m] \in LiveIds \cup {0}
          /\ activeList.heads[GlobalList] \in LiveIds \cup {0}
      BY DEF IndexMatchesStatus, WellLinked, HeadIsNewest, DoublyLinked
    <3>3. start \in LiveIds \cup {0}
      BY <3>2
    <3>4. ListActiveStorageObjectIds(cursor, limit)
            = PageOf(activeList, activeIndexed, start, size,
                     ActiveTraversalStepLimit(limit))
      BY <2>2 DEF ListActiveStorageObjectIds
    <3> HIDE DEF size, start
    <3> QED
      BY <1>1, <1>2, <1>3, <3>1, <3>2, <3>3, <3>4, LiveWalkEnds
  <2> QED
    BY <2>1, <2>2
<1>5. ASSUME NEW a \in Account
      PROVE  ~ListActiveAccountObjectIds(a, cursor, limit).reverted
  <2>1. CASE limit = 0 \/ (cursor # 0 /\ objects[cursor].accountId # a)
    BY <2>1 DEF ListActiveAccountObjectIds, PageWith
  <2>2. CASE ~(limit = 0 \/ (cursor # 0 /\ objects[cursor].accountId # a))
    <3> DEFINE members == LiveIds \cap IssuedTo(a)
               start == IF cursor = 0 THEN accountActiveList.heads[a]
                                      ELSE accountActiveList.next[cursor]
    <3>1. cursor = 0 \/ cursor \in members
      BY <1>2, <2>2 DEF IssuedTo
    <3>2. /\ \A m \in members : accountActiveList.next[m] \in members \cup {0}
          /\ accountActiveList.heads[a] \in members \cup {0}
      BY DEF IndexMatchesStatus, WellLinked, HeadIsNewest, DoublyLinked
    <3>3. start \in members \cup {0} /\ members \in SUBSET ObjectId
          /\ members \subseteq activeIndexed
      BY <1>2, <3>1, <3>2
    <3>4. ListActiveAccountObjectIds(a, cursor, limit)
            = PageOf(accountActiveList, activeIndexed, start, limit,
                     ActiveTraversalStepLimit(limit))
      BY <2>2 DEF ListActiveAccountObjectIds
    <3> HIDE DEF members, start
    <3> QED
      BY <1>1, <1>3, <3>2, <3>3, <3>4, LiveWalkEnds
  <2> QED
    BY <2>1, <2>2
<1> QED
  BY <1>4, <1>5

\* A reader that starts from the head, or from a cursor that is still live, is
\* always served.
THEOREM LiveCursorsNeverRevert == Spec => []OnlyStaleCursorsRevert
BY TypeInit, TypeStep, IndexInit, IndexStep, LiveCursorsServed, PTL DEF Spec

-----------------------------------------------------------------------------
(* The newest ids of a set, as the walks of the views enumerate them       *)

\* As many ids of B are above an id of B as there are numbers below its rank.
LEMMA RankExists ==
  ASSUME NEW B \in SUBSET ObjectId, NEW k \in 0..(Cardinality(B) - 1)
  PROVE  \E o \in B : Cardinality({p \in B : p > o}) = k
<1> DEFINE Rank(o) == Cardinality({p \in B : p > o})
           f == [o \in B |-> Rank(o)]
           R == {f[o] : o \in B}
           n == Cardinality(B)
<1>1. B \subseteq Int /\ IsFiniteSet(B) /\ n \in Nat
  <2>1. IsFiniteSet(ObjectId) /\ ObjectId \subseteq Int
    BY MaxObjectsAssumption, FS_Interval DEF ObjectId
  <2> QED
    BY <2>1, FS_Subset, FS_CardinalityType
<1>2. ASSUME NEW o \in B PROVE f[o] \in 0..(n - 1)
  <2> DEFINE above == {p \in B : p > o}
  <2>1. above \subseteq B /\ above # B
    BY <1>1
  <2>2. Cardinality(above) \in Nat /\ Cardinality(above) < n
    BY <1>1, <2>1, FS_Subset, FS_CardinalityType
  <2> QED
    BY <1>1, <2>2
<1>3. \A o, q \in B : f[o] = f[q] => o = q
  BY RankInjective
<1> HIDE DEF f, n
<1>4. f \in Bijection(B, R)
  <2>1. f \in [B -> R]
    BY DEF f
  <2>2. \A t \in R : \E o \in B : f[o] = t
    OBVIOUS
  <2> QED
    BY <1>3, <2>1, <2>2 DEF Bijection, Injection, Surjection, IsInjective
<1>5. IsFiniteSet(R) /\ Cardinality(R) = n
  BY <1>1, <1>4, FS_Bijection DEF ExistsBijection, n
<1>6. R \subseteq 0..(n - 1)
  BY <1>2
<1>7. IsFiniteSet(0..(n - 1)) /\ Cardinality(0..(n - 1)) = n
  <2>1. 0 \in Int /\ n - 1 \in Int /\ (0 > n - 1 <=> n = 0) /\ n - 1 - 0 + 1 = n
    BY <1>1
  <2> QED
    BY <2>1, FS_Interval
<1>8. R = 0..(n - 1)
  BY <1>5, <1>6, <1>7, FS_Subset
<1>9. PICK o \in B : f[o] = k
  BY <1>8 DEF n
<1> QED
  BY <1>9 DEF f

\* The newest n of a set, newest first: all of it, or the rest is older.
LEMMA NewestEnumerates ==
  ASSUME NEW B \in SUBSET ObjectId, NEW n \in Nat, NEW ids, ids = Newest(B, n)
  PROVE  /\ ids \in Seq(B) /\ Len(ids) <= n
         /\ Descending(ids)
         /\ \A m \in B : \/ \E i \in 1..Len(ids) : ids[i] = m
                         \/ Len(ids) = n /\ \A i \in 1..Len(ids) : m < ids[i]
<1> DEFINE size == IF Cardinality(B) < n THEN Cardinality(B) ELSE n
           rank == [o \in B |-> Cardinality({p \in B : p > o})]
<1>1. /\ B \subseteq Int /\ IsFiniteSet(B) /\ Cardinality(B) \in Nat
      /\ size \in Nat /\ size <= n /\ size <= Cardinality(B)
      /\ size = Cardinality(B) \/ size = n
  <2>1. IsFiniteSet(ObjectId) /\ ObjectId \subseteq Int
    BY MaxObjectsAssumption, FS_Interval DEF ObjectId
  <2>2. B \subseteq Int /\ IsFiniteSet(B) /\ Cardinality(B) \in Nat
    BY <2>1, FS_Subset, FS_CardinalityType
  <2> QED
    BY <2>2
<1>2. ids = [i \in 1..size |-> CHOOSE o \in B : rank[o] = i - 1]
  <2>1. ids = [i \in 1..size |-> CHOOSE o \in B :
                               Cardinality({p \in B : p > o}) = i - 1]
    BY DEF Newest
  <2> QED
    BY <2>1
<1>3. ASSUME NEW i \in 1..size PROVE ids[i] \in B /\ rank[ids[i]] = i - 1
  <2>1. i - 1 \in 0..(Cardinality(B) - 1)
    BY <1>1
  <2>2. \E o \in B : rank[o] = i - 1
    BY <2>1, RankExists
  <2> QED
    BY <1>2, <2>2
<1>4. ASSUME NEW o \in B
      PROVE  rank[o] \in Nat /\ rank[o] < Cardinality(B)
  <2>1. {p \in B : p > o} \subseteq B /\ {p \in B : p > o} # B
    BY <1>1
  <2> QED
    BY <1>1, <2>1, FS_Subset, FS_CardinalityType
<1>5. ASSUME NEW o \in B, NEW q \in B, rank[o] < rank[q] PROVE o > q
  <2>1. CASE o <= q
    <3>1. {p \in B : p > q} \subseteq {p \in B : p > o}
      <4>1. \A p \in B : p > q => p > o
        BY <1>1, <2>1
      <4> QED
        BY <4>1
    <3>3. IsFiniteSet({p \in B : p > o})
      BY <1>1, FS_Subset, {p \in B : p > o} \subseteq B
    <3>2. rank[q] <= rank[o]
      BY <3>1, <3>3, FS_Subset
    <3> QED
      BY <1>4, <1>5, <3>2
  <2>2. CASE ~(o <= q)
    BY <1>1, <2>2
  <2> QED
    BY <2>1, <2>2
<1>6. ids \in [1..size -> B]
  BY <1>2, <1>3
<1> HIDE DEF size, rank
<1>7. ids \in Seq(B) /\ Len(ids) = size
  BY <1>1, <1>6
<1>8. Descending(ids)
  <2> SUFFICES ASSUME NEW i \in 1..size, NEW j \in 1..size, i < j
               PROVE  ids[i] > ids[j]
    BY <1>7 DEF Descending
  <2> QED
    BY <1>3, <1>5, i - 1 < j - 1
<1>9. ASSUME NEW m \in B
      PROVE  \/ \E i \in 1..size : ids[i] = m
             \/ size = n /\ \A i \in 1..size : m < ids[i]
  <2>1. CASE rank[m] + 1 <= size
    <3>1. PICK i \in 1..size : i - 1 = rank[m]
      BY <1>1, <1>4, <2>1, rank[m] + 1 - 1 = rank[m]
    <3>2. ids[i] \in B /\ rank[ids[i]] = rank[m]
      BY <1>3, <3>1
    <3>3. ids[i] = m
      BY <3>2, RankInjective DEF rank
    <3> QED
      BY <3>3
  <2>2. CASE ~(rank[m] + 1 <= size)
    <3>1. size = n
      BY <1>1, <1>4, <2>2
    <3>2. ASSUME NEW i \in 1..size PROVE m < ids[i]
      <4>1. ids[i] \in B /\ rank[ids[i]] < rank[m]
        BY <1>1, <1>3, <1>4, <2>2
      <4>2. ids[i] > m
        BY <1>5, <4>1
      <4> QED
        BY <1>1, <4>1, <4>2
    <3> QED
      BY <3>1, <3>2
  <2> QED
    BY <2>1, <2>2
<1> QED
  BY <1>1, <1>7, <1>8, <1>9
-----------------------------------------------------------------------------
(* What a traversal stands on                                              *)
(*                                                                         *)
(* g, the ground, is what the traversal depends on of the registry and of  *)
(* the history variables: the invariants are stated of a reader, a model   *)
(* and a ground, so that a step that leaves the registry alone leaves g.   *)

Surfaces == {"objectId", "objects"} \cup OffsetSurfaces
DetailKinds == OffsetSurfaces \cup {"object", "copies", "payer"}
Id       == ObjectId \cup Account \cup (Account \X Dataset) \cup Address

Ground ==
  [due |-> dueIds, lengths |-> dueLengths,
   lists |-> [s \in OffsetSurfaces |-> OffsetList(s)],
   issued |-> IssuedIds, live |-> LiveIds, next |-> nextObjectId,
   any |-> moved.any]

Readers ==
  [route : Routes \cup {"none"}, objectId : ObjectId \cup {0},
   limit : Nat \ {0}, includeTerminal : BOOLEAN,
   surface : Surfaces \cup {"idle", "done", "failed"}, rest : Seq(Surfaces),
   phase : {"list", "details", "exceeded maxPagesPerSurface"},
   cursor : Nat, pages : Nat, ids : Seq(Id),
   todo : SUBSET (DetailKinds \X Id)]

ModelFields == {"objects", "usage", "copyReceipts", "receiptPayers", "datasets",
                "coordinators", "relayers", "idempotency"}
IsModel(m) == m = [f \in ModelFields |-> m[f]]

GroundOK(r, g) ==
  /\ g.next \in Nat /\ g.any \in BOOLEAN
  /\ g.issued \subseteq ObjectId /\ \A o \in g.issued : o < g.next
  /\ g.live \subseteq g.issued
  /\ g.due \subseteq IF r.includeTerminal THEN g.issued ELSE g.live
  /\ \A s \in OffsetSurfaces :
       /\ g.lists[s] \in Seq(Id)
       /\ g.lengths[s] \in Nat /\ g.lengths[s] <= Len(g.lists[s])

KeysOf(m, surface) ==
  CASE surface = "accounts"     -> DOMAIN m.usage
    [] surface = "datasets"     -> DOMAIN m.datasets
    [] surface = "coordinators" -> DOMAIN m.coordinators
    [] surface = "relayers"     -> DOMAIN m.relayers

IsReading(r) == r.surface \in Surfaces

\* The surfaces a request is done with and has before it.
SurfacesOK(r) ==
  /\ r.surface # "idle" => r.route \in Routes
  /\ IsReading(r) =>
       /\ r.objectId \in ObjectId /\ r.limit <= MaxLimit
       /\ r.phase \in {"list", "details"}
       /\ r.surface \in Range(SurfacesForRoute(r.route))
       /\ Range(r.rest) \subseteq Range(SurfacesForRoute(r.route))

\* What lies before the cursor was read into the model.
BehindCursor(r, m, g) ==
  /\ r.surface = "objects" => \A o \in g.due :
       r.cursor = 0 \/ o < r.cursor \/ o \in DOMAIN m.objects
  /\ r.surface \in OffsetSurfaces => \A i \in 1..g.lengths[r.surface] :
       i > r.cursor \/ g.lists[r.surface][i] \in KeysOf(m, r.surface)

\* So was what the page leads past, or its details are still to be read.
BehindPage(r, m, g) ==
  /\ r.surface = "objects" => \A o \in g.due :
       \/ o \in DOMAIN m.objects
       \/ <<"object", o>> \in r.todo
       \/ /\ r.ids # <<>> /\ Len(r.ids) = r.limit
          /\ o < r.ids[Len(r.ids)]
  /\ r.surface \in OffsetSurfaces => \A i \in 1..g.lengths[r.surface] :
       \/ g.lists[r.surface][i] \in KeysOf(m, r.surface)
       \/ <<r.surface, g.lists[r.surface][i]>> \in r.todo
       \/ Len(r.ids) = r.limit /\ i > r.cursor + Len(r.ids)

\* The pages so far were full, so there are that many entries.  Only a listing
\* of live uploads starts over, and only after some were closed.
Undisturbed(r, g) == r.includeTerminal \/ ~g.any

CursorCounts(r, g) ==
  /\ r.surface = "objects" =>
       /\ r.cursor \in g.issued \cup {0}
       /\ Undisturbed(r, g) =>
            IF r.cursor = 0 THEN r.pages = 0
            ELSE /\ r.pages * r.limit <= g.next - r.cursor
                 /\ ~r.includeTerminal => r.cursor \in g.live
  /\ r.surface \in OffsetSurfaces =>
       /\ r.pages * r.limit <= r.cursor
       /\ r.cursor <= Len(g.lists[r.surface])

PageCounts(r, g) ==
  /\ r.surface = "objects" /\ r.ids # <<>> =>
       LET last == r.ids[Len(r.ids)]
       IN  /\ last \in g.issued /\ last # r.cursor
           /\ Undisturbed(r, g) =>
                /\ r.pages * r.limit + Len(r.ids) <= g.next - last
                /\ ~r.includeTerminal => last \in g.live
  /\ r.surface \in OffsetSurfaces =>
       /\ r.pages * r.limit <= r.cursor
       /\ r.cursor + Len(r.ids) <= Len(g.lists[r.surface])

PositionOK(r, m, g) ==
  /\ r.phase = "list" => BehindCursor(r, m, g) /\ CursorCounts(r, g)
  /\ r.phase = "details" => BehindPage(r, m, g) /\ PageCounts(r, g)

\* What is owed of a surface.
Complete(surface, m, g) ==
  /\ surface = "objects" => g.due \subseteq DOMAIN m.objects
  /\ surface \in OffsetSurfaces => \A i \in 1..g.lengths[surface] :
       g.lists[surface][i] \in KeysOf(m, surface)

\* The object that is asked for does not exist: nothing else is read.
Missed(r, m) ==
  r.surface = "done" /\ r.route = "object" /\ DOMAIN m.objects = {}

LeftBehindOK(r, m, g) ==
  \/ Missed(r, m)
  \/ /\ r.surface = "done" => r.rest = <<>>
     /\ \A s \in Range(SurfacesForRoute(r.route)) :
          s # r.surface /\ s \notin Range(r.rest) => Complete(s, m, g)

FailureOK(r, g) ==
  /\ r.phase = "exceeded maxPagesPerSurface"
  /\ \/ g.any /\ ~r.includeTerminal
     \/ g.next - 1 >= MaxPagesPerSurface * r.limit
     \/ \E s \in OffsetSurfaces : Len(g.lists[s]) >= MaxPagesPerSurface * r.limit

TraversalOK(r, m, g) ==
  /\ r \in Readers /\ IsModel(m) /\ GroundOK(r, g) /\ SurfacesOK(r)
  /\ IsReading(r) => PositionOK(r, m, g)
  /\ IsReading(r) \/ r.surface = "done" => LeftBehindOK(r, m, g)
  /\ r.surface = "failed" => FailureOK(r, g)

TraversalInv == TraversalOK(reader, readModel, Ground)

-----------------------------------------------------------------------------
(* The registry between two reads *)

\* A registry that moved: ids are issued and lists grow, and what is still
\* live or issued of what is owed stays owed.
GroundGrows(g, h) ==
  /\ h.any = TRUE
  /\ h.next \in Nat /\ g.next <= h.next
  /\ g.issued \subseteq h.issued
  /\ h.due \subseteq g.due
  /\ h.lengths = g.lengths
  /\ \A s \in OffsetSurfaces :
       /\ h.lists[s] \in Seq(Id)
       /\ Len(g.lists[s]) <= Len(h.lists[s])
       /\ \A i \in 1..Len(g.lists[s]) : h.lists[s][i] = g.lists[s][i]

\* A list that grew: AddKnown, or nothing.
Extends(new, old) ==
  Len(old) <= Len(new) /\ \A i \in 1..Len(old) : new[i] = old[i]

LEMMA AddKnownExtends ==
  ASSUME NEW S, NEW list \in Seq(S), NEW x \in S
  PROVE  Extends(AddKnown(list, x), list)
BY DEF AddKnown, Extends

LEMMA ListsExtend ==
  ASSUME TypeOK, [Next]_vars
  PROVE  /\ Extends(accountIds', accountIds)
         /\ Extends(datasetKeys', datasetKeys)
         /\ Extends(coordinatorAddresses', coordinatorAddresses)
         /\ Extends(relayerAddresses', relayerAddresses)
<1> DEFINE Grown == /\ Extends(accountIds', accountIds)
                    /\ Extends(datasetKeys', datasetKeys)
                    /\ Extends(coordinatorAddresses', coordinatorAddresses)
                    /\ Extends(relayerAddresses', relayerAddresses)
<1>1. /\ accountIds \in Seq(Account) /\ datasetKeys \in Seq(Account \X Dataset)
      /\ coordinatorAddresses \in Seq(Address) /\ relayerAddresses \in Seq(Address)
  BY DEF TypeOK
<1>2. /\ Extends(accountIds, accountIds) /\ Extends(datasetKeys, datasetKeys)
      /\ Extends(coordinatorAddresses, coordinatorAddresses)
      /\ Extends(relayerAddresses, relayerAddresses)
  BY <1>1 DEF Extends
<1>3. ASSUME UNCHANGED <<accountIds, datasetKeys, coordinatorAddresses, relayerAddresses>>
      PROVE  Grown
  BY <1>2, <1>3
<1>4. ASSUME NEW caller \in Address, NEW p \in Requests,
             NEW signer \in Address \cup {Zero}, RequestUpload(caller, p, signer)
      PROVE  Grown
  <2>1. p.accountId \in Account /\ accountIds' = AddKnown(accountIds, p.accountId)
    BY <1>4, ConstantsAssumption
    DEF RequestUpload, RequestAccepted, IndexRequestedObject, ValidRequest, RequestUploadParams
  <2>2. Extends(accountIds', accountIds)
    BY <1>1, <2>1, AddKnownExtends
  <2> QED
    BY <1>2, <1>4, <2>2 DEF RequestUpload, RequestAccepted, adminVars, datasetVars
<1>5. ASSUME NEW o \in ObjectId, NEW c \in Address, StartUpload(c, o) PROVE Grown
  BY <1>3, <1>5 DEF StartUpload, StartAccepted, requestVars, adminVars, datasetVars
<1>6. ASSUME NEW o \in ObjectId, NEW c \in Address, NEW r \in Receipts,
             FinalizeUpload(c, o, r)
      PROVE  Grown
  BY <1>3, <1>6 DEF FinalizeUpload, ReceiptAccepted, requestVars, adminVars, datasetVars
<1>7. ASSUME NEW o \in ObjectId, NEW c \in Address, NEW charge \in FailureCharges,
             FailUpload(c, o, charge)
      PROVE  Grown
  BY <1>3, <1>7 DEF FailUpload, requestVars, adminVars, datasetVars
<1>8. ASSUME NEW o \in ObjectId, NEW status, CloseUnsettled(o, status) PROVE Grown
  BY <1>3, <1>8 DEF CloseUnsettled, requestVars, adminVars, datasetVars
<1>9. CASE Tick
  BY <1>3, <1>9 DEF Tick, uploadVars, requestVars, adminVars, datasetVars
<1>10. ASSUME NEW caller \in Address, NEW d \in DatasetInputs, RecordDataset(caller, d)
       PROVE  Grown
  <2>1. /\ <<d.accountId, d.dataset>> \in Account \X Dataset
        /\ datasetKeys' = AddKnown(datasetKeys, <<d.accountId, d.dataset>>)
    BY <1>10, ConstantsAssumption DEF RecordDataset, DatasetAccepted, DatasetRecord
  <2>2. Extends(datasetKeys', datasetKeys)
    BY <1>1, <2>1, AddKnownExtends
  <2> QED
    BY <1>2, <1>10, <2>2 DEF RecordDataset, DatasetAccepted, uploadVars, requestVars, adminVars
<1>11. ASSUME NEW caller \in Address, NEW c \in CoordinatorInputs,
              NEW cp \in CoordinatorPolicies, SetCoordinator(caller, c, cp)
       PROVE  Grown
  <2>1. c \in Address /\ coordinatorAddresses' = AddKnown(coordinatorAddresses, c)
    BY <1>11, ConstantsAssumption DEF SetCoordinator
  <2>2. Extends(coordinatorAddresses', coordinatorAddresses)
    BY <1>1, <2>1, AddKnownExtends
  <2> QED
    BY <1>2, <1>11, <2>2 DEF SetCoordinator, uploadVars, requestVars, datasetVars
<1>12. ASSUME NEW caller \in Address, NEW r \in RelayerInputs,
              NEW allowed \in BOOLEAN, SetRelayer(caller, r, allowed)
       PROVE  Grown
  <2>1. r \in Address /\ relayerAddresses' = AddKnown(relayerAddresses, r)
    BY <1>12, ConstantsAssumption DEF SetRelayer
  <2>2. Extends(relayerAddresses', relayerAddresses)
    BY <1>1, <2>1, AddKnownExtends
  <2> QED
    BY <1>2, <1>12, <2>2 DEF SetRelayer, uploadVars, requestVars, datasetVars
<1>13. ASSUME NEW caller \in Address,
              \/ \E newOwner \in NewOwners : TransferOwnership(caller, newOwner)
              \/ \E newPolicy \in Policies : SetPolicy(caller, newPolicy)
       PROVE  Grown
  BY <1>3, <1>13 DEF TransferOwnership, SetPolicy, uploadVars, requestVars, datasetVars
<1>14. CASE Administration
  BY <1>10, <1>11, <1>12, <1>13, <1>14 DEF Administration
<1>15. CASE UNCHANGED vars
  BY <1>3, <1>15 DEF vars, uploadVars, requestVars, adminVars, datasetVars
<1> QED
  BY <1>4, <1>5, <1>6, <1>7, <1>8, <1>9, <1>14, <1>15
  DEF Next, CancelUpload, ExpireUpload

LEMMA IdsStayIssued ==
  ASSUME TypeOK, [Next]_vars
  PROVE  nextObjectId <= nextObjectId' /\ IssuedIds \subseteq IssuedIds'
<1>1. nextObjectId \in Int
  BY DEF TypeOK
<1>2. nextObjectId' = nextObjectId + 1 \/ nextObjectId' = nextObjectId
  <2>1. CASE \E caller \in Address, p \in Requests, signer \in Address \cup {Zero} :
              RequestUpload(caller, p, signer)
    BY <2>1 DEF RequestUpload, RequestAccepted
  <2> QED
    BY <2>1, ClaimsFixed
<1> QED
  BY <1>1, <1>2, MaxObjectsAssumption DEF IssuedIds, ObjectId

\* The ground of a state, and of the next one.
LEMMA GroundFields ==
  /\ Ground.due = dueIds /\ Ground.lengths = dueLengths
  /\ Ground.issued = IssuedIds /\ Ground.live = LiveIds
  /\ Ground.next = nextObjectId /\ Ground.any = moved.any
  /\ \A s \in OffsetSurfaces : Ground.lists[s] = OffsetList(s)
BY DEF Ground

LEMMA OffsetListType ==
  ASSUME TypeOK
  PROVE  \A s \in OffsetSurfaces : OffsetList(s) \in Seq(Id)
<1>1. /\ accountIds \in Seq(Id) /\ datasetKeys \in Seq(Id)
      /\ coordinatorAddresses \in Seq(Id) /\ relayerAddresses \in Seq(Id)
  BY DEF TypeOK, Id
<1> QED
  BY <1>1 DEF OffsetSurfaces, OffsetList

LEMMA OffsetListsExtend ==
  ASSUME TypeOK, [Next]_vars
  PROVE  \A s \in OffsetSurfaces : Extends(OffsetList(s)', OffsetList(s))
BY ListsExtend DEF OffsetSurfaces, OffsetList

LEMMA RegistryMovesGround ==
  ASSUME TypeOK, TypeOK', IndexMatchesStatus', RegistryMoves,
         reader \in Readers, GroundOK(reader, Ground)
  PROVE  /\ Reading => GroundGrows(Ground, Ground')
         /\ GroundOK(reader, Ground')
         /\ reader' = reader /\ readModel' = readModel
<1>1. /\ [Next]_vars /\ reader' = reader /\ readModel' = readModel
      /\ dueLengths' = dueLengths
      /\ moved'.any \in BOOLEAN
      /\ Reading => moved'.any = TRUE
      /\ dueIds' = {o \in dueIds : reader.includeTerminal \/ Live(objects'[o].status)}
  BY DEF RegistryMoves, Still
<1>2. /\ nextObjectId <= nextObjectId' /\ IssuedIds \subseteq IssuedIds'
      /\ nextObjectId' \in Nat
      /\ LiveIds' \subseteq IssuedIds' /\ IssuedIds' \subseteq ObjectId
      /\ \A o \in IssuedIds' : o < nextObjectId'
  <2>1. LiveIds' \subseteq IssuedIds'
    BY DEF IndexMatchesStatus, LiveIds, IssuedIds, IssuedInOrder, Live, NoObject,
           TypeOK
  <2>2. nextObjectId' \in Nat
    BY MaxObjectsAssumption DEF TypeOK
  <2>3. nextObjectId <= nextObjectId' /\ IssuedIds \subseteq IssuedIds'
    BY <1>1, IdsStayIssued
  <2> QED
    BY <2>1, <2>2, <2>3 DEF IssuedIds
<1>3. /\ Ground'.due = dueIds' /\ Ground'.lengths = dueLengths'
      /\ Ground'.issued = IssuedIds' /\ Ground'.live = LiveIds'
      /\ Ground'.next = nextObjectId' /\ Ground'.any = moved'.any
      /\ \A s \in OffsetSurfaces : Ground'.lists[s] = OffsetList(s)'
  BY DEF Ground
<1>4. \A s \in OffsetSurfaces :
        /\ OffsetList(s)' \in Seq(Id) /\ OffsetList(s) \in Seq(Id)
        /\ Extends(OffsetList(s)', OffsetList(s))
  <2>1. \A s \in OffsetSurfaces : OffsetList(s)' \in Seq(Id)
    <3>1. /\ accountIds' \in Seq(Id) /\ datasetKeys' \in Seq(Id)
          /\ coordinatorAddresses' \in Seq(Id) /\ relayerAddresses' \in Seq(Id)
      BY DEF TypeOK, Id
    <3> QED
      BY <3>1 DEF OffsetSurfaces, OffsetList
  <2> QED
    BY <1>1, <2>1, OffsetListType, OffsetListsExtend
<1>5. dueIds' \subseteq IF reader.includeTerminal THEN IssuedIds' ELSE LiveIds'
  <2>1. dueIds \subseteq IF reader.includeTerminal THEN IssuedIds ELSE LiveIds
    BY GroundFields DEF GroundOK
  <2> QED
    BY <1>1, <1>2, <2>1 DEF LiveIds
<1>6. Reading => GroundGrows(Ground, Ground')
  BY <1>1, <1>2, <1>3, <1>4, GroundFields DEF GroundGrows, Extends
<1>7. GroundOK(reader, Ground')
  <2>1. \A s \in OffsetSurfaces :
          /\ Ground'.lists[s] \in Seq(Id)
          /\ Ground'.lengths[s] \in Nat
          /\ Ground'.lengths[s] <= Len(Ground'.lists[s])
    <3> SUFFICES ASSUME NEW s \in OffsetSurfaces
                 PROVE  /\ Ground'.lists[s] \in Seq(Id)
                        /\ Ground'.lengths[s] \in Nat
                        /\ Ground'.lengths[s] <= Len(Ground'.lists[s])
      OBVIOUS
    <3>1. dueLengths[s] \in Nat /\ dueLengths[s] <= Len(OffsetList(s))
      BY GroundFields DEF GroundOK
    <3> QED
      BY <1>1, <1>3, <1>4, <3>1 DEF Extends
  <2> QED
    BY <1>1, <1>2, <1>3, <1>5, <2>1 DEF GroundOK
<1> QED
  BY <1>1, <1>6, <1>7

\* A reader, field by field.
LEMMA ReaderFields ==
  ASSUME NEW r \in Readers
  PROVE  /\ r.limit \in Nat \ {0} /\ r.includeTerminal \in BOOLEAN
         /\ r.cursor \in Nat /\ r.pages \in Nat /\ r.ids \in Seq(Id)
         /\ r.rest \in Seq(Surfaces) /\ Len(r.ids) \in Nat
         /\ r.pages * r.limit \in Nat
<1>1. /\ r.limit \in Nat \ {0} /\ r.includeTerminal \in BOOLEAN
      /\ r.cursor \in Nat /\ r.pages \in Nat /\ r.ids \in Seq(Id)
      /\ r.rest \in Seq(Surfaces)
  BY DEF Readers
<1>2. \A a, b \in Nat : a * b \in Nat
  OBVIOUS
<1> QED
  BY <1>1, <1>2

\* What a traversal stands on bears every move of the registry.
LEMMA TraversalBearsMoves ==
  ASSUME NEW r, NEW m, NEW g, NEW h, TraversalOK(r, m, g), IsReading(r),
         GroundGrows(g, h), GroundOK(r, h)
  PROVE  TraversalOK(r, m, h)
<1>1. /\ r \in Readers /\ IsModel(m) /\ GroundOK(r, g) /\ SurfacesOK(r)
      /\ PositionOK(r, m, g) /\ LeftBehindOK(r, m, g)
      /\ r.surface # "failed"
  BY DEF TraversalOK, IsReading, Surfaces, OffsetSurfaces
<1>2. ASSUME NEW s \in OffsetSurfaces
      PROVE  /\ h.lengths[s] = g.lengths[s] /\ g.lengths[s] \in Nat
             /\ Len(g.lists[s]) \in Nat /\ Len(h.lists[s]) \in Nat
             /\ Len(g.lists[s]) <= Len(h.lists[s])
             /\ \A i \in 1..g.lengths[s] : h.lists[s][i] = g.lists[s][i]
  <2>1. /\ g.lists[s] \in Seq(Id) /\ h.lists[s] \in Seq(Id)
        /\ g.lengths[s] \in Nat /\ g.lengths[s] <= Len(g.lists[s])
    BY <1>1 DEF GroundOK, GroundGrows
  <2> QED
    BY <2>1 DEF GroundGrows
<1>3. /\ h.due \subseteq g.due /\ g.issued \subseteq h.issued
      /\ g.next \in Nat /\ h.next \in Nat /\ g.next <= h.next /\ h.any = TRUE
  BY <1>1 DEF GroundGrows, GroundOK
<1>4. /\ r.cursor \in Nat /\ r.pages * r.limit \in Nat /\ Len(r.ids) \in Nat
      /\ r.ids \in Seq(Id) /\ r.includeTerminal \in BOOLEAN
  BY <1>1, ReaderFields
<1>5. PositionOK(r, m, h)
  <2>1. ASSUME r.phase = "list" PROVE BehindCursor(r, m, h) /\ CursorCounts(r, h)
    <3>1. BehindCursor(r, m, g) /\ CursorCounts(r, g)
      BY <1>1, <2>1 DEF PositionOK
    <3>2. BehindCursor(r, m, h)
      BY <1>2, <1>3, <3>1 DEF BehindCursor
    <3>3. ASSUME r.surface = "objects", Undisturbed(r, h), r.cursor # 0
          PROVE  r.pages * r.limit <= h.next - r.cursor /\ r.includeTerminal
      <4>1. r.includeTerminal /\ Undisturbed(r, g)
        BY <1>3, <3>3 DEF Undisturbed
      <4>2. r.pages * r.limit <= g.next - r.cursor
        BY <3>1, <3>3, <4>1 DEF CursorCounts
      <4> QED
        BY <1>3, <1>4, <4>1, <4>2
    <3>4. ASSUME r.surface = "objects", Undisturbed(r, h), r.cursor = 0
          PROVE  r.pages = 0
      BY <1>3, <3>1, <3>4 DEF Undisturbed, CursorCounts
    <3>5. ASSUME r.surface \in OffsetSurfaces
          PROVE  /\ r.pages * r.limit <= r.cursor
                 /\ r.cursor <= Len(h.lists[r.surface])
      <4>1. r.pages * r.limit <= r.cursor /\ r.cursor <= Len(g.lists[r.surface])
        BY <3>1, <3>5 DEF CursorCounts
      <4> QED
        BY <1>2, <1>4, <3>5, <4>1
    <3>6. r.surface = "objects" => r.cursor \in h.issued \cup {0}
      BY <1>3, <3>1 DEF CursorCounts
    <3> QED
      BY <3>2, <3>3, <3>4, <3>5, <3>6 DEF CursorCounts
  <2>2. ASSUME r.phase = "details" PROVE BehindPage(r, m, h) /\ PageCounts(r, h)
    <3>1. BehindPage(r, m, g) /\ PageCounts(r, g)
      BY <1>1, <2>2 DEF PositionOK
    <3>2. BehindPage(r, m, h)
      BY <1>2, <1>3, <3>1 DEF BehindPage
    <3>3. ASSUME r.surface = "objects", r.ids # <<>>, NEW last, last = r.ids[Len(r.ids)]
          PROVE  /\ last \in h.issued /\ last # r.cursor
                 /\ Undisturbed(r, h) =>
                      /\ r.pages * r.limit + Len(r.ids) <= h.next - last
                      /\ r.includeTerminal
      <4>1. /\ last \in g.issued /\ last # r.cursor
            /\ Undisturbed(r, g) => r.pages * r.limit + Len(r.ids) <= g.next - last
        BY <3>1, <3>3 DEF PageCounts
      <4>2. last \in Int
        BY <1>1, <4>1, MaxObjectsAssumption DEF GroundOK, ObjectId
      <4>3. Undisturbed(r, h) => r.includeTerminal /\ Undisturbed(r, g)
        BY <1>3 DEF Undisturbed
      <4> QED
        BY <1>3, <1>4, <4>1, <4>2, <4>3
    <3>4. ASSUME r.surface \in OffsetSurfaces
          PROVE  /\ r.pages * r.limit <= r.cursor
                 /\ r.cursor + Len(r.ids) <= Len(h.lists[r.surface])
      <4>1. /\ r.pages * r.limit <= r.cursor
            /\ r.cursor + Len(r.ids) <= Len(g.lists[r.surface])
        BY <3>1, <3>4 DEF PageCounts
      <4> QED
        BY <1>2, <1>4, <3>4, <4>1
    <3> QED
      BY <3>2, <3>3, <3>4 DEF PageCounts
  <2> QED
    BY <2>1, <2>2 DEF PositionOK
<1>6. LeftBehindOK(r, m, h)
  <2>1. \A s : Complete(s, m, g) => Complete(s, m, h)
    BY <1>2, <1>3 DEF Complete
  <2> QED
    BY <1>1, <2>1 DEF LeftBehindOK, Missed
<1> QED
  BY <1>1, <1>5, <1>6 DEF TraversalOK

-----------------------------------------------------------------------------
(* From surface to surface and from page to page *)

LEMMA RouteSurfaces ==
  ASSUME NEW route
  PROVE  /\ SurfacesForRoute(route) \in Seq(Surfaces)
         /\ SurfacesForRoute(route) # <<>>
         /\ "objectId" \in Range(SurfacesForRoute(route)) => route = "object"
         /\ route = "object" => "objects" \notin Range(SurfacesForRoute(route))
<1>1. SurfacesForRoute(route)
        \in {<<"objectId", "datasets", "coordinators">>, <<"objects", "datasets">>,
             <<"objects", "coordinators", "relayers">>,
             <<"objects", "accounts", "datasets", "coordinators", "relayers">>}
  BY DEF SurfacesForRoute, FullRegistrySurfaces
<1>2. route = "object" => SurfacesForRoute(route) = <<"objectId", "datasets", "coordinators">>
  BY DEF SurfacesForRoute
<1>3. route # "object" => SurfacesForRoute(route) # <<"objectId", "datasets", "coordinators">>
  BY DEF SurfacesForRoute, FullRegistrySurfaces
<1>4. CASE route = "object"
  <2> SUFFICES ASSUME NEW s, s = <<"objectId", "datasets", "coordinators">>
               PROVE  s \in Seq(Surfaces) /\ s # <<>> /\ "objects" \notin Range(s)
    BY <1>2, <1>4
  <2> QED
    BY DEF Surfaces, OffsetSurfaces, Range
<1>5. CASE route # "object"
  <2> SUFFICES ASSUME NEW s, s = SurfacesForRoute(route)
               PROVE  s \in Seq(Surfaces) /\ s # <<>> /\ "objectId" \notin Range(s)
    BY <1>5
  <2>1. CASE s = <<"objects", "datasets">>
    BY <2>1 DEF Surfaces, OffsetSurfaces, Range
  <2>2. CASE s = <<"objects", "coordinators", "relayers">>
    BY <2>2 DEF Surfaces, OffsetSurfaces, Range
  <2>3. CASE s = <<"objects", "accounts", "datasets", "coordinators", "relayers">>
    BY <2>3 DEF Surfaces, OffsetSurfaces, Range
  <2> QED
    BY <1>1, <1>3, <1>5, <2>1, <2>2, <2>3
<1> QED
  BY <1>4, <1>5

\* A sequence is its head and its tail.
LEMMA HeadAndTail ==
  ASSUME NEW S, NEW t \in Seq(S), t # <<>>
  PROVE  /\ Head(t) \in S /\ Tail(t) \in Seq(S)
         /\ Range(t) = {Head(t)} \cup Range(Tail(t))
<1>1. \A i \in 1..Len(Tail(t)) : Tail(t)[i] = t[i + 1]
  OBVIOUS
<1>2. ASSUME NEW x \in Range(t) PROVE x = Head(t) \/ x \in Range(Tail(t))
  <2>1. PICK i \in 1..Len(t) : x = t[i]
    BY DEF Range
  <2>2. CASE i = 1
    BY <2>1, <2>2
  <2>3. CASE i # 1
    <3>1. i - 1 \in 1..Len(Tail(t)) /\ Tail(t)[i - 1] = t[i]
      BY <2>3
    <3>2. DOMAIN Tail(t) = 1..Len(Tail(t))
      OBVIOUS
    <3> QED
      BY <2>1, <3>1, <3>2 DEF Range
  <2> QED
    BY <2>2, <2>3
<1>3. Head(t) \in Range(t)
  <2>1. 1 \in DOMAIN t /\ Head(t) = t[1]
    OBVIOUS
  <2> QED
    BY <2>1 DEF Range
<1>4. ASSUME NEW x \in Range(Tail(t)) PROVE x \in Range(t)
  <2>1. PICK i \in 1..Len(Tail(t)) : x = Tail(t)[i]
    BY DEF Range
  <2>2. i + 1 \in 1..Len(t) /\ x = t[i + 1]
    BY <2>1
  <2> QED
    BY <2>2 DEF Range
<1> QED
  BY <1>2, <1>3, <1>4

\* The first page of the next surface.
LEMMA SurfaceBegins ==
  ASSUME NEW r \in Readers, NEW m, NEW g, IsModel(m), GroundOK(r, g),
         r.route \in Routes, r.objectId \in ObjectId, r.limit <= MaxLimit,
         r.rest # <<>>, Range(r.rest) \subseteq Range(SurfacesForRoute(r.route)),
         \A s \in Range(SurfacesForRoute(r.route)) \ Range(r.rest) : Complete(s, m, g)
  PROVE  TraversalOK(NextSurface(r), m, g)
<1> SUFFICES ASSUME NEW q,
                    q = [r EXCEPT !.surface = Head(r.rest), !.rest = Tail(r.rest),
                                  !.phase = "list", !.cursor = 0, !.pages = 0,
                                  !.ids = <<>>]
             PROVE  TraversalOK(q, m, g)
  BY DEF NextSurface
<1>1. /\ r.rest \in Seq(Surfaces) /\ Head(r.rest) \in Surfaces
      /\ Tail(r.rest) \in Seq(Surfaces)
      /\ Range(r.rest) = {Head(r.rest)} \cup Range(Tail(r.rest))
  <2>1. r.rest \in Seq(Surfaces)
    BY DEF Readers
  <2> QED
    BY <2>1, HeadAndTail
<1>2. /\ q \in Readers /\ q.surface = Head(r.rest) /\ q.rest = Tail(r.rest)
      /\ q.route = r.route /\ q.includeTerminal = r.includeTerminal
      /\ q.objectId = r.objectId
      /\ q.limit = r.limit /\ q.phase = "list" /\ q.cursor = 0 /\ q.pages = 0
  <2>1. <<>> \in Seq(Id) /\ 0 \in Nat
    OBVIOUS
  <2> QED
    BY <1>1, <2>1 DEF Readers
<1>3. SurfacesOK(q)
  BY <1>1, <1>2 DEF SurfacesOK, IsReading, Surfaces, OffsetSurfaces
<1>4. LeftBehindOK(q, m, g)
  BY <1>1, <1>2 DEF LeftBehindOK, Surfaces, OffsetSurfaces
<1>5. PositionOK(q, m, g)
  <2>1. BehindCursor(q, m, g)
    BY <1>2 DEF BehindCursor, GroundOK
  <2>2. CursorCounts(q, g)
    <3>1. q.pages * q.limit = 0
      BY <1>2, ReaderFields
    <3>2. q.surface \in OffsetSurfaces => 0 <= Len(g.lists[q.surface])
      BY DEF GroundOK
    <3> QED
      BY <1>2, <3>1, <3>2 DEF CursorCounts
  <2> QED
    BY <1>2, <2>1, <2>2 DEF PositionOK
<1> QED
  BY <1>1, <1>2, <1>3, <1>4, <1>5
  DEF TraversalOK, GroundOK, Surfaces, OffsetSurfaces

LEMMA NextSurfaceKeeps ==
  ASSUME NEW r \in Readers, NEW m, NEW g, IsModel(m), GroundOK(r, g), SurfacesOK(r),
         IsReading(r), LeftBehindOK(r, m, g), Complete(r.surface, m, g)
  PROVE  TraversalOK(NextSurface(r), m, g)
<1>1. CASE r.rest = <<>>
  <2> SUFFICES ASSUME NEW q, q = [r EXCEPT !.surface = "done"]
               PROVE  TraversalOK(q, m, g)
    BY <1>1 DEF NextSurface
  <2>1. /\ q \in Readers /\ q.surface = "done" /\ q.rest = <<>> /\ q.route = r.route
        /\ q.includeTerminal = r.includeTerminal
    BY <1>1 DEF Readers
  <2>2. LeftBehindOK(q, m, g)
    BY <1>1, <2>1 DEF LeftBehindOK, Missed, IsReading, Surfaces, OffsetSurfaces, Range
  <2>3. SurfacesOK(q)
    BY <2>1 DEF SurfacesOK, IsReading, Surfaces, OffsetSurfaces
  <2> QED
    BY <2>1, <2>2, <2>3
    DEF TraversalOK, GroundOK, IsReading, Surfaces, OffsetSurfaces
<1>2. CASE r.rest # <<>>
  <2>1. /\ r.route \in Routes /\ r.objectId \in ObjectId /\ r.limit <= MaxLimit
        /\ Range(r.rest) \subseteq Range(SurfacesForRoute(r.route))
    BY DEF SurfacesOK, IsReading, Surfaces, OffsetSurfaces
  <2>2. \A s \in Range(SurfacesForRoute(r.route)) \ Range(r.rest) : Complete(s, m, g)
    BY DEF LeftBehindOK, Missed, IsReading, Surfaces, OffsetSurfaces
  <2> QED
    BY <1>2, <2>1, <2>2, SurfaceBegins
<1> QED
  BY <1>1, <1>2

\* The end of a page: the next surface, the next page, or the page bound.
LEMMA EndOfPageKeeps ==
  ASSUME NEW r \in Readers, NEW m, NEW g, IsModel(m), GroundOK(r, g), SurfacesOK(r),
         IsReading(r), LeftBehindOK(r, m, g), r.phase = "details", r.todo = {},
         BehindPage(r, m, g), PageCounts(r, g)
  PROVE  TraversalOK(EndOfPage(r), m, g)
<1> DEFINE n == Len(r.ids)
<1>1. /\ r.limit \in Nat \ {0} /\ r.cursor \in Nat /\ r.pages \in Nat
      /\ n \in Nat /\ r.ids \in Seq(Id) /\ r.pages * r.limit \in Nat
      /\ r.includeTerminal \in BOOLEAN
  BY ReaderFields
<1>2. CASE IsLastPage(r) \/ r.surface = "objectId"
  <2>1. EndOfPage(r) = NextSurface(r)
    BY <1>2 DEF EndOfPage
  <2>2. Complete(r.surface, m, g)
    <3>1. r.surface # "objectId" => n # r.limit
      BY <1>1, <1>2 DEF IsLastPage
    <3> HIDE DEF n
    <3>2. r.surface = "objects" => g.due \subseteq DOMAIN m.objects
      BY <3>1 DEF BehindPage, n
    <3>3. r.surface \in OffsetSurfaces => \A i \in 1..g.lengths[r.surface] :
             g.lists[r.surface][i] \in KeysOf(m, r.surface)
      BY <3>1 DEF BehindPage, n, OffsetSurfaces
    <3> QED
      BY <3>2, <3>3 DEF Complete
  <2> QED
    BY <2>1, <2>2, NextSurfaceKeeps
<1>3. CASE ~(IsLastPage(r) \/ r.surface = "objectId")
  <2>1. n >= r.limit /\ r.ids # <<>> /\ n >= 1
    BY <1>1, <1>3 DEF IsLastPage
  <2>2. r.surface = "objects" \/ r.surface \in OffsetSurfaces
    BY <1>3 DEF IsReading, Surfaces
  <2> DEFINE next == NextCursor(r)
  <2>3. ASSUME r.surface = "objects"
        PROVE  /\ next = r.ids[n] /\ next \in g.issued /\ next # r.cursor
               /\ next \in Nat /\ next >= 1
               /\ Undisturbed(r, g) => /\ r.pages * r.limit + n <= g.next - next
                                       /\ ~r.includeTerminal => next \in g.live
    <3>1. next = r.ids[n]
      BY <2>3 DEF NextCursor
    <3>2. next \in g.issued /\ next # r.cursor
      BY <2>1, <2>3, <3>1 DEF PageCounts
    <3>3. next \in Nat /\ next >= 1
      BY <3>2, MaxObjectsAssumption DEF GroundOK, ObjectId
    <3> QED
      BY <2>1, <2>3, <3>1, <3>2, <3>3 DEF PageCounts
  <2>4. ASSUME r.surface \in OffsetSurfaces
        PROVE  /\ next = r.cursor + n /\ next \in Nat
               /\ r.pages * r.limit + n <= next
               /\ next <= Len(g.lists[r.surface])
               /\ Len(g.lists[r.surface]) \in Nat
    <3>1. next = r.cursor + n
      BY <2>4 DEF NextCursor, OffsetSurfaces
    <3>2. r.pages * r.limit <= r.cursor /\ r.cursor + n <= Len(g.lists[r.surface])
      BY <2>4 DEF PageCounts
    <3>3. Len(g.lists[r.surface]) \in Nat
      BY <2>4 DEF GroundOK
    <3> HIDE DEF next, n
    <3> QED
      BY <1>1, <3>1, <3>2, <3>3
  <2>5. (r.pages + 1) * r.limit = r.pages * r.limit + r.limit
        /\ (r.pages + 1) * r.limit \in Nat
    <3> SUFFICES ASSUME NEW a \in Nat, NEW b \in Nat
                 PROVE  (a + 1) * b = a * b + b /\ (a + 1) * b \in Nat
      BY <1>1
    <3> QED
      OBVIOUS
  <2> HIDE DEF n, next
  <2>6. CASE r.pages + 1 = MaxPagesPerSurface
    <3> DEFINE q == Fail(r, "exceeded maxPagesPerSurface")
    <3>1. EndOfPage(r) = q
      BY <1>3, <2>3, <2>6 DEF EndOfPage, next
    <3>2. /\ q \in Readers /\ q.surface = "failed" /\ q.route = r.route
          /\ q.phase = "exceeded maxPagesPerSurface" /\ q.limit = r.limit
          /\ q.includeTerminal = r.includeTerminal
      BY DEF Fail, Readers
    <3> HIDE DEF q
    <3>3. g.next \in Nat /\ g.any \in BOOLEAN
      BY DEF GroundOK
    <3>4. FailureOK(q, g)
      <4>1. CASE r.surface = "objects" /\ ~Undisturbed(r, g)
        BY <1>1, <3>2, <3>3, <4>1 DEF FailureOK, Undisturbed
      <4>2. CASE r.surface = "objects" /\ Undisturbed(r, g)
        <5>1. r.pages * r.limit + n <= g.next - next /\ next \in Nat /\ next >= 1
          BY <2>3, <4>2
        <5>2. n >= r.limit /\ n \in Nat
          BY <1>1, <2>1 DEF n
        <5>3. g.next - 1 >= (r.pages + 1) * r.limit
          BY <1>1, <2>5, <3>3, <5>1, <5>2
        <5> QED
          BY <2>6, <3>2, <5>3 DEF FailureOK
      <4>3. CASE r.surface \in OffsetSurfaces
        <5>1. /\ r.pages * r.limit + n <= next /\ next <= Len(g.lists[r.surface])
              /\ next \in Nat /\ Len(g.lists[r.surface]) \in Nat
          BY <2>4, <4>3
        <5>2. n >= r.limit /\ n \in Nat
          BY <1>1, <2>1 DEF n
        <5>3. Len(g.lists[r.surface]) >= (r.pages + 1) * r.limit
          BY <1>1, <2>5, <5>1, <5>2
        <5> QED
          BY <2>6, <3>2, <4>3, <5>3 DEF FailureOK
      <4> QED
        BY <2>2, <4>1, <4>2, <4>3
    <3>5. SurfacesOK(q)
      BY <3>2 DEF SurfacesOK, IsReading, Surfaces, OffsetSurfaces
    <3> QED
      BY <3>1, <3>2, <3>4, <3>5
      DEF TraversalOK, GroundOK, IsReading, Surfaces, OffsetSurfaces
  <2>7. CASE r.pages + 1 # MaxPagesPerSurface
    <3> DEFINE q == [r EXCEPT !.phase = "list", !.cursor = next,
                              !.pages = r.pages + 1, !.ids = <<>>]
    <3>1. EndOfPage(r) = q
      BY <1>3, <2>3, <2>7 DEF EndOfPage, next
    <3>2. next \in Nat /\ r.pages + 1 \in Nat /\ <<>> \in Seq(Id)
      BY <1>1, <2>2, <2>3, <2>4
    <3>3. /\ q \in Readers /\ q.surface = r.surface /\ q.route = r.route
          /\ q.rest = r.rest /\ q.limit = r.limit /\ q.objectId = r.objectId
          /\ q.includeTerminal = r.includeTerminal
          /\ q.phase = "list" /\ q.cursor = next /\ q.pages = r.pages + 1
      BY <3>2 DEF Readers
    <3> HIDE DEF q
    <3>4. SurfacesOK(q) /\ LeftBehindOK(q, m, g) /\ GroundOK(q, g) /\ IsReading(q)
      BY <3>3 DEF SurfacesOK, LeftBehindOK, Missed, GroundOK, IsReading
    <3>5. BehindCursor(q, m, g)
      <4>1. ASSUME r.surface = "objects", NEW o \in g.due
            PROVE  o < next \/ o \in DOMAIN m.objects
        BY <2>3, <4>1 DEF BehindPage, n
      <4>2. ASSUME r.surface \in OffsetSurfaces, NEW i \in 1..g.lengths[r.surface]
            PROVE  i > next \/ g.lists[r.surface][i] \in KeysOf(m, r.surface)
        BY <2>4, <4>2 DEF BehindPage, n
      <4> QED
        BY <3>3, <4>1, <4>2 DEF BehindCursor
    <3>6. CursorCounts(q, g)
      <4>0. n >= r.limit /\ n \in Nat /\ g.next \in Nat
        BY <1>1, <2>1 DEF n, GroundOK
      <4>1. ASSUME r.surface = "objects"
            PROVE  /\ next \in g.issued /\ next # 0
                   /\ Undisturbed(q, g) =>
                        /\ (r.pages + 1) * r.limit <= g.next - next
                        /\ ~r.includeTerminal => next \in g.live
        <5>1. /\ next \in g.issued /\ next \in Nat /\ next >= 1
              /\ Undisturbed(r, g) => /\ r.pages * r.limit + n <= g.next - next
                                      /\ ~r.includeTerminal => next \in g.live
          BY <2>3, <4>1
        <5>2. Undisturbed(q, g) => Undisturbed(r, g)
          BY <3>3 DEF Undisturbed
        <5> QED
          BY <1>1, <2>5, <4>0, <5>1, <5>2
      <4>2. ASSUME r.surface \in OffsetSurfaces
            PROVE  (r.pages + 1) * r.limit <= next /\ next <= Len(g.lists[r.surface])
        BY <1>1, <2>4, <2>5, <4>0, <4>2
      <4> QED
        BY <3>3, <4>1, <4>2 DEF CursorCounts
    <3> QED
      BY <3>1, <3>3, <3>4, <3>5, <3>6
      DEF TraversalOK, PositionOK, IsReading, Surfaces, OffsetSurfaces
  <2> QED
    BY <2>6, <2>7
<1> QED
  BY <1>2, <1>3

\* The details of a page that is not empty are read; an empty page ends.
LEMMA WithPageKeeps ==
  ASSUME NEW r \in Readers, NEW m, NEW g, NEW ids \in Seq(Id),
         IsModel(m), GroundOK(r, g), SurfacesOK(r),
         IsReading(r), LeftBehindOK(r, m, g),
         NEW listed, listed = [r EXCEPT !.ids = ids, !.phase = "details",
                                        !.todo = UNION {DetailReads(r.surface, ids[i]) :
                                                          i \in DOMAIN ids}],
         BehindPage(listed, m, g), PageCounts(listed, g)
  PROVE  TraversalOK(WithPage(r, ids), m, g)
<1> DEFINE reads == UNION {DetailReads(r.surface, ids[i]) : i \in DOMAIN ids}
<1>1. reads \subseteq DetailKinds \X Id
  <2>1. ASSUME NEW i \in DOMAIN ids, NEW t \in DetailReads(r.surface, ids[i])
        PROVE  t \in DetailKinds \X Id
    <3>1. ids[i] \in Id
      OBVIOUS
    <3> QED
      BY <2>1, <3>1 DEF DetailReads, DetailKinds
  <2> QED
    BY <2>1
<1> HIDE DEF reads
<1>2. /\ listed \in Readers /\ listed.surface = r.surface /\ listed.route = r.route
      /\ listed.rest = r.rest /\ listed.limit = r.limit /\ listed.ids = ids
      /\ listed.includeTerminal = r.includeTerminal /\ listed.todo = reads
      /\ listed.objectId = r.objectId
      /\ listed.phase = "details"
  BY <1>1 DEF Readers, reads
<1>3. /\ SurfacesOK(listed) /\ LeftBehindOK(listed, m, g) /\ GroundOK(listed, g)
      /\ IsReading(listed)
  BY <1>2 DEF SurfacesOK, LeftBehindOK, Missed, GroundOK, IsReading
<1>4. WithPage(r, ids) = IF ids = <<>> THEN EndOfPage(listed) ELSE listed
  BY DEF WithPage
<1>5. CASE ids = <<>>
  <2>1. listed.todo = {}
    BY <1>2, <1>5 DEF reads
  <2> QED
    BY <1>2, <1>3, <1>4, <1>5, <2>1, EndOfPageKeeps
<1>6. CASE ids # <<>>
  <2>1. PositionOK(listed, m, g)
    BY <1>2 DEF PositionOK
  <2> QED
    BY <1>2, <1>3, <1>4, <1>6, <2>1 DEF TraversalOK, IsReading, Surfaces, OffsetSurfaces
<1> QED
  BY <1>5, <1>6

-----------------------------------------------------------------------------
(* One page *)

\* As many numbers as a descending list holds lie between its ends.
LEMMA DescendingSpans ==
  ASSUME NEW ids \in Seq(ObjectId), Descending(ids), ids # <<>>, NEW top \in Int,
         \A i \in 1..Len(ids) : ids[i] < top
  PROVE  Len(ids) <= top - ids[Len(ids)]
<1> DEFINE n == Len(ids)
           T == {ids[j] : j \in 1..n}
           last == ids[n]
<1>1. n \in Nat /\ n >= 1 /\ last \in Int /\ last < top
      /\ \A j \in 1..n : ids[j] \in Int
  BY MaxObjectsAssumption DEF ObjectId
<1>2. Cardinality(T) = n
  <2>1. n \in 0..Len(ids)
    BY <1>1
  <2> QED
    BY <2>1, CountDescending
<1>3. T \subseteq last..(top - 1)
  <2>1. ASSUME NEW j \in 1..n PROVE ids[j] >= last /\ ids[j] < top
    BY <1>1 DEF Descending
  <2> QED
    BY <1>1, <2>1
<1>4. IsFiniteSet(last..(top - 1)) /\ Cardinality(last..(top - 1)) = top - last
  <2>1. /\ last \in Int /\ top - 1 \in Int /\ ~(last > top - 1)
        /\ top - 1 - last + 1 = top - last
    BY <1>1
  <2> HIDE DEF last
  <2> QED
    BY <2>1, FS_Interval
<1> HIDE DEF T, last
<1>5. n <= top - last
  BY <1>2, <1>3, <1>4, FS_Subset
<1> QED
  BY <1>5 DEF last

\* What the adapter may rely on of a page of object ids.
LEMMA ListedPage ==
  ASSUME TypeOK, IndexMatchesStatus, PagesExact, OnlyStaleCursorsRevert,
         NEW cursor \in IssuedIds \cup {0}, NEW limit \in 1..MaxLimit,
         NEW terminal \in BOOLEAN,
         NEW page, page = ListStorageObjectIds(cursor, limit, terminal),
         NEW members, members = IF terminal THEN IssuedIds ELSE LiveIds
  PROVE  /\ page.reverted => ~terminal /\ cursor # 0 /\ cursor \notin LiveIds
         /\ ~page.reverted =>
              /\ page.ids \in Seq(members) /\ page.ids \in Seq(ObjectId)
              /\ Descending(page.ids)
              /\ \A i \in 1..Len(page.ids) :
                   page.ids[i] \in members /\ (cursor = 0 \/ page.ids[i] < cursor)
              /\ \A o \in members : cursor = 0 \/ o < cursor =>
                   \/ \E i \in 1..Len(page.ids) : page.ids[i] = o
                   \/ /\ page.ids # <<>> /\ Len(page.ids) = limit
                      /\ o < page.ids[Len(page.ids)]
<1>1. limit \in Limits /\ limit \in Nat /\ limit >= 1
  BY MaxLimitAssumption DEF Limits
<1>2. members \in SUBSET ObjectId /\ members \subseteq Int
  BY MaxObjectsAssumption DEF IssuedIds, LiveIds, ObjectId
<1>3. page.reverted => ~terminal /\ cursor # 0 /\ cursor \notin LiveIds
  BY <1>1 DEF ListStorageObjectIds, ListAllStorageObjectIds, PageWith,
              OnlyStaleCursorsRevert
<1>4. ASSUME ~page.reverted PROVE page.ids = Newest(Below(members, cursor), limit)
  <2>1. cursor \in AnyCursor
    BY MaxObjectsAssumption DEF AnyCursor, IssuedIds, ObjectId
  <2>2. CASE terminal
    BY <1>1, <1>4, <2>1, <2>2 DEF PagesExact, Exact, ListStorageObjectIds
  <2>3. CASE ~terminal
    BY <1>1, <1>4, <2>3 DEF PagesExact, Exact, ListStorageObjectIds
  <2> QED
    BY <2>2, <2>3
<1>5. Below(members, cursor) \in SUBSET ObjectId
      /\ \A o : o \in Below(members, cursor) <=> o \in members /\ (cursor = 0 \/ o < cursor)
  BY <1>2 DEF Below
<1> DEFINE B == Below(members, cursor)
<1> HIDE DEF B
<1> SUFFICES ASSUME ~page.reverted
             PROVE  /\ page.ids \in Seq(members) /\ page.ids \in Seq(ObjectId)
                    /\ Descending(page.ids)
                    /\ \A i \in 1..Len(page.ids) :
                         page.ids[i] \in members /\ (cursor = 0 \/ page.ids[i] < cursor)
                    /\ \A o \in members : cursor = 0 \/ o < cursor =>
                         \/ \E i \in 1..Len(page.ids) : page.ids[i] = o
                         \/ /\ page.ids # <<>> /\ Len(page.ids) = limit
                            /\ o < page.ids[Len(page.ids)]
  BY <1>3
<1>6. /\ page.ids \in Seq(B) /\ Len(page.ids) <= limit /\ Descending(page.ids)
      /\ \A o \in B : \/ \E i \in 1..Len(page.ids) : page.ids[i] = o
                      \/ /\ Len(page.ids) = limit
                         /\ \A i \in 1..Len(page.ids) : o < page.ids[i]
  BY <1>1, <1>4, <1>5, NewestEnumerates DEF B
<1>7. \A i \in 1..Len(page.ids) : page.ids[i] \in B
  BY <1>6
<1>8. B \subseteq members /\ B \subseteq ObjectId
      /\ \A o : o \in B <=> o \in members /\ (cursor = 0 \/ o < cursor)
  BY <1>2, <1>5 DEF B
<1>9. page.ids \in Seq(members) /\ page.ids \in Seq(ObjectId)
  BY <1>6, <1>8
<1>10. Len(page.ids) = limit => page.ids # <<>> /\ Len(page.ids) \in 1..Len(page.ids)
  BY <1>1, <1>9
<1> QED
  BY <1>6, <1>7, <1>8, <1>9, <1>10

\* What reading a page of ids makes of a traversal.
LEMMA ObjectPageKeeps ==
  ASSUME TypeOK, IndexMatchesStatus, PagesExact, OnlyStaleCursorsRevert,
         NEW r, NEW m, NEW g, g = Ground, TraversalOK(r, m, g), IsReading(r),
         r.phase = "list", r.surface = "objects"
  PROVE  TraversalOK(ObjectPage(r), m, g)
<1>1. /\ r \in Readers /\ IsModel(m) /\ GroundOK(r, g) /\ SurfacesOK(r)
      /\ BehindCursor(r, m, g) /\ CursorCounts(r, g) /\ LeftBehindOK(r, m, g)
  BY DEF TraversalOK, PositionOK
<1>2. /\ g.due = dueIds /\ g.issued = IssuedIds /\ g.live = LiveIds
      /\ g.next = nextObjectId
  BY GroundFields
<1>3. /\ r.cursor \in IssuedIds \cup {0} /\ r.limit \in 1..MaxLimit
      /\ r.includeTerminal \in BOOLEAN /\ r.cursor \in Nat
      /\ r.pages * r.limit \in Nat /\ r.limit \in Nat
  BY <1>1, <1>2, ReaderFields, MaxLimitAssumption DEF CursorCounts, SurfacesOK
<1> DEFINE page == ListStorageObjectIds(r.cursor, r.limit, r.includeTerminal)
           members == IF r.includeTerminal THEN IssuedIds ELSE LiveIds
<1>4. /\ page.reverted => ~r.includeTerminal /\ r.cursor # 0 /\ r.cursor \notin LiveIds
      /\ ~page.reverted =>
           /\ page.ids \in Seq(ObjectId)
           /\ Descending(page.ids)
           /\ \A i \in 1..Len(page.ids) :
                page.ids[i] \in members /\ (r.cursor = 0 \/ page.ids[i] < r.cursor)
           /\ \A o \in members : r.cursor = 0 \/ o < r.cursor =>
                \/ \E i \in 1..Len(page.ids) : page.ids[i] = o
                \/ /\ page.ids # <<>> /\ Len(page.ids) = r.limit
                   /\ o < page.ids[Len(page.ids)]
  <2> SUFFICES ASSUME NEW p, p = page, NEW B, B = members
               PROVE  /\ p.reverted => ~r.includeTerminal /\ r.cursor # 0 /\ r.cursor \notin LiveIds
                      /\ ~p.reverted =>
                           /\ p.ids \in Seq(ObjectId)
                           /\ Descending(p.ids)
                           /\ \A i \in 1..Len(p.ids) :
                                p.ids[i] \in B /\ (r.cursor = 0 \/ p.ids[i] < r.cursor)
                           /\ \A o \in B : r.cursor = 0 \/ o < r.cursor =>
                                \/ \E i \in 1..Len(p.ids) : p.ids[i] = o
                                \/ /\ p.ids # <<>> /\ Len(p.ids) = r.limit
                                   /\ o < p.ids[Len(p.ids)]
    OBVIOUS
  <2>1. /\ p = ListStorageObjectIds(r.cursor, r.limit, r.includeTerminal)
        /\ B = IF r.includeTerminal THEN IssuedIds ELSE LiveIds
    OBVIOUS
  <2> DEFINE c == r.cursor
             l == r.limit
             t == r.includeTerminal
  <2>2. c \in IssuedIds \cup {0} /\ l \in 1..MaxLimit /\ t \in BOOLEAN
    BY <1>3
  <2>3. p = ListStorageObjectIds(c, l, t) /\ B = IF t THEN IssuedIds ELSE LiveIds
    BY <2>1
  <2> HIDE DEF c, l, t, page, members
  <2>4. /\ p.reverted => ~t /\ c # 0 /\ c \notin LiveIds
        /\ ~p.reverted =>
             /\ p.ids \in Seq(ObjectId)
             /\ Descending(p.ids)
             /\ \A i \in 1..Len(p.ids) :
                  p.ids[i] \in B /\ (c = 0 \/ p.ids[i] < c)
             /\ \A o \in B : c = 0 \/ o < c =>
                  \/ \E i \in 1..Len(p.ids) : p.ids[i] = o
                  \/ /\ p.ids # <<>> /\ Len(p.ids) = l
                     /\ o < p.ids[Len(p.ids)]
    BY <2>2, <2>3, ListedPage
  <2> QED
    BY <2>4 DEF c, l, t
<1>5. members \subseteq IssuedIds /\ IssuedIds \subseteq ObjectId
      /\ nextObjectId \in Nat /\ \A o \in IssuedIds : o < nextObjectId /\ o \in Nat /\ o >= 1
  BY <1>1, <1>2, MaxObjectsAssumption DEF GroundOK, ObjectId
<1>6. dueIds \subseteq members /\ (~r.includeTerminal => members = LiveIds)
  BY <1>1, <1>2 DEF GroundOK
<1>7. ObjectPage(r) = IF ~page.reverted THEN WithPage(r, page.ids)
                      ELSE IF r.includeTerminal \/ r.cursor = 0 THEN Fail(r, "reverted")
                      ELSE [r EXCEPT !.cursor = 0]
  BY DEF ObjectPage
<1> HIDE DEF page, members
<1>8. CASE ~page.reverted
  <2> DEFINE ids == page.ids
             listed == [r EXCEPT !.ids = ids, !.phase = "details",
                                 !.todo = UNION {DetailReads(r.surface, ids[i]) :
                                                   i \in DOMAIN ids}]
  <2>1. ids \in Seq(ObjectId) /\ ids \in Seq(Id)
    BY <1>4, <1>8 DEF Id
  <2>2. \A i \in DOMAIN ids : <<"object", ids[i]>>
          \in UNION {DetailReads(r.surface, ids[j]) : j \in DOMAIN ids}
    <3>1. \A x : <<"object", x>> \in DetailReads(r.surface, x)
      BY DEF DetailReads, OffsetSurfaces
    <3> QED
      BY <3>1
  <2>3. /\ listed.surface = "objects" /\ listed.ids = ids /\ listed.limit = r.limit
        /\ listed.cursor = r.cursor /\ listed.pages = r.pages
        /\ listed.includeTerminal = r.includeTerminal
        /\ listed.todo = UNION {DetailReads(r.surface, ids[j]) : j \in DOMAIN ids}
    BY <1>1 DEF Readers
  <2>4. WithPage(r, ids) = ObjectPage(r)
    BY <1>7, <1>8
  <2> HIDE DEF listed
  <2>5. BehindPage(listed, m, g)
    <3>1. ASSUME NEW o \in dueIds, o \notin DOMAIN m.objects
          PROVE  \/ <<"object", o>> \in listed.todo
                 \/ ids # <<>> /\ Len(ids) = r.limit /\ o < ids[Len(ids)]
      <4>1. o \in members /\ (r.cursor = 0 \/ o < r.cursor)
        BY <1>1, <1>2, <1>6, <3>1 DEF BehindCursor
      <4>2. CASE \E i \in 1..Len(ids) : ids[i] = o
        <5>1. PICK i \in DOMAIN ids : ids[i] = o
          BY <2>1, <4>2
        <5> QED
          BY <2>2, <2>3, <5>1
      <4> QED
        BY <1>4, <1>8, <4>1, <4>2
    <3> QED
      BY <1>2, <2>3, <3>1 DEF BehindPage, OffsetSurfaces
  <2>6. PageCounts(listed, g)
    <3>1. ASSUME ids # <<>>, NEW last, last = ids[Len(ids)]
          PROVE  /\ last \in g.issued /\ last # r.cursor
                 /\ Undisturbed(listed, g) =>
                      /\ r.pages * r.limit + Len(ids) <= g.next - last
                      /\ ~r.includeTerminal => last \in g.live
      <4>1. Len(ids) \in 1..Len(ids) /\ Len(ids) \in Nat
        BY <2>1, <3>1
      <4>2. last \in members /\ (r.cursor = 0 \/ last < r.cursor)
        BY <1>4, <1>8, <3>1, <4>1
      <4>3. last \in Nat /\ last >= 1 /\ last \in IssuedIds
        BY <1>5, <4>2
      <4>4. ASSUME Undisturbed(listed, g)
            PROVE  r.pages * r.limit + Len(ids) <= g.next - last
        <5>1. Undisturbed(r, g)
          BY <2>3, <4>4 DEF Undisturbed
        <5>2. CASE r.cursor = 0
          <6>1. \A i \in 1..Len(ids) : ids[i] < nextObjectId
            BY <1>4, <1>5, <1>8
          <6>2. Len(ids) <= nextObjectId - last
            BY <1>4, <1>5, <1>8, <2>1, <3>1, <6>1, DescendingSpans
          <6>3. r.pages * r.limit = 0
            <7>1. r.pages = 0 /\ r.limit \in Nat
              BY <1>1, <1>3, <5>1, <5>2 DEF CursorCounts
            <7> QED
              BY <7>1
          <6> QED
            BY <1>2, <1>5, <4>1, <4>3, <6>2, <6>3
        <5>3. CASE r.cursor # 0
          <6>1. r.pages * r.limit <= nextObjectId - r.cursor
            BY <1>1, <1>2, <5>1, <5>3 DEF CursorCounts
          <6>2. Len(ids) <= r.cursor - last
            BY <1>3, <1>4, <1>8, <2>1, <3>1, <5>3, DescendingSpans
          <6> QED
            BY <1>2, <1>3, <1>5, <4>1, <4>3, <6>1, <6>2
        <5> QED
          BY <5>2, <5>3
      <4> QED
        BY <1>2, <1>6, <4>2, <4>3, <4>4
    <3> QED
      BY <2>3, <3>1 DEF PageCounts, OffsetSurfaces
  <2> HIDE DEF ids
  <2>7. TraversalOK(WithPage(r, ids), m, g)
    BY <1>1, <2>1, <2>5, <2>6, WithPageKeeps DEF listed
  <2> QED
    BY <2>4, <2>7
<1>9. CASE page.reverted
  <2> DEFINE q == [r EXCEPT !.cursor = 0]
  <2>1. ~r.includeTerminal /\ r.cursor # 0 /\ r.cursor \notin LiveIds /\ ObjectPage(r) = q
    BY <1>4, <1>7, <1>9
  <2>2. /\ q \in Readers /\ q.surface = r.surface /\ q.route = r.route
        /\ q.rest = r.rest /\ q.limit = r.limit /\ q.objectId = r.objectId
        /\ q.includeTerminal = r.includeTerminal
        /\ q.phase = "list" /\ q.cursor = 0
    BY <1>1 DEF Readers
  <2> HIDE DEF q
  <2>3. ~Undisturbed(q, g)
    <3>1. ~Undisturbed(r, g)
      BY <1>1, <1>2, <2>1 DEF CursorCounts
    <3> QED
      BY <2>2, <3>1 DEF Undisturbed
  <2>4. BehindCursor(q, m, g) /\ CursorCounts(q, g)
    BY <2>2, <2>3 DEF BehindCursor, CursorCounts, OffsetSurfaces
  <2>5. /\ SurfacesOK(q) /\ LeftBehindOK(q, m, g) /\ GroundOK(q, g) /\ IsReading(q)
    BY <1>1, <2>2 DEF SurfacesOK, LeftBehindOK, Missed, GroundOK, IsReading
  <2> QED
    BY <1>1, <2>1, <2>2, <2>4, <2>5
    DEF TraversalOK, PositionOK, IsReading, Surfaces, OffsetSurfaces
<1> QED
  BY <1>8, <1>9

\* A page of an enumeration list.
LEMMA OffsetPageKeeps ==
  ASSUME NEW r, NEW m, NEW g, TraversalOK(r, m, g), IsReading(r),
         r.phase = "list", r.surface \in OffsetSurfaces,
         NEW list, list = g.lists[r.surface]
  PROVE  TraversalOK(WithPage(r, OffsetPage(list, r.cursor, r.limit)), m, g)
<1>1. /\ r \in Readers /\ IsModel(m) /\ GroundOK(r, g) /\ SurfacesOK(r)
      /\ BehindCursor(r, m, g) /\ CursorCounts(r, g) /\ LeftBehindOK(r, m, g)
  BY DEF TraversalOK, PositionOK
<1>2. /\ r.cursor \in Nat /\ r.limit \in Nat \ {0} /\ r.pages * r.limit \in Nat
  BY <1>1, ReaderFields
<1>3. /\ list \in Seq(Id) /\ Len(list) \in Nat /\ r.cursor <= Len(list)
      /\ r.pages * r.limit <= r.cursor
      /\ g.lengths[r.surface] \in Nat /\ g.lengths[r.surface] <= Len(list)
  BY <1>1 DEF GroundOK, CursorCounts
<1> DEFINE end == IF r.cursor + r.limit < Len(list) THEN r.cursor + r.limit ELSE Len(list)
           ids == OffsetPage(list, r.cursor, r.limit)
           listed == [r EXCEPT !.ids = ids, !.phase = "details",
                               !.todo = UNION {DetailReads(r.surface, ids[i]) :
                                                 i \in DOMAIN ids}]
<1>4. /\ end \in Nat /\ r.cursor <= end /\ end <= Len(list)
      /\ end = Len(list) \/ end = r.cursor + r.limit
  BY <1>2, <1>3
<1>5. ids = SubSeq(list, r.cursor + 1, end)
  BY DEF OffsetPage
<1> HIDE DEF end, ids
<1>6. /\ ids \in Seq(Id) /\ Len(ids) = end - r.cursor
      /\ \A i \in 1..Len(ids) : ids[i] = list[r.cursor + i]
  <2>1. /\ r.cursor + 1 \in Int /\ end \in Int
        /\ end - (r.cursor + 1) + 1 = end - r.cursor
        /\ \A i \in Int : r.cursor + 1 + i - 1 = r.cursor + i
        /\ r.cursor + 1 <= end \/ end - r.cursor = 0
        /\ end - r.cursor \in Nat
    <3> SUFFICES ASSUME NEW c \in Nat, NEW e \in Nat, c <= e
                 PROVE  /\ c + 1 \in Int /\ e \in Int
                        /\ e - (c + 1) + 1 = e - c
                        /\ \A i \in Int : c + 1 + i - 1 = c + i
                        /\ c + 1 <= e \/ e - c = 0
                        /\ e - c \in Nat
      BY <1>2, <1>4
    <3> QED
      OBVIOUS
  <2>3. \A i \in (r.cursor + 1)..end : list[i] \in Id
    <3>1. \A i \in (r.cursor + 1)..end : i \in 1..Len(list)
      BY <1>2, <1>3, <1>4
    <3> QED
      BY <1>3, <3>1
  <2>2. /\ SubSeq(list, r.cursor + 1, end) \in Seq(Id)
        /\ Len(SubSeq(list, r.cursor + 1, end))
             = IF r.cursor + 1 <= end THEN end - (r.cursor + 1) + 1 ELSE 0
        /\ \A i \in 1..(end - (r.cursor + 1) + 1) :
             SubSeq(list, r.cursor + 1, end)[i] = list[r.cursor + 1 + i - 1]
    BY <2>1, <2>3, SubSeqProperties
  <2>4. Len(ids) = end - r.cursor
    BY <1>5, <2>1, <2>2
  <2>5. \A i \in 1..(end - r.cursor) : ids[i] = list[r.cursor + i]
    <3> SUFFICES ASSUME NEW i \in 1..(end - r.cursor)
                 PROVE  ids[i] = list[r.cursor + i]
      OBVIOUS
    <3>1. i \in 1..(end - (r.cursor + 1) + 1) /\ r.cursor + 1 + i - 1 = r.cursor + i
      BY <2>1
    <3>2. ids[i] = list[r.cursor + 1 + i - 1]
      BY <1>5, <2>2, <3>1
    <3> QED
      BY <3>1, <3>2
  <2> QED
    BY <1>5, <2>2, <2>4, <2>5
<1>7. \A i \in DOMAIN ids : <<r.surface, ids[i]>>
        \in UNION {DetailReads(r.surface, ids[j]) : j \in DOMAIN ids}
  <2>1. \A x : <<r.surface, x>> \in DetailReads(r.surface, x)
    BY DEF DetailReads
  <2> QED
    BY <2>1
<1>8. /\ listed.surface = r.surface /\ listed.ids = ids /\ listed.limit = r.limit
      /\ listed.cursor = r.cursor /\ listed.pages = r.pages
      /\ listed.todo = UNION {DetailReads(r.surface, ids[j]) : j \in DOMAIN ids}
  BY <1>1 DEF Readers
<1> HIDE DEF listed
<1>9. BehindPage(listed, m, g)
  <2>1. ASSUME NEW i \in 1..g.lengths[r.surface], list[i] \notin KeysOf(m, r.surface)
        PROVE  \/ <<r.surface, list[i]>> \in listed.todo
               \/ Len(ids) = r.limit /\ i > r.cursor + Len(ids)
    <3>1. i > r.cursor /\ i <= Len(list) /\ i \in Nat
      BY <1>1, <1>3, <2>1 DEF BehindCursor
    <3>2. CASE i <= end
      <4>1. i - r.cursor \in DOMAIN ids /\ r.cursor + (i - r.cursor) = i
        BY <1>2, <1>4, <1>6, <3>1, <3>2
      <4>2. ids[i - r.cursor] = list[i]
        BY <1>6, <4>1
      <4> QED
        BY <1>7, <1>8, <4>1, <4>2
    <3>3. CASE ~(i <= end)
      BY <1>2, <1>3, <1>4, <1>6, <3>1, <3>3
    <3> QED
      BY <3>2, <3>3
  <2> QED
    BY <1>8, <2>1 DEF BehindPage, OffsetSurfaces
<1>10. PageCounts(listed, g)
  <2>1. r.cursor + Len(ids) <= Len(list)
    BY <1>2, <1>3, <1>4, <1>6
  <2> QED
    BY <1>3, <1>8, <2>1 DEF PageCounts, OffsetSurfaces
<1>11. TraversalOK(WithPage(r, ids), m, g)
  BY <1>1, <1>6, <1>9, <1>10, WithPageKeeps DEF listed
<1> QED
  BY <1>11 DEF ids

LEMMA ReadPageKeeps ==
  ASSUME TypeOK, IndexMatchesStatus, PagesExact, OnlyStaleCursorsRevert,
         TraversalInv, ReadPage, Ground' = Ground
  PROVE  TraversalInv'
<1> SUFFICES ASSUME NEW r, r = reader, NEW m, m = readModel, NEW g, g = Ground
             PROVE  TraversalOK(reader', m, g)
  BY DEF TraversalInv, ReadPage
<1>1. /\ TraversalOK(r, m, g) /\ r \in Readers /\ GroundOK(r, g) /\ SurfacesOK(r)
      /\ LeftBehindOK(r, m, g) \/ ~IsReading(r)
      /\ r.phase = "list"
  BY DEF TraversalInv, TraversalOK, ReadPage
<1>2. IsReading(r)
  BY <1>1 DEF ReadPage, Reading, Over, IsReading, Readers
<1>3. CASE r.surface = "objectId"
  <2> DEFINE ids == <<r.objectId>>
             listed == [r EXCEPT !.ids = ids, !.phase = "details",
                                 !.todo = UNION {DetailReads(r.surface, ids[i]) :
                                                   i \in DOMAIN ids}]
  <2>1. reader' = WithPage(r, ids)
    BY <1>3 DEF ReadPage
  <2>2. ids \in Seq(Id)
    BY <1>1, <1>2 DEF SurfacesOK, Id
  <2> HIDE DEF ids
  <2>3. listed.surface = "objectId"
    BY <1>1, <1>3 DEF Readers
  <2>4. BehindPage(listed, m, g) /\ PageCounts(listed, g)
    BY <2>3 DEF BehindPage, PageCounts, OffsetSurfaces
  <2>5. IsModel(m) /\ LeftBehindOK(r, m, g)
    BY <1>1, <1>2 DEF TraversalOK
  <2>6. TraversalOK(WithPage(r, ids), m, g)
    BY <1>1, <1>2, <2>2, <2>4, <2>5, WithPageKeeps
  <2> QED
    BY <2>1, <2>6
<1>4. CASE r.surface = "objects"
  BY <1>1, <1>2, <1>4, ObjectPageKeeps DEF ReadPage
<1>5. CASE r.surface \in OffsetSurfaces
  <2>1. reader' = WithPage(r, OffsetPage(OffsetList(r.surface), r.cursor, r.limit))
    BY <1>5 DEF ReadPage, OffsetSurfaces
  <2>2. OffsetList(r.surface) = g.lists[r.surface]
    BY <1>5, GroundFields
  <2> QED
    BY <1>1, <1>2, <1>5, <2>1, <2>2, OffsetPageKeeps
<1> QED
  BY <1>2, <1>3, <1>4, <1>5 DEF IsReading, Surfaces

-----------------------------------------------------------------------------
(* One detail read                                                         *)

LEMMA PutDomain ==
  ASSUME NEW f, NEW k, NEW v
  PROVE  DOMAIN Projection!Put(f, k, v) = DOMAIN f \cup {k}
BY DEF Projection!Put

\* The table of the model that a kind of read fills, and what it puts there.
FieldOfKind ==
  [object |-> "objects", copies |-> "copyReceipts", payer |-> "receiptPayers",
   accounts |-> "usage", datasets |-> "datasets", coordinators |-> "coordinators",
   relayers |-> "relayers"]

ValueRead(kind, x) ==
  CASE kind = "object"       -> GetStorageObject(x)
    [] kind = "copies"       -> GetCopyReceipts(x)
    [] kind = "payer"        -> receipts[x].payer
    [] kind = "accounts"     -> usage[x]
    [] kind = "datasets"     -> [payer |-> datasets[x[1]][x[2]].payer]
    [] kind = "coordinators" -> coordinatorPolicies[x]
    [] kind = "relayers"     -> x \in relayers

\* A read puts its value into its table, and leaves the other tables alone.
LEMMA MergeFields ==
  ASSUME NEW m, IsModel(m), NEW read \in DetailKinds \X Id,
         NEW m2, m2 = Merge(m, read)
  PROVE  /\ IsModel(m2)
         /\ FieldOfKind[read[1]] \in ModelFields
         /\ m2[FieldOfKind[read[1]]]
              = Projection!Put(m[FieldOfKind[read[1]]], read[2],
                               ValueRead(read[1], read[2]))
         /\ \A f \in ModelFields \ {FieldOfKind[read[1]]} : m2[f] = m[f]
<1> SUFFICES ASSUME NEW kind, kind = read[1], NEW x, x = read[2],
                    NEW field, field = FieldOfKind[kind]
             PROVE  /\ IsModel(m2) /\ field \in ModelFields
                    /\ m2[field] = Projection!Put(m[field], x, ValueRead(kind, x))
                    /\ \A f \in ModelFields \ {field} : m2[f] = m[f]
  OBVIOUS
<1>1. m = [f \in ModelFields |-> m[f]] /\ kind \in DetailKinds
  BY DEF IsModel
<1>2. /\ field \in ModelFields
      /\ m2 = [m EXCEPT ![field] = Projection!Put(m[field], x, ValueRead(kind, x))]
  <2>1. CASE kind = "object"
    <3>1. field = "objects"
      BY <2>1 DEF FieldOfKind
    <3>2. m2 = [m EXCEPT !["objects"] = Projection!Put(m.objects, x, ValueRead("object", x))]
      BY <2>1 DEF Merge, ValueRead
    <3> QED
      BY <2>1, <3>1, <3>2 DEF ModelFields
  <2>2. CASE kind = "copies"
    <3>1. field = "copyReceipts"
      BY <2>2 DEF FieldOfKind
    <3>2. m2 = [m EXCEPT !["copyReceipts"] = Projection!Put(m.copyReceipts, x, ValueRead("copies", x))]
      BY <2>2 DEF Merge, ValueRead
    <3> QED
      BY <2>2, <3>1, <3>2 DEF ModelFields
  <2>3. CASE kind = "payer"
    <3>1. field = "receiptPayers"
      BY <2>3 DEF FieldOfKind
    <3>2. m2 = [m EXCEPT !["receiptPayers"] = Projection!Put(m.receiptPayers, x, ValueRead("payer", x))]
      BY <2>3 DEF Merge, ValueRead
    <3> QED
      BY <2>3, <3>1, <3>2 DEF ModelFields
  <2>4. CASE kind = "accounts"
    <3>1. field = "usage"
      BY <2>4 DEF FieldOfKind
    <3>2. m2 = [m EXCEPT !["usage"] = Projection!Put(m.usage, x, ValueRead("accounts", x))]
      BY <2>4 DEF Merge, ValueRead
    <3> QED
      BY <2>4, <3>1, <3>2 DEF ModelFields
  <2>5. CASE kind = "datasets"
    <3>1. field = "datasets"
      BY <2>5 DEF FieldOfKind
    <3>2. m2 = [m EXCEPT !["datasets"] = Projection!Put(m.datasets, x, ValueRead("datasets", x))]
      BY <2>5 DEF Merge, ValueRead
    <3> QED
      BY <2>5, <3>1, <3>2 DEF ModelFields
  <2>6. CASE kind = "coordinators"
    <3>1. field = "coordinators"
      BY <2>6 DEF FieldOfKind
    <3>2. m2 = [m EXCEPT !["coordinators"] = Projection!Put(m.coordinators, x, ValueRead("coordinators", x))]
      BY <2>6 DEF Merge, ValueRead
    <3> QED
      BY <2>6, <3>1, <3>2 DEF ModelFields
  <2>7. CASE kind = "relayers"
    <3>1. field = "relayers"
      BY <2>7 DEF FieldOfKind
    <3>2. m2 = [m EXCEPT !["relayers"] = Projection!Put(m.relayers, x, ValueRead("relayers", x))]
      BY <2>7 DEF Merge, ValueRead
    <3> QED
      BY <2>7, <3>1, <3>2 DEF ModelFields
  <2> QED
    BY <1>1, <2>1, <2>2, <2>3, <2>4, <2>5, <2>6, <2>7 DEF DetailKinds, OffsetSurfaces
<1>3. PICK v : v = Projection!Put(m[field], x, ValueRead(kind, x))
  OBVIOUS
<1>4. m2 = [m EXCEPT ![field] = v]
  BY <1>2, <1>3
<1>5. m2[field] = v /\ \A f \in ModelFields \ {field} : m2[f] = m[f]
  BY <1>1, <1>2, <1>4
<1>6. IsModel(m2)
  BY <1>1, <1>4 DEF IsModel
<1> QED
  BY <1>2, <1>3, <1>5, <1>6

\* A read adds its row to the model and takes none away.
LEMMA MergeAdds ==
  ASSUME NEW m, IsModel(m), NEW read \in DetailKinds \X Id,
         NEW m2, m2 = Merge(m, read)
  PROVE  /\ IsModel(m2)
         /\ DOMAIN m.objects \subseteq DOMAIN m2.objects
         /\ \A s \in OffsetSurfaces : KeysOf(m, s) \subseteq KeysOf(m2, s)
         /\ read[1] = "object" => read[2] \in DOMAIN m2.objects
         /\ read[1] \in OffsetSurfaces => read[2] \in KeysOf(m2, read[1])
<1> DEFINE field == FieldOfKind[read[1]]
<1>1. /\ IsModel(m2) /\ field \in ModelFields
      /\ m2[field] = Projection!Put(m[field], read[2], ValueRead(read[1], read[2]))
      /\ \A f \in ModelFields \ {field} : m2[f] = m[f]
  BY MergeFields
<1> HIDE DEF field
<1>2. DOMAIN m2[field] = DOMAIN m[field] \cup {read[2]}
  <2>1. PICK table, x, v :
          table = m[field] /\ x = read[2] /\ v = ValueRead(read[1], read[2])
    OBVIOUS
  <2>2. DOMAIN Projection!Put(table, x, v) = DOMAIN table \cup {x}
    BY PutDomain
  <2>3. m2[field] = Projection!Put(table, x, v)
    BY <1>1, <2>1
  <2> QED
    BY <2>1, <2>2, <2>3
<1>3. \A f \in ModelFields : DOMAIN m[f] \subseteq DOMAIN m2[f]
  BY <1>1, <1>2
<1>4. read[2] \in DOMAIN m2[field]
  BY <1>2
<1>5. /\ read[1] = "object" => field = "objects"
      /\ read[1] = "accounts" => field = "usage"
      /\ read[1] \in {"datasets", "coordinators", "relayers"} => field = read[1]
  BY DEF field, FieldOfKind
<1> QED
  BY <1>1, <1>3, <1>4, <1>5 DEF OffsetSurfaces, ModelFields, KeysOf

LEMMA ReadDetailKeeps ==
  ASSUME TraversalInv, ReadDetail, Ground' = Ground
  PROVE  TraversalInv'
<1> SUFFICES ASSUME NEW r, r = reader, NEW m, m = readModel, NEW g, g = Ground
             PROVE  TraversalOK(reader', readModel', g)
  BY DEF TraversalInv
<1>1. /\ TraversalOK(r, m, g) /\ r \in Readers /\ IsModel(m)
      /\ GroundOK(r, g) /\ SurfacesOK(r) /\ r.phase = "details"
  BY DEF TraversalInv, TraversalOK, ReadDetail
<1>2. IsReading(r)
  BY <1>1 DEF ReadDetail, Reading, Over, IsReading, Readers
<1>3. BehindPage(r, m, g) /\ PageCounts(r, g) /\ LeftBehindOK(r, m, g)
  BY <1>1, <1>2 DEF TraversalOK, PositionOK
<1>4. PICK read \in r.todo :
        LET m1 == Merge(m, read)
            r1 == [r EXCEPT !.todo = @ \ {read}]
        IN  IF r1.todo # {} THEN readModel' = m1 /\ reader' = r1
            ELSE IF Missing(m1, r1)
            THEN /\ readModel' = Projection!CreateRegistryReadModel
                 /\ reader' = [r1 EXCEPT !.surface = "done"]
            ELSE readModel' = m1 /\ reader' = EndOfPage(r1)
  BY DEF ReadDetail
<1>5. read \in DetailKinds \X Id /\ read = <<read[1], read[2]>>
  <2>1. r.todo \subseteq DetailKinds \X Id
    BY <1>1 DEF Readers
  <2> QED
    BY <2>1
<1> DEFINE m2 == Merge(m, read)
           r2 == [r EXCEPT !.todo = @ \ {read}]
<1>6. /\ IsModel(m2)
      /\ DOMAIN m.objects \subseteq DOMAIN m2.objects
      /\ \A s \in OffsetSurfaces : KeysOf(m, s) \subseteq KeysOf(m2, s)
      /\ read[1] = "object" => read[2] \in DOMAIN m2.objects
      /\ read[1] \in OffsetSurfaces => read[2] \in KeysOf(m2, read[1])
  BY <1>1, <1>5, MergeAdds
<1> HIDE DEF m2
<1>7. /\ r2 \in Readers /\ r2.surface = r.surface /\ r2.route = r.route
      /\ r2.rest = r.rest /\ r2.limit = r.limit /\ r2.ids = r.ids
      /\ r2.includeTerminal = r.includeTerminal /\ r2.todo = r.todo \ {read}
      /\ r2.objectId = r.objectId /\ r2.phase = "details"
      /\ r2.cursor = r.cursor /\ r2.pages = r.pages
  BY <1>1 DEF Readers
<1>8. \/ r2.todo # {} /\ readModel' = m2 /\ reader' = r2
      \/ /\ r2.todo = {} /\ Missing(m2, r2)
         /\ readModel' = Projection!CreateRegistryReadModel
         /\ reader' = [r2 EXCEPT !.surface = "done"]
      \/ r2.todo = {} /\ readModel' = m2 /\ reader' = EndOfPage(r2)
  BY <1>4 DEF m2
<1> HIDE DEF r2
<1>9. /\ SurfacesOK(r2) /\ GroundOK(r2, g) /\ IsReading(r2) /\ PageCounts(r2, g)
  BY <1>1, <1>2, <1>3, <1>7
  DEF SurfacesOK, GroundOK, IsReading, PageCounts, Undisturbed
<1>10. LeftBehindOK(r2, m2, g)
  <2>1. ASSUME NEW s, Complete(s, m, g) PROVE Complete(s, m2, g)
    BY <1>6, <2>1 DEF Complete
  <2> QED
    BY <1>2, <1>3, <1>7, <2>1
    DEF LeftBehindOK, Missed, IsReading, Surfaces, OffsetSurfaces
<1>11. BehindPage(r2, m2, g)
  <2>1. ASSUME NEW o, <<"object", o>> \in r.todo
        PROVE  <<"object", o>> \in r2.todo \/ o \in DOMAIN m2.objects
    BY <1>5, <1>6, <1>7, <2>1
  <2>2. ASSUME NEW x, r.surface \in OffsetSurfaces, <<r.surface, x>> \in r.todo
        PROVE  <<r.surface, x>> \in r2.todo \/ x \in KeysOf(m2, r.surface)
    BY <1>5, <1>6, <1>7, <2>2
  <2>3. ASSUME r.surface = "objects", NEW o \in g.due
        PROVE  \/ o \in DOMAIN m2.objects \/ <<"object", o>> \in r2.todo
               \/ /\ r2.ids # <<>> /\ Len(r2.ids) = r2.limit
                  /\ o < r2.ids[Len(r2.ids)]
    BY <1>3, <1>6, <1>7, <2>1, <2>3 DEF BehindPage
  <2>4. ASSUME r.surface \in OffsetSurfaces, NEW i \in 1..g.lengths[r.surface]
        PROVE  \/ g.lists[r.surface][i] \in KeysOf(m2, r.surface)
               \/ <<r.surface, g.lists[r.surface][i]>> \in r2.todo
               \/ Len(r2.ids) = r2.limit /\ i > r2.cursor + Len(r2.ids)
    BY <1>3, <1>6, <1>7, <2>2, <2>4 DEF BehindPage
  <2> QED
    BY <1>7, <2>3, <2>4 DEF BehindPage
<1>12. CASE r2.todo # {} /\ readModel' = m2 /\ reader' = r2
  BY <1>6, <1>7, <1>9, <1>10, <1>11, <1>12
  DEF TraversalOK, PositionOK, IsReading, Surfaces, OffsetSurfaces
<1>13. CASE r2.todo = {} /\ readModel' = m2 /\ reader' = EndOfPage(r2)
  <2>1. TraversalOK(EndOfPage(r2), m2, g)
    BY <1>6, <1>7, <1>9, <1>10, <1>11, <1>13, EndOfPageKeeps
  <2> QED
    BY <1>13, <2>1
<1>14. CASE /\ r2.todo = {} /\ Missing(m2, r2)
            /\ readModel' = Projection!CreateRegistryReadModel
            /\ reader' = [r2 EXCEPT !.surface = "done"]
  <2>1. r2.route = "object"
    BY <1>9, <1>14, RouteSurfaces DEF Missing, SurfacesOK
  <2> DEFINE q == [r2 EXCEPT !.surface = "done"]
  <2>2. /\ q \in Readers /\ q.surface = "done" /\ q.route = "object"
        /\ q.includeTerminal = r2.includeTerminal
    BY <1>7, <2>1 DEF Readers
  <2> HIDE DEF q
  <2>3. SurfacesOK(q) /\ GroundOK(q, g) /\ ~IsReading(q)
    BY <1>9, <2>1, <2>2
    DEF SurfacesOK, GroundOK, IsReading, Surfaces, OffsetSurfaces
  <2>4. IsModel(readModel')
    BY <1>14 DEF IsModel, Projection!CreateRegistryReadModel, ModelFields
  <2>5. LeftBehindOK(q, readModel', g)
    <3>1. DOMAIN readModel'.objects = {}
      BY <1>14 DEF Projection!CreateRegistryReadModel, Projection!EmptyMap
    <3> QED
      BY <2>2, <3>1 DEF LeftBehindOK, Missed
  <2>6. TraversalOK(q, readModel', g)
    BY <2>2, <2>3, <2>4, <2>5 DEF TraversalOK
  <2> QED
    BY <1>14, <2>6 DEF q
<1> QED
  BY <1>8, <1>12, <1>13, <1>14

-----------------------------------------------------------------------------
(* Every step                                                              *)

\* A request starts on a registry that owes what it lists.
LEMMA AdminRequestKeeps ==
  ASSUME TypeOK, TraversalInv, AdminRequest
  PROVE  TraversalInv'
<1>1. PICK route \in Routes, o \in ObjectId, limit \in PageLimits,
           terminal \in IncludeTerminal :
        /\ reader' = NextSurface([Request(route, o, limit, terminal) EXCEPT
                                    !.rest = SurfacesForRoute(route)])
        /\ dueIds' = IF terminal THEN IssuedIds ELSE LiveIds
  BY DEF AdminRequest
<1>2. /\ dueLengths' = [s \in OffsetSurfaces |-> Len(OffsetList(s))]
      /\ readModel' = readModel /\ moved' = moved /\ UNCHANGED vars
      /\ reader = NoRequest
  BY DEF AdminRequest
<1>3. IsModel(readModel) /\ GroundOK(reader, Ground)
  BY DEF TraversalInv, TraversalOK
<1> DEFINE r == [Request(route, o, limit, terminal) EXCEPT
                   !.rest = SurfacesForRoute(route)]
           h == [due |-> dueIds', lengths |-> dueLengths',
                 lists |-> [s \in OffsetSurfaces |-> OffsetList(s)],
                 issued |-> IssuedIds, live |-> LiveIds, next |-> nextObjectId,
                 any |-> moved.any]
<1>4. Ground' = h
  BY <1>2 DEF Ground, OffsetList, IssuedIds, LiveIds, vars, uploadVars,
              requestVars, adminVars, datasetVars
<1>5. /\ limit \in Nat \ {0} /\ limit <= MaxLimit /\ terminal \in BOOLEAN
  BY RequestsAssumption, MaxLimitAssumption
<1>6. /\ Request(route, o, limit, terminal) \in Readers
      /\ Request(route, o, limit, terminal).route = route
      /\ Request(route, o, limit, terminal).objectId = o
      /\ Request(route, o, limit, terminal).limit = limit
      /\ Request(route, o, limit, terminal).includeTerminal = terminal
  <2>1. <<>> \in Seq(Surfaces) /\ <<>> \in Seq(Id) /\ 0 \in Nat
    OBVIOUS
  <2> QED
    BY <1>5, <2>1 DEF Request, Readers
<1>7. /\ r \in Readers /\ r.route = route /\ r.objectId = o /\ r.limit = limit
      /\ r.rest = SurfacesForRoute(route) /\ r.includeTerminal = terminal
  <2> SUFFICES ASSUME NEW r0 \in Readers, NEW rest \in Seq(Surfaces),
                      NEW q, q = [r0 EXCEPT !.rest = rest]
               PROVE  /\ q \in Readers /\ q.route = r0.route
                      /\ q.objectId = r0.objectId /\ q.limit = r0.limit
                      /\ q.rest = rest /\ q.includeTerminal = r0.includeTerminal
    BY <1>6, RouteSurfaces
  <2> QED
    BY DEF Readers
<1> HIDE DEF r
<1>8. GroundOK(r, h)
  <2>1. \A s \in OffsetSurfaces :
          /\ h.lists[s] \in Seq(Id)
          /\ h.lengths[s] \in Nat /\ h.lengths[s] <= Len(h.lists[s])
    BY <1>2, OffsetListType
  <2>2. /\ nextObjectId \in Nat /\ moved.any \in BOOLEAN
        /\ IssuedIds \subseteq ObjectId /\ \A x \in IssuedIds : x < nextObjectId
        /\ LiveIds \subseteq IssuedIds
    BY <1>3, GroundFields DEF GroundOK
  <2>3. /\ h.due = dueIds' /\ h.issued = IssuedIds /\ h.live = LiveIds
        /\ h.next = nextObjectId /\ h.any = moved.any
    OBVIOUS
  <2> HIDE DEF h
  <2> QED
    BY <1>1, <1>7, <2>1, <2>2, <2>3 DEF GroundOK
<1>9. TraversalOK(NextSurface(r), readModel, h)
  <2> HIDE DEF h
  <2>1. Range(r.rest) = Range(SurfacesForRoute(r.route)) /\ r.rest # <<>>
    BY <1>7, RouteSurfaces
  <2> QED
    BY <1>3, <1>5, <1>7, <1>8, <2>1, SurfaceBegins
<1> QED
  BY <1>1, <1>2, <1>4, <1>9 DEF TraversalInv, r

LEMMA AnsweredKeeps ==
  ASSUME TraversalInv, Answered
  PROVE  TraversalInv'
<1> DEFINE h == [due |-> {}, lengths |-> [s \in OffsetSurfaces |-> 0],
                 lists |-> [s \in OffsetSurfaces |-> OffsetList(s)],
                 issued |-> IssuedIds, live |-> LiveIds, next |-> nextObjectId,
                 any |-> FALSE]
<1>1. /\ reader' = NoRequest /\ Ground' = h
      /\ readModel' = Projection!CreateRegistryReadModel
  <2>1. /\ reader' = NoRequest /\ dueIds' = {}
        /\ readModel' = Projection!CreateRegistryReadModel
        /\ dueLengths' = [s \in OffsetSurfaces |-> 0]
        /\ moved'.any = FALSE /\ UNCHANGED vars
    BY DEF Answered, Still
  <2>2. /\ IssuedIds' = IssuedIds /\ LiveIds' = LiveIds
        /\ nextObjectId' = nextObjectId
        /\ [s \in OffsetSurfaces |-> OffsetList(s)]'
              = [s \in OffsetSurfaces |-> OffsetList(s)]
    BY <2>1 DEF OffsetList, IssuedIds, LiveIds, vars, uploadVars, requestVars,
                adminVars, datasetVars
  <2> QED
    BY <2>1, <2>2 DEF Ground
<1>2. /\ NoRequest \in Readers /\ NoRequest.surface = "idle"
      /\ NoRequest.includeTerminal = TRUE
  <2>1. <<>> \in Seq(Id) /\ <<>> \in Seq(Surfaces) /\ 0 \in Nat /\ 1 \in Nat \ {0}
    OBVIOUS
  <2> QED
    BY <2>1 DEF NoRequest, Request, Readers
<1>3. GroundOK(reader, Ground)
  BY DEF TraversalInv, TraversalOK
<1>4. \A s \in OffsetSurfaces : OffsetList(s) \in Seq(Id)
  BY <1>3, GroundFields DEF GroundOK
<1>5. GroundOK(NoRequest, h)
  <2>1. /\ nextObjectId \in Nat
        /\ IssuedIds \subseteq ObjectId /\ \A x \in IssuedIds : x < nextObjectId
        /\ LiveIds \subseteq IssuedIds
    BY <1>3, GroundFields DEF GroundOK
  <2> QED
    BY <1>2, <1>4, <2>1 DEF GroundOK
<1>6. IsModel(Projection!CreateRegistryReadModel)
  BY DEF IsModel, Projection!CreateRegistryReadModel, ModelFields
<1>7. SurfacesOK(NoRequest) /\ ~IsReading(NoRequest)
  BY <1>2 DEF SurfacesOK, IsReading, Surfaces, OffsetSurfaces
<1> HIDE DEF h
<1>8. TraversalOK(NoRequest, Projection!CreateRegistryReadModel, h)
  BY <1>2, <1>5, <1>6, <1>7 DEF TraversalOK
<1> QED
  BY <1>1, <1>8 DEF TraversalInv

LEMMA RegistryMovesKeeps ==
  ASSUME TypeOK, TypeOK', IndexMatchesStatus', TraversalInv, RegistryMoves
  PROVE  TraversalInv'
<1>1. /\ TraversalOK(reader, readModel, Ground) /\ reader \in Readers
      /\ GroundOK(reader, Ground)
  BY DEF TraversalInv, TraversalOK
<1>2. /\ Reading => GroundGrows(Ground, Ground')
      /\ GroundOK(reader, Ground')
      /\ reader' = reader /\ readModel' = readModel
  BY <1>1, RegistryMovesGround
<1> SUFFICES TraversalOK(reader, readModel, Ground')
  BY <1>2 DEF TraversalInv
<1> DEFINE r == reader
           h == Ground'
<1>3. r.surface \notin Over
  BY DEF RegistryMoves
<1>4. CASE Reading
  <2>1. IsReading(reader)
    BY <1>1, <1>4 DEF Reading, Over, IsReading, Readers
  <2> QED
    BY <1>1, <1>2, <1>4, <2>1, TraversalBearsMoves
<1>5. CASE ~Reading
  <2>1. reader.surface = "idle"
    BY <1>3, <1>5 DEF Reading
  <2> QED
    BY <1>1, <1>2, <2>1 DEF TraversalOK, IsReading, Surfaces, OffsetSurfaces
<1> QED
  BY <1>4, <1>5

LEMMA TraversalInit ==
  ASSUME DRInit, TypeOK, IndexMatchesStatus
  PROVE  TraversalInv
<1>1. /\ reader = NoRequest /\ readModel = Projection!CreateRegistryReadModel
      /\ dueIds = {} /\ dueLengths = [s \in OffsetSurfaces |-> 0] /\ moved = Still
  BY DEF DRInit
<1>2. /\ NoRequest \in Readers /\ NoRequest.surface = "idle"
      /\ NoRequest.includeTerminal = TRUE
  <2>1. <<>> \in Seq(Id) /\ <<>> \in Seq(Surfaces) /\ 0 \in Nat /\ 1 \in Nat \ {0}
    OBVIOUS
  <2> QED
    BY <2>1 DEF NoRequest, Request, Readers
<1>3. GroundOK(reader, Ground)
  <2>1. \A s \in OffsetSurfaces : OffsetList(s) \in Seq(Id)
    BY OffsetListType
  <2>2. nextObjectId \in Nat /\ LiveIds \subseteq IssuedIds
    BY MaxObjectsAssumption
    DEF IndexMatchesStatus, LiveIds, IssuedIds, IssuedInOrder, Live, NoObject, TypeOK
  <2>3. IssuedIds \subseteq ObjectId /\ \A x \in IssuedIds : x < nextObjectId
    BY DEF IssuedIds
  <2>4. moved.any \in BOOLEAN
    BY <1>1 DEF Still
  <2>5. \A s \in OffsetSurfaces : dueLengths[s] = 0
    BY <1>1
  <2> QED
    BY <1>1, <2>1, <2>2, <2>3, <2>4, <2>5, GroundFields DEF GroundOK
<1>4. IsModel(readModel)
  BY <1>1 DEF IsModel, Projection!CreateRegistryReadModel, ModelFields
<1>5. SurfacesOK(reader) /\ ~IsReading(reader) /\ reader.surface = "idle"
  BY <1>1, <1>2 DEF SurfacesOK, IsReading, Surfaces, OffsetSurfaces
<1> QED
  BY <1>1, <1>2, <1>3, <1>4, <1>5 DEF TraversalInv, TraversalOK

LEMMA TraversalStep ==
  ASSUME TypeOK, TypeOK', IndexMatchesStatus, IndexMatchesStatus',
         PagesExact, OnlyStaleCursorsRevert, TraversalInv, [DRNext]_DRvars
  PROVE  TraversalInv'
<1>1. CASE AdminRequest
  BY <1>1, AdminRequestKeeps
<1>2. CASE Continue
  <2>1. Ground' = Ground
    BY <1>2 DEF Continue, Ground, OffsetList, IssuedIds, LiveIds, vars, uploadVars,
                requestVars, adminVars, datasetVars
  <2> QED
    BY <1>2, <2>1, ReadPageKeeps, ReadDetailKeeps DEF Continue
<1>3. CASE Answered
  BY <1>3, AnsweredKeeps
<1>4. CASE RegistryMoves
  BY <1>4, RegistryMovesKeeps
<1>5. CASE UNCHANGED DRvars
  <2>1. Ground' = Ground /\ reader' = reader /\ readModel' = readModel
    BY <1>5 DEF DRvars, readerVars, Ground, OffsetList, IssuedIds, LiveIds, vars,
                uploadVars, requestVars, adminVars, datasetVars
  <2> QED
    BY <2>1 DEF TraversalInv
<1> QED
  BY <1>1, <1>2, <1>3, <1>4, <1>5 DEF DRNext

\* The registry underneath a traversal is the registry.
LEMMA ReadersLeaveTheRegistry == DRSpec => Spec
<1>1. DRInit => Init
  BY DEF DRInit
<1>2. [DRNext]_DRvars => [Next]_vars
  BY DEF DRNext, AdminRequest, Continue, Answered, RegistryMoves, DRvars
<1> QED
  BY <1>1, <1>2, PTL DEF DRSpec, Spec

LEMMA TraversalInvariant == DRSpec => []TraversalInv
<1>1. DRSpec => [](TypeOK /\ IndexMatchesStatus /\ PagesExact /\ OnlyStaleCursorsRevert)
  BY ReadersLeaveTheRegistry, TypeCorrect, IndexCorrect, PagesCorrect,
     LiveCursorsNeverRevert, PTL
<1>2. DRInit /\ TypeOK /\ IndexMatchesStatus => TraversalInv
  BY TraversalInit
<1>3. /\ TypeOK /\ IndexMatchesStatus /\ PagesExact /\ OnlyStaleCursorsRevert
      /\ TypeOK' /\ IndexMatchesStatus' /\ TraversalInv /\ [DRNext]_DRvars
      => TraversalInv'
  BY TraversalStep
<1> QED
  BY <1>1, <1>2, <1>3, PTL DEF DRSpec

\* A traversal misses nothing that was there all along, whatever the registry
\* does between its reads.
THEOREM TraversalsComplete == DRSpec => []TraversalComplete
<1>1. TraversalInv => TraversalComplete
  <2> SUFFICES ASSUME TraversalInv PROVE TraversalComplete
    OBVIOUS
  <2>1. reader.surface = "done" => LeftBehindOK(reader, readModel, Ground)
    BY DEF TraversalInv, TraversalOK
  <2>2. ASSUME reader.surface = "done", reader.route # "object",
               NEW s \in Range(SurfacesForRoute(reader.route)), s # "done"
        PROVE  Complete(s, readModel, Ground)
    BY <2>1, <2>2 DEF LeftBehindOK, Missed, Range
  <2>3. DoneWith("objects") => dueIds \subseteq DOMAIN readModel.objects
    <3> SUFFICES ASSUME DoneWith("objects")
                 PROVE  dueIds \subseteq DOMAIN readModel.objects
      OBVIOUS
    <3>1. reader.route # "object"
      BY RouteSurfaces DEF DoneWith
    <3>2. Complete("objects", readModel, Ground)
      BY <2>2, <3>1 DEF DoneWith, Done
    <3> QED
      BY <3>2, GroundFields DEF Complete
  <2>4. ASSUME reader.route # "object", NEW s \in OffsetSurfaces, DoneWith(s)
        PROVE  {OffsetList(s)[i] : i \in 1..dueLengths[s]} \subseteq ModelKeys(s)
    <3>1. Complete(s, readModel, Ground)
      BY <2>2, <2>4 DEF DoneWith, Done, OffsetSurfaces
    <3>2. KeysOf(readModel, s) = ModelKeys(s)
      BY <2>4 DEF KeysOf, ModelKeys, OffsetSurfaces
    <3>3. \A i \in 1..dueLengths[s] : OffsetList(s)[i] \in ModelKeys(s)
      BY <2>4, <3>1, <3>2, GroundFields DEF Complete
    <3> QED
      BY <3>3
  <2> QED
    BY <2>3, <2>4 DEF TraversalComplete
<1> QED
  BY <1>1, TraversalInvariant, PTL

\* A request fails for the size of the registry only: cursors always advance
\* and no page reverts that the adapter does not read again.
THEOREM FailuresJustified == DRSpec => []FailsOnlyForSize
<1>1. TraversalInv => FailsOnlyForSize
  <2> SUFFICES ASSUME TraversalInv, reader.surface = "failed"
               PROVE  /\ reader.phase = "exceeded maxPagesPerSurface"
                      /\ \/ moved.any /\ ~reader.includeTerminal
                         \/ \E n \in {nextObjectId - 1} \cup
                                     {Len(OffsetList(s)) : s \in OffsetSurfaces} :
                              n >= MaxPagesPerSurface * reader.limit
    BY DEF FailsOnlyForSize
  <2>1. FailureOK(reader, Ground)
    BY DEF TraversalInv, TraversalOK
  <2>2. \A s \in OffsetSurfaces : Ground.lists[s] = OffsetList(s)
    BY GroundFields
  <2> QED
    BY <2>1, <2>2, GroundFields DEF FailureOK
<1> QED
  BY <1>1, TraversalInvariant, PTL
=============================================================================

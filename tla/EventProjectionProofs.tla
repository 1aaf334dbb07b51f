------------------------ MODULE EventProjectionProofs ------------------------
(***************************************************************************)
(* Proofs about the event read model (EventProjection): a model folded     *)
(* from the registry's own logs shows what the registry holds, whatever    *)
(* the batches, the order of a batch's queries and the block the indexer   *)
(* starts at.                                                              *)
(*                                                                         *)
(* The argument.  What is projected and what is still pending are one      *)
(* history: folding the pending logs onto the projected model gives a      *)
(* model that projecting a batch does not change (IndexKeepsFold) and that *)
(* each transaction moves exactly as it moves the registry (Shows, one     *)
(* lemma per kind of transaction).  Once nothing is pending the folded     *)
(* model is the projected one, and the operator's report on it             *)
(* (Reconciliation) compares the contract's own counters with the sums     *)
(* they are, and its coordinators with those the contract admits.          *)
(***************************************************************************)
EXTENDS EventProjection, FocPlatformRegistryProofs, SequenceTheorems

-----------------------------------------------------------------------------
(* Folding events in turn *)

\* f holds the models on the way from m over the first n events of s.
FoldsPart(f, s, n, m) ==
  /\ f = [i \in 0..n |-> f[i]]
  /\ f[0] = m
  /\ \A i \in 1..n : f[i] = ApplyRegistryEvent(f[i - 1], s[i])

IsFold(f, s, m) == FoldsPart(f, s, Len(s), m)

\* A fold of a sequence, step by step, ends with what ApplyInTurn returns.
LEMMA FoldIs ==
  ASSUME NEW s, Len(s) \in Nat, NEW m, NEW f, IsFold(f, s, m)
  PROVE  ApplyInTurn(s, m) = f[Len(s)]
<1> DEFINE n == Len(s)
           Steps(h) == [i \in 0..n |-> IF i = 0 THEN m
                                       ELSE ApplyRegistryEvent(h[i - 1], s[i])]
           g == CHOOSE h : h = Steps(h)
<1>1. f = Steps(f)
  <2>1. \A i \in 0..n : f[i] = Steps(f)[i]
    BY DEF IsFold, FoldsPart
  <2>2. f = [i \in 0..n |-> f[i]]
    BY DEF IsFold, FoldsPart
  <2> HIDE DEF n
  <2> QED
    BY <2>1, <2>2
<1>2. g = Steps(g)
  BY <1>1
<1>3. ApplyInTurn(s, m) = g[n]
  BY DEF ApplyInTurn
<1> HIDE DEF g
<1> DEFINE T == {i \in Nat : i <= n => g[i] = f[i]}
<1>4. 0 \in T
  BY <1>1, <1>2
<1>5. ASSUME NEW i \in Nat, i \in T PROVE i + 1 \in T
  <2> SUFFICES ASSUME i + 1 <= n PROVE g[i + 1] = f[i + 1]
    OBVIOUS
  <2>1. g[i] = f[i]
    BY <1>5
  <2>2. g[i + 1] = ApplyRegistryEvent(g[i], s[i + 1])
    BY <1>2
  <2>3. f[i + 1] = ApplyRegistryEvent(f[i], s[i + 1])
    BY <1>1
  <2> QED
    BY <2>1, <2>2, <2>3
<1> HIDE DEF T
<1>6. \A i \in Nat : i \in T
  BY <1>4, <1>5, NumbersInduction
<1>7. n \in T
  BY <1>6
<1> QED
  BY <1>3, <1>7 DEF T

\* Every sequence has a fold.
LEMMA FoldExists ==
  ASSUME NEW s, Len(s) \in Nat, NEW m
  PROVE  \E f : IsFold(f, s, m)
<1> DEFINE T == {k \in Nat : \E f : FoldsPart(f, s, k, m)}
<1>1. 0 \in T
  <2> DEFINE f == [i \in 0..0 |-> m]
  <2>1. FoldsPart(f, s, 0, m)
    BY DEF FoldsPart
  <2> HIDE DEF f
  <2> QED
    BY <2>1
<1>2. ASSUME NEW k \in Nat, k \in T PROVE k + 1 \in T
  <2>1. PICK f : FoldsPart(f, s, k, m)
    BY <1>2
  <2> DEFINE h == [i \in 0..(k + 1) |->
                     IF i = k + 1 THEN ApplyRegistryEvent(f[k], s[k + 1])
                                  ELSE f[i]]
  <2>2. FoldsPart(h, s, k + 1, m)
    <3>1. h = [i \in 0..(k + 1) |-> h[i]] /\ h[0] = m
      BY <2>1 DEF FoldsPart
    <3>2. ASSUME NEW i \in 1..(k + 1)
          PROVE  h[i] = ApplyRegistryEvent(h[i - 1], s[i])
      <4>1. CASE i = k + 1
        BY <4>1
      <4>2. CASE i \in 1..k
        <5>1. f[i] = ApplyRegistryEvent(f[i - 1], s[i])
          BY <2>1, <4>2 DEF FoldsPart
        <5>2. h[i] = f[i] /\ h[i - 1] = f[i - 1]
          BY <4>2
        <5> QED
          BY <5>1, <5>2
      <4> QED
        BY <4>1, <4>2
    <3> HIDE DEF h
    <3> QED
      BY <3>1, <3>2 DEF FoldsPart
  <2> HIDE DEF h
  <2> QED
    BY <2>2
<1> HIDE DEF T
<1>3. \A k \in Nat : k \in T
  BY <1>1, <1>2, NumbersInduction
<1>4. PICK f : FoldsPart(f, s, Len(s), m)
  BY <1>3 DEF T
<1> QED
  BY <1>4 DEF IsFold

\* No events change nothing; a sequence is folded event by event.
LEMMA FoldNone ==
  ASSUME NEW m
  PROVE  ApplyInTurn(<<>>, m) = m
<1> DEFINE f == [i \in 0..0 |-> m]
<1>1. Len(<<>>) = 0
  OBVIOUS
<1>2. IsFold(f, <<>>, m)
  BY <1>1 DEF IsFold, FoldsPart
<1>3. f[0] = m
  OBVIOUS
<1> HIDE DEF f
<1> QED
  BY <1>1, <1>2, <1>3, FoldIs

\* Folding a sequence is folding its first part, then the rest.
LEMMA FoldSplit ==
  ASSUME NEW S, NEW s \in Seq(S), NEW k \in 0..Len(s), NEW m
  PROVE  ApplyInTurn(s, m)
           = ApplyInTurn(SubSeq(s, k + 1, Len(s)), ApplyInTurn(SubSeq(s, 1, k), m))
<1> DEFINE n == Len(s)
           a == SubSeq(s, 1, k)
           b == SubSeq(s, k + 1, n)
<1>1. n \in Nat /\ k \in Nat /\ k <= n
  OBVIOUS
<1>2. Len(a) = k /\ \A i \in 1..k : a[i] = s[i]
  OBVIOUS
<1>3. Len(b) = n - k /\ \A i \in 1..(n - k) : b[i] = s[k + i]
  OBVIOUS
<1>4. PICK f : IsFold(f, s, m)
  BY <1>1, FoldExists
<1> HIDE DEF a, b, n
<1> DEFINE fa == [i \in 0..k |-> f[i]]
           fb == [i \in 0..(n - k) |-> f[k + i]]
<1>5. \A i \in 1..n : f[i] = ApplyRegistryEvent(f[i - 1], s[i])
  BY <1>4 DEF IsFold, FoldsPart, n
<1>6. IsFold(fa, a, m)
  <2>1. fa[0] = m
    BY <1>1, <1>4 DEF IsFold, FoldsPart
  <2>2. ASSUME NEW i \in 1..k PROVE fa[i] = ApplyRegistryEvent(fa[i - 1], a[i])
    <3>1. f[i] = ApplyRegistryEvent(f[i - 1], a[i])
      BY <1>1, <1>2, <1>5
    <3>2. fa[i] = f[i] /\ fa[i - 1] = f[i - 1]
      BY <1>1
    <3> QED
      BY <3>1, <3>2
  <2>3. fa = [i \in 0..k |-> fa[i]]
    OBVIOUS
  <2> HIDE DEF fa
  <2> QED
    BY <1>2, <2>1, <2>2, <2>3 DEF IsFold, FoldsPart
<1>7. IsFold(fb, b, fa[k])
  <2>1. fb[0] = fa[k]
    BY <1>1
  <2>2. ASSUME NEW i \in 1..(n - k)
        PROVE  fb[i] = ApplyRegistryEvent(fb[i - 1], b[i])
    <3>1. k + i \in 1..n /\ (k + i) - 1 = k + (i - 1)
      BY <1>1
    <3>2. f[k + i] = ApplyRegistryEvent(f[(k + i) - 1], s[k + i])
      BY <1>5, <3>1
    <3>3. fb[i] = f[k + i] /\ fb[i - 1] = f[k + (i - 1)]
      BY <1>1
    <3> QED
      BY <1>3, <3>1, <3>2, <3>3
  <2>3. fb = [i \in 0..(n - k) |-> fb[i]]
    OBVIOUS
  <2> HIDE DEF fa, fb
  <2> QED
    BY <1>3, <2>1, <2>2, <2>3 DEF IsFold, FoldsPart
<1>8. fb[n - k] = f[n] /\ n - k \in Nat
  BY <1>1
<1> HIDE DEF fa, fb
<1>9. ApplyInTurn(a, m) = fa[k]
  BY <1>1, <1>2, <1>6, FoldIs
<1>10. ApplyInTurn(b, fa[k]) = fb[n - k]
  BY <1>3, <1>7, <1>8, FoldIs
<1>11. ApplyInTurn(s, m) = f[n]
  BY <1>1, <1>4, FoldIs DEF n
<1> QED
  BY <1>8, <1>9, <1>10, <1>11 DEF a, b, n

LEMMA FoldConcat ==
  ASSUME NEW S, NEW a \in Seq(S), NEW b \in Seq(S), NEW m
  PROVE  ApplyInTurn(a \o b, m) = ApplyInTurn(b, ApplyInTurn(a, m))
<1> DEFINE s == a \o b
<1>1. s \in Seq(S) /\ Len(s) = Len(a) + Len(b) /\ Len(a) \in Nat /\ Len(b) \in Nat
  OBVIOUS
<1>2. SubSeq(s, 1, Len(a)) = a
  OBVIOUS
<1>3. SubSeq(s, Len(a) + 1, Len(s)) = b
  OBVIOUS
<1> HIDE DEF s
<1>4. Len(a) \in 0..Len(s)
  BY <1>1
<1>5. ApplyInTurn(s, m)
        = ApplyInTurn(SubSeq(s, Len(a) + 1, Len(s)),
                      ApplyInTurn(SubSeq(s, 1, Len(a)), m))
  BY <1>1, <1>4, FoldSplit
<1> QED
  BY <1>2, <1>3, <1>5 DEF s

LEMMA FoldOne ==
  ASSUME NEW e, NEW m
  PROVE  ApplyInTurn(<<e>>, m) = ApplyRegistryEvent(m, e)
<1> DEFINE f == [i \in 0..1 |-> IF i = 0 THEN m ELSE ApplyRegistryEvent(m, e)]
<1>1. Len(<<e>>) = 1 /\ <<e>>[1] = e
  OBVIOUS
<1>2. f[0] = m /\ f[1] = ApplyRegistryEvent(m, e) /\ f = [i \in 0..1 |-> f[i]]
  OBVIOUS
<1> HIDE DEF f
<1>3. IsFold(f, <<e>>, m)
  BY <1>1, <1>2 DEF IsFold, FoldsPart
<1> QED
  BY <1>1, <1>2, <1>3, FoldIs

LEMMA FoldTwo ==
  ASSUME NEW e1, NEW e2, NEW m
  PROVE  ApplyInTurn(<<e1, e2>>, m)
           = ApplyRegistryEvent(ApplyRegistryEvent(m, e1), e2)
<1> DEFINE s  == <<e1, e2>>
           m1 == ApplyRegistryEvent(m, e1)
           m2 == ApplyRegistryEvent(m1, e2)
           f  == [i \in 0..2 |-> IF i = 0 THEN m ELSE IF i = 1 THEN m1 ELSE m2]
<1>1. Len(s) = 2 /\ s[1] = e1 /\ s[2] = e2
  OBVIOUS
<1>2. f[0] = m /\ f[1] = m1 /\ f[2] = m2 /\ f = [i \in 0..2 |-> f[i]]
  OBVIOUS
<1>3. m1 = ApplyRegistryEvent(m, e1) /\ m2 = ApplyRegistryEvent(m1, e2)
  OBVIOUS
<1> HIDE DEF f, s, m1, m2
<1>4. ASSUME NEW i \in 1..2 PROVE f[i] = ApplyRegistryEvent(f[i - 1], s[i])
  <2>1. i = 1 \/ i = 2
    OBVIOUS
  <2> QED
    BY <1>1, <1>2, <1>3, <2>1
<1>5. IsFold(f, s, m)
  BY <1>1, <1>2, <1>4 DEF IsFold, FoldsPart
<1>6. Len(s) \in Nat /\ f[Len(s)] = m2
  BY <1>1, <1>2
<1>7. ApplyInTurn(s, m) = f[Len(s)]
  BY <1>5, <1>6, FoldIs
<1> QED
  BY <1>6, <1>7 DEF s, m1, m2

LEMMA FoldFour ==
  ASSUME NEW e1, NEW e2, NEW e3, NEW e4, NEW m
  PROVE  ApplyInTurn(<<e1, e2, e3, e4>>, m)
           = ApplyRegistryEvent(ApplyRegistryEvent(
               ApplyRegistryEvent(ApplyRegistryEvent(m, e1), e2), e3), e4)
<1> DEFINE s  == <<e1, e2, e3, e4>>
           m1 == ApplyRegistryEvent(m, e1)
           m2 == ApplyRegistryEvent(m1, e2)
           m3 == ApplyRegistryEvent(m2, e3)
           m4 == ApplyRegistryEvent(m3, e4)
           f  == [i \in 0..4 |-> IF i = 0 THEN m ELSE IF i = 1 THEN m1
                                 ELSE IF i = 2 THEN m2 ELSE IF i = 3 THEN m3 ELSE m4]
<1>1. Len(s) = 4 /\ s[1] = e1 /\ s[2] = e2 /\ s[3] = e3 /\ s[4] = e4
  OBVIOUS
<1>2. /\ f[0] = m /\ f[1] = m1 /\ f[2] = m2 /\ f[3] = m3 /\ f[4] = m4
      /\ f = [i \in 0..4 |-> f[i]]
  OBVIOUS
<1>3. /\ m1 = ApplyRegistryEvent(m, e1) /\ m2 = ApplyRegistryEvent(m1, e2)
      /\ m3 = ApplyRegistryEvent(m2, e3) /\ m4 = ApplyRegistryEvent(m3, e4)
  OBVIOUS
<1> HIDE DEF f, s, m1, m2, m3, m4
<1>4. ASSUME NEW i \in 1..4 PROVE f[i] = ApplyRegistryEvent(f[i - 1], s[i])
  <2>1. i = 1 \/ i = 2 \/ i = 3 \/ i = 4
    OBVIOUS
  <2> QED
    BY <1>1, <1>2, <1>3, <2>1
<1>5. IsFold(f, s, m)
  BY <1>1, <1>2, <1>4 DEF IsFold, FoldsPart
<1>6. ApplyInTurn(s, m) = m4
  BY <1>1, <1>2, <1>5, FoldIs
<1> QED
  BY <1>6 DEF s, m1, m2, m3, m4

-----------------------------------------------------------------------------
(* The order of a batch *)

\* batch holds the n logs of log, those after split first.
Joined(batch, log, n, split) ==
  /\ DOMAIN batch = 1..n
  /\ \A i \in 1..n : log[i].position = i
  /\ \A i \in 1..n : batch[i] = IF i <= n - split THEN log[i + split]
                                                  ELSE log[i - (n - split)]

\* Logs that come in two parts, the later one first, are put back in order.
LEMMA SortedJoin ==
  ASSUME NEW n \in Nat, NEW split \in 0..(n - 1), NEW log, NEW batch,
         Joined(batch, log, n, split)
  PROVE  Sorted(batch) = [i \in 1..n |-> log[i]]
<1> DEFINE src == [i \in 1..n |-> IF i <= n - split THEN i + split
                                                    ELSE i - (n - split)]
           Before(j) == {i \in 1..n : ComesBefore(batch, i, j)}
<1> USE DEF Joined
<1>1. \A i \in 1..n : src[i] \in 1..n /\ batch[i] = log[src[i]]
  OBVIOUS
<1>2. \A i, j \in 1..n : src[i] = src[j] => i = j
  OBVIOUS
<1>3. \A k \in 1..n : \E i \in 1..n : src[i] = k
  <2> SUFFICES ASSUME NEW k \in 1..n PROVE \E i \in 1..n : src[i] = k
    OBVIOUS
  <2>1. CASE k > split
    <3>1. k - split \in 1..n /\ src[k - split] = k
      BY <2>1
    <3> QED
      BY <3>1
  <2>2. CASE k <= split
    <3>1. k + (n - split) \in 1..n /\ src[k + (n - split)] = k
      BY <2>2
    <3> QED
      BY <3>1
  <2> QED
    BY <2>1, <2>2
<1> HIDE DEF src
<1>4. \A i, j \in 1..n : ComesBefore(batch, i, j) <=> src[i] < src[j]
  <2> SUFFICES ASSUME NEW i \in 1..n, NEW j \in 1..n
               PROVE  ComesBefore(batch, i, j) <=> src[i] < src[j]
    OBVIOUS
  <2>1. batch[i].position = src[i] /\ batch[j].position = src[j]
    BY <1>1
  <2>2. src[i] \in Int /\ src[j] \in Int /\ (src[i] = src[j] => i = j)
    BY <1>1, <1>2
  <2> QED
    BY <2>1, <2>2 DEF ComesBefore, CompareLogPosition
<1>5. ASSUME NEW j \in 1..n PROVE Cardinality(Before(j)) = src[j] - 1
  <2> DEFINE B == {i \in 1..n : src[i] < src[j]}
             K == 1..(src[j] - 1)
             g == [i \in B |-> src[i]]
  <2>1. Before(j) = B
    BY <1>4
  <2>2. src[j] \in 1..n
    BY <1>1
  <2>3. IsFiniteSet(B)
    <3>1. IsFiniteSet(1..n)
      BY FS_Interval
    <3> QED
      BY <3>1, FS_Subset
  <2>4. g \in Bijection(B, K)
    <3>1. g \in [B -> K]
      BY <1>1, <2>2
    <3>2. \A a, b \in B : g[a] = g[b] => a = b
      BY <1>2
    <3>3. ASSUME NEW k \in K PROVE \E a \in B : g[a] = k
      <4>1. k \in 1..n /\ k < src[j]
        BY <2>2
      <4>2. PICK a \in 1..n : src[a] = k
        BY <1>3, <4>1
      <4>3. a \in B /\ g[a] = k
        BY <4>1, <4>2
      <4> QED
        BY <4>3
    <3> HIDE DEF B, K, g
    <3> QED
      BY <3>1, <3>2, <3>3 DEF Bijection, Injection, Surjection, IsInjective
  <2>5. ExistsBijection(B, K)
    BY <2>4 DEF ExistsBijection
  <2>6. Cardinality(K) = Cardinality(B)
    BY <2>3, <2>5, FS_Bijection
  <2>7. Cardinality(K) = src[j] - 1
    <3> DEFINE x == src[j] - 1
    <3>1. x \in Int /\ x >= 0
      BY <2>2
    <3> HIDE DEF x
    <3>2. Cardinality(1..x) = IF 1 > x THEN 0 ELSE (x - 1) + 1
      BY <3>1, FS_Interval
    <3>3. Cardinality(1..x) = x
      BY <3>1, <3>2
    <3> QED
      BY <3>3 DEF x
  <2> QED
    BY <2>1, <2>6, <2>7
<1> DEFINE placed == {[log |-> batch[j], place |-> 1 + Cardinality(Before(j))]
                      : j \in 1..n}
<1>6. Sorted(batch) = [k \in 1..n |-> (CHOOSE p \in placed : p.place = k).log]
  BY DEF Sorted
<1>7. ASSUME NEW k \in 1..n
      PROVE  (CHOOSE p \in placed : p.place = k).log = log[k]
  <2>1. PICK j \in 1..n : src[j] = k
    BY <1>3
  <2>2. \A i \in 1..n : 1 + Cardinality(Before(i)) = src[i]
    BY <1>1, <1>5
  <2> HIDE DEF Before
  <2>3. placed = {[log |-> log[src[i]], place |-> src[i]] : i \in 1..n}
    BY <1>1, <2>2
  <2> HIDE DEF placed
  <2>4. \E p \in placed : p.place = k
    <3>1. [log |-> log[src[j]], place |-> src[j]] \in placed
      BY <2>3
    <3> QED
      BY <2>1, <3>1
  <2>5. \A p \in placed : p.place = k => p.log = log[k]
    BY <2>3
  <2> QED
    BY <2>4, <2>5
<1> HIDE DEF placed
<1> QED
  BY <1>6, <1>7

\* A batch is folded as the events it holds would be, in log order, whichever
\* part of it came first and whether or not the last position is known.
LEMMA BatchInOrder ==
  ASSUME NEW S, pending \in Seq(S), NEW n \in 1..Len(pending), NEW m, NEW batch,
         \/ \E split \in 0..(n - 1) : batch = PositionedBatch(n, split)
         \/ batch = BareBatch(n)
  PROVE  ApplyRegistryEvents(batch, m) = ApplyInTurn(SubSeq(pending, 1, n), m)
<1> DEFINE ordered == OrderedRegistryEvents(batch)
           events == [i \in DOMAIN ordered |-> ordered[i].event]
<1>1. n \in Nat /\ Len(pending) \in Nat
  OBVIOUS
<1>2. SubSeq(pending, 1, n) = [i \in 1..n |-> pending[i]]
  OBVIOUS
<1>3. DOMAIN ordered = 1..n /\ \A i \in 1..n : ordered[i].event = pending[i]
  <2>1. ASSUME NEW split \in 0..(n - 1), batch = PositionedBatch(n, split)
        PROVE  DOMAIN ordered = 1..n /\ \A i \in 1..n : ordered[i].event = pending[i]
    <3> DEFINE log == [i \in 1..n |-> Log(pending[i], i)]
               T == {Log(pending[i], i) : i \in 1..n}
               a == SubSeq(log, split + 1, n)
               b == SubSeq(log, 1, split)
    <3>1. batch = a \o b
      BY <2>1 DEF PositionedBatch
    <3>2. \A i \in 1..n : log[i].position = i /\ log[i].event = pending[i]
      BY DEF Log
    <3>3. \A i \in 1..n : log[i] \in T
      OBVIOUS
    <3> HIDE DEF log, T
    <3>4. /\ a \in Seq(T) /\ Len(a) = n - split
          /\ \A i \in 1..(n - split) : a[i] = log[i + split]
      <4>1. /\ split + 1 \in Int /\ n \in Int /\ split + 1 <= n
            /\ (n - (split + 1)) + 1 = n - split
            /\ \A i \in (split + 1)..n : log[i] \in T
        BY <1>1, <3>3
      <4>2. /\ a \in Seq(T) /\ Len(a) = (n - (split + 1)) + 1
            /\ \A i \in 1..((n - (split + 1)) + 1) :
                 a[i] = log[((split + 1) + i) - 1]
        BY <4>1, SubSeqProperties
      <4>3. \A i \in 1..(n - split) : ((split + 1) + i) - 1 = i + split
        BY <1>1
      <4> QED
        BY <4>1, <4>2, <4>3
    <3>5. b \in Seq(T) /\ Len(b) = split /\ \A i \in 1..split : b[i] = log[i]
      <4>1. split \in Int /\ 1 \in Int /\ \A i \in 1..split : log[i] \in T
        BY <1>1, <3>3
      <4>2. /\ b \in Seq(T) /\ Len(b) = IF 1 <= split THEN (split - 1) + 1 ELSE 0
            /\ \A i \in 1..((split - 1) + 1) : b[i] = log[(1 + i) - 1]
        BY <4>1, SubSeqProperties
      <4> QED
        BY <1>1, <4>2
    <3> HIDE DEF a, b
    <3>6. /\ DOMAIN batch = 1..n
          /\ \A i \in 1..n : batch[i] = IF i <= n - split THEN a[i]
                                                          ELSE b[i - (n - split)]
      <4>1. /\ batch \in Seq(T) /\ Len(batch) = (n - split) + split
            /\ \A i \in 1..((n - split) + split) :
                 batch[i] = IF i <= n - split THEN a[i] ELSE b[i - (n - split)]
        <5>1. /\ batch \in Seq(T) /\ Len(batch) = Len(a) + Len(b)
              /\ \A i \in 1..(Len(a) + Len(b)) :
                   batch[i] = IF i <= Len(a) THEN a[i] ELSE b[i - Len(a)]
          BY <3>1, <3>4, <3>5, ConcatProperties
        <5>2. Len(a) = n - split /\ Len(b) = split
          BY <3>4, <3>5
        <5> QED
          BY <5>1, <5>2
      <4>2. (n - split) + split = n
        BY <1>1
      <4> QED
        BY <4>1, <4>2, LenProperties
    <3>7. ASSUME NEW i \in 1..n
          PROVE  batch[i] = IF i <= n - split THEN log[i + split]
                                              ELSE log[i - (n - split)]
      <4>1. CASE i <= n - split
        <5>1. i \in 1..(n - split)
          BY <1>1, <4>1
        <5> QED
          BY <3>4, <3>6, <4>1, <5>1
      <4>2. CASE ~(i <= n - split)
        <5>1. i - (n - split) \in 1..split
          BY <1>1, <4>2
        <5> QED
          BY <3>5, <3>6, <4>2, <5>1
      <4> QED
        BY <4>1, <4>2
    <3>8. \A i \in 1..n : HasLogPosition(batch[i])
      <4> SUFFICES ASSUME NEW i \in 1..n PROVE HasLogPosition(batch[i])
        OBVIOUS
      <4>1. PICK j \in 1..n : batch[i] = log[j]
        <5>1. CASE i <= n - split
          <6>1. i + split \in 1..n
            BY <5>1
          <6> QED
            BY <3>7, <5>1, <6>1
        <5>2. CASE ~(i <= n - split)
          <6>1. i - (n - split) \in 1..n
            BY <5>2
          <6> QED
            BY <3>7, <5>2, <6>1
        <5> QED
          BY <5>1, <5>2
      <4> QED
        BY <3>2, <4>1 DEF HasLogPosition
    <3>9. ordered = Sorted(batch)
      BY <3>6, <3>8 DEF OrderedRegistryEvents
    <3>10. Sorted(batch) = [i \in 1..n |-> log[i]]
      <4>1. Joined(batch, log, n, split)
        BY <3>2, <3>6, <3>7 DEF Joined
      <4> QED
        BY <1>1, <4>1, SortedJoin
    <3> HIDE DEF ordered
    <3> QED
      BY <3>2, <3>9, <3>10
  <2>2. ASSUME batch = BareBatch(n)
        PROVE  DOMAIN ordered = 1..n /\ \A i \in 1..n : ordered[i].event = pending[i]
    <3>1. DOMAIN batch = 1..n /\ \A i \in 1..n : batch[i].event = pending[i]
      BY <2>2 DEF BareBatch, Log
    <3>2. ~HasLogPosition(batch[n])
      BY <2>2 DEF BareBatch, Log, HasLogPosition
    <3>3. ordered = batch
      BY <3>1, <3>2 DEF OrderedRegistryEvents
    <3> QED
      BY <3>1, <3>3
  <2> QED
    BY <2>1, <2>2
<1>4. events = [i \in 1..n |-> pending[i]]
  BY <1>3
<1>5. ApplyRegistryEvents(batch, m) = ApplyInTurn(events, m)
  BY DEF ApplyRegistryEvents
<1> QED
  BY <1>2, <1>4, <1>5

\* Projecting a batch changes neither what is projected and what is pending
\* together.
LEMMA IndexKeepsFold ==
  ASSUME NEW S, pending \in Seq(S), IndexEvents
  PROVE  /\ ApplyInTurn(pending', model') = ApplyInTurn(pending, model)
         /\ pending' \in Seq(S)
<1>1. PICK n \in 1..Len(pending) : \E batch :
        /\ Index(n, batch)
        /\ \/ \E split \in 0..(n - 1) : batch = PositionedBatch(n, split)
           \/ batch = BareBatch(n)
  BY DEF IndexEvents
<1>2. model' = ApplyInTurn(SubSeq(pending, 1, n), model)
  <2>1. PICK batch :
          /\ Index(n, batch)
          /\ \/ \E split \in 0..(n - 1) : batch = PositionedBatch(n, split)
             \/ batch = BareBatch(n)
    BY <1>1
  <2>2. ApplyRegistryEvents(batch, model) = ApplyInTurn(SubSeq(pending, 1, n), model)
    BY <2>1, BatchInOrder
  <2> QED
    BY <2>1, <2>2 DEF Index
<1>3. pending' = SubSeq(pending, n + 1, Len(pending))
  BY <1>1 DEF Index
<1>4. n \in 0..Len(pending)
  OBVIOUS
<1>5. ApplyInTurn(pending, model)
        = ApplyInTurn(SubSeq(pending, n + 1, Len(pending)),
                      ApplyInTurn(SubSeq(pending, 1, n), model))
  BY <1>4, FoldSplit
<1>6. SubSeq(pending, n + 1, Len(pending)) \in Seq(S)
  BY <1>4
<1> QED
  BY <1>2, <1>3, <1>5, <1>6

-----------------------------------------------------------------------------
(* Maps *)

LEMMA PutLookup ==
  ASSUME NEW f, NEW k, NEW v, NEW d
  PROVE  /\ DOMAIN Put(f, k, v) = DOMAIN f \cup {k}
         /\ Put(f, k, v)[k] = v
         /\ \A j \in DOMAIN f : j # k => Put(f, k, v)[j] = f[j]
         /\ Lookup(Put(f, k, v), k, d) = v
         /\ \A j : j # k => Lookup(Put(f, k, v), j, d) = Lookup(f, j, d)
BY DEF Put, Lookup

LEMMA EmptyLookup ==
  ASSUME NEW j, NEW d
  PROVE  DOMAIN EmptyMap = {} /\ Lookup(EmptyMap, j, d) = d
BY DEF EmptyMap, Lookup

-----------------------------------------------------------------------------
(* What each event does to the model *)

\* m has these maps, and no other field.
ModelIs(m, ob, us, co, pa, ds, cs, rs, ks) ==
  /\ DOMAIN m = {"objects", "usage", "copyReceipts", "receiptPayers", "datasets",
                 "coordinators", "relayers", "idempotency"}
  /\ m.objects = ob /\ m.usage = us /\ m.copyReceipts = co
  /\ m.receiptPayers = pa /\ m.datasets = ds /\ m.coordinators = cs
  /\ m.relayers = rs /\ m.idempotency = ks

UsageOf(us, a) == Lookup(us, a, NewUsage)
RowOf(ob, o)   == Lookup(ob, o, EmptyMap)

ReservedUsage(u, cost) == [u EXCEPT !.reservedCost = @ + cost]

RequestedUsage(u, bytes) ==
  [u EXCEPT !.pendingBytes = @ + bytes, !.totalRequestedUploads = @ + 1]

ReleasedUsage(u, row, cost) ==
  [u EXCEPT !.reservedCost = SubtractClamped(@, Lookup(row, "reservedCost", cost)),
            !.pendingBytes = IF "size" \in DOMAIN row
              THEN SubtractClamped(@, row.size * row.requestedCopies) ELSE @]

ChargedUsage(u, cost, delta) ==
  LET charged == [u EXCEPT !.totalActualCost = @ + cost]
  IN  IF delta > 0 THEN [charged EXCEPT !.activeBytes = @ + delta,
                                        !.activeObjects = @ + 1,
                                        !.totalUploadedBytes = @ + delta]
                   ELSE charged

FinishedUsage(u, status) ==
  IF status = "Failed" THEN [u EXCEPT !.totalFailedUploads = @ + 1]
                       ELSE [u EXCEPT !.totalFinalizedUploads = @ + 1]

FailedUsage(u, cost) ==
  [u EXCEPT !.totalActualCost = @ + cost, !.totalFailedUploads = @ + 1]

RequestedRow(e) ==
  [accountId |-> e.accountId, user |-> e.user,
   idempotencyKey |-> e.idempotencyKey, size |-> e.size,
   requestedCopies |-> e.requestedCopies, maxCost |-> e.maxCost,
   requestExpiresAt |-> e.requestExpiresAt,
   reservedCost |-> e.maxCost, status |-> "Requested"]

\* The handler of each event.
LEMMA Dispatch ==
  ASSUME NEW m, NEW e
  PROVE  /\ e.name = "UsageReserved" =>
              ApplyRegistryEvent(m, e) = ApplyUsageReserved(m, e)
         /\ e.name = "UsageReleased" =>
              ApplyRegistryEvent(m, e) = ApplyUsageReleased(m, e)
         /\ e.name = "UsageFinalized" =>
              ApplyRegistryEvent(m, e) = ApplyUsageFinalized(m, e)
         /\ e.name = "UploadRequested" =>
              ApplyRegistryEvent(m, e) = ApplyUploadRequested(m, e)
         /\ e.name = "UploadStarted" =>
              ApplyRegistryEvent(m, e)
                = PatchObject(m, e.objectId, [status |-> "Uploading",
                                              coordinator |-> e.coordinator])
         /\ e.name = "UploadCancelled" =>
              ApplyRegistryEvent(m, e)
                = PatchObject(m, e.objectId, [status |-> "Cancelled"])
         /\ e.name = "UploadExpired" =>
              ApplyRegistryEvent(m, e)
                = PatchObject(m, e.objectId, [status |-> "Expired"])
         /\ e.name = "UploadFailed" =>
              ApplyRegistryEvent(m, e) = ApplyUploadFailed(m, e)
         /\ e.name = "UploadFinalized" =>
              ApplyRegistryEvent(m, e) = ApplyUploadFinalized(m, e)
         /\ e.name = "ReceiptPayerRecorded" =>
              ApplyRegistryEvent(m, e) = ApplyReceiptPayerRecorded(m, e)
         /\ e.name = "CopyRecorded" =>
              ApplyRegistryEvent(m, e) = ApplyCopyRecorded(m, e)
<1>1. e.name = "UsageReserved" => ApplyRegistryEvent(m, e) = ApplyUsageReserved(m, e)
  BY DEF ApplyRegistryEvent
<1>2. e.name = "UsageReleased" => ApplyRegistryEvent(m, e) = ApplyUsageReleased(m, e)
  BY DEF ApplyRegistryEvent
<1>3. e.name = "UsageFinalized" => ApplyRegistryEvent(m, e) = ApplyUsageFinalized(m, e)
  BY DEF ApplyRegistryEvent
<1>4. e.name = "UploadRequested" => ApplyRegistryEvent(m, e) = ApplyUploadRequested(m, e)
  BY DEF ApplyRegistryEvent
<1>5. e.name = "UploadStarted" =>
        ApplyRegistryEvent(m, e)
          = PatchObject(m, e.objectId, [status |-> "Uploading",
                                          coordinator |-> e.coordinator])
  BY DEF ApplyRegistryEvent
<1>6. e.name = "UploadCancelled" =>
        ApplyRegistryEvent(m, e)
          = PatchObject(m, e.objectId, [status |-> "Cancelled"])
  BY DEF ApplyRegistryEvent
<1>7. e.name = "UploadExpired" =>
        ApplyRegistryEvent(m, e)
          = PatchObject(m, e.objectId, [status |-> "Expired"])
  BY DEF ApplyRegistryEvent
<1>8. e.name = "UploadFailed" => ApplyRegistryEvent(m, e) = ApplyUploadFailed(m, e)
  BY DEF ApplyRegistryEvent
<1>9. e.name = "UploadFinalized" => ApplyRegistryEvent(m, e) = ApplyUploadFinalized(m, e)
  BY DEF ApplyRegistryEvent
<1>10. e.name = "ReceiptPayerRecorded" => ApplyRegistryEvent(m, e) = ApplyReceiptPayerRecorded(m, e)
  BY DEF ApplyRegistryEvent
<1>11. e.name = "CopyRecorded" => ApplyRegistryEvent(m, e) = ApplyCopyRecorded(m, e)
  BY DEF ApplyRegistryEvent
<1> QED
  BY <1>1, <1>2, <1>3, <1>4, <1>5, <1>6, <1>7, <1>8, <1>9, <1>10, <1>11

LEMMA EffectsOfUsage ==
  ASSUME NEW m, NEW ob, NEW us, NEW co, NEW pa, NEW ds, NEW cs, NEW rs, NEW ks,
         ModelIs(m, ob, us, co, pa, ds, cs, rs, ks), NEW e
  PROVE  /\ e.name = "UsageReserved" =>
              ModelIs(ApplyRegistryEvent(m, e), ob,
                Put(us, e.accountId,
                    ReservedUsage(UsageOf(us, e.accountId), e.reservedCost)),
                co, pa, ds, cs, rs, ks)
         /\ e.name = "UsageReleased" =>
              ModelIs(ApplyRegistryEvent(m, e), ob,
                Put(us, e.accountId,
                    ReleasedUsage(UsageOf(us, e.accountId), RowOf(ob, e.objectId),
                                  e.releasedCost)),
                co, pa, ds, cs, rs, ks)
         /\ e.name = "UsageFinalized" =>
              ModelIs(ApplyRegistryEvent(m, e), ob,
                Put(us, e.accountId,
                    ChargedUsage(UsageOf(us, e.accountId), e.actualCost,
                                 e.activeBytesDelta)),
                co, pa, ds, cs, rs, ks)
<1>1. ASSUME e.name = "UsageReserved"
      PROVE  ApplyRegistryEvent(m, e) =
               [m EXCEPT !.usage = Put(us, e.accountId,
                    ReservedUsage(UsageOf(us, e.accountId), e.reservedCost))]
  BY <1>1, Dispatch DEF ApplyUsageReserved, WithUsage, EnsureUsage,
                        ReservedUsage, UsageOf, ModelIs
<1>2. ASSUME e.name = "UsageReleased"
      PROVE  ApplyRegistryEvent(m, e) =
               [m EXCEPT !.usage = Put(us, e.accountId,
                    ReleasedUsage(UsageOf(us, e.accountId), RowOf(ob, e.objectId),
                                  e.releasedCost))]
  <2>1. ApplyRegistryEvent(m, e) = ApplyUsageReleased(m, e)
    BY <1>2, Dispatch
  <2> QED
    BY <2>1 DEF ApplyUsageReleased, WithUsage, EnsureUsage, ReleasedUsage,
                UsageOf, RowOf, ModelIs
<1>3. ASSUME e.name = "UsageFinalized"
      PROVE  ApplyRegistryEvent(m, e) =
               [m EXCEPT !.usage = Put(us, e.accountId,
                    ChargedUsage(UsageOf(us, e.accountId), e.actualCost,
                                 e.activeBytesDelta))]
  <2>1. ApplyRegistryEvent(m, e) = ApplyUsageFinalized(m, e)
    BY <1>3, Dispatch
  <2> QED
    BY <2>1 DEF ApplyUsageFinalized, WithUsage, EnsureUsage, ChargedUsage,
                UsageOf, ModelIs
<1>4. \A x : ModelIs([m EXCEPT !.usage = x], ob, x, co, pa, ds, cs, rs, ks)
  BY DEF ModelIs
<1> QED
  BY <1>1, <1>2, <1>3, <1>4

LEMMA EffectsOfRows ==
  ASSUME NEW m, NEW ob, NEW us, NEW co, NEW pa, NEW ds, NEW cs, NEW rs, NEW ks,
         ModelIs(m, ob, us, co, pa, ds, cs, rs, ks), NEW e
  PROVE  /\ e.name = "UploadRequested" =>
              ModelIs(ApplyRegistryEvent(m, e),
                Put(ob, e.objectId, RequestedRow(e)),
                Put(us, e.accountId, RequestedUsage(UsageOf(us, e.accountId),
                                                    e.size * e.requestedCopies)),
                co, pa, ds, cs, rs,
                Put(ks, <<e.accountId, e.idempotencyKey>>, e.objectId))
         /\ e.name = "UploadStarted" =>
              ModelIs(ApplyRegistryEvent(m, e),
                Put(ob, e.objectId, Patched(RowOf(ob, e.objectId),
                  [status |-> "Uploading", coordinator |-> e.coordinator])),
                us, co, pa, ds, cs, rs, ks)
         /\ e.name = "UploadCancelled" =>
              ModelIs(ApplyRegistryEvent(m, e),
                Put(ob, e.objectId, Patched(RowOf(ob, e.objectId),
                                            [status |-> "Cancelled"])),
                us, co, pa, ds, cs, rs, ks)
         /\ e.name = "UploadExpired" =>
              ModelIs(ApplyRegistryEvent(m, e),
                Put(ob, e.objectId, Patched(RowOf(ob, e.objectId),
                                            [status |-> "Expired"])),
                us, co, pa, ds, cs, rs, ks)
         /\ e.name = "UploadFailed" =>
              ModelIs(ApplyRegistryEvent(m, e),
                Put(ob, e.objectId, Patched(RowOf(ob, e.objectId),
                  [status |-> "Failed", actualCost |-> e.chargedCost])),
                Put(us, e.accountId, FailedUsage(UsageOf(us, e.accountId),
                                                 e.chargedCost)),
                co, pa, ds, cs, rs, ks)
         /\ e.name = "UploadFinalized" =>
              ModelIs(ApplyRegistryEvent(m, e),
                Put(ob, e.objectId, Patched(RowOf(ob, e.objectId),
                  [status |-> e.finalizationStatus,
                   completedCopies |-> e.completedCopies,
                   actualCost |-> e.actualCost, receiptHash |-> TRUE])),
                Put(us, e.accountId, FinishedUsage(UsageOf(us, e.accountId),
                                                   e.finalizationStatus)),
                co, pa, ds, cs, rs, ks)
         /\ e.name = "ReceiptPayerRecorded" =>
              ModelIs(ApplyRegistryEvent(m, e),
                Put(ob, e.objectId, Patched(RowOf(ob, e.objectId),
                                            [receiptPayer |-> e.payer])),
                us, co, Put(pa, e.objectId, e.payer), ds, cs, rs, ks)
<1> USE DEF ModelIs, UsageOf, RowOf, WithUsage, EnsureUsage, PatchObject
<1>1. ASSUME e.name = "UploadRequested"
      PROVE  ModelIs(ApplyRegistryEvent(m, e),
                Put(ob, e.objectId, RequestedRow(e)),
                Put(us, e.accountId, RequestedUsage(UsageOf(us, e.accountId),
                                                    e.size * e.requestedCopies)),
                co, pa, ds, cs, rs,
                Put(ks, <<e.accountId, e.idempotencyKey>>, e.objectId))
  <2>1. ApplyRegistryEvent(m, e) = ApplyUploadRequested(m, e)
    BY <1>1, Dispatch
  <2> QED
    BY <2>1 DEF ApplyUploadRequested, RequestedRow, RequestedUsage
<1>2. ASSUME e.name = "UploadStarted"
      PROVE  ApplyRegistryEvent(m, e) =
               [m EXCEPT !.objects = Put(ob, e.objectId,
                  Patched(RowOf(ob, e.objectId),
                    [status |-> "Uploading", coordinator |-> e.coordinator]))]
  <2>1. ApplyRegistryEvent(m, e) = PatchObject(m, e.objectId, [status |-> "Uploading", coordinator |-> e.coordinator])
    BY <1>2, Dispatch
  <2> QED
    BY <2>1
<1>3. ASSUME e.name = "UploadCancelled"
      PROVE  ApplyRegistryEvent(m, e) =
               [m EXCEPT !.objects = Put(ob, e.objectId,
                  Patched(RowOf(ob, e.objectId), [status |-> "Cancelled"]))]
  <2>1. ApplyRegistryEvent(m, e) = PatchObject(m, e.objectId, [status |-> "Cancelled"])
    BY <1>3, Dispatch
  <2> QED
    BY <2>1
<1>4. ASSUME e.name = "UploadExpired"
      PROVE  ApplyRegistryEvent(m, e) =
               [m EXCEPT !.objects = Put(ob, e.objectId,
                  Patched(RowOf(ob, e.objectId), [status |-> "Expired"]))]
  <2>1. ApplyRegistryEvent(m, e) = PatchObject(m, e.objectId, [status |-> "Expired"])
    BY <1>4, Dispatch
  <2> QED
    BY <2>1
<1>5. ASSUME e.name = "UploadFailed"
      PROVE  ModelIs(ApplyRegistryEvent(m, e),
                Put(ob, e.objectId, Patched(RowOf(ob, e.objectId),
                  [status |-> "Failed", actualCost |-> e.chargedCost])),
                Put(us, e.accountId, FailedUsage(UsageOf(us, e.accountId),
                                                 e.chargedCost)),
                co, pa, ds, cs, rs, ks)
  <2>1. ApplyRegistryEvent(m, e) = ApplyUploadFailed(m, e)
    BY <1>5, Dispatch
  <2> QED
    BY <2>1 DEF ApplyUploadFailed, FailedUsage
<1>6. ASSUME e.name = "UploadFinalized"
      PROVE  ModelIs(ApplyRegistryEvent(m, e),
                Put(ob, e.objectId, Patched(RowOf(ob, e.objectId),
                  [status |-> e.finalizationStatus,
                   completedCopies |-> e.completedCopies,
                   actualCost |-> e.actualCost, receiptHash |-> TRUE])),
                Put(us, e.accountId, FinishedUsage(UsageOf(us, e.accountId),
                                                   e.finalizationStatus)),
                co, pa, ds, cs, rs, ks)
  <2>1. ApplyRegistryEvent(m, e) = ApplyUploadFinalized(m, e)
    BY <1>6, Dispatch
  <2> QED
    BY <2>1 DEF ApplyUploadFinalized, FinishedUsage
<1>7. ASSUME e.name = "ReceiptPayerRecorded"
      PROVE  ModelIs(ApplyRegistryEvent(m, e),
                Put(ob, e.objectId, Patched(RowOf(ob, e.objectId),
                                            [receiptPayer |-> e.payer])),
                us, co, Put(pa, e.objectId, e.payer), ds, cs, rs, ks)
  <2>1. ApplyRegistryEvent(m, e) = ApplyReceiptPayerRecorded(m, e)
    BY <1>7, Dispatch
  <2> QED
    BY <2>1 DEF ApplyReceiptPayerRecorded
<1>8. \A x : ModelIs([m EXCEPT !.objects = x], x, us, co, pa, ds, cs, rs, ks)
  OBVIOUS
<1> HIDE DEF ModelIs, UsageOf, RowOf, WithUsage, EnsureUsage, PatchObject
<1> QED
  BY <1>1, <1>2, <1>3, <1>4, <1>5, <1>6, <1>7, <1>8

LEMMA EffectsOfOthers ==
  ASSUME NEW m, NEW ob, NEW us, NEW co, NEW pa, NEW ds, NEW cs, NEW rs, NEW ks,
         ModelIs(m, ob, us, co, pa, ds, cs, rs, ks), NEW e
  PROVE  /\ e.name = "CopyRecorded" =>
              ModelIs(ApplyRegistryEvent(m, e), ob, us,
                Put(co, e.objectId, Append(Lookup(co, e.objectId, <<>>), e.dataset)),
                pa, ds, cs, rs, ks)
         /\ e.name = "CoordinatorUpdated" =>
              ModelIs(ApplyRegistryEvent(m, e), ob, us, co, pa, ds,
                      Put(cs, e.coordinator, e.policy), rs, ks)
         /\ e.name = "RelayerUpdated" =>
              ModelIs(ApplyRegistryEvent(m, e), ob, us, co, pa, ds, cs,
                      Put(rs, e.relayer, e.allowed), ks)
         /\ e.name = "DatasetRecorded" =>
              ModelIs(ApplyRegistryEvent(m, e), ob, us, co, pa,
                      Put(ds, e.key, [payer |-> e.payer]), cs, rs, ks)
         /\ e.name \in {"OwnershipTransferred", "PolicyUpdated"} =>
              ApplyRegistryEvent(m, e) = m
<1> USE DEF ModelIs
<1>1. ASSUME e.name = "CopyRecorded"
      PROVE  ApplyRegistryEvent(m, e) =
               [m EXCEPT !.copyReceipts =
                  Put(co, e.objectId, Append(Lookup(co, e.objectId, <<>>), e.dataset))]
  BY <1>1, Dispatch DEF ApplyCopyRecorded
<1>2. ASSUME e.name = "CoordinatorUpdated"
      PROVE  ApplyRegistryEvent(m, e) =
               [m EXCEPT !.coordinators = Put(cs, e.coordinator, e.policy)]
  BY <1>2 DEF ApplyRegistryEvent
<1>3. ASSUME e.name = "RelayerUpdated"
      PROVE  ApplyRegistryEvent(m, e) =
               [m EXCEPT !.relayers = Put(rs, e.relayer, e.allowed)]
  BY <1>3 DEF ApplyRegistryEvent
<1>4. ASSUME e.name = "DatasetRecorded"
      PROVE  ApplyRegistryEvent(m, e) =
               [m EXCEPT !.datasets = Put(ds, e.key, [payer |-> e.payer])]
  BY <1>4 DEF ApplyRegistryEvent
<1>5. e.name \in {"OwnershipTransferred", "PolicyUpdated"} =>
        ApplyRegistryEvent(m, e) = m
  BY DEF ApplyRegistryEvent
<1>6. \A x : /\ ModelIs([m EXCEPT !.copyReceipts = x], ob, us, x, pa, ds, cs, rs, ks)
             /\ ModelIs([m EXCEPT !.coordinators = x], ob, us, co, pa, ds, x, rs, ks)
             /\ ModelIs([m EXCEPT !.relayers = x], ob, us, co, pa, ds, cs, x, ks)
             /\ ModelIs([m EXCEPT !.datasets = x], ob, us, co, pa, x, cs, rs, ks)
  OBVIOUS
<1> HIDE DEF ModelIs
<1> QED
  BY <1>1, <1>2, <1>3, <1>4, <1>5, <1>6

-----------------------------------------------------------------------------
(* What the events of each transaction do together *)

\* us2 differs from us in the usage of a, which is u.
UsageSet(us, us2, a, u) ==
  /\ DOMAIN us2 = DOMAIN us \cup {a}
  /\ UsageOf(us2, a) = u /\ \A b : b # a => UsageOf(us2, b) = UsageOf(us, b)

LEMMA UsagePut ==
  ASSUME NEW us, NEW a, NEW u, NEW us2, NEW v, NEW w
  PROVE  /\ UsageSet(us, Put(us, a, u), a, u)
         /\ UsageSet(us, us2, a, v) => UsageSet(us, Put(us2, a, w), a, w)
         /\ UsageOf(Put(us, a, u), a) = u
BY DEF UsageSet, UsageOf, Put, Lookup

LEMMA FoldRequest ==
  ASSUME NEW m, NEW ob, NEW us, NEW co, NEW pa, NEW ds, NEW cs, NEW rs, NEW ks,
         ModelIs(m, ob, us, co, pa, ds, cs, rs, ks), NEW e1, NEW e2, NEW a,
         e1.name = "UsageReserved", e2.name = "UploadRequested",
         e1.accountId = a, e2.accountId = a
  PROVE  \E us2 :
           /\ UsageSet(us, us2, a,
                RequestedUsage(ReservedUsage(UsageOf(us, a), e1.reservedCost),
                               e2.size * e2.requestedCopies))
           /\ ModelIs(ApplyInTurn(<<e1, e2>>, m),
                      Put(ob, e2.objectId, RequestedRow(e2)), us2, co, pa, ds, cs, rs,
                      Put(ks, <<a, e2.idempotencyKey>>, e2.objectId))
<1> DEFINE u1 == ReservedUsage(UsageOf(us, a), e1.reservedCost)
           m1 == ApplyRegistryEvent(m, e1)
           us1 == Put(us, a, u1)
           u2 == RequestedUsage(UsageOf(us1, a), e2.size * e2.requestedCopies)
           us2 == Put(us1, a, u2)
<1>1. ModelIs(m1, ob, us1, co, pa, ds, cs, rs, ks)
  BY EffectsOfUsage
<1>2. UsageSet(us, us1, a, u1) /\ UsageOf(us1, a) = u1
  BY UsagePut
<1>3. UsageSet(us, us2, a, u2)
  BY <1>2, UsagePut
<1>4. u2 = RequestedUsage(u1, e2.size * e2.requestedCopies)
  BY <1>2
<1> HIDE DEF u1, us1, m1
<1>5. ModelIs(ApplyRegistryEvent(m1, e2),
              Put(ob, e2.objectId, RequestedRow(e2)), us2, co, pa, ds, cs, rs,
              Put(ks, <<a, e2.idempotencyKey>>, e2.objectId))
  BY <1>1, EffectsOfRows
<1> HIDE DEF u2, us2
<1>6. ApplyInTurn(<<e1, e2>>, m) = ApplyRegistryEvent(m1, e2)
  BY FoldTwo DEF m1
<1> QED
  BY <1>3, <1>4, <1>5, <1>6 DEF u1

LEMMA FoldFailure ==
  ASSUME NEW m, NEW ob, NEW us, NEW co, NEW pa, NEW ds, NEW cs, NEW rs, NEW ks,
         ModelIs(m, ob, us, co, pa, ds, cs, rs, ks), NEW e1, NEW e2, NEW a, NEW o,
         e1.name = "UsageReleased", e2.name = "UploadFailed",
         e1.accountId = a, e2.accountId = a, e1.objectId = o, e2.objectId = o
  PROVE  \E us2 :
           /\ UsageSet(us, us2, a,
                FailedUsage(ReleasedUsage(UsageOf(us, a), RowOf(ob, o), e1.releasedCost),
                            e2.chargedCost))
           /\ ModelIs(ApplyInTurn(<<e1, e2>>, m),
                      Put(ob, o, Patched(RowOf(ob, o), [status |-> "Failed",
                                                        actualCost |-> e2.chargedCost])),
                      us2, co, pa, ds, cs, rs, ks)
<1> DEFINE u1 == ReleasedUsage(UsageOf(us, a), RowOf(ob, o), e1.releasedCost)
           m1 == ApplyRegistryEvent(m, e1)
           us1 == Put(us, a, u1)
           u2 == FailedUsage(UsageOf(us1, a), e2.chargedCost)
           us2 == Put(us1, a, u2)
<1>1. ModelIs(m1, ob, us1, co, pa, ds, cs, rs, ks)
  BY EffectsOfUsage
<1>2. UsageSet(us, us1, a, u1) /\ UsageOf(us1, a) = u1
  BY UsagePut
<1>3. UsageSet(us, us2, a, u2)
  BY <1>2, UsagePut
<1>4. u2 = FailedUsage(u1, e2.chargedCost)
  BY <1>2
<1> HIDE DEF u1, us1, m1
<1>5. ModelIs(ApplyRegistryEvent(m1, e2),
              Put(ob, o, Patched(RowOf(ob, o), [status |-> "Failed",
                                                actualCost |-> e2.chargedCost])),
              us2, co, pa, ds, cs, rs, ks)
  BY <1>1, EffectsOfRows
<1> HIDE DEF u2, us2
<1>6. ApplyInTurn(<<e1, e2>>, m) = ApplyRegistryEvent(m1, e2)
  BY FoldTwo DEF m1
<1> QED
  BY <1>3, <1>4, <1>5, <1>6 DEF u1

LEMMA FoldClosing ==
  ASSUME NEW m, NEW ob, NEW us, NEW co, NEW pa, NEW ds, NEW cs, NEW rs, NEW ks,
         ModelIs(m, ob, us, co, pa, ds, cs, rs, ks), NEW e1, NEW e2, NEW a, NEW o,
         NEW status,
         e1.name = "UsageReleased", e1.accountId = a, e1.objectId = o,
         e2.objectId = o,
         \/ e2.name = "UploadCancelled" /\ status = "Cancelled"
         \/ e2.name = "UploadExpired" /\ status = "Expired"
  PROVE  \E us2 :
           /\ UsageSet(us, us2, a,
                ReleasedUsage(UsageOf(us, a), RowOf(ob, o), e1.releasedCost))
           /\ ModelIs(ApplyInTurn(<<e1, e2>>, m),
                      Put(ob, o, Patched(RowOf(ob, o), [status |-> status])),
                      us2, co, pa, ds, cs, rs, ks)
<1> DEFINE u1 == ReleasedUsage(UsageOf(us, a), RowOf(ob, o), e1.releasedCost)
           m1 == ApplyRegistryEvent(m, e1)
           us1 == Put(us, a, u1)
<1>1. ModelIs(m1, ob, us1, co, pa, ds, cs, rs, ks)
  BY EffectsOfUsage
<1>2. UsageSet(us, us1, a, u1)
  BY UsagePut
<1> HIDE DEF u1, us1, m1
<1>3. ModelIs(ApplyRegistryEvent(m1, e2),
              Put(ob, o, Patched(RowOf(ob, o), [status |-> status])),
              us1, co, pa, ds, cs, rs, ks)
  BY <1>1, EffectsOfRows
<1>4. ApplyInTurn(<<e1, e2>>, m) = ApplyRegistryEvent(m1, e2)
  BY FoldTwo DEF m1
<1> QED
  BY <1>2, <1>3, <1>4 DEF u1

\* co2 has n copies more than co of the upload o.
CopiesAdded(co, co2, o, n, D) ==
  /\ Lookup(co2, o, <<>>) \in Seq(D)
  /\ Len(Lookup(co2, o, <<>>)) = Len(Lookup(co, o, <<>>)) + n
  /\ \A p : p # o => Lookup(co2, p, <<>>) = Lookup(co, p, <<>>)
  /\ DOMAIN co \subseteq DOMAIN co2 /\ DOMAIN co2 \subseteq DOMAIN co \cup {o}

LEMMA FoldCopies ==
  ASSUME NEW m, NEW ob, NEW us, NEW co, NEW pa, NEW ds, NEW cs, NEW rs, NEW ks,
         ModelIs(m, ob, us, co, pa, ds, cs, rs, ks),
         NEW s, Len(s) \in Nat, NEW o, NEW D,
         \A i \in 1..Len(s) : /\ s[i].name = "CopyRecorded" /\ s[i].objectId = o
                              /\ s[i].dataset \in D,
         Lookup(co, o, <<>>) \in Seq(D)
  PROVE  \E co2 : /\ CopiesAdded(co, co2, o, Len(s), D)
                  /\ ModelIs(ApplyInTurn(s, m), ob, us, co2, pa, ds, cs, rs, ks)
<1>1. PICK f : IsFold(f, s, m)
  BY FoldExists
<1> DEFINE Holds(k) == \E co2 : /\ CopiesAdded(co, co2, o, k, D)
                                /\ ModelIs(f[k], ob, us, co2, pa, ds, cs, rs, ks)
           T == {k \in Nat : k <= Len(s) => Holds(k)}
<1>2. 0 \in T
  <2>1. f[0] = m
    BY <1>1 DEF IsFold, FoldsPart
  <2>2. CopiesAdded(co, co, o, 0, D)
    BY DEF CopiesAdded
  <2> QED
    BY <2>1, <2>2
<1>3. ASSUME NEW k \in Nat, k \in T PROVE k + 1 \in T
  <2> SUFFICES ASSUME k + 1 <= Len(s) PROVE Holds(k + 1)
    OBVIOUS
  <2>1. Holds(k)
    BY <1>3
  <2>2. PICK c : /\ CopiesAdded(co, c, o, k, D)
                 /\ ModelIs(f[k], ob, us, c, pa, ds, cs, rs, ks)
    BY <2>1
  <2>3. k + 1 \in 1..Len(s) /\ (k + 1) - 1 = k
    OBVIOUS
  <2>4. f[k + 1] = ApplyRegistryEvent(f[k], s[k + 1])
    BY <1>1, <2>3 DEF IsFold, FoldsPart
  <2> DEFINE q == Append(Lookup(c, o, <<>>), s[k + 1].dataset)
             c2 == Put(c, o, q)
  <2>5. ModelIs(f[k + 1], ob, us, c2, pa, ds, cs, rs, ks)
    <3>1. s[k + 1].name = "CopyRecorded" /\ s[k + 1].objectId = o
      BY <2>3
    <3>2. ModelIs(ApplyRegistryEvent(f[k], s[k + 1]), ob, us,
                  Put(c, s[k + 1].objectId,
                      Append(Lookup(c, s[k + 1].objectId, <<>>), s[k + 1].dataset)),
                  pa, ds, cs, rs, ks)
      BY <2>2, <3>1, EffectsOfOthers
    <3> QED
      BY <2>4, <3>1, <3>2
  <2>6. q \in Seq(D) /\ Len(q) = Len(Lookup(c, o, <<>>)) + 1
    BY <2>2, <2>3 DEF CopiesAdded
  <2> HIDE DEF q
  <2>7. Len(q) = Len(Lookup(co, o, <<>>)) + (k + 1)
    <3>1. Len(Lookup(c, o, <<>>)) = Len(Lookup(co, o, <<>>)) + k
      BY <2>2 DEF CopiesAdded
    <3>2. Len(Lookup(co, o, <<>>)) \in Nat
      OBVIOUS
    <3> DEFINE x == Len(Lookup(co, o, <<>>))
    <3> HIDE DEF x
    <3>3. Len(q) = (x + k) + 1 /\ x \in Nat
      BY <2>6, <3>1, <3>2 DEF x
    <3>4. Len(q) = x + (k + 1)
      BY <3>3
    <3> QED
      BY <3>4 DEF x
  <2>8. CopiesAdded(co, c2, o, k + 1, D)
    <3>1. Lookup(c2, o, <<>>) = q /\ DOMAIN c2 = DOMAIN c \cup {o}
      BY DEF Put, Lookup
    <3>2. \A p : p # o => Lookup(c2, p, <<>>) = Lookup(c, p, <<>>)
      BY DEF Put, Lookup
    <3> HIDE DEF c2
    <3> QED
      BY <2>2, <2>6, <2>7, <3>1, <3>2 DEF CopiesAdded
  <2> HIDE DEF c2
  <2> QED
    BY <2>5, <2>8
<1> HIDE DEF T
<1>4. \A k \in Nat : k \in T
  BY <1>2, <1>3, NumbersInduction
<1>5. Holds(Len(s))
  BY <1>4 DEF T
<1>6. ApplyInTurn(s, m) = f[Len(s)]
  BY <1>1, FoldIs
<1> QED
  BY <1>5, <1>6

LEMMA FoldFinalization ==
  ASSUME NEW m, NEW ob, NEW us, NEW co, NEW pa, NEW ds, NEW cs, NEW rs, NEW ks,
         ModelIs(m, ob, us, co, pa, ds, cs, rs, ks),
         NEW e1, NEW e2, NEW e3, NEW e4, NEW a, NEW o,
         e1.name = "UsageReleased", e2.name = "UsageFinalized",
         e3.name = "ReceiptPayerRecorded", e4.name = "UploadFinalized",
         e1.accountId = a, e2.accountId = a, e4.accountId = a,
         e1.objectId = o, e3.objectId = o, e4.objectId = o
  PROVE  \E us2 :
           /\ UsageSet(us, us2, a,
                FinishedUsage(
                  ChargedUsage(
                    ReleasedUsage(UsageOf(us, a), RowOf(ob, o), e1.releasedCost),
                    e2.actualCost, e2.activeBytesDelta),
                  e4.finalizationStatus))
           /\ ModelIs(ApplyInTurn(<<e1, e2, e3, e4>>, m),
                      Put(Put(ob, o, Patched(RowOf(ob, o), [receiptPayer |-> e3.payer])),
                          o, Patched(Patched(RowOf(ob, o), [receiptPayer |-> e3.payer]),
                               [status |-> e4.finalizationStatus,
                                completedCopies |-> e4.completedCopies,
                                actualCost |-> e4.actualCost, receiptHash |-> TRUE])),
                      us2, co, Put(pa, o, e3.payer), ds, cs, rs, ks)
<1> DEFINE u1 == ReleasedUsage(UsageOf(us, a), RowOf(ob, o), e1.releasedCost)
           m1 == ApplyRegistryEvent(m, e1)
           us1 == Put(us, a, u1)
           u2 == ChargedUsage(UsageOf(us1, a), e2.actualCost, e2.activeBytesDelta)
           m2 == ApplyRegistryEvent(m1, e2)
           us2 == Put(us1, a, u2)
           row == Patched(RowOf(ob, o), [receiptPayer |-> e3.payer])
           m3 == ApplyRegistryEvent(m2, e3)
           ob3 == Put(ob, o, row)
           u4 == FinishedUsage(UsageOf(us2, a), e4.finalizationStatus)
           us4 == Put(us2, a, u4)
           m4 == ApplyRegistryEvent(m3, e4)
<1>1. ModelIs(m1, ob, us1, co, pa, ds, cs, rs, ks)
  BY EffectsOfUsage
<1>2. UsageSet(us, us1, a, u1) /\ UsageOf(us1, a) = u1
  BY UsagePut
<1>3. UsageSet(us, us2, a, u2) /\ UsageOf(us2, a) = u2
  BY <1>2, UsagePut
<1>4. UsageSet(us, us4, a, u4)
  BY <1>3, UsagePut
<1>5. u4 = FinishedUsage(ChargedUsage(u1, e2.actualCost, e2.activeBytesDelta),
                         e4.finalizationStatus)
  BY <1>2, <1>3
<1> HIDE DEF u1, us1, m1
<1>6. ModelIs(m2, ob, us2, co, pa, ds, cs, rs, ks)
  BY <1>1, EffectsOfUsage
<1> HIDE DEF u2, us2, m2
<1>7. ModelIs(m3, ob3, us2, co, Put(pa, o, e3.payer), ds, cs, rs, ks)
  BY <1>6, EffectsOfRows
<1>8. RowOf(ob3, o) = row
  BY DEF RowOf, ob3, Put, Lookup
<1> HIDE DEF row, ob3, m3
<1>9. ModelIs(m4, Put(ob3, o, Patched(row,
                [status |-> e4.finalizationStatus,
                 completedCopies |-> e4.completedCopies,
                 actualCost |-> e4.actualCost, receiptHash |-> TRUE])),
              us4, co, Put(pa, o, e3.payer), ds, cs, rs, ks)
  BY <1>7, <1>8, EffectsOfRows
<1> HIDE DEF u4, us4
<1>10. ApplyInTurn(<<e1, e2, e3, e4>>, m) = m4
  BY FoldFour DEF m1, m2, m3
<1> HIDE DEF m4
<1> QED
  BY <1>4, <1>5, <1>9, <1>10 DEF u1, ob3, row

-----------------------------------------------------------------------------
(* What the folded model shows of the registry *)

CoreFields == RequestFields \cup {"reservedCost", "status"}

\* A row shows an upload and its receipt; what was never set stands for zero.
RowMirrors(row, obj, rec) ==
  /\ CoreFields \subseteq DOMAIN row
  /\ \A f \in CoreFields : row[f] = obj[f]
  /\ Lookup(row, "completedCopies", 0) = obj.completedCopies
  /\ Lookup(row, "actualCost", 0) = obj.actualCost
  /\ Lookup(row, "receiptHash", FALSE) = (rec.payer # Zero)
  /\ Lookup(row, "receiptPayer", Zero) = rec.payer
  /\ obj.status = "Uploading" => Lookup(row, "coordinator", Zero) = obj.coordinator

\* The rows of the uploads seen mirror them; of the others the shape of the
\* request is not known.
RowsMirrored(ob) ==
  /\ DOMAIN ob \subseteq IssuedIds
  /\ \A o \in ObjectId :
       /\ Seen(o) => o \in DOMAIN ob /\ RowMirrors(RowOf(ob, o), objects[o], receipts[o])
       /\ o < from.object => {"size", "reservedCost"} \cap DOMAIN RowOf(ob, o) = {}

RecordedCopies == {CopyDataset[i] : i \in Nat}

ReceiptsMirrored(co, pa) ==
  \A o \in ObjectId :
    /\ Lookup(co, o, <<>>) \in Seq(RecordedCopies)
    /\ Seen(o) => /\ Len(Lookup(co, o, <<>>)) = receipts[o].copies
                  /\ Lookup(pa, o, Zero) = receipts[o].payer
    /\ o >= nextObjectId => /\ o \notin DOMAIN co /\ o \notin DOMAIN pa
                            /\ receipts[o] = [payer |-> Zero, copies |-> 0]

KeysMirrored(ks) ==
  \A o \in ObjectId : Seen(o) =>
    LET key == <<objects[o].accountId, objects[o].idempotencyKey>>
    IN  key \in DOMAIN ks /\ ks[key] = o

CoordinatorsMirrored(cs) ==
  /\ DOMAIN cs \subseteq Address
  /\ \A c \in DOMAIN cs : cs[c] = coordinatorPolicies[c]
  /\ \A i \in DOMAIN coordinatorAddresses : i > from.coordinators =>
       coordinatorAddresses[i] \in DOMAIN cs

RelayersMirrored(rs) ==
  /\ DOMAIN rs \subseteq Address
  /\ \A r \in DOMAIN rs : rs[r] = (r \in relayers)
  /\ \A i \in DOMAIN relayerAddresses : i > from.relayers =>
       relayerAddresses[i] \in DOMAIN rs

DatasetsMirrored(ds) ==
  /\ DOMAIN ds \subseteq Account \X Dataset
  /\ \A k \in DOMAIN ds : ds[k].payer = datasets[k[1]][k[2]].payer
  /\ \A i \in DOMAIN datasetKeys : i > from.datasets => datasetKeys[i] \in DOMAIN ds

FromOK ==
  /\ from.object \in 1..nextObjectId /\ from.coordinators \in Nat
  /\ from.relayers \in Nat /\ from.datasets \in Nat

-----------------------------------------------------------------------------
(* Rows *)

LEMMA CoreFieldsAre ==
  CoreFields = {"accountId", "user", "idempotencyKey", "size", "requestedCopies",
                "maxCost", "requestExpiresAt", "reservedCost", "status"}
BY DEF CoreFields, RequestFields

LEMMA StorageObjectFields ==
  ASSUME NEW obj \in StorageObject
  PROVE  DOMAIN obj = CoreFields \cup {"completedCopies", "actualCost", "coordinator"}
BY CoreFieldsAre DEF StorageObject

\* The patches of the events keep a row true.
LEMMA StatusPatchMirrors ==
  ASSUME NEW row, NEW obj \in StorageObject, NEW rec, RowMirrors(row, obj, rec),
         NEW s, s # "Uploading"
  PROVE  RowMirrors(Patched(row, [status |-> s]), [obj EXCEPT !.status = s], rec)
<1> DEFINE row1 == Patched(row, [status |-> s])
           obj1 == [obj EXCEPT !.status = s]
<1>1. /\ DOMAIN row1 = DOMAIN row \cup {"status"}
      /\ \A f \in DOMAIN row1 : row1[f] = IF f = "status" THEN s ELSE row[f]
  BY DEF Patched
<1>2. /\ \A f \in CoreFields : obj1[f] = IF f = "status" THEN s ELSE obj[f]
      /\ obj1.completedCopies = obj.completedCopies /\ obj1.actualCost = obj.actualCost
  BY StorageObjectFields
<1>3. obj1.status = s
  BY StorageObjectFields, CoreFieldsAre
<1> HIDE DEF row1, obj1
<1>4. RowMirrors(row1, obj1, rec)
  BY <1>1, <1>2, <1>3 DEF RowMirrors, Lookup
<1> QED
  BY <1>4 DEF row1, obj1

LEMMA StartPatchMirrors ==
  ASSUME NEW row, NEW obj \in StorageObject, NEW rec, RowMirrors(row, obj, rec),
         NEW s, NEW c
  PROVE  RowMirrors(Patched(row, [status |-> s, coordinator |-> c]),
                    [obj EXCEPT !.status = s, !.coordinator = c], rec)
<1> DEFINE row1 == Patched(row, [status |-> s, coordinator |-> c])
           obj1 == [obj EXCEPT !.status = s, !.coordinator = c]
<1>1. /\ DOMAIN row1 = DOMAIN row \cup {"status", "coordinator"}
      /\ row1.status = s /\ row1.coordinator = c
      /\ \A f \in DOMAIN row : f \notin {"status", "coordinator"} => row1[f] = row[f]
  BY DEF Patched
<1>2. /\ \A f \in CoreFields : obj1[f] = IF f = "status" THEN s ELSE obj[f]
      /\ obj1.completedCopies = obj.completedCopies /\ obj1.actualCost = obj.actualCost
      /\ obj1.coordinator = c
  BY StorageObjectFields, CoreFieldsAre
<1> HIDE DEF row1, obj1
<1>3. "coordinator" \notin CoreFields
  BY CoreFieldsAre
<1>4. RowMirrors(row1, obj1, rec)
  BY <1>1, <1>2, <1>3 DEF RowMirrors, Lookup
<1> QED
  BY <1>4 DEF row1, obj1

LEMMA FailurePatchMirrors ==
  ASSUME NEW row, NEW obj \in StorageObject, NEW rec, RowMirrors(row, obj, rec),
         NEW s, s # "Uploading", NEW c, NEW x
  PROVE  RowMirrors(Patched(row, [status |-> s, actualCost |-> x]),
                    [obj EXCEPT !.status = s, !.coordinator = c, !.actualCost = x], rec)
<1> DEFINE row1 == Patched(row, [status |-> s, actualCost |-> x])
           obj1 == [obj EXCEPT !.status = s, !.coordinator = c, !.actualCost = x]
<1>1. /\ DOMAIN row1 = DOMAIN row \cup {"status", "actualCost"}
      /\ row1.status = s /\ row1.actualCost = x
      /\ \A f \in DOMAIN row : f \notin {"status", "actualCost"} => row1[f] = row[f]
  BY DEF Patched
<1>2. /\ \A f \in CoreFields : obj1[f] = IF f = "status" THEN s ELSE obj[f]
      /\ obj1.completedCopies = obj.completedCopies /\ obj1.actualCost = x
      /\ obj1.status = s
  BY StorageObjectFields, CoreFieldsAre
<1> HIDE DEF row1, obj1
<1>3. "actualCost" \notin CoreFields
  BY CoreFieldsAre
<1>4. RowMirrors(row1, obj1, rec)
  BY <1>1, <1>2, <1>3 DEF RowMirrors, Lookup
<1> QED
  BY <1>4 DEF row1, obj1

LEMMA FinalPatchMirrors ==
  ASSUME NEW row, NEW obj \in StorageObject, NEW rec, RowMirrors(row, obj, rec),
         NEW s, s # "Uploading", NEW c, NEW x, NEW n, NEW p, p # Zero, NEW rec2, rec2.payer = p
  PROVE  RowMirrors(Patched(Patched(row, [receiptPayer |-> p]),
                      [status |-> s, completedCopies |-> n, actualCost |-> x,
                       receiptHash |-> TRUE]),
                    [obj EXCEPT !.status = s, !.coordinator = c,
                                !.completedCopies = n, !.actualCost = x], rec2)
<1> DEFINE row0 == Patched(row, [receiptPayer |-> p])
           row1 == Patched(row0, [status |-> s, completedCopies |-> n,
                                  actualCost |-> x, receiptHash |-> TRUE])
           obj1 == [obj EXCEPT !.status = s, !.coordinator = c,
                               !.completedCopies = n, !.actualCost = x]
           New  == {"status", "completedCopies", "actualCost", "receiptHash"}
<1>1. /\ DOMAIN row0 = DOMAIN row \cup {"receiptPayer"} /\ row0.receiptPayer = p
      /\ \A f \in DOMAIN row : f # "receiptPayer" => row0[f] = row[f]
  BY DEF Patched
<1> HIDE DEF row0
<1>2. /\ DOMAIN row1 = DOMAIN row0 \cup New
      /\ row1.status = s /\ row1.completedCopies = n /\ row1.actualCost = x
      /\ row1.receiptHash = TRUE
      /\ \A f \in DOMAIN row0 : f \notin New => row1[f] = row0[f]
  BY DEF Patched
<1>3. /\ \A f \in CoreFields : obj1[f] = IF f = "status" THEN s ELSE obj[f]
      /\ obj1.completedCopies = n /\ obj1.actualCost = x
      /\ obj1.status = s
  BY StorageObjectFields, CoreFieldsAre
<1> HIDE DEF row1, obj1
<1>4. \A f \in CoreFields \ {"status"} : f \notin New /\ f # "receiptPayer"
  BY CoreFieldsAre
<1>5. \A f \in CoreFields : f \in DOMAIN row1 /\ row1[f] = obj1[f]
  BY <1>1, <1>2, <1>3, <1>4 DEF RowMirrors
<1>6. row1.receiptPayer = p /\ "receiptPayer" \in DOMAIN row1
  BY <1>1, <1>2
<1>7. RowMirrors(row1, obj1, rec2)
  BY <1>2, <1>3, <1>5, <1>6 DEF RowMirrors, Lookup
<1> QED
  BY <1>7 DEF row0, row1, obj1

\* A row that did not know the request does not learn it from a patch.
LEMMA PatchKeepsShape ==
  ASSUME NEW row, NEW patch, {"size", "reservedCost"} \cap DOMAIN patch = {},
         {"size", "reservedCost"} \cap DOMAIN row = {}
  PROVE  {"size", "reservedCost"} \cap DOMAIN Patched(row, patch) = {}
BY DEF Patched

LEMMA RowsAfterRequest ==
  ASSUME TypeOK, NEW ob, RowsMirrored(ob), NEW co, NEW pa, ReceiptsMirrored(co, pa),
         FromOK, from' = from, NEW caller, NEW p \in Requests, NEW signer,
         RequestUpload(caller, p, signer), NEW o, o = nextObjectId, NEW expiry,
         expiry = ExpiryOf(p), NEW e,
         e = [name |-> "UploadRequested", objectId |-> o,
              accountId |-> p.accountId, user |-> p.user,
              idempotencyKey |-> p.idempotencyKey, size |-> p.size,
              requestedCopies |-> p.requestedCopies, maxCost |-> p.maxCost,
              requestExpiresAt |-> expiry]
  PROVE  RowsMirrored(Put(ob, o, RequestedRow(e)))'
<1> DEFINE row == RequestedRow(e)
           ob2 == Put(ob, o, row)
<1>1. /\ o \in ObjectId /\ nextObjectId' = o + 1 /\ receipts' = receipts
      /\ objects' = [objects EXCEPT ![o] = RequestedObject(p)]
  BY MaxObjectsAssumption DEF RequestUpload, RequestAccepted, TypeOK, ObjectId
<1>2. RowMirrors(row, objects'[o], receipts'[o])
  <2> DEFINE obj == objects'[o]
  <2>1. receipts'[o].payer = Zero
    BY <1>1 DEF ReceiptsMirrored, ObjectId
  <2>2. obj = RequestedObject(p)
    BY <1>1 DEF TypeOK
  <2>3. /\ obj.accountId = p.accountId /\ obj.user = p.user
        /\ obj.idempotencyKey = p.idempotencyKey /\ obj.size = p.size
        /\ obj.requestedCopies = p.requestedCopies /\ obj.maxCost = p.maxCost
        /\ obj.requestExpiresAt = expiry /\ obj.reservedCost = p.maxCost
        /\ obj.status = "Requested" /\ obj.completedCopies = 0 /\ obj.actualCost = 0
    BY <2>2 DEF RequestedObject
  <2>4. /\ row.accountId = p.accountId /\ row.user = p.user
        /\ row.idempotencyKey = p.idempotencyKey /\ row.size = p.size
        /\ row.requestedCopies = p.requestedCopies /\ row.maxCost = p.maxCost
        /\ row.requestExpiresAt = expiry /\ row.reservedCost = p.maxCost
        /\ row.status = "Requested" /\ DOMAIN row = CoreFields
    BY CoreFieldsAre DEF RequestedRow
  <2> HIDE DEF row, obj
  <2>5. \A f \in CoreFields : row[f] = obj[f]
    BY <2>3, <2>4, CoreFieldsAre
  <2>6. {"completedCopies", "actualCost", "receiptHash", "receiptPayer"}
          \cap CoreFields = {}
    BY CoreFieldsAre
  <2> QED
    BY <2>1, <2>3, <2>4, <2>5, <2>6 DEF RowMirrors, Lookup, obj
<1> HIDE DEF row
<1>3. /\ DOMAIN ob2 = DOMAIN ob \cup {o} /\ RowOf(ob2, o) = row
      /\ \A q : q # o => RowOf(ob2, q) = RowOf(ob, q)
  BY DEF Put, RowOf, Lookup
<1>4. \A q \in ObjectId \ {o} : objects'[q] = objects[q] /\ (Seen(q)' <=> Seen(q))
  BY <1>1 DEF TypeOK, Seen, ObjectId
<1>5. ~(o < from'.object)
  BY DEF FromOK, TypeOK
<1> HIDE DEF ob2
<1>6. \A q \in ObjectId :
        /\ Seen(q)' => q \in DOMAIN ob2
                       /\ RowMirrors(RowOf(ob2, q), objects'[q], receipts'[q])
        /\ q < from'.object => {"size", "reservedCost"} \cap DOMAIN RowOf(ob2, q) = {}
  BY <1>1, <1>2, <1>3, <1>4, <1>5 DEF RowsMirrored
<1>7. DOMAIN ob2 \subseteq IssuedIds'
  <2>1. o \in IssuedIds' /\ IssuedIds \subseteq IssuedIds'
    BY <1>1 DEF IssuedIds, TypeOK, ObjectId
  <2> QED
    BY <1>3, <2>1 DEF RowsMirrored
<1>8. RowsMirrored(ob2)'
  BY <1>6, <1>7 DEF RowsMirrored
<1> QED
  BY <1>8 DEF ob2, row

\* The row of one upload that is not new follows it.
LEMMA RowsAfterPatch ==
  ASSUME TypeOK, NEW ob, RowsMirrored(ob), from' = from,
         nextObjectId' = nextObjectId, NEW o \in IssuedIds, NEW obj,
         objects' = [objects EXCEPT ![o] = obj],
         \A q \in ObjectId \ {o} : receipts'[q] = receipts[q],
         NEW row, NEW ob2, DOMAIN ob2 = DOMAIN ob \cup {o}, RowOf(ob2, o) = row,
         \A q : q # o => RowOf(ob2, q) = RowOf(ob, q),
         RowMirrors(RowOf(ob, o), objects[o], receipts[o])
           => RowMirrors(row, obj, receipts'[o]),
         {"size", "reservedCost"} \cap DOMAIN RowOf(ob, o) = {}
           => {"size", "reservedCost"} \cap DOMAIN row = {}
  PROVE  RowsMirrored(ob2)'
<1>1. \A q \in ObjectId : Seen(q)' <=> Seen(q)
  BY DEF Seen
<1>2. objects'[o] = obj /\ \A q \in ObjectId \ {o} : objects'[q] = objects[q]
  BY DEF TypeOK, IssuedIds
<1>3. \A q \in ObjectId :
        /\ Seen(q)' => /\ q \in DOMAIN ob2
                       /\ RowMirrors(RowOf(ob2, q), objects'[q], receipts'[q])
        /\ q < from'.object => {"size", "reservedCost"} \cap DOMAIN RowOf(ob2, q) = {}
  BY <1>1, <1>2 DEF RowsMirrored
<1>4. DOMAIN ob2 \subseteq IssuedIds'
  BY DEF RowsMirrored, IssuedIds
<1> QED
  BY <1>3, <1>4 DEF RowsMirrored

-----------------------------------------------------------------------------
(* Receipts, keys and what the owner sets *)

LEMMA SameUploadsMirrored ==
  ASSUME objects' = objects, receipts' = receipts, nextObjectId' = nextObjectId,
         from' = from, NEW ob, NEW co, NEW pa, NEW ks
  PROVE  /\ RowsMirrored(ob) => RowsMirrored(ob)'
         /\ ReceiptsMirrored(co, pa) => ReceiptsMirrored(co, pa)'
         /\ KeysMirrored(ks) => KeysMirrored(ks)'
BY DEF RowsMirrored, ReceiptsMirrored, KeysMirrored, Seen, IssuedIds

LEMMA SameAdminMirrored ==
  ASSUME from' = from, NEW cs, NEW rs, NEW ds
  PROVE  /\ UNCHANGED <<coordinatorPolicies, coordinatorAddresses>>
              /\ CoordinatorsMirrored(cs) => CoordinatorsMirrored(cs)'
         /\ UNCHANGED <<relayers, relayerAddresses>>
              /\ RelayersMirrored(rs) => RelayersMirrored(rs)'
         /\ UNCHANGED <<datasets, datasetKeys>>
              /\ DatasetsMirrored(ds) => DatasetsMirrored(ds)'
BY DEF CoordinatorsMirrored, RelayersMirrored, DatasetsMirrored

\* An upload that is not new and not finalized leaves receipts and keys alone.
LEMMA SameTermsMirrored ==
  ASSUME TypeOK, receipts' = receipts, nextObjectId' = nextObjectId, from' = from,
         \A o \in ObjectId : /\ objects'[o].accountId = objects[o].accountId
                             /\ objects'[o].idempotencyKey = objects[o].idempotencyKey,
         NEW co, NEW pa, NEW ks
  PROVE  /\ ReceiptsMirrored(co, pa) => ReceiptsMirrored(co, pa)'
         /\ KeysMirrored(ks) => KeysMirrored(ks)'
<1>1. ReceiptsMirrored(co, pa) => ReceiptsMirrored(co, pa)'
  BY DEF ReceiptsMirrored, Seen
<1>2. ASSUME KeysMirrored(ks) PROVE KeysMirrored(ks)'
  <2>1. \A o \in ObjectId : Seen(o)' =>
          LET key == <<objects'[o].accountId, objects'[o].idempotencyKey>>
          IN  key \in DOMAIN ks /\ ks[key] = o
    BY <1>2 DEF KeysMirrored, Seen
  <2> QED
    BY <2>1 DEF KeysMirrored
<1> QED
  BY <1>1, <1>2

LEMMA ReceiptsAfterRequest ==
  ASSUME TypeOK, NEW co, NEW pa, ReceiptsMirrored(co, pa), from' = from,
         nextObjectId \in ObjectId, nextObjectId' = nextObjectId + 1,
         receipts' = receipts
  PROVE  ReceiptsMirrored(co, pa)'
<1>1. ASSUME NEW o \in ObjectId
      PROVE  /\ Lookup(co, o, <<>>) \in Seq(RecordedCopies)
             /\ Seen(o)' => /\ Len(Lookup(co, o, <<>>)) = receipts[o].copies
                            /\ Lookup(pa, o, Zero) = receipts[o].payer
             /\ o >= nextObjectId' => /\ o \notin DOMAIN co /\ o \notin DOMAIN pa
                                     /\ receipts[o] = [payer |-> Zero, copies |-> 0]
  <2>1. o \in Int /\ nextObjectId \in Int
    BY DEF TypeOK, ObjectId
  <2>2. o >= nextObjectId' => o >= nextObjectId
    BY <2>1
  <2>3. Seen(o)' => Seen(o) \/ o >= nextObjectId
    BY <2>1 DEF Seen
  <2>4. ASSUME o >= nextObjectId
        PROVE  /\ Len(Lookup(co, o, <<>>)) = receipts[o].copies
               /\ Lookup(pa, o, Zero) = receipts[o].payer
    BY <2>4 DEF ReceiptsMirrored, Lookup
  <2> QED
    BY <2>2, <2>3, <2>4 DEF ReceiptsMirrored
<1> QED
  BY <1>1 DEF ReceiptsMirrored

LEMMA ReceiptsAfterFinalization ==
  ASSUME TypeOK, NEW co, NEW pa, ReceiptsMirrored(co, pa), from' = from,
         nextObjectId' = nextObjectId, NEW o \in ObjectId, o < nextObjectId,
         NEW payer, NEW n \in Nat,
         receipts' = [receipts EXCEPT ![o] = [payer |-> payer, copies |-> @.copies + n]],
         NEW co2, CopiesAdded(co, co2, o, n, RecordedCopies)
  PROVE  ReceiptsMirrored(co2, Put(pa, o, payer))'
<1> DEFINE pa2 == Put(pa, o, payer)
<1>1. /\ receipts'[o] = [payer |-> payer, copies |-> receipts[o].copies + n]
      /\ \A q \in ObjectId \ {o} : receipts'[q] = receipts[q]
  BY DEF TypeOK
<1>2. /\ DOMAIN pa2 = DOMAIN pa \cup {o} /\ Lookup(pa2, o, Zero) = payer
      /\ \A q : q # o => Lookup(pa2, q, Zero) = Lookup(pa, q, Zero)
  BY DEF Put, Lookup
<1> HIDE DEF pa2
<1>3. ASSUME NEW q \in ObjectId
      PROVE  /\ Lookup(co2, q, <<>>) \in Seq(RecordedCopies)
             /\ Seen(q)' => /\ Len(Lookup(co2, q, <<>>)) = receipts'[q].copies
                            /\ Lookup(pa2, q, Zero) = receipts'[q].payer
             /\ q >= nextObjectId' => /\ q \notin DOMAIN co2 /\ q \notin DOMAIN pa2
                                     /\ receipts'[q] = [payer |-> Zero, copies |-> 0]
  <2>1. Seen(q)' <=> Seen(q)
    BY DEF Seen
  <2>2. CASE q = o
    <3>1. ~(q >= nextObjectId')
      BY <2>2 DEF TypeOK, ObjectId
    <3>2. Lookup(co2, q, <<>>) \in Seq(RecordedCopies)
      BY <2>2 DEF CopiesAdded
    <3>3. Len(Lookup(co2, q, <<>>)) = Len(Lookup(co, q, <<>>)) + n
      BY <2>2 DEF CopiesAdded
    <3>4. Seen(q) => Len(Lookup(co, q, <<>>)) = receipts[q].copies
      BY DEF ReceiptsMirrored
    <3> QED
      BY <1>1, <1>2, <2>1, <2>2, <3>1, <3>2, <3>3, <3>4
  <2>3. CASE q # o
    <3>1. /\ Lookup(co2, q, <<>>) = Lookup(co, q, <<>>)
          /\ q \in DOMAIN co2 => q \in DOMAIN co
      BY <2>3 DEF CopiesAdded
    <3>2. Lookup(pa2, q, Zero) = Lookup(pa, q, Zero) /\ (q \in DOMAIN pa2 => q \in DOMAIN pa)
      BY <1>2, <2>3
    <3>3. receipts'[q] = receipts[q]
      BY <1>1, <2>3
    <3> QED
      BY <2>1, <3>1, <3>2, <3>3 DEF ReceiptsMirrored
  <2> QED
    BY <2>2, <2>3
<1>4. ReceiptsMirrored(co2, pa2)'
  BY <1>3 DEF ReceiptsMirrored
<1> QED
  BY <1>4 DEF pa2

\* A request names its upload by a key that no upload seen before has.
LEMMA KeysAfterRequest ==
  ASSUME TypeOK, IssuedInOrder, IdempotencyKeyNamesOneUpload,
         NEW ks, KeysMirrored(ks), from' = from,
         NEW caller, NEW p \in Requests, NEW signer,
         RequestUpload(caller, p, signer), NEW o, o = nextObjectId
  PROVE  KeysMirrored(Put(ks, <<p.accountId, p.idempotencyKey>>, o))'
<1> DEFINE key == <<p.accountId, p.idempotencyKey>>
           ks2 == Put(ks, key, o)
<1>1. /\ o \in ObjectId /\ nextObjectId' = o + 1
      /\ objects' = [objects EXCEPT ![o] = RequestedObject(p)]
      /\ objectByIdempotencyKey[p.accountId][p.idempotencyKey] = 0
  BY MaxObjectsAssumption DEF RequestUpload, RequestAccepted, TypeOK, ObjectId, Unclaimed
<1>2. /\ objects'[o].accountId = p.accountId
      /\ objects'[o].idempotencyKey = p.idempotencyKey
      /\ \A q \in ObjectId \ {o} : objects'[q] = objects[q]
  BY <1>1 DEF TypeOK, RequestedObject
<1>3. /\ key \in DOMAIN ks2 /\ ks2[key] = o
      /\ \A k \in DOMAIN ks : k # key => k \in DOMAIN ks2 /\ ks2[k] = ks[k]
  BY DEF Put
<1>4. ASSUME NEW q \in ObjectId, q < nextObjectId
      PROVE  <<objects[q].accountId, objects[q].idempotencyKey>> # key
  <2>1. q # 0
    BY DEF ObjectId
  <2>2. objectByIdempotencyKey[objects[q].accountId][objects[q].idempotencyKey] = q
    BY <1>4 DEF IdempotencyKeyNamesOneUpload
  <2> QED
    BY <1>1, <2>1, <2>2
<1> HIDE DEF key, ks2
<1>5. ASSUME NEW q \in ObjectId, Seen(q)'
      PROVE  LET k == <<objects'[q].accountId, objects'[q].idempotencyKey>>
             IN  k \in DOMAIN ks2 /\ ks2[k] = q
  <2>1. CASE q = o
    BY <1>2, <1>3, <2>1 DEF key
  <2>2. CASE q # o
    <3>1. q < nextObjectId /\ Seen(q)
      BY <1>1, <1>5, <2>2 DEF Seen, ObjectId
    <3> QED
      BY <1>2, <1>3, <1>4, <2>2, <3>1 DEF KeysMirrored
  <2> QED
    BY <2>1, <2>2
<1>6. KeysMirrored(ks2)'
  BY <1>5 DEF KeysMirrored
<1> QED
  BY <1>6 DEF ks2, key

LEMMA AddKnownLists ==
  ASSUME NEW S, NEW list \in Seq(S), NEW x \in S, NEW n, NEW D, NEW D2,
         D \cup {x} \subseteq D2,
         \A i \in DOMAIN list : i > n => list[i] \in D
  PROVE  \A i \in DOMAIN AddKnown(list, x) : i > n => AddKnown(list, x)[i] \in D2
<1>1. CASE x \in Range(list)
  BY <1>1 DEF AddKnown
<1>2. CASE x \notin Range(list)
  <2>1. AddKnown(list, x) = Append(list, x)
    BY <1>2 DEF AddKnown
  <2> QED
    BY <2>1
<1> QED
  BY <1>1, <1>2

LEMMA CoordinatorsAfter ==
  ASSUME TypeOK, NEW cs, CoordinatorsMirrored(cs), from' = from, NEW caller,
         NEW c \in CoordinatorInputs, NEW cp, SetCoordinator(caller, c, cp)
  PROVE  CoordinatorsMirrored(Put(cs, c, cp))'
<1> DEFINE cs2 == Put(cs, c, cp)
<1>1. c \in Address
  BY ConstantsAssumption DEF SetCoordinator
<1>2. coordinatorPolicies' = [coordinatorPolicies EXCEPT ![c] = cp]
  BY DEF SetCoordinator
<1>3. coordinatorPolicies'[c] = cp
      /\ \A d \in Address \ {c} : coordinatorPolicies'[d] = coordinatorPolicies[d]
  BY <1>1, <1>2 DEF TypeOK
<1>4. DOMAIN cs2 = DOMAIN cs \cup {c} /\ cs2[c] = cp
      /\ \A d \in DOMAIN cs : d # c => cs2[d] = cs[d]
  BY DEF Put
<1> HIDE DEF cs2
<1>5. coordinatorAddresses' = AddKnown(coordinatorAddresses, c)
  BY DEF SetCoordinator
<1>6. \A i \in DOMAIN AddKnown(coordinatorAddresses, c) : i > from.coordinators =>
        AddKnown(coordinatorAddresses, c)[i] \in DOMAIN cs2
  <2>1. coordinatorAddresses \in Seq(Address) /\ DOMAIN cs \cup {c} \subseteq DOMAIN cs2
    BY <1>4 DEF TypeOK
  <2>2. \A i \in DOMAIN coordinatorAddresses : i > from.coordinators =>
          coordinatorAddresses[i] \in DOMAIN cs
    BY DEF CoordinatorsMirrored
  <2> QED
    BY <1>1, <2>1, <2>2, AddKnownLists
<1>7. DOMAIN cs2 \subseteq Address /\ \A d \in DOMAIN cs2 : cs2[d] = coordinatorPolicies'[d]
  BY <1>1, <1>3, <1>4 DEF CoordinatorsMirrored
<1>8. CoordinatorsMirrored(cs2)'
  BY <1>5, <1>6, <1>7 DEF CoordinatorsMirrored
<1> QED
  BY <1>8 DEF cs2

LEMMA RelayersAfter ==
  ASSUME TypeOK, NEW rs, RelayersMirrored(rs), from' = from, NEW caller,
         NEW r \in RelayerInputs, NEW allowed \in BOOLEAN,
         SetRelayer(caller, r, allowed)
  PROVE  RelayersMirrored(Put(rs, r, allowed))'
<1> DEFINE rs2 == Put(rs, r, allowed)
<1>1. r \in Address
  BY ConstantsAssumption DEF SetRelayer
<1>2. /\ allowed = (r \in relayers')
      /\ \A d \in Address \ {r} : (d \in relayers') = (d \in relayers)
  BY DEF SetRelayer
<1>3. DOMAIN rs2 = DOMAIN rs \cup {r} /\ rs2[r] = allowed
      /\ \A d \in DOMAIN rs : d # r => rs2[d] = rs[d]
  BY DEF Put
<1> HIDE DEF rs2
<1>4. relayerAddresses' = AddKnown(relayerAddresses, r)
  BY DEF SetRelayer
<1>5. \A i \in DOMAIN AddKnown(relayerAddresses, r) : i > from.relayers =>
        AddKnown(relayerAddresses, r)[i] \in DOMAIN rs2
  <2>1. relayerAddresses \in Seq(Address) /\ DOMAIN rs \cup {r} \subseteq DOMAIN rs2
    BY <1>3 DEF TypeOK
  <2>2. \A i \in DOMAIN relayerAddresses : i > from.relayers =>
          relayerAddresses[i] \in DOMAIN rs
    BY DEF RelayersMirrored
  <2> QED
    BY <1>1, <2>1, <2>2, AddKnownLists
<1>6. DOMAIN rs2 \subseteq Address /\ \A d \in DOMAIN rs2 : rs2[d] = (d \in relayers')
  BY <1>1, <1>2, <1>3 DEF RelayersMirrored
<1>7. RelayersMirrored(rs2)'
  BY <1>4, <1>5, <1>6 DEF RelayersMirrored
<1> QED
  BY <1>7 DEF rs2

LEMMA DatasetsAfter ==
  ASSUME TypeOK, NEW ds, DatasetsMirrored(ds), from' = from, NEW caller,
         NEW d \in DatasetInputs, RecordDataset(caller, d)
  PROVE  DatasetsMirrored(Put(ds, <<d.accountId, d.dataset>>, [payer |-> d.payer]))'
<1> DEFINE key == <<d.accountId, d.dataset>>
           ds2 == Put(ds, key, [payer |-> d.payer])
<1>1. d.accountId \in Account /\ d.dataset \in Dataset
  BY ConstantsAssumption DEF RecordDataset, DatasetAccepted, DatasetRecord
<1>2. /\ datasets'[d.accountId][d.dataset].payer = d.payer
      /\ \A a \in Account, e \in Dataset : <<a, e>> # key =>
           datasets'[a][e] = datasets[a][e]
  BY <1>1 DEF RecordDataset, DatasetAccepted, TypeOK
<1>3. key \in Account \X Dataset /\ key[1] = d.accountId /\ key[2] = d.dataset
  BY <1>1
<1>4. DOMAIN ds2 = DOMAIN ds \cup {key} /\ ds2[key] = [payer |-> d.payer]
      /\ \A k \in DOMAIN ds : k # key => ds2[k] = ds[k]
  BY DEF Put
<1>5. datasetKeys' = AddKnown(datasetKeys, key)
  BY DEF RecordDataset, DatasetAccepted
<1> HIDE DEF ds2, key
<1>6. \A i \in DOMAIN AddKnown(datasetKeys, key) : i > from.datasets =>
        AddKnown(datasetKeys, key)[i] \in DOMAIN ds2
  <2>1. datasetKeys \in Seq(Account \X Dataset) /\ DOMAIN ds \cup {key} \subseteq DOMAIN ds2
    BY <1>4 DEF TypeOK
  <2>2. \A i \in DOMAIN datasetKeys : i > from.datasets => datasetKeys[i] \in DOMAIN ds
    BY DEF DatasetsMirrored
  <2> QED
    BY <1>3, <2>1, <2>2, AddKnownLists
<1>7. ASSUME NEW k \in DOMAIN ds2
      PROVE  k \in Account \X Dataset /\ ds2[k].payer = datasets'[k[1]][k[2]].payer
  <2>1. CASE k = key
    BY <1>2, <1>3, <1>4, <2>1
  <2>2. CASE k # key
    <3>1. k \in DOMAIN ds /\ k \in Account \X Dataset
          /\ ds2[k].payer = datasets[k[1]][k[2]].payer
      BY <1>4, <2>2 DEF DatasetsMirrored
    <3>2. k = <<k[1], k[2]>> /\ k[1] \in Account /\ k[2] \in Dataset
      BY <3>1
    <3> QED
      BY <1>2, <2>2, <3>1, <3>2
  <2> QED
    BY <2>1, <2>2
<1>8. DatasetsMirrored(ds2)'
  BY <1>5, <1>6, <1>7 DEF DatasetsMirrored
<1> QED
  BY <1>8 DEF ds2, key

-----------------------------------------------------------------------------
(* Counters *)

SeenBytes(a) ==
  [o \in ObjectId |-> IF o \in SeenLive(a) THEN RequestedBytes(objects[o]) ELSE 0]
SeenCosts(a) ==
  [o \in ObjectId |-> IF o \in SeenLive(a) THEN objects[o].reservedCost ELSE 0]

\* The folded counters are those of the registry if the whole history was
\* folded, and otherwise what the uploads seen and still open account for.
UsageMirrored(us) ==
  /\ DOMAIN us \subseteq Account
  /\ \A a \in Account :
       /\ UsageOf(us, a) \in AccountUsage
       /\ from.object = 1 => UsageOf(us, a) = usage[a]
       /\ UsageOf(us, a).pendingBytes = Total(SeenBytes(a))
       /\ UsageOf(us, a).reservedCost <= Total(SeenCosts(a))

LEMMA SeenTypes ==
  ASSUME TypeOK, NEW a
  PROVE  SeenBytes(a) \in [ObjectId -> Nat] /\ SeenCosts(a) \in [ObjectId -> Nat]
<1>1. \A o \in ObjectId : RequestedBytes(objects[o]) \in Nat /\ objects[o].reservedCost \in Nat
  BY RequestedBytesType DEF TypeOK, StorageObject
<1> QED
  BY <1>1 DEF SeenBytes, SeenCosts

\* Nothing changes for an account none of whose uploads changes.
LEMMA SameSeenTotals ==
  ASSUME NEW a, \A o \in ObjectId : o \in SeenLive(a)' <=> o \in SeenLive(a),
         \A o \in ObjectId : o \in SeenLive(a) => objects'[o] = objects[o]
  PROVE  SeenBytes(a)' = SeenBytes(a) /\ SeenCosts(a)' = SeenCosts(a)
BY DEF SeenBytes, SeenCosts, RequestedBytes

\* One upload changes what its account has in flight.
LEMMA SeenTotalsUpdate ==
  ASSUME TypeOK, TypeOK', NEW a, NEW o \in ObjectId,
         \A q \in ObjectId \ {o} :
            (q \in SeenLive(a)' <=> q \in SeenLive(a)) /\ objects'[q] = objects[q]
  PROVE  /\ Total(SeenBytes(a)')
              = Total(SeenBytes(a)) - SeenBytes(a)[o] + SeenBytes(a)'[o]
         /\ Total(SeenCosts(a)')
              = Total(SeenCosts(a)) - SeenCosts(a)[o] + SeenCosts(a)'[o]
         /\ SeenBytes(a)[o] <= Total(SeenBytes(a))
         /\ SeenCosts(a)[o] <= Total(SeenCosts(a))
         /\ Total(SeenBytes(a)) \in Nat /\ Total(SeenCosts(a)) \in Nat
         /\ SeenBytes(a)[o] \in Nat /\ SeenCosts(a)[o] \in Nat
<1>1. PICK b, c, b2, c2 : /\ b = SeenBytes(a) /\ c = SeenCosts(a)
                          /\ b2 = SeenBytes(a)' /\ c2 = SeenCosts(a)'
  OBVIOUS
<1>2. b \in [ObjectId -> Nat] /\ c \in [ObjectId -> Nat]
  BY <1>1, SeenTypes
<1>3. b2 \in [ObjectId -> Nat] /\ c2 \in [ObjectId -> Nat]
  <2>1. \A q \in ObjectId : RequestedBytes(objects'[q]) \in Nat /\ objects'[q].reservedCost \in Nat
    BY RequestedBytesType DEF TypeOK, StorageObject
  <2> QED
    BY <1>1, <2>1 DEF SeenBytes, SeenCosts, RequestedBytes
<1>4. \A q \in ObjectId \ {o} : b2[q] = b[q] /\ c2[q] = c[q]
  BY <1>1 DEF SeenBytes, SeenCosts, RequestedBytes
<1>5. IsFiniteSet(ObjectId)
  BY ObjectIdFinite
<1>6. Total(b2) = Total(b) - b[o] + b2[o] /\ Total(c2) = Total(c) - c[o] + c2[o]
  BY <1>2, <1>3, <1>4, <1>5, TotalUpdate
<1>7. b[o] <= Total(b) /\ c[o] <= Total(c) /\ Total(b) \in Nat /\ Total(c) \in Nat
  BY <1>2, <1>5, TotalBound, TotalType
<1> QED
  BY <1>1, <1>2, <1>6, <1>7

LEMMA ClampedType ==
  ASSUME NEW x \in Nat, NEW y \in Nat
  PROVE  /\ SubtractClamped(x, y) \in Nat /\ SubtractClamped(x, y) <= x
         /\ y <= x => SubtractClamped(x, y) = x - y
         /\ \A t \in Nat : x <= t /\ y <= t => SubtractClamped(x, y) <= t - y
BY DEF SubtractClamped

LEMMA ReleasedFields ==
  ASSUME NEW u \in AccountUsage, NEW row, NEW cost,
         Lookup(row, "reservedCost", cost) \in Nat,
         "size" \in DOMAIN row => row.size * row.requestedCopies \in Nat
  PROVE  /\ ReleasedUsage(u, row, cost) \in AccountUsage
         /\ ReleasedUsage(u, row, cost).reservedCost
              = SubtractClamped(u.reservedCost, Lookup(row, "reservedCost", cost))
         /\ ReleasedUsage(u, row, cost).pendingBytes
              = IF "size" \in DOMAIN row
                THEN SubtractClamped(u.pendingBytes, row.size * row.requestedCopies)
                ELSE u.pendingBytes
<1> DEFINE x == SubtractClamped(u.reservedCost, Lookup(row, "reservedCost", cost))
           y == IF "size" \in DOMAIN row
                THEN SubtractClamped(u.pendingBytes, row.size * row.requestedCopies)
                ELSE u.pendingBytes
<1>1. x \in Nat
  BY UsageFields, ClampedType
<1>2. y \in Nat
  BY UsageFields, ClampedType
<1>3. ReleasedUsage(u, row, cost) = [u EXCEPT !.reservedCost = x, !.pendingBytes = y]
  BY DEF ReleasedUsage
<1> HIDE DEF x, y
<1>4. /\ [u EXCEPT !.reservedCost = x, !.pendingBytes = y] \in AccountUsage
      /\ [u EXCEPT !.reservedCost = x, !.pendingBytes = y].reservedCost = x
      /\ [u EXCEPT !.reservedCost = x, !.pendingBytes = y].pendingBytes = y
  BY <1>1, <1>2 DEF AccountUsage
<1> QED
  BY <1>3, <1>4 DEF x, y

\* An upload of account a leaves its live state, and no other account counts it.
Closes(o, a, done) ==
  /\ MutableObject(o) /\ a = objects[o].accountId
  /\ Releasable(usage[a], objects[o])
  /\ objects' = [objects EXCEPT ![o] = done] /\ ~Live(done.status)
  /\ nextObjectId' = nextObjectId
  /\ \A b \in Account \ {a} : usage'[b] = usage[b]

\* The fold releases what the row says, then counts as the contract does.
CountsClosing(us, us2, row, cost, o, a, w) ==
  LET v == ReleasedUsage(UsageOf(us, a), row, cost)
  IN  /\ UsageSet(us, us2, a, w)
      /\ v \in AccountUsage => /\ w \in AccountUsage
                               /\ w.pendingBytes = v.pendingBytes
                               /\ w.reservedCost = v.reservedCost
      /\ v \in AccountUsage /\ v = ReleaseUsage(usage[a], objects[o])
           => w = usage'[a]

\* Closing an upload: its row, if its request was seen, says what it releases.
LEMMA UsageAfterClosing ==
  ASSUME TypeOK, TypeOK', IssuedInOrder, FromOK, from' = from,
         NEW us, UsageMirrored(us), NEW ob, RowsMirrored(ob),
         NEW o \in ObjectId, NEW a, NEW done, Closes(o, a, done),
         NEW cost \in Nat, NEW w, NEW us2,
         CountsClosing(us, us2, RowOf(ob, o), cost, o, a, w)
  PROVE  UsageMirrored(us2)'
<1>a. PICK v :
        /\ v = ReleasedUsage(UsageOf(us, a), RowOf(ob, o), cost)
        /\ UsageSet(us, us2, a, w)
        /\ v \in AccountUsage => /\ w \in AccountUsage
                                 /\ w.pendingBytes = v.pendingBytes
                                 /\ w.reservedCost = v.reservedCost
        /\ v \in AccountUsage /\ v = ReleaseUsage(usage[a], objects[o])
             => w = usage'[a]
  BY DEF CountsClosing
<1>b. /\ MutableObject(o) /\ a = objects[o].accountId
      /\ Releasable(usage[a], objects[o])
      /\ objects' = [objects EXCEPT ![o] = done] /\ ~Live(done.status)
      /\ nextObjectId' = nextObjectId
      /\ \A b \in Account \ {a} : usage'[b] = usage[b]
  BY DEF Closes
<1> DEFINE u == UsageOf(us, a)
           obj == objects[o]
           row == RowOf(ob, o)
<1>1. /\ obj \in StorageObject /\ Live(obj.status)
      /\ RequestedBytes(obj) \in Nat /\ obj.reservedCost \in Nat
  <2>1. obj \in StorageObject
    BY DEF TypeOK
  <2>2. Live(obj.status)
    BY <1>b, LiveIsMutable DEF LiveIds
  <2> HIDE DEF obj
  <2>3. RequestedBytes(obj) \in Nat /\ obj.reservedCost \in Nat
    BY <2>1, RequestedBytesType DEF StorageObject
  <2> QED
    BY <2>1, <2>2, <2>3
<1>2. o < nextObjectId /\ a \in Account
  BY <1>b, <1>1 DEF IssuedInOrder, NoObject, Live
<1>3. u \in AccountUsage /\ u.pendingBytes \in Nat /\ u.reservedCost \in Nat
  BY <1>2, UsageFields DEF UsageMirrored
<1>4. objects'[o] = done /\ \A q \in ObjectId \ {o} : objects'[q] = objects[q]
  BY <1>b DEF TypeOK
<1>5. \A b, q : q \in ObjectId \ {o} => (q \in SeenLive(b)' <=> q \in SeenLive(b))
  BY <1>b, <1>4 DEF SeenLive, Seen
<1>6. o \notin SeenLive(a)' /\ \A b : b # a => o \notin SeenLive(b) /\ o \notin SeenLive(b)'
  BY <1>b, <1>4 DEF SeenLive
<1>7. /\ Total(SeenBytes(a)')
           = Total(SeenBytes(a)) - SeenBytes(a)[o] + SeenBytes(a)'[o]
      /\ Total(SeenCosts(a)')
           = Total(SeenCosts(a)) - SeenCosts(a)[o] + SeenCosts(a)'[o]
      /\ SeenBytes(a)[o] <= Total(SeenBytes(a))
      /\ SeenCosts(a)[o] <= Total(SeenCosts(a))
      /\ Total(SeenBytes(a)) \in Nat /\ Total(SeenCosts(a)) \in Nat
  BY <1>4, <1>5, SeenTotalsUpdate
<1>8. SeenBytes(a)'[o] = 0 /\ SeenCosts(a)'[o] = 0
  BY <1>6 DEF SeenBytes, SeenCosts
<1>9. /\ v \in AccountUsage
      /\ from.object = 1 => v = ReleaseUsage(usage[a], obj)
      /\ v.pendingBytes = Total(SeenBytes(a))  - SeenBytes(a)[o]
      /\ v.reservedCost <= Total(SeenCosts(a))  - SeenCosts(a)[o]
  <2>1. CASE Seen(o)
    <3>1. RowMirrors(row, obj, receipts[o])
      BY <2>1 DEF RowsMirrored
    <3>2. /\ {"size", "requestedCopies", "reservedCost"} \subseteq DOMAIN row
          /\ row.size = obj.size /\ row.requestedCopies = obj.requestedCopies
          /\ row.reservedCost = obj.reservedCost
      BY <3>1, CoreFieldsAre DEF RowMirrors
    <3>3. /\ Lookup(row, "reservedCost", cost) = obj.reservedCost
          /\ row.size * row.requestedCopies = RequestedBytes(obj)
      BY <3>2 DEF Lookup, RequestedBytes
    <3>4. /\ v \in AccountUsage
          /\ v.reservedCost = SubtractClamped(u.reservedCost, obj.reservedCost)
          /\ v.pendingBytes = SubtractClamped(u.pendingBytes, RequestedBytes(obj))
      BY <1>a, <1>1, <1>3, <3>2, <3>3, ReleasedFields
    <3>5. o \in SeenLive(a)
      BY <1>b, <1>1, <2>1 DEF SeenLive
    <3>6. SeenBytes(a)[o] = RequestedBytes(obj) /\ SeenCosts(a)[o] = obj.reservedCost
      BY <3>5 DEF SeenBytes, SeenCosts
    <3>7. u.pendingBytes = Total(SeenBytes(a)) /\ u.reservedCost <= Total(SeenCosts(a))
      BY <1>2 DEF UsageMirrored
    <3>8. v.pendingBytes = Total(SeenBytes(a))  - SeenBytes(a)[o]
      BY <1>1, <1>3, <1>7, <3>4, <3>6, <3>7, ClampedType
    <3>9. v.reservedCost <= Total(SeenCosts(a))  - SeenCosts(a)[o]
      <4>1. \A t \in Nat : u.reservedCost <= t /\ obj.reservedCost <= t
                => SubtractClamped(u.reservedCost, obj.reservedCost) <= t - obj.reservedCost
        BY <1>1, <1>3, ClampedType
      <4>2. obj.reservedCost <= Total(SeenCosts(a))
        BY <1>7, <3>6
      <4> QED
        BY <1>7, <3>4, <3>6, <3>7, <4>1, <4>2
    <3>10. ASSUME from.object = 1 PROVE v = ReleaseUsage(usage[a], obj)
      <4>1. u = usage[a]
        BY <1>2, <3>10 DEF UsageMirrored
      <4>2. RequestedBytes(obj) <= u.pendingBytes /\ obj.reservedCost <= u.reservedCost
        BY <1>b, <1>1, <1>3, <4>1 DEF Releasable
      <4>3. /\ SubtractClamped(u.reservedCost, obj.reservedCost)
                 = u.reservedCost - obj.reservedCost
            /\ SubtractClamped(u.pendingBytes, RequestedBytes(obj))
                 = u.pendingBytes - RequestedBytes(obj)
        BY <1>1, <1>3, <4>2, ClampedType
      <4>4. v = [u EXCEPT !.reservedCost = u.reservedCost - obj.reservedCost,
                          !.pendingBytes = u.pendingBytes - RequestedBytes(obj)]
        BY <1>a, <3>2, <3>3, <4>3 DEF ReleasedUsage
      <4> QED
        BY <1>3, <4>1, <4>4 DEF ReleaseUsage, AccountUsage
    <3> QED
      BY <3>4, <3>8, <3>9, <3>10
  <2>2. CASE ~Seen(o)
    <3>1. o < from.object /\ from.object # 1
      BY <1>2, <2>2 DEF Seen, FromOK, TypeOK, ObjectId
    <3>2. "size" \notin DOMAIN row /\ Lookup(row, "reservedCost", cost) = cost
      BY <3>1 DEF RowsMirrored, Lookup
    <3>3. /\ v \in AccountUsage /\ v.reservedCost = SubtractClamped(u.reservedCost, cost)
          /\ v.pendingBytes = u.pendingBytes
      BY <1>a, <1>3, <3>2, ReleasedFields
    <3>4. v.reservedCost <= u.reservedCost
      BY <1>3, <3>3, ClampedType
    <3>5. SeenBytes(a)[o] = 0 /\ SeenCosts(a)[o] = 0
      BY <2>2 DEF SeenBytes, SeenCosts, SeenLive
    <3>6. u.pendingBytes = Total(SeenBytes(a)) /\ u.reservedCost <= Total(SeenCosts(a))
      BY <1>2 DEF UsageMirrored
    <3>7. v.reservedCost \in Nat
      BY <3>3, UsageFields
    <3> QED
      BY <1>3, <1>7, <3>1, <3>3, <3>4, <3>5, <3>6, <3>7
  <2> QED
    BY <2>1, <2>2
<1>10. ASSUME NEW b \in Account
       PROVE  /\ UsageOf(us2, b) \in AccountUsage
              /\ from'.object = 1 => UsageOf(us2, b) = usage'[b]
              /\ UsageOf(us2, b).pendingBytes = Total(SeenBytes(b)')
              /\ UsageOf(us2, b).reservedCost <= Total(SeenCosts(b)')
  <2>1. CASE b = a
    <3>1. UsageOf(us2, b) = w
      BY <1>a, <2>1 DEF UsageSet
    <3>2. /\ w \in AccountUsage /\ w.pendingBytes = v.pendingBytes
          /\ w.reservedCost = v.reservedCost
          /\ from.object = 1 => w = usage'[a]
      BY <1>a, <1>9
    <3>3. /\ Total(SeenBytes(a)') = Total(SeenBytes(a)) - SeenBytes(a)[o]
          /\ Total(SeenCosts(a)') = Total(SeenCosts(a)) - SeenCosts(a)[o]
      <4>1. SeenBytes(a)[o] \in Nat /\ SeenCosts(a)[o] \in Nat
        BY SeenTypes
      <4> QED
        BY <1>7, <1>8, <4>1
    <3> QED
      BY <1>9, <2>1, <3>1, <3>2, <3>3
  <2>2. CASE b # a
    <3>1. UsageOf(us2, b) = UsageOf(us, b) /\ usage'[b] = usage[b]
      BY <1>a, <1>b, <2>2 DEF UsageSet
    <3>2. SeenBytes(b)' = SeenBytes(b) /\ SeenCosts(b)' = SeenCosts(b)
      BY <1>4, <1>5, <1>6, <2>2, SameSeenTotals
    <3> QED
      BY <3>1, <3>2 DEF UsageMirrored
  <2> QED
    BY <2>1, <2>2
<1>11. DOMAIN us2 \subseteq Account
  BY <1>a, <1>2 DEF UsageMirrored, UsageSet
<1> HIDE DEF u, obj, row
<1> QED
  BY <1>10, <1>11 DEF UsageMirrored

-----------------------------------------------------------------------------
(* Counters after each transaction *)

LEMMA UsageShape ==
  ASSUME NEW u \in AccountUsage
  PROVE  u = [activeBytes |-> u.activeBytes, activeObjects |-> u.activeObjects,
              pendingBytes |-> u.pendingBytes, reservedCost |-> u.reservedCost,
              totalActualCost |-> u.totalActualCost,
              totalUploadedBytes |-> u.totalUploadedBytes,
              totalRequestedUploads |-> u.totalRequestedUploads,
              totalFinalizedUploads |-> u.totalFinalizedUploads,
              totalFailedUploads |-> u.totalFailedUploads]
BY DEF AccountUsage

\* What a settlement adds is what OutcomeUsage adds in the contract.
LEMMA FinishedIsOutcome ==
  ASSUME NEW v \in AccountUsage, NEW done, NEW cost \in Nat,
         done.status \in FinalizationStatus, NEW delta,
         delta = IF Stored(done.status) THEN StoredBytes(done) ELSE 0,
         Stored(done.status) => StoredBytes(done) \in Nat /\ StoredBytes(done) > 0
  PROVE  LET w == FinishedUsage(ChargedUsage(v, cost, delta), done.status)
         IN  /\ w = OutcomeUsage(ChargeUsage(v, cost), done)
             /\ w \in AccountUsage
             /\ w.pendingBytes = v.pendingBytes /\ w.reservedCost = v.reservedCost
<1> DEFINE w == FinishedUsage(ChargedUsage(v, cost, delta), done.status)
           c == [v EXCEPT !.totalActualCost = v.totalActualCost + cost]
<1>1. ChargeUsage(v, cost) = c
  BY DEF ChargeUsage
<1>2. /\ c \in AccountUsage /\ c.pendingBytes = v.pendingBytes
      /\ c.reservedCost = v.reservedCost
  BY UsageFields DEF AccountUsage
<1>3. CASE Stored(done.status)
  <2>1. ChargedUsage(v, cost, delta)
          = [c EXCEPT !.activeBytes = c.activeBytes + delta,
                      !.activeObjects = c.activeObjects + 1,
                      !.totalUploadedBytes = c.totalUploadedBytes + delta]
    BY <1>3 DEF ChargedUsage
  <2>2. done.status # "Failed" /\ delta = StoredBytes(done) /\ delta \in Nat
    BY <1>3 DEF Stored
  <2> HIDE DEF c
  <2>3. w = [c EXCEPT !.activeBytes = c.activeBytes + delta,
                      !.activeObjects = c.activeObjects + 1,
                      !.totalUploadedBytes = c.totalUploadedBytes + delta,
                      !.totalFinalizedUploads = c.totalFinalizedUploads + 1]
    BY <1>2, <2>1, <2>2 DEF FinishedUsage, AccountUsage
  <2>4. w = OutcomeUsage(c, done)
    BY <1>3, <2>2, <2>3 DEF OutcomeUsage
  <2>5. w \in AccountUsage /\ w.pendingBytes = c.pendingBytes
        /\ w.reservedCost = c.reservedCost
    <3> HIDE DEF w
    <3>1. /\ c.activeBytes + delta \in Nat /\ c.activeObjects + 1 \in Nat
          /\ c.totalUploadedBytes + delta \in Nat
          /\ c.totalFinalizedUploads + 1 \in Nat
      BY <1>2, <2>2, UsageFields
    <3> QED
      BY <1>2, <2>3, <3>1 DEF AccountUsage
  <2> QED
    BY <1>1, <1>2, <2>4, <2>5
<1>4. CASE ~Stored(done.status)
  <2>1. done.status = "Failed" /\ delta = 0
    BY <1>4 DEF Stored, FinalizationStatus
  <2>2. ChargedUsage(v, cost, delta) = c
    BY <2>1 DEF ChargedUsage
  <2> HIDE DEF c
  <2>3. w = [c EXCEPT !.totalFailedUploads = c.totalFailedUploads + 1]
    BY <2>1, <2>2 DEF FinishedUsage
  <2>4. w = OutcomeUsage(c, done)
    BY <1>4, <2>3 DEF OutcomeUsage
  <2>5. w \in AccountUsage /\ w.pendingBytes = c.pendingBytes
        /\ w.reservedCost = c.reservedCost
    <3> HIDE DEF w
    <3> QED
      BY <1>2, <2>3, UsageFields DEF AccountUsage
  <2> QED
    BY <1>1, <1>2, <2>4, <2>5
<1> QED
  BY <1>3, <1>4

LEMMA FailedIsOutcome ==
  ASSUME NEW v \in AccountUsage, NEW done, NEW cost \in Nat, done.status = "Failed"
  PROVE  /\ FailedUsage(v, cost) = OutcomeUsage(ChargeUsage(v, cost), done)
         /\ FailedUsage(v, cost) \in AccountUsage
         /\ FailedUsage(v, cost).pendingBytes = v.pendingBytes
         /\ FailedUsage(v, cost).reservedCost = v.reservedCost
<1>1. ~Stored(done.status)
  BY DEF Stored
<1>2. FailedUsage(v, cost)
        = [v EXCEPT !.totalActualCost = v.totalActualCost + cost,
                    !.totalFailedUploads = v.totalFailedUploads + 1]
  BY DEF FailedUsage
<1>3. FailedUsage(v, cost) = OutcomeUsage(ChargeUsage(v, cost), done)
  BY <1>1, <1>2 DEF OutcomeUsage, ChargeUsage, AccountUsage
<1>4. /\ FailedUsage(v, cost) \in AccountUsage
      /\ FailedUsage(v, cost).pendingBytes = v.pendingBytes
      /\ FailedUsage(v, cost).reservedCost = v.reservedCost
  <2>1. v.totalActualCost + cost \in Nat /\ v.totalFailedUploads + 1 \in Nat
    BY UsageFields
  <2> QED
    BY <1>2, <2>1 DEF AccountUsage
<1> QED
  BY <1>3, <1>4

\* A request adds its bytes and its cost, in the fold as in the contract.
LEMMA RequestedIsReserved ==
  ASSUME NEW u \in AccountUsage, NEW p, RequestedBytes(p) \in Nat, p.maxCost \in Nat
  PROVE  LET w == RequestedUsage(ReservedUsage(u, p.maxCost), RequestedBytes(p))
         IN  /\ w = ReserveUsage(u, p) /\ w \in AccountUsage
             /\ w.pendingBytes = u.pendingBytes + RequestedBytes(p)
             /\ w.reservedCost = u.reservedCost + p.maxCost
<1> DEFINE w == RequestedUsage(ReservedUsage(u, p.maxCost), RequestedBytes(p))
           b == RequestedBytes(p)
<1> HIDE DEF b
<1>1. w = [u EXCEPT !.reservedCost = u.reservedCost + p.maxCost,
                    !.pendingBytes = u.pendingBytes + b,
                    !.totalRequestedUploads = u.totalRequestedUploads + 1]
  BY DEF RequestedUsage, ReservedUsage, AccountUsage, b
<1>2. w = ReserveUsage(u, p)
  BY <1>1 DEF ReserveUsage, b
<1>3. /\ u.reservedCost + p.maxCost \in Nat /\ u.pendingBytes + b \in Nat
      /\ u.totalRequestedUploads + 1 \in Nat
  BY UsageFields DEF b
<1> HIDE DEF w
<1>4. /\ w \in AccountUsage /\ w.pendingBytes = u.pendingBytes + b
      /\ w.reservedCost = u.reservedCost + p.maxCost
  BY <1>1, <1>3 DEF AccountUsage
<1> QED
  BY <1>2, <1>4 DEF w, b

LEMMA UsageAfterRequest ==
  ASSUME TypeOK, TypeOK', IssuedInOrder, FromOK, from' = from,
         NEW us, UsageMirrored(us), NEW caller, NEW p \in Requests, NEW signer,
         RequestUpload(caller, p, signer), NEW us2,
         UsageSet(us, us2, p.accountId,
           RequestedUsage(ReservedUsage(UsageOf(us, p.accountId), p.maxCost),
                          RequestedBytes(p)))
  PROVE  UsageMirrored(us2)'
<1> DEFINE o == nextObjectId
           a == p.accountId
           u == UsageOf(us, a)
           w == RequestedUsage(ReservedUsage(u, p.maxCost), RequestedBytes(p))
<1>1. /\ o \in ObjectId /\ nextObjectId' = o + 1
      /\ objects' = [objects EXCEPT ![o] = RequestedObject(p)]
      /\ usage' = [usage EXCEPT ![a] = ReserveUsage(@, p)]
  BY MaxObjectsAssumption DEF RequestUpload, RequestAccepted, TypeOK, ObjectId
<1>2. /\ a \in Account /\ p.maxCost \in Nat /\ p.size \in Nat
      /\ p.requestedCopies \in Nat
  BY ConstantsAssumption DEF RequestUpload, RequestAccepted, ValidRequest, RequestUploadParams
<1>3. RequestedBytes(p) \in Nat
  BY <1>2 DEF RequestedBytes
<1>4. /\ objects'[o].accountId = a /\ objects'[o].status = "Requested"
      /\ RequestedBytes(objects'[o]) = RequestedBytes(p)
      /\ objects'[o].reservedCost = p.maxCost
      /\ \A q \in ObjectId \ {o} : objects'[q] = objects[q]
  BY <1>1 DEF TypeOK, RequestedObject, RequestedBytes
<1>5. \A b, q : q \in ObjectId \ {o} => (q \in SeenLive(b)' <=> q \in SeenLive(b))
  BY <1>1, <1>4 DEF SeenLive, Seen, ObjectId
<1>6. \A b : o \notin SeenLive(b) /\ (o \in SeenLive(b)' <=> b = a)
  BY <1>1, <1>4 DEF SeenLive, Seen, Live, ObjectId, FromOK
<1>7. /\ u \in AccountUsage
      /\ from.object = 1 => u = usage[a]
      /\ u.pendingBytes = Total(SeenBytes(a)) /\ u.reservedCost <= Total(SeenCosts(a))
  BY <1>2 DEF UsageMirrored
<1>8. /\ w = ReserveUsage(u, p) /\ w \in AccountUsage
      /\ w.pendingBytes = u.pendingBytes + RequestedBytes(p)
      /\ w.reservedCost = u.reservedCost + p.maxCost
  <2> HIDE DEF u
  <2> QED
    BY <1>2, <1>3, <1>7, RequestedIsReserved DEF w
<1>9. /\ SeenBytes(a)[o] = 0 /\ SeenCosts(a)[o] = 0
      /\ SeenBytes(a)'[o] = RequestedBytes(p) /\ SeenCosts(a)'[o] = p.maxCost
  <2>1. o \notin SeenLive(a) /\ o \in SeenLive(a)'
    BY <1>6
  <2> QED
    BY <1>1, <1>4, <2>1 DEF SeenBytes, SeenCosts, RequestedBytes
<1>10. /\ Total(SeenBytes(a)') = Total(SeenBytes(a)) + RequestedBytes(p)
       /\ Total(SeenCosts(a)') = Total(SeenCosts(a)) + p.maxCost
       /\ Total(SeenCosts(a)) \in Nat
  BY <1>1, <1>2, <1>3, <1>4, <1>5, <1>9, SeenTotalsUpdate
<1>11. ASSUME NEW b \in Account
       PROVE  /\ UsageOf(us2, b) \in AccountUsage
              /\ from'.object = 1 => UsageOf(us2, b) = usage'[b]
              /\ UsageOf(us2, b).pendingBytes = Total(SeenBytes(b)')
              /\ UsageOf(us2, b).reservedCost <= Total(SeenCosts(b)')
  <2>1. CASE b = a
    <3>1. UsageOf(us2, b) = w
      BY <2>1 DEF UsageSet
    <3>2. usage'[a] = ReserveUsage(usage[a], p)
      BY <1>1, <1>2 DEF TypeOK
    <3>3. UsageOf(us2, b).pendingBytes = Total(SeenBytes(b)')
      BY <1>7, <1>8, <1>10, <2>1, <3>1
    <3>4. UsageOf(us2, b).reservedCost <= Total(SeenCosts(b)')
      <4> HIDE DEF u, w, a
      <4>1. u.reservedCost \in Nat
        BY <1>7, UsageFields
      <4> QED
        BY <1>2, <1>7, <1>8, <1>10, <2>1, <3>1, <4>1
    <3>5. /\ UsageOf(us2, b) \in AccountUsage
          /\ from'.object = 1 => UsageOf(us2, b) = usage'[b]
      BY <1>7, <1>8, <2>1, <3>1, <3>2
    <3> HIDE DEF o, a, u, w
    <3> QED
      BY <3>3, <3>4, <3>5
  <2>2. CASE b # a
    <3>1. UsageOf(us2, b) = UsageOf(us, b) /\ usage'[b] = usage[b]
      BY <1>1, <2>2 DEF UsageSet, TypeOK
    <3>2. SeenBytes(b)' = SeenBytes(b) /\ SeenCosts(b)' = SeenCosts(b)
      BY <1>4, <1>5, <1>6, <2>2, SameSeenTotals
    <3> QED
      BY <3>1, <3>2 DEF UsageMirrored
  <2> QED
    BY <2>1, <2>2
<1>12. DOMAIN us2 \subseteq Account
  BY <1>2 DEF UsageMirrored, UsageSet
<1> HIDE DEF o, a, u, w
<1> QED
  BY <1>11, <1>12 DEF UsageMirrored

\* What opens or closes no upload and counts nothing changes no counter.
LEMMA SameUsageMirrored ==
  ASSUME usage' = usage, from' = from, nextObjectId' = nextObjectId,
         \A o \in ObjectId :
           /\ objects'[o].accountId = objects[o].accountId
           /\ Live(objects'[o].status) <=> Live(objects[o].status)
           /\ RequestedBytes(objects'[o]) = RequestedBytes(objects[o])
           /\ objects'[o].reservedCost = objects[o].reservedCost,
         NEW us, UsageMirrored(us)
  PROVE  UsageMirrored(us)'
<1>1. ASSUME NEW a
      PROVE  SeenBytes(a)' = SeenBytes(a) /\ SeenCosts(a)' = SeenCosts(a)
  <2>1. \A o \in ObjectId : o \in SeenLive(a)' <=> o \in SeenLive(a)
    BY DEF SeenLive, Seen
  <2>2. SeenBytes(a)' = SeenBytes(a)
    BY <2>1 DEF SeenBytes, RequestedBytes
  <2> QED
    BY <2>1, <2>2 DEF SeenCosts
<1>2. ASSUME NEW a \in Account
      PROVE  /\ UsageOf(us, a) \in AccountUsage
             /\ from'.object = 1 => UsageOf(us, a) = usage'[a]
             /\ UsageOf(us, a).pendingBytes = Total(SeenBytes(a)')
             /\ UsageOf(us, a).reservedCost <= Total(SeenCosts(a)')
  BY <1>1 DEF UsageMirrored
<1> QED
  BY <1>2 DEF UsageMirrored

-----------------------------------------------------------------------------
(* The invariant: folding what is pending shows the registry as it is *)

Mirrored(ob, us, co, pa, ds, cs, rs, ks) ==
  /\ RowsMirrored(ob) /\ UsageMirrored(us)
  /\ ReceiptsMirrored(co, pa) /\ KeysMirrored(ks)
  /\ CoordinatorsMirrored(cs) /\ RelayersMirrored(rs) /\ DatasetsMirrored(ds)

Shows(m) ==
  \E ob, us, co, pa, ds, cs, rs, ks :
    /\ ModelIs(m, ob, us, co, pa, ds, cs, rs, ks)
    /\ Mirrored(ob, us, co, pa, ds, cs, rs, ks)

PendingShows ==
  /\ FromOK
  /\ \E S : pending \in Seq(S)
  /\ \E m : m = ApplyInTurn(pending, model) /\ Shows(m)

NothingProjected == pending = <<>> /\ model = CreateRegistryReadModel

ProjectionInv == IF Started THEN PendingShows ELSE NothingProjected

\* What the contract's own theorems say of its state.
RegistryInv ==
  /\ TypeOK /\ IndexMatchesStatus /\ IdempotencyKeyNamesOneUpload
  /\ LedgerMatchesUploads /\ TermsInv

LEMMA PutRow ==
  ASSUME NEW ob, NEW o, NEW row
  PROVE  /\ DOMAIN Put(ob, o, row) = DOMAIN ob \cup {o}
         /\ RowOf(Put(ob, o, row), o) = row
         /\ \A q : q # o => RowOf(Put(ob, o, row), q) = RowOf(ob, q)
BY DEF Put, RowOf, Lookup

\* What an upload that is not new changes of its object leaves its key, its
\* receipt and the administration alone.
LEMMA OthersAfterUpload ==
  ASSUME TypeOK, NEW o \in ObjectId, NEW done, objects' = [objects EXCEPT ![o] = done],
         done.accountId = objects[o].accountId,
         done.idempotencyKey = objects[o].idempotencyKey,
         nextObjectId' = nextObjectId, from' = from, UNCHANGED <<adminVars, datasetVars>>,
         NEW ob, NEW us, NEW co, NEW pa, NEW ds, NEW cs, NEW rs, NEW ks,
         Mirrored(ob, us, co, pa, ds, cs, rs, ks)
  PROVE  /\ receipts' = receipts => ReceiptsMirrored(co, pa)'
         /\ KeysMirrored(ks)' /\ CoordinatorsMirrored(cs)'
         /\ RelayersMirrored(rs)' /\ DatasetsMirrored(ds)'
<1>1. \A q \in ObjectId : /\ objects'[q].accountId = objects[q].accountId
                          /\ objects'[q].idempotencyKey = objects[q].idempotencyKey
  BY DEF TypeOK
<1>2. receipts' = receipts => ReceiptsMirrored(co, pa)'
  BY <1>1, SameTermsMirrored DEF Mirrored
<1>3. KeysMirrored(ks)'
  <2>1. \A q \in ObjectId : Seen(q)' =>
          LET key == <<objects'[q].accountId, objects'[q].idempotencyKey>>
          IN  key \in DOMAIN ks /\ ks[key] = q
    BY <1>1 DEF Mirrored, KeysMirrored, Seen
  <2> QED
    BY <2>1 DEF KeysMirrored
<1>4. CoordinatorsMirrored(cs)' /\ RelayersMirrored(rs)' /\ DatasetsMirrored(ds)'
  BY SameAdminMirrored DEF Mirrored, adminVars, datasetVars
<1> QED
  BY <1>2, <1>3, <1>4

\* Shows is opened by none of the lemmas on single transactions: each of its
\* parts has been established above.
LEMMA RequestShows ==
  ASSUME RegistryInv, TypeOK', FromOK, from' = from, NEW m, Shows(m),
         NEW caller, NEW p \in Requests, NEW signer,
         RequestUpload(caller, p, signer), NEW events, events = RequestedEvents(p)
  PROVE  Shows(ApplyInTurn(events, m))'
<1>1. PICK ob, us, co, pa, ds, cs, rs, ks :
        /\ ModelIs(m, ob, us, co, pa, ds, cs, rs, ks)
        /\ Mirrored(ob, us, co, pa, ds, cs, rs, ks)
  BY DEF Shows
<1>2. PICK o, expiry : o = nextObjectId /\ expiry = ExpiryOf(p)
  OBVIOUS
<1>3. PICK e1, e2 :
        /\ e1 = [name |-> "UsageReserved", accountId |-> p.accountId,
                 objectId |-> o, reservedCost |-> p.maxCost]
        /\ e2 = [name |-> "UploadRequested", objectId |-> o,
                 accountId |-> p.accountId, user |-> p.user,
                 idempotencyKey |-> p.idempotencyKey, size |-> p.size,
                 requestedCopies |-> p.requestedCopies, maxCost |-> p.maxCost,
                 requestExpiresAt |-> expiry]
  OBVIOUS
<1>4. events = <<e1, e2>>
  <2> DEFINE q == [p EXCEPT !.requestExpiresAt = expiry]
  <2>1. p \in RequestUploadParams
    BY ConstantsAssumption
  <2>2. /\ q.accountId = p.accountId /\ q.maxCost = p.maxCost /\ q.user = p.user
        /\ q.idempotencyKey = p.idempotencyKey /\ q.size = p.size
        /\ q.requestedCopies = p.requestedCopies /\ q.requestExpiresAt = expiry
    BY <2>1 DEF RequestUploadParams
  <2>3. events = RequestEvents(q)
    BY <1>2 DEF RequestedEvents
  <2> HIDE DEF q
  <2> QED
    BY <1>2, <1>3, <2>2, <2>3 DEF RequestEvents
<1>5. PICK us2 :
        /\ UsageSet(us, us2, p.accountId,
             RequestedUsage(ReservedUsage(UsageOf(us, p.accountId), e1.reservedCost),
                            e2.size * e2.requestedCopies))
        /\ ModelIs(ApplyInTurn(<<e1, e2>>, m),
                   Put(ob, e2.objectId, RequestedRow(e2)), us2, co, pa, ds, cs, rs,
                   Put(ks, <<p.accountId, e2.idempotencyKey>>, e2.objectId))
  <2>1. /\ e1.name = "UsageReserved" /\ e2.name = "UploadRequested"
        /\ e1.accountId = p.accountId /\ e2.accountId = p.accountId
    BY <1>3
  <2> QED
    BY <1>1, <2>1, FoldRequest
<1>6. /\ e1.reservedCost = p.maxCost /\ e2.size * e2.requestedCopies = RequestedBytes(p)
      /\ e2.objectId = o /\ e2.idempotencyKey = p.idempotencyKey
  BY <1>3 DEF RequestedBytes
<1>7. TypeOK /\ IssuedInOrder /\ IdempotencyKeyNamesOneUpload
  BY DEF RegistryInv, IndexMatchesStatus
<1>8. /\ RowsMirrored(ob) /\ UsageMirrored(us) /\ ReceiptsMirrored(co, pa)
      /\ KeysMirrored(ks) /\ CoordinatorsMirrored(cs) /\ RelayersMirrored(rs)
      /\ DatasetsMirrored(ds)
  BY <1>1 DEF Mirrored
<1>9. RowsMirrored(Put(ob, o, RequestedRow(e2)))'
  BY <1>2, <1>3, <1>7, <1>8, RowsAfterRequest
<1>10. UsageMirrored(us2)'
  BY <1>5, <1>6, <1>7, <1>8, UsageAfterRequest
<1>11. ReceiptsMirrored(co, pa)'
  <2>1. nextObjectId \in ObjectId /\ nextObjectId' = nextObjectId + 1
        /\ receipts' = receipts
    BY <1>7, MaxObjectsAssumption DEF RequestUpload, RequestAccepted, TypeOK, ObjectId
  <2> QED
    BY <1>7, <1>8, <2>1, ReceiptsAfterRequest
<1>12. KeysMirrored(Put(ks, <<p.accountId, p.idempotencyKey>>, o))'
  BY <1>2, <1>7, <1>8, KeysAfterRequest
<1>13. CoordinatorsMirrored(cs)' /\ RelayersMirrored(rs)' /\ DatasetsMirrored(ds)'
  BY <1>8, SameAdminMirrored DEF RequestUpload, RequestAccepted, adminVars, datasetVars
<1> QED
  BY <1>4, <1>5, <1>6, <1>9, <1>10, <1>11, <1>12, <1>13 DEF Shows, Mirrored, ModelIs

LEMMA StartShows ==
  ASSUME RegistryInv, from' = from, NEW m, Shows(m), NEW o \in ObjectId,
         NEW c \in Address, StartUpload(c, o), NEW e,
         e = [name |-> "UploadStarted", objectId |-> o, coordinator |-> c]
  PROVE  Shows(ApplyInTurn(<<e>>, m))'
<1>0. PICK done : done = [objects[o] EXCEPT !.status = "Uploading", !.coordinator = c]
  OBVIOUS
<1>1. PICK ob, us, co, pa, ds, cs, rs, ks :
        /\ ModelIs(m, ob, us, co, pa, ds, cs, rs, ks)
        /\ Mirrored(ob, us, co, pa, ds, cs, rs, ks)
  BY DEF Shows
<1>2. TypeOK /\ objects[o] \in StorageObject
  BY DEF RegistryInv, TypeOK
<1>3. PICK row : row = Patched(RowOf(ob, o), [status |-> "Uploading", coordinator |-> c])
  OBVIOUS
<1>4. ModelIs(ApplyInTurn(<<e>>, m), Put(ob, o, row), us, co, pa, ds, cs, rs, ks)
  <2>1. e.name = "UploadStarted" /\ e.objectId = o /\ e.coordinator = c
    OBVIOUS
  <2>2. ModelIs(ApplyRegistryEvent(m, e), Put(ob, o, row), us, co, pa, ds, cs, rs, ks)
    BY <1>1, <1>3, <2>1, EffectsOfRows
  <2> QED
    BY <2>2, FoldOne
<1>5. /\ objects' = [objects EXCEPT ![o] = done] /\ objects[o].status = "Requested"
      /\ nextObjectId' = nextObjectId /\ receipts' = receipts /\ usage' = usage
      /\ UNCHANGED <<adminVars, datasetVars>>
  BY <1>0, <1>2 DEF StartUpload, StartAccepted, TypeOK, requestVars
<1>6. /\ done.accountId = objects[o].accountId /\ done.status = "Uploading"
      /\ done.idempotencyKey = objects[o].idempotencyKey
      /\ done.size = objects[o].size /\ done.reservedCost = objects[o].reservedCost
      /\ done.requestedCopies = objects[o].requestedCopies
  BY <1>0, <1>2 DEF StorageObject
<1>7. RowsMirrored(Put(ob, o, row))'
  <2>1. RowMirrors(RowOf(ob, o), objects[o], receipts[o])
           => RowMirrors(row, done, receipts'[o])
    BY <1>0, <1>2, <1>3, <1>5, StartPatchMirrors
  <2>2. {"size", "reservedCost"} \cap DOMAIN RowOf(ob, o) = {}
          => {"size", "reservedCost"} \cap DOMAIN row = {}
    BY <1>3 DEF Patched
  <2>3. RowsMirrored(ob)
    BY <1>1 DEF Mirrored
  <2>4. PICK ob2 : ob2 = Put(ob, o, row)
    OBVIOUS
  <2>5. /\ DOMAIN ob2 = DOMAIN ob \cup {o} /\ RowOf(ob2, o) = row
        /\ \A q : q # o => RowOf(ob2, q) = RowOf(ob, q)
    BY <2>4 DEF Put, RowOf, Lookup
  <2>. o \in IssuedIds
    BY <1>2, <1>5 DEF RegistryInv, IndexMatchesStatus, IssuedInOrder, IssuedIds, NoObject
  <2>6. RowsMirrored(ob2)'
    BY <1>2, <1>5, <2>1, <2>2, <2>3, <2>5, RowsAfterPatch
  <2> QED
    BY <2>4, <2>6
<1>8. UsageMirrored(us)'
  <2>1. \A q \in ObjectId :
           /\ objects'[q].accountId = objects[q].accountId
           /\ Live(objects'[q].status) <=> Live(objects[q].status)
           /\ RequestedBytes(objects'[q]) = RequestedBytes(objects[q])
           /\ objects'[q].reservedCost = objects[q].reservedCost
    BY <1>2, <1>5, <1>6 DEF TypeOK, RequestedBytes, Live
  <2>2. UsageMirrored(us)
    BY <1>1 DEF Mirrored
  <2> QED
    BY <1>5, <2>1, <2>2, SameUsageMirrored
<1>9. /\ ReceiptsMirrored(co, pa)' /\ KeysMirrored(ks)'
      /\ CoordinatorsMirrored(cs)' /\ RelayersMirrored(rs)' /\ DatasetsMirrored(ds)'
  BY <1>1, <1>2, <1>5, <1>6, OthersAfterUpload
<1> QED
  BY <1>4, <1>7, <1>8, <1>9 DEF Shows, Mirrored, ModelIs

LEMMA IssuedMutable ==
  ASSUME TypeOK, IssuedInOrder, NEW o \in ObjectId, MutableObject(o)
  PROVE  o < nextObjectId /\ o \in IssuedIds /\ objects[o].accountId \in Account
<1>1. o \in LiveIds
  BY LiveIsMutable
<1> QED
  BY <1>1 DEF LiveIds, IssuedInOrder, IssuedIds, NoObject, Live

\* Cancelled or expired.
LEMMA ClosingShows ==
  ASSUME RegistryInv, TypeOK', FromOK, from' = from, NEW m, Shows(m),
         NEW o \in ObjectId, MutableObject(o), NEW name, NEW status,
         \/ name = "UploadCancelled" /\ status = "Cancelled"
         \/ name = "UploadExpired" /\ status = "Expired",
         CloseUnsettled(o, status), NEW events, events = ClosingEvents(o, name)
  PROVE  Shows(ApplyInTurn(events, m))'
<1>0. PICK done : done = [objects[o] EXCEPT !.status = status]
  OBVIOUS
<1>1. PICK ob, us, co, pa, ds, cs, rs, ks :
        /\ ModelIs(m, ob, us, co, pa, ds, cs, rs, ks)
        /\ Mirrored(ob, us, co, pa, ds, cs, rs, ks)
  BY DEF Shows
<1>2. TypeOK /\ IssuedInOrder /\ objects[o] \in StorageObject
  BY DEF RegistryInv, IndexMatchesStatus, TypeOK
<1>3. PICK a, cost : a = objects[o].accountId /\ cost = objects[o].reservedCost
  OBVIOUS
<1>4. cost \in Nat
  BY <1>2, <1>3 DEF StorageObject
<1>5. PICK e1, e2 :
        /\ e1 = [name |-> "UsageReleased", accountId |-> a, objectId |-> o,
                 releasedCost |-> cost]
        /\ e2 = [name |-> name, objectId |-> o]
  OBVIOUS
<1>6. events = <<e1, e2>>
  BY <1>3, <1>4, <1>5 DEF ClosingEvents, UsageReleased
<1>7. PICK row, v : /\ row = Patched(RowOf(ob, o), [status |-> status])
                    /\ v = ReleasedUsage(UsageOf(us, a), RowOf(ob, o), cost)
  OBVIOUS
<1>8. PICK us2 :
        /\ UsageSet(us, us2, a, v)
        /\ ModelIs(ApplyInTurn(<<e1, e2>>, m), Put(ob, o, row), us2, co, pa, ds, cs, rs, ks)
  <2>1. /\ e1.name = "UsageReleased" /\ e1.accountId = a /\ e1.objectId = o
        /\ e1.releasedCost = cost /\ e2.objectId = o /\ e2.name = name
    BY <1>5
  <2> QED
    BY <1>1, <1>7, <2>1, FoldClosing
<1>9. /\ objects' = [objects EXCEPT ![o] = done]
      /\ usage' = [usage EXCEPT ![a] = ReleaseUsage(@, objects[o])]
      /\ Releasable(usage[a], objects[o])
      /\ nextObjectId' = nextObjectId /\ receipts' = receipts
      /\ UNCHANGED <<adminVars, datasetVars>>
  BY <1>0, <1>2, <1>3 DEF CloseUnsettled, TypeOK, requestVars
<1>10. /\ done.accountId = objects[o].accountId
       /\ done.idempotencyKey = objects[o].idempotencyKey
       /\ ~Live(done.status)
  BY <1>0, <1>2 DEF StorageObject, Live
<1>11. RowsMirrored(Put(ob, o, row))'
  <2>1. RowMirrors(RowOf(ob, o), objects[o], receipts[o])
           => RowMirrors(row, done, receipts'[o])
    BY <1>0, <1>2, <1>7, <1>9, StatusPatchMirrors
  <2>2. {"size", "reservedCost"} \cap DOMAIN RowOf(ob, o) = {}
          => {"size", "reservedCost"} \cap DOMAIN row = {}
    BY <1>7 DEF Patched
  <2>3. RowsMirrored(ob)
    BY <1>1 DEF Mirrored
  <2>4. PICK ob2 : ob2 = Put(ob, o, row)
    OBVIOUS
  <2>5. /\ DOMAIN ob2 = DOMAIN ob \cup {o} /\ RowOf(ob2, o) = row
        /\ \A q : q # o => RowOf(ob2, q) = RowOf(ob, q)
    BY <2>4 DEF Put, RowOf, Lookup
  <2>. o \in IssuedIds
    BY <1>2, <1>3, IssuedMutable
  <2>6. RowsMirrored(ob2)'
    BY <1>2, <1>9, <2>1, <2>2, <2>3, <2>5, RowsAfterPatch
  <2> QED
    BY <2>4, <2>6
<1>12. UsageMirrored(us2)'
  <2>1. a \in Account
    BY <1>2, <1>3, IssuedMutable
  <2>2. /\ usage'[a] = ReleaseUsage(usage[a], objects[o])
        /\ \A b \in Account \ {a} : usage'[b] = usage[b]
    BY <1>2, <1>9, <2>1 DEF TypeOK
  <2>3. UsageMirrored(us) /\ RowsMirrored(ob)
    BY <1>1 DEF Mirrored
  <2>4. Closes(o, a, done)
    BY <1>3, <1>9, <1>10, <2>2 DEF Closes
  <2>5. CountsClosing(us, us2, RowOf(ob, o), cost, o, a, v)
    BY <1>7, <1>8, <2>2 DEF CountsClosing
  <2> QED
    BY <1>2, <1>4, <2>3, <2>4, <2>5, UsageAfterClosing
<1>13. /\ ReceiptsMirrored(co, pa)' /\ KeysMirrored(ks)'
       /\ CoordinatorsMirrored(cs)' /\ RelayersMirrored(rs)' /\ DatasetsMirrored(ds)'
  BY <1>1, <1>2, <1>9, <1>10, OthersAfterUpload
<1> QED
  BY <1>6, <1>8, <1>11, <1>12, <1>13 DEF Shows, Mirrored, ModelIs

LEMMA FailureShows ==
  ASSUME RegistryInv, TypeOK', FromOK, from' = from, NEW m, Shows(m),
         NEW o \in ObjectId, NEW c \in Address, NEW charge \in FailureCharges,
         FailUpload(c, o, charge), NEW events, events = FailureEvents(o, charge)
  PROVE  Shows(ApplyInTurn(events, m))'
<1>0. PICK done : done = [objects[o] EXCEPT !.status = "Failed", !.coordinator = c,
                                            !.actualCost = charge]
  OBVIOUS
<1>1. PICK ob, us, co, pa, ds, cs, rs, ks :
        /\ ModelIs(m, ob, us, co, pa, ds, cs, rs, ks)
        /\ Mirrored(ob, us, co, pa, ds, cs, rs, ks)
  BY DEF Shows
<1>2. TypeOK /\ IssuedInOrder /\ objects[o] \in StorageObject /\ charge \in Nat
  BY ConstantsAssumption DEF RegistryInv, IndexMatchesStatus, TypeOK
<1>3. PICK a, cost : a = objects[o].accountId /\ cost = objects[o].reservedCost - charge
  OBVIOUS
<1>4. cost \in Nat
  BY <1>2, <1>3 DEF StorageObject, FailUpload, FailureChargeAllowed
<1>5. PICK e1, e2 :
        /\ e1 = [name |-> "UsageReleased", accountId |-> a, objectId |-> o,
                 releasedCost |-> cost]
        /\ e2 = [name |-> "UploadFailed", objectId |-> o, accountId |-> a,
                 chargedCost |-> charge]
  OBVIOUS
<1>6. events = <<e1, e2>>
  BY <1>3, <1>5 DEF FailureEvents, UsageReleased
<1>7. PICK row, v, w :
        /\ row = Patched(RowOf(ob, o), [status |-> "Failed", actualCost |-> charge])
        /\ v = ReleasedUsage(UsageOf(us, a), RowOf(ob, o), cost)
        /\ w = FailedUsage(v, charge)
  OBVIOUS
<1>8. PICK us2 :
        /\ UsageSet(us, us2, a, w)
        /\ ModelIs(ApplyInTurn(<<e1, e2>>, m), Put(ob, o, row), us2, co, pa, ds, cs, rs, ks)
  <2>1. /\ e1.name = "UsageReleased" /\ e1.accountId = a /\ e1.objectId = o
        /\ e1.releasedCost = cost /\ e2.objectId = o /\ e2.name = "UploadFailed"
        /\ e2.accountId = a /\ e2.chargedCost = charge
    BY <1>5
  <2> QED
    BY <1>1, <1>7, <2>1, FoldFailure
<1>9. /\ objects' = [objects EXCEPT ![o] = done]
      /\ usage' = [usage EXCEPT ![a] =
                     OutcomeUsage(ChargeUsage(ReleaseUsage(@, objects[o]), charge), done)]
      /\ Releasable(usage[a], objects[o]) /\ MutableObject(o)
      /\ nextObjectId' = nextObjectId /\ receipts' = receipts
      /\ UNCHANGED <<adminVars, datasetVars>>
  BY <1>0, <1>2, <1>3 DEF FailUpload, requestVars
<1>10. /\ done.accountId = objects[o].accountId
       /\ done.idempotencyKey = objects[o].idempotencyKey
       /\ done.status = "Failed" /\ ~Live(done.status)
  BY <1>0, <1>2 DEF StorageObject, Live
<1>11. RowsMirrored(Put(ob, o, row))'
  <2>1. RowMirrors(RowOf(ob, o), objects[o], receipts[o])
           => RowMirrors(row, done, receipts'[o])
    BY <1>0, <1>2, <1>7, <1>9, FailurePatchMirrors
  <2>2. {"size", "reservedCost"} \cap DOMAIN RowOf(ob, o) = {}
          => {"size", "reservedCost"} \cap DOMAIN row = {}
    BY <1>7 DEF Patched
  <2>3. RowsMirrored(ob)
    BY <1>1 DEF Mirrored
  <2>4. PICK ob2 : ob2 = Put(ob, o, row)
    OBVIOUS
  <2>5. /\ DOMAIN ob2 = DOMAIN ob \cup {o} /\ RowOf(ob2, o) = row
        /\ \A q : q # o => RowOf(ob2, q) = RowOf(ob, q)
    BY <2>4 DEF Put, RowOf, Lookup
  <2>. o \in IssuedIds
    BY <1>2, <1>3, <1>9, IssuedMutable
  <2>6. RowsMirrored(ob2)'
    BY <1>2, <1>9, <2>1, <2>2, <2>3, <2>5, RowsAfterPatch
  <2> QED
    BY <2>4, <2>6
<1>12. UsageMirrored(us2)'
  <2>1. a \in Account
    BY <1>2, <1>3, <1>9, IssuedMutable
  <2>2. /\ usage'[a] = OutcomeUsage(ChargeUsage(ReleaseUsage(usage[a], objects[o]),
                                                charge), done)
        /\ \A b \in Account \ {a} : usage'[b] = usage[b]
    BY <1>2, <1>9, <2>1 DEF TypeOK
  <2>3. UsageMirrored(us) /\ RowsMirrored(ob)
    BY <1>1 DEF Mirrored
  <2>4. v \in AccountUsage =>
          /\ w = OutcomeUsage(ChargeUsage(v, charge), done) /\ w \in AccountUsage
          /\ w.pendingBytes = v.pendingBytes /\ w.reservedCost = v.reservedCost
    BY <1>2, <1>7, <1>10, FailedIsOutcome
  <2>5. Closes(o, a, done)
    BY <1>3, <1>9, <1>10, <2>2 DEF Closes
  <2>6. CountsClosing(us, us2, RowOf(ob, o), cost, o, a, w)
    BY <1>7, <1>8, <2>2, <2>4 DEF CountsClosing
  <2> QED
    BY <1>2, <1>4, <2>3, <2>5, <2>6, UsageAfterClosing
<1>13. /\ ReceiptsMirrored(co, pa)' /\ KeysMirrored(ks)'
       /\ CoordinatorsMirrored(cs)' /\ RelayersMirrored(rs)' /\ DatasetsMirrored(ds)'
  BY <1>1, <1>2, <1>9, <1>10, OthersAfterUpload
<1> QED
  BY <1>6, <1>8, <1>11, <1>12, <1>13 DEF Shows, Mirrored, ModelIs

LEMMA FinalizationShows ==
  ASSUME RegistryInv, TypeOK', FromOK, from' = from, NEW m, Shows(m),
         NEW o \in ObjectId, NEW c \in Address, NEW r \in Receipts,
         FinalizeUpload(c, o, r), NEW events, events = FinalizationEvents(o, r)
  PROVE  Shows(ApplyInTurn(events, m))'
<1>0. PICK done : done = FinalizedObject(objects[o], c, r)
  OBVIOUS
<1>1. PICK ob, us, co, pa, ds, cs, rs, ks :
        /\ ModelIs(m, ob, us, co, pa, ds, cs, rs, ks)
        /\ Mirrored(ob, us, co, pa, ds, cs, rs, ks)
  BY DEF Shows
<1>2. /\ TypeOK /\ IssuedInOrder /\ objects[o] \in StorageObject
      /\ Terms(objects[o])
  BY DEF RegistryInv, IndexMatchesStatus, TypeOK, TermsInv
<1>3. /\ r.finalizationStatus \in FinalizationStatus /\ r.actualCost \in Nat
      /\ r.completedCopies \in Nat /\ r.copies \in Nat
  BY ConstantsAssumption DEF UploadReceipt
<1>4. /\ MutableObject(o) /\ ValidReceipt(objects[o], r) /\ CopiesMatchStatus(objects[o], r)
      /\ r.actualCost <= objects[o].reservedCost
      /\ Releasable(usage[objects[o].accountId], objects[o])
      /\ objects' = [objects EXCEPT ![o] = done]
      /\ receipts' = [receipts EXCEPT ![o] = [payer  |-> r.payer,
                                              copies |-> @.copies + r.copies]]
      /\ usage' = [usage EXCEPT ![objects[o].accountId] =
                     OutcomeUsage(ChargeUsage(ReleaseUsage(@, objects[o]),
                                              r.actualCost), done)]
      /\ nextObjectId' = nextObjectId
      /\ UNCHANGED <<adminVars, datasetVars>>
  BY <1>0 DEF FinalizeUpload, ReceiptAccepted, requestVars
<1>5. r.payer # Zero
  BY <1>4 DEF ValidReceipt
<1>6. /\ done = [objects[o] EXCEPT !.status = r.finalizationStatus, !.coordinator = c,
                                   !.completedCopies = r.completedCopies,
                                   !.actualCost = r.actualCost]
      /\ done.accountId = objects[o].accountId /\ done.size = objects[o].size
      /\ done.idempotencyKey = objects[o].idempotencyKey
      /\ done.status = r.finalizationStatus
      /\ done.completedCopies = r.completedCopies
      /\ ~Live(done.status)
  BY <1>0, <1>2, <1>3 DEF FinalizedObject, StorageObject, FinalizationStatus, Live
<1>7. PICK a, cost, delta :
        /\ a = objects[o].accountId
        /\ cost = objects[o].reservedCost - r.actualCost
        /\ delta = IF Stored(r.finalizationStatus)
                   THEN objects[o].size * r.completedCopies ELSE 0
  OBVIOUS
<1>8. cost \in Nat
  BY <1>2, <1>3, <1>4, <1>7 DEF StorageObject
<1>9. PICK s, e1, e2, e3, e4 :
        /\ s = [i \in 1..r.copies |-> [name |-> "CopyRecorded", objectId |-> o,
                                       dataset |-> CopyDataset[i]]]
        /\ e1 = [name |-> "UsageReleased", accountId |-> a, objectId |-> o,
                 releasedCost |-> cost]
        /\ e2 = [name |-> "UsageFinalized", accountId |-> a, objectId |-> o,
                 actualCost |-> r.actualCost, activeBytesDelta |-> delta]
        /\ e3 = [name |-> "ReceiptPayerRecorded", objectId |-> o, payer |-> r.payer]
        /\ e4 = [name |-> "UploadFinalized", objectId |-> o, accountId |-> a,
                 finalizationStatus |-> r.finalizationStatus,
                 completedCopies |-> r.completedCopies, actualCost |-> r.actualCost]
  OBVIOUS
<1>10. events = s \o <<e1, e2, e3, e4>>
  BY <1>7, <1>9 DEF FinalizationEvents, UsageReleased
<1>11. PICK S : s \in Seq(S) /\ <<e1, e2, e3, e4>> \in Seq(S)
  <2> DEFINE S == {s[i] : i \in 1..r.copies} \cup {e1, e2, e3, e4}
  <2>1. s \in [1..r.copies -> S]
    BY <1>9
  <2>2. s \in Seq(S)
    BY <1>3, <2>1
  <2>3. <<e1, e2, e3, e4>> \in Seq(S)
    OBVIOUS
  <2> QED
    BY <2>2, <2>3
<1>12. PICK co2 :
        /\ CopiesAdded(co, co2, o, r.copies, RecordedCopies)
        /\ ModelIs(ApplyInTurn(s, m), ob, us, co2, pa, ds, cs, rs, ks)
  <2>1. Len(s) = r.copies /\ Len(s) \in Nat
    BY <1>3, <1>9
  <2>2. \A i \in 1..Len(s) : /\ s[i].name = "CopyRecorded" /\ s[i].objectId = o
                             /\ s[i].dataset \in RecordedCopies
    BY <1>3, <1>9, <2>1 DEF RecordedCopies
  <2>3. Lookup(co, o, <<>>) \in Seq(RecordedCopies)
    BY <1>1 DEF Mirrored, ReceiptsMirrored
  <2> QED
    BY <1>1, <2>1, <2>2, <2>3, FoldCopies
<1>13. PICK v, w, row0, row :
        /\ v = ReleasedUsage(UsageOf(us, a), RowOf(ob, o), cost)
        /\ w = FinishedUsage(ChargedUsage(v, r.actualCost, delta), r.finalizationStatus)
        /\ row0 = Patched(RowOf(ob, o), [receiptPayer |-> r.payer])
        /\ row = Patched(row0, [status |-> r.finalizationStatus,
                                completedCopies |-> r.completedCopies,
                                actualCost |-> r.actualCost, receiptHash |-> TRUE])
  OBVIOUS
<1>14. PICK ob2 : ob2 = Put(Put(ob, o, row0), o, row)
  OBVIOUS
<1>15. PICK us2 :
        /\ UsageSet(us, us2, a, w)
        /\ ModelIs(ApplyInTurn(<<e1, e2, e3, e4>>, ApplyInTurn(s, m)),
                   ob2, us2, co2, Put(pa, o, r.payer), ds, cs, rs, ks)
  <2>1. /\ e1.name = "UsageReleased" /\ e2.name = "UsageFinalized"
        /\ e3.name = "ReceiptPayerRecorded" /\ e4.name = "UploadFinalized"
        /\ e1.accountId = a /\ e2.accountId = a /\ e4.accountId = a
        /\ e1.objectId = o /\ e3.objectId = o /\ e4.objectId = o
        /\ e1.releasedCost = cost /\ e2.actualCost = r.actualCost
        /\ e2.activeBytesDelta = delta /\ e3.payer = r.payer
        /\ e4.finalizationStatus = r.finalizationStatus
        /\ e4.completedCopies = r.completedCopies /\ e4.actualCost = r.actualCost
    BY <1>9
  <2>2. \E us2 :
          /\ UsageSet(us, us2, a,
               FinishedUsage(
                 ChargedUsage(
                   ReleasedUsage(UsageOf(us, a), RowOf(ob, o), e1.releasedCost),
                   e2.actualCost, e2.activeBytesDelta),
                 e4.finalizationStatus))
          /\ ModelIs(ApplyInTurn(<<e1, e2, e3, e4>>, ApplyInTurn(s, m)),
                     Put(Put(ob, o, Patched(RowOf(ob, o), [receiptPayer |-> e3.payer])),
                         o, Patched(Patched(RowOf(ob, o), [receiptPayer |-> e3.payer]),
                              [status |-> e4.finalizationStatus,
                               completedCopies |-> e4.completedCopies,
                               actualCost |-> e4.actualCost, receiptHash |-> TRUE])),
                     us2, co2, Put(pa, o, e3.payer), ds, cs, rs, ks)
    BY <1>12, <2>1, FoldFinalization
  <2> QED
    BY <1>13, <1>14, <2>1, <2>2
<1>16. ApplyInTurn(events, m) = ApplyInTurn(<<e1, e2, e3, e4>>, ApplyInTurn(s, m))
  <2>1. PICK t : t = <<e1, e2, e3, e4>>
    OBVIOUS
  <2>2. t \in Seq(S) /\ events = s \o t
    BY <1>10, <1>11, <2>1
  <2>3. ApplyInTurn(s \o t, m) = ApplyInTurn(t, ApplyInTurn(s, m))
    BY <1>11, <2>2, FoldConcat
  <2> QED
    BY <2>1, <2>2, <2>3
<1>17. RowsMirrored(ob2)'
  <2>1. /\ receipts'[o].payer = r.payer
        /\ \A q \in ObjectId \ {o} : receipts'[q] = receipts[q]
    BY <1>2, <1>4 DEF TypeOK
  <2>2. RowMirrors(RowOf(ob, o), objects[o], receipts[o])
           => RowMirrors(row, done, receipts'[o])
    BY <1>2, <1>5, <1>6, <1>13, <2>1, FinalPatchMirrors DEF Live
  <2>. o \in IssuedIds
    BY <1>2, <1>4, IssuedMutable
  <2>3. {"size", "reservedCost"} \cap DOMAIN RowOf(ob, o) = {}
          => {"size", "reservedCost"} \cap DOMAIN row = {}
    BY <1>13 DEF Patched
  <2>4. /\ DOMAIN ob2 = DOMAIN ob \cup {o} /\ RowOf(ob2, o) = row
        /\ \A q : q # o => RowOf(ob2, q) = RowOf(ob, q)
    BY <1>14 DEF Put, RowOf, Lookup
  <2>5. RowsMirrored(ob)
    BY <1>1 DEF Mirrored
  <2> QED
    BY <1>2, <1>4, <2>1, <2>2, <2>3, <2>4, <2>5, RowsAfterPatch
<1>18. UsageMirrored(us2)'
  <2>1. a \in Account
    BY <1>2, <1>4, <1>7, IssuedMutable
  <2>2. /\ usage'[a] = OutcomeUsage(ChargeUsage(ReleaseUsage(usage[a], objects[o]),
                                                r.actualCost), done)
        /\ \A b \in Account \ {a} : usage'[b] = usage[b]
    BY <1>2, <1>4, <1>7, <2>1 DEF TypeOK
  <2>3. UsageMirrored(us) /\ RowsMirrored(ob)
    BY <1>1 DEF Mirrored
  <2>4. delta = IF Stored(done.status) THEN StoredBytes(done) ELSE 0
    BY <1>6, <1>7 DEF StoredBytes
  <2>5. Stored(done.status) => StoredBytes(done) \in Nat /\ StoredBytes(done) > 0
    <3>1. SUFFICES ASSUME Stored(done.status)
                   PROVE  StoredBytes(done) \in Nat /\ StoredBytes(done) > 0
      OBVIOUS
    <3>2. o \in LiveIds
      BY <1>2, <1>4, LiveIsMutable
    <3>3. objects[o].size # 0 /\ objects[o].requestedCopies # 0
      BY <1>2, <3>2 DEF Terms, LiveIds
    <3>4. r.completedCopies # 0
      BY <1>4, <1>6, <3>1, <3>3 DEF Stored, CopiesMatchStatus
    <3>5. objects[o].size \in Nat
      BY <1>2 DEF StorageObject
    <3>6. StoredBytes(done) = objects[o].size * r.completedCopies
      BY <1>6 DEF StoredBytes
    <3>7. \A x, y \in Nat : x # 0 /\ y # 0 => x * y \in Nat /\ x * y > 0
      OBVIOUS
    <3> QED
      BY <1>3, <3>3, <3>4, <3>5, <3>6, <3>7
  <2>6. done.status \in FinalizationStatus
    BY <1>3, <1>6
  <2>7. v \in AccountUsage =>
          /\ w = OutcomeUsage(ChargeUsage(v, r.actualCost), done) /\ w \in AccountUsage
          /\ w.pendingBytes = v.pendingBytes /\ w.reservedCost = v.reservedCost
    <3>1. w = FinishedUsage(ChargedUsage(v, r.actualCost, delta), done.status)
      BY <1>6, <1>13
    <3> QED
      BY <1>3, <2>4, <2>5, <2>6, <3>1, FinishedIsOutcome
  <2>8. Closes(o, a, done)
    BY <1>4, <1>6, <1>7, <2>2 DEF Closes
  <2>9. CountsClosing(us, us2, RowOf(ob, o), cost, o, a, w)
    BY <1>13, <1>15, <2>2, <2>7 DEF CountsClosing
  <2> QED
    BY <1>2, <1>8, <2>3, <2>8, <2>9, UsageAfterClosing
<1>19. ReceiptsMirrored(co2, Put(pa, o, r.payer))'
  <2>1. o < nextObjectId
    BY <1>2, <1>4, IssuedMutable
  <2>2. ReceiptsMirrored(co, pa)
    BY <1>1 DEF Mirrored
  <2> QED
    BY <1>2, <1>3, <1>4, <1>12, <2>1, <2>2, ReceiptsAfterFinalization
<1>20. /\ KeysMirrored(ks)'
       /\ CoordinatorsMirrored(cs)' /\ RelayersMirrored(rs)' /\ DatasetsMirrored(ds)'
  BY <1>1, <1>2, <1>4, <1>6, OthersAfterUpload
<1> QED
  BY <1>15, <1>16, <1>17, <1>18, <1>19, <1>20 DEF Shows, Mirrored, ModelIs

LEMMA AdministrationShows ==
  ASSUME RegistryInv, from' = from, NEW m, Shows(m), UNCHANGED uploadVars
  PROVE  /\ UNCHANGED <<adminVars, datasetVars>> => Shows(m)'
         /\ UNCHANGED <<coordinatorPolicies, coordinatorAddresses, relayers,
                        relayerAddresses, datasetVars>> => Shows(m)'
         /\ \A caller \in Address, c \in CoordinatorInputs, cp \in CoordinatorPolicies :
              SetCoordinator(caller, c, cp) =>
                \A e : e = [name |-> "CoordinatorUpdated", coordinator |-> c,
                            policy |-> cp] => Shows(ApplyInTurn(<<e>>, m))'
         /\ \A caller \in Address, r \in RelayerInputs, allowed \in BOOLEAN :
              SetRelayer(caller, r, allowed) =>
                \A e : e = [name |-> "RelayerUpdated", relayer |-> r,
                            allowed |-> allowed] => Shows(ApplyInTurn(<<e>>, m))'
         /\ \A caller \in Address, d \in DatasetInputs :
              RecordDataset(caller, d) =>
                \A e : e = [name |-> "DatasetRecorded", payer |-> d.payer,
                            key |-> <<d.accountId, d.dataset>>]
                         => Shows(ApplyInTurn(<<e>>, m))'
<1>1. PICK ob, us, co, pa, ds, cs, rs, ks :
        /\ ModelIs(m, ob, us, co, pa, ds, cs, rs, ks)
        /\ Mirrored(ob, us, co, pa, ds, cs, rs, ks)
  BY DEF Shows
<1>2. TypeOK
  BY DEF RegistryInv
<1>3. /\ RowsMirrored(ob)' /\ UsageMirrored(us)'
      /\ ReceiptsMirrored(co, pa)' /\ KeysMirrored(ks)'
  <2>1. /\ objects' = objects /\ receipts' = receipts /\ usage' = usage
        /\ nextObjectId' = nextObjectId
    BY DEF uploadVars, requestVars
  <2>2. UsageMirrored(us)'
    <3>1. UsageMirrored(us)
      BY <1>1 DEF Mirrored
    <3> QED
      BY <2>1, <3>1, SameUsageMirrored DEF RequestedBytes
  <2> QED
    BY <1>1, <2>1, <2>2, SameUploadsMirrored DEF Mirrored
<1>4. CoordinatorsMirrored(cs) /\ RelayersMirrored(rs) /\ DatasetsMirrored(ds)
  BY <1>1 DEF Mirrored
<1>5. /\ UNCHANGED <<coordinatorPolicies, coordinatorAddresses>> => CoordinatorsMirrored(cs)'
      /\ UNCHANGED <<relayers, relayerAddresses>> => RelayersMirrored(rs)'
      /\ UNCHANGED <<datasets, datasetKeys>> => DatasetsMirrored(ds)'
  BY <1>4, SameAdminMirrored
<1>6. UNCHANGED <<coordinatorPolicies, coordinatorAddresses, relayers,
                  relayerAddresses, datasetVars>> => Shows(m)'
  BY <1>1, <1>3, <1>5 DEF Shows, Mirrored, ModelIs, datasetVars
<1>7. UNCHANGED <<adminVars, datasetVars>> => Shows(m)'
  BY <1>6 DEF adminVars
<1>8. ASSUME NEW caller, NEW c \in CoordinatorInputs, NEW cp,
             SetCoordinator(caller, c, cp), NEW e,
             e = [name |-> "CoordinatorUpdated", coordinator |-> c, policy |-> cp]
      PROVE  Shows(ApplyInTurn(<<e>>, m))'
  <2>1. e.name = "CoordinatorUpdated" /\ e.coordinator = c /\ e.policy = cp
    BY <1>8
  <2>2. ModelIs(ApplyInTurn(<<e>>, m), ob, us, co, pa, ds, Put(cs, c, cp), rs, ks)
    <3>1. ModelIs(ApplyRegistryEvent(m, e), ob, us, co, pa, ds, Put(cs, c, cp), rs, ks)
      BY <1>1, <2>1, EffectsOfOthers
    <3> QED
      BY <3>1, FoldOne
  <2>3. CoordinatorsMirrored(Put(cs, c, cp))'
    BY <1>2, <1>4, <1>8, CoordinatorsAfter
  <2>4. RelayersMirrored(rs)' /\ DatasetsMirrored(ds)'
    BY <1>5, <1>8 DEF SetCoordinator, datasetVars
  <2> QED
    BY <1>3, <2>2, <2>3, <2>4 DEF Shows, Mirrored, ModelIs
<1>9. ASSUME NEW caller, NEW r \in RelayerInputs, NEW allowed \in BOOLEAN,
             SetRelayer(caller, r, allowed), NEW e,
             e = [name |-> "RelayerUpdated", relayer |-> r, allowed |-> allowed]
      PROVE  Shows(ApplyInTurn(<<e>>, m))'
  <2>1. e.name = "RelayerUpdated" /\ e.relayer = r /\ e.allowed = allowed
    BY <1>9
  <2>2. ModelIs(ApplyInTurn(<<e>>, m), ob, us, co, pa, ds, cs, Put(rs, r, allowed), ks)
    <3>1. ModelIs(ApplyRegistryEvent(m, e), ob, us, co, pa, ds, cs, Put(rs, r, allowed), ks)
      BY <1>1, <2>1, EffectsOfOthers
    <3> QED
      BY <3>1, FoldOne
  <2>3. RelayersMirrored(Put(rs, r, allowed))'
    BY <1>2, <1>4, <1>9, RelayersAfter
  <2>4. CoordinatorsMirrored(cs)' /\ DatasetsMirrored(ds)'
    BY <1>5, <1>9 DEF SetRelayer, datasetVars
  <2> QED
    BY <1>3, <2>2, <2>3, <2>4 DEF Shows, Mirrored, ModelIs
<1>10. ASSUME NEW caller, NEW d \in DatasetInputs, RecordDataset(caller, d), NEW e,
              e = [name |-> "DatasetRecorded", payer |-> d.payer,
                   key |-> <<d.accountId, d.dataset>>]
       PROVE  Shows(ApplyInTurn(<<e>>, m))'
  <2>1. /\ e.name = "DatasetRecorded" /\ e.key = <<d.accountId, d.dataset>>
        /\ e.payer = d.payer
    BY <1>10
  <2>2. ModelIs(ApplyInTurn(<<e>>, m), ob, us, co, pa,
                Put(ds, <<d.accountId, d.dataset>>, [payer |-> d.payer]), cs, rs, ks)
    <3>1. ModelIs(ApplyRegistryEvent(m, e), ob, us, co, pa,
                  Put(ds, <<d.accountId, d.dataset>>, [payer |-> d.payer]), cs, rs, ks)
      BY <1>1, <2>1, EffectsOfOthers
    <3> QED
      BY <3>1, FoldOne
  <2>3. DatasetsMirrored(Put(ds, <<d.accountId, d.dataset>>, [payer |-> d.payer]))'
    BY <1>2, <1>4, <1>10, DatasetsAfter
  <2>4. CoordinatorsMirrored(cs)' /\ RelayersMirrored(rs)'
    BY <1>5, <1>10 DEF RecordDataset, DatasetAccepted, adminVars
  <2> QED
    BY <1>3, <2>2, <2>3, <2>4 DEF Shows, Mirrored, ModelIs
<1> QED
  BY <1>6, <1>7, <1>8, <1>9, <1>10

\* The events that are not projected.
LEMMA OtherEventsIgnored ==
  ASSUME NEW m, NEW e, e.name \in {"OwnershipTransferred", "PolicyUpdated"}
  PROVE  ApplyInTurn(<<e>>, m) = m
<1>1. ApplyInTurn(<<e>>, m) = ApplyRegistryEvent(m, e)
  BY FoldOne
<1>2. ApplyRegistryEvent(m, e) = m
  BY DEF ApplyRegistryEvent
<1> QED
  BY <1>1, <1>2

-----------------------------------------------------------------------------
(* The indexer starts *)

\* An upload not yet requested has no receipt.
ReceiptsOfIssued ==
  \A o \in ObjectId : o >= nextObjectId => receipts[o] = [payer |-> Zero, copies |-> 0]

LEMMA ReceiptsOfIssuedStep ==
  ASSUME TypeOK, IssuedInOrder, ReceiptsOfIssued, [Next]_vars
  PROVE  ReceiptsOfIssued'
<1>1. ASSUME receipts' = receipts, nextObjectId' \in {nextObjectId, nextObjectId + 1}
      PROVE  ReceiptsOfIssued'
  <2>1. \A o \in ObjectId : o >= nextObjectId' => o >= nextObjectId
    BY <1>1 DEF TypeOK, ObjectId
  <2> QED
    BY <1>1, <2>1 DEF ReceiptsOfIssued
<1>2. ASSUME NEW o \in ObjectId, NEW c \in Address, NEW r \in Receipts,
             FinalizeUpload(c, o, r)
      PROVE  ReceiptsOfIssued'
  <2>1. /\ MutableObject(o) /\ nextObjectId' = nextObjectId
        /\ receipts' = [receipts EXCEPT ![o] = [payer  |-> r.payer,
                                                copies |-> @.copies + r.copies]]
    BY <1>2 DEF FinalizeUpload, ReceiptAccepted, requestVars
  <2>2. o < nextObjectId
    BY <2>1, IssuedMutable
  <2>3. \A q \in ObjectId : q >= nextObjectId => q # o
    BY <2>2 DEF TypeOK, ObjectId
  <2> QED
    BY <2>1, <2>3 DEF ReceiptsOfIssued, TypeOK
<1>3. CASE UNCHANGED uploadVars
  BY <1>1, <1>3 DEF uploadVars, requestVars
<1>4. CASE UNCHANGED vars
  BY <1>3, <1>4 DEF vars
<1>5. ASSUME NEW caller \in Address, NEW p \in Requests,
             NEW signer \in Address \cup {Zero}, RequestUpload(caller, p, signer)
      PROVE  ReceiptsOfIssued'
  BY <1>1, <1>5 DEF RequestUpload, RequestAccepted
<1>6. ASSUME NEW o \in ObjectId, NEW c \in Address,
             StartUpload(c, o) \/ \E charge \in FailureCharges : FailUpload(c, o, charge)
      PROVE  ReceiptsOfIssued'
  BY <1>1, <1>6 DEF StartUpload, StartAccepted, FailUpload, requestVars
<1>7. ASSUME NEW o \in ObjectId, NEW status, CloseUnsettled(o, status)
      PROVE  ReceiptsOfIssued'
  BY <1>1, <1>7 DEF CloseUnsettled, requestVars
<1> QED
  BY <1>2, <1>3, <1>4, <1>5, <1>6, <1>7
  DEF Next, Administration, CancelUpload, ExpireUpload, Tick, TransferOwnership,
      SetPolicy, SetCoordinator, SetRelayer, RecordDataset, DatasetAccepted

\* As long as nothing was requested no account has used anything.
LEMMA NothingYet ==
  ASSUME TypeOK, IssuedInOrder, LedgerMatchesUploads, nextObjectId = 1,
         NEW a \in Account
  PROVE  usage[a] = NewUsage
<1>1. \A o \in ObjectId : objects[o] = NoObject
  BY DEF IssuedInOrder, ObjectId
<1>2. \A o \in ObjectId : Book[o].account # a
  BY <1>1, ConstantsAssumption DEF Book, BookEntry, NoObject
<1>3. ASSUME NEW w, w \in [ObjectId -> {0}]
      PROVE  Ledger!Total(w) = 0
  <2>1. w \in [ObjectId -> Nat] /\ \A o \in ObjectId : w[o] = 0
    BY <1>3
  <2> QED
    BY <2>1, TotalZero, LedgerTotal
<1>4. Ledger!TotalsOf(Book)[a] =
        [pendingBytes |-> 0, reservedCost |-> 0, activeBytes |-> 0,
         actualCost |-> 0, requested |-> 0, finalized |-> 0, failed |-> 0]
  BY <1>2, <1>3 DEF Ledger!TotalsOf, Ledger!Part
<1>5. PublishedTotals[a] = Ledger!TotalsOf(Book)[a]
  BY DEF LedgerMatchesUploads
<1>6. PublishedTotals[a] =
        [pendingBytes |-> usage[a].pendingBytes,
         reservedCost |-> usage[a].reservedCost,
         activeBytes  |-> usage[a].activeBytes,
         actualCost   |-> usage[a].totalActualCost,
         requested    |-> usage[a].totalRequestedUploads,
         finalized    |-> usage[a].totalFinalizedUploads,
         failed       |-> usage[a].totalFailedUploads]
  BY DEF PublishedTotals
<1>7. /\ PublishedTotals[a].pendingBytes = 0 /\ PublishedTotals[a].reservedCost = 0
      /\ PublishedTotals[a].activeBytes = 0 /\ PublishedTotals[a].actualCost = 0
      /\ PublishedTotals[a].requested = 0 /\ PublishedTotals[a].finalized = 0
      /\ PublishedTotals[a].failed = 0
  BY <1>4, <1>5
<1>8. /\ usage[a].pendingBytes = 0 /\ usage[a].reservedCost = 0
      /\ usage[a].activeBytes = 0 /\ usage[a].totalActualCost = 0
      /\ usage[a].totalRequestedUploads = 0 /\ usage[a].totalFinalizedUploads = 0
      /\ usage[a].totalFailedUploads = 0
  BY <1>6, <1>7
<1>9. usage[a].totalUploadedBytes = 0 /\ usage[a].activeObjects = 0
  BY <1>8 DEF LedgerMatchesUploads
<1>10. usage[a] \in AccountUsage
  BY DEF TypeOK
<1> QED
  BY <1>8, <1>9, <1>10, UsageShape DEF NewUsage

LEMMA StartIndexingShows ==
  ASSUME RegistryInv, ReceiptsOfIssued, NothingProjected, StartIndexing
  PROVE  Started' /\ PendingShows'
<1>1. /\ TypeOK /\ IssuedInOrder /\ LedgerMatchesUploads
  BY DEF RegistryInv, IndexMatchesStatus
<1>2. /\ from' = [object |-> nextObjectId,
                  coordinators |-> Len(coordinatorAddresses),
                  relayers |-> Len(relayerAddresses), datasets |-> Len(datasetKeys)]
      /\ UNCHANGED vars /\ pending' = pending /\ model' = model
  BY DEF StartIndexing
<1>3. nextObjectId \in Nat \ {0} /\ nextObjectId' = nextObjectId
  BY <1>1, <1>2, MaxObjectsAssumption DEF TypeOK, vars, uploadVars, requestVars
<1>4. from'.object = nextObjectId /\ from'.coordinators = Len(coordinatorAddresses)
      /\ from'.relayers = Len(relayerAddresses) /\ from'.datasets = Len(datasetKeys)
  BY <1>2
<1>5. Started'
  BY <1>3, <1>4 DEF Started, NotStarted
<1>6. FromOK'
  BY <1>1, <1>3, <1>4 DEF FromOK, TypeOK
<1>7. \A o \in ObjectId : ~Seen(o)'
  BY <1>3, <1>4 DEF Seen, ObjectId
<1>8. /\ receipts' = receipts /\ usage' = usage
      /\ coordinatorAddresses' = coordinatorAddresses
      /\ relayerAddresses' = relayerAddresses /\ datasetKeys' = datasetKeys
  BY <1>2 DEF vars, uploadVars, adminVars, datasetVars
<1>9. DOMAIN EmptyMap = {} /\ \A k, d : Lookup(EmptyMap, k, d) = d
  BY DEF EmptyMap, Lookup
<1>10. RowsMirrored(EmptyMap)'
  <2>1. \A o \in ObjectId :
          /\ Seen(o)' => o \in DOMAIN EmptyMap
                         /\ RowMirrors(RowOf(EmptyMap, o), objects'[o], receipts'[o])
          /\ o < from'.object => {"size", "reservedCost"} \cap DOMAIN RowOf(EmptyMap, o) = {}
    BY <1>7, <1>9 DEF RowOf
  <2> QED
    BY <1>9, <2>1 DEF RowsMirrored
<1>11. UsageMirrored(EmptyMap)'
  <2>1. ASSUME NEW a \in Account
        PROVE  /\ UsageOf(EmptyMap, a) \in AccountUsage
               /\ from'.object = 1 => UsageOf(EmptyMap, a) = usage'[a]
               /\ UsageOf(EmptyMap, a).pendingBytes = Total(SeenBytes(a)')
               /\ UsageOf(EmptyMap, a).reservedCost <= Total(SeenCosts(a)')
    <3>1. UsageOf(EmptyMap, a) = NewUsage
      BY <1>9 DEF UsageOf
    <3>2. /\ NewUsage \in AccountUsage /\ NewUsage.pendingBytes = 0
          /\ NewUsage.reservedCost = 0
      BY DEF NewUsage, AccountUsage
    <3>3. from'.object = 1 => usage'[a] = NewUsage
      BY <1>1, <1>4, <1>8, NothingYet
    <3>4. PICK b, c : b = SeenBytes(a)' /\ c = SeenCosts(a)'
      OBVIOUS
    <3>5. \A o \in ObjectId : o \notin SeenLive(a)'
      BY <1>7 DEF SeenLive
    <3>6. /\ b \in [ObjectId -> Nat] /\ \A o \in ObjectId : b[o] = 0
          /\ c \in [ObjectId -> Nat] /\ \A o \in ObjectId : c[o] = 0
      BY <3>4, <3>5 DEF SeenBytes, SeenCosts
    <3>7. Total(b) = 0 /\ Total(c) = 0
      BY <3>6, TotalZero
    <3> QED
      BY <3>1, <3>2, <3>3, <3>4, <3>7
  <2> QED
    BY <1>9, <2>1 DEF UsageMirrored
<1>12. ReceiptsMirrored(EmptyMap, EmptyMap)' /\ KeysMirrored(EmptyMap)'
  <2>1. \A o \in ObjectId :
          /\ Lookup(EmptyMap, o, <<>>) \in Seq(RecordedCopies)
          /\ Seen(o)' => /\ Len(Lookup(EmptyMap, o, <<>>)) = receipts'[o].copies
                         /\ Lookup(EmptyMap, o, Zero) = receipts'[o].payer
          /\ o >= nextObjectId' =>
               /\ o \notin DOMAIN EmptyMap
               /\ receipts'[o] = [payer |-> Zero, copies |-> 0]
    <3>1. <<>> \in Seq(RecordedCopies)
      OBVIOUS
    <3>2. \A o \in ObjectId : o >= nextObjectId' =>
            receipts'[o] = [payer |-> Zero, copies |-> 0]
      BY <1>3, <1>8 DEF ReceiptsOfIssued
    <3> HIDE DEF EmptyMap
    <3> QED
      BY <1>7, <1>9, <3>1, <3>2
  <2> QED
    BY <1>7, <2>1 DEF ReceiptsMirrored, KeysMirrored
<1>13. /\ CoordinatorsMirrored(EmptyMap)' /\ RelayersMirrored(EmptyMap)'
       /\ DatasetsMirrored(EmptyMap)'
  <2>1. /\ \A i \in DOMAIN coordinatorAddresses : ~(i > Len(coordinatorAddresses))
        /\ \A i \in DOMAIN relayerAddresses : ~(i > Len(relayerAddresses))
        /\ \A i \in DOMAIN datasetKeys : ~(i > Len(datasetKeys))
    BY <1>1 DEF TypeOK
  <2> QED
    BY <1>4, <1>8, <1>9, <2>1
    DEF CoordinatorsMirrored, RelayersMirrored, DatasetsMirrored
<1>14. /\ pending' = <<>> /\ model' = CreateRegistryReadModel
  BY <1>2 DEF NothingProjected
<1>15. \E S : pending' \in Seq(S)
  BY <1>14
<1>16. PICK m : m = CreateRegistryReadModel
  OBVIOUS
<1>17. m = ApplyInTurn(pending', model')
  BY <1>14, <1>16, FoldNone
<1>18. ModelIs(m, EmptyMap, EmptyMap, EmptyMap, EmptyMap, EmptyMap, EmptyMap,
               EmptyMap, EmptyMap)
  BY <1>16 DEF CreateRegistryReadModel, ModelIs
<1>19. Shows(m)'
  BY <1>10, <1>11, <1>12, <1>13, <1>18 DEF Shows, Mirrored, ModelIs
<1> QED
  BY <1>5, <1>6, <1>15, <1>17, <1>19 DEF PendingShows

-----------------------------------------------------------------------------
(* The induction *)

\* A transaction appends its events to what is pending.
LEMMA EmitAppends ==
  ASSUME Started, NEW S, pending \in Seq(S), NEW events, NEW T, events \in Seq(T),
         Emit(events)
  PROVE  /\ ApplyInTurn(pending', model')
              = ApplyInTurn(events, ApplyInTurn(pending, model))
         /\ \E U : pending' \in Seq(U)
         /\ from' = from /\ Started'
<1>1. pending' = pending \o events /\ model' = model /\ from' = from
  BY DEF Emit
<1>2. pending \in Seq(S \cup T) /\ events \in Seq(S \cup T)
  <2>1. \A i \in 1..Len(pending) : pending[i] \in S \cup T
    OBVIOUS
  <2>2. \A i \in 1..Len(events) : events[i] \in S \cup T
    OBVIOUS
  <2> QED
    BY <2>1, <2>2, SeqDef
<1>3. ApplyInTurn(pending \o events, model)
        = ApplyInTurn(events, ApplyInTurn(pending, model))
  BY <1>2, FoldConcat
<1>4. pending' \in Seq(S \cup T)
  BY <1>1, <1>2
<1> QED
  BY <1>1, <1>3, <1>4 DEF Started

\* Every step of the indexed registry is one of the registry, or none.
LEMMA ProjectionRefines ==
  [EPNext]_EPvars => [Next]_vars
<1> SUFFICES ASSUME [EPNext]_EPvars PROVE [Next]_vars
  OBVIOUS
<1>1. AdministrationEmits => Administration
  BY DEF AdministrationEmits, Administration
<1>2. UploadEmits => Next
  BY DEF UploadEmits, Next
<1>3. StartIndexing => UNCHANGED vars
  BY DEF StartIndexing
<1>4. IndexEvents => UNCHANGED vars
  BY DEF IndexEvents, Index
<1>5. UNCHANGED EPvars => UNCHANGED vars
  BY DEF EPvars
<1>6. Administration => Next
  BY DEF Next
<1>7. Tick => Next
  BY DEF Next
<1> QED
  BY <1>1, <1>2, <1>3, <1>4, <1>5, <1>6, <1>7 DEF EPNext

LEMMA FromKept ==
  ASSUME TypeOK, TypeOK', FromOK, from' = from, nextObjectId' >= nextObjectId
  PROVE  FromOK'
BY DEF FromOK, TypeOK

\* What one transaction does to a projection that was started.
LEMMA TransactionShows ==
  ASSUME RegistryInv, TypeOK', Started, PendingShows,
         nextObjectId' >= nextObjectId,
         NEW events, NEW T, events \in Seq(T), Emit(events),
         \A m : Shows(m) => Shows(ApplyInTurn(events, m))'
  PROVE  Started' /\ PendingShows'
<1>1. PICK S : pending \in Seq(S)
  BY DEF PendingShows
<1>2. PICK m : m = ApplyInTurn(pending, model) /\ Shows(m)
  BY DEF PendingShows
<1>3. PICK m2 : m2 = ApplyInTurn(events, m)
  OBVIOUS
<1>4. /\ m2 = ApplyInTurn(pending', model')
      /\ \E U : pending' \in Seq(U)
      /\ from' = from /\ Started'
  BY <1>1, <1>2, <1>3, EmitAppends
<1>5. Shows(m2)'
  BY <1>2, <1>3 DEF Shows
<1>6. FromOK'
  BY <1>4, FromKept DEF PendingShows, RegistryInv
<1> QED
  BY <1>4, <1>5, <1>6 DEF PendingShows

LEMMA UploadEmitsShow ==
  ASSUME RegistryInv, TypeOK', Started, PendingShows, UploadEmits
  PROVE  Started' /\ PendingShows'
<1>1. TypeOK /\ FromOK
  BY DEF RegistryInv, PendingShows
<1>2. ASSUME NEW caller \in Address, NEW p \in Requests,
             NEW signer \in Address \cup {Zero},
             RequestUpload(caller, p, signer), Emit(RequestedEvents(p))
      PROVE  Started' /\ PendingShows'
  <2>1. PICK events : events = RequestedEvents(p)
    OBVIOUS
  <2>2. from' = from /\ Emit(events)
    BY <1>2, <2>1 DEF Emit
  <2>3. \E T : events \in Seq(T)
    <3>1. PICK e1, e2 : events = <<e1, e2>>
      BY <2>1 DEF RequestedEvents, RequestEvents
    <3>2. events \in Seq({e1, e2})
      BY <3>1
    <3> QED
      BY <3>2
  <2>4. \A m : Shows(m) => Shows(ApplyInTurn(events, m))'
    BY <1>1, <1>2, <2>1, <2>2, RequestShows
  <2>5. nextObjectId' >= nextObjectId
    BY <1>1, <1>2 DEF RequestUpload, RequestAccepted, TypeOK
  <2> QED
    BY <2>2, <2>3, <2>4, <2>5, TransactionShows
<1>3. ASSUME NEW o \in ObjectId, NEW c \in Address, StartUpload(c, o),
             Emit(<<[name |-> "UploadStarted", objectId |-> o, coordinator |-> c]>>)
      PROVE  Started' /\ PendingShows'
  <2>1. PICK e : e = [name |-> "UploadStarted", objectId |-> o, coordinator |-> c]
    OBVIOUS
  <2>2. from' = from /\ Emit(<<e>>)
    BY <1>3, <2>1 DEF Emit
  <2>3. <<e>> \in Seq({e})
    OBVIOUS
  <2>4. \A m : Shows(m) => Shows(ApplyInTurn(<<e>>, m))'
    BY <1>3, <2>1, <2>2, StartShows
  <2>5. nextObjectId' >= nextObjectId
    BY <1>1, <1>3 DEF StartUpload, StartAccepted, TypeOK, requestVars
  <2> QED
    BY <2>2, <2>3, <2>4, <2>5, TransactionShows
<1>4. ASSUME NEW o \in ObjectId, NEW c \in Address, NEW r \in Receipts,
             FinalizeUpload(c, o, r), Emit(FinalizationEvents(o, r))
      PROVE  Started' /\ PendingShows'
  <2>1. PICK events : events = FinalizationEvents(o, r)
    OBVIOUS
  <2>2. from' = from /\ Emit(events)
    BY <1>4, <2>1 DEF Emit
  <2>3. \E T : events \in Seq(T)
    <3>1. r.copies \in Nat
      BY ConstantsAssumption DEF UploadReceipt
    <3>2. PICK head, tail :
            /\ head = [i \in 1..r.copies |-> [name |-> "CopyRecorded", objectId |-> o,
                                              dataset |-> CopyDataset[i]]]
            /\ \E e1, e2, e3, e4 : tail = <<e1, e2, e3, e4>>
            /\ events = head \o tail
      BY <2>1 DEF FinalizationEvents
    <3>3. PICK e1, e2, e3, e4 : tail = <<e1, e2, e3, e4>>
      BY <3>2
    <3>4. PICK T : T = {head[i] : i \in 1..r.copies} \cup {e1, e2, e3, e4}
      OBVIOUS
    <3>5. head \in Seq(T)
      <4>1. head \in [1..r.copies -> T]
        BY <3>2, <3>4
      <4> QED
        BY <3>1, <4>1
    <3>6. tail \in Seq(T)
      BY <3>3, <3>4
    <3>7. head \o tail \in Seq(T)
      BY <3>5, <3>6
    <3> QED
      BY <3>2, <3>7
  <2>4. \A m : Shows(m) => Shows(ApplyInTurn(events, m))'
    BY <1>1, <1>4, <2>1, <2>2, FinalizationShows
  <2>5. nextObjectId' >= nextObjectId
    BY <1>1, <1>4 DEF FinalizeUpload, ReceiptAccepted, TypeOK, requestVars
  <2> QED
    BY <2>2, <2>3, <2>4, <2>5, TransactionShows
<1>5. ASSUME NEW o \in ObjectId, NEW c \in Address, NEW charge \in FailureCharges,
             FailUpload(c, o, charge), Emit(FailureEvents(o, charge))
      PROVE  Started' /\ PendingShows'
  <2>1. PICK events : events = FailureEvents(o, charge)
    OBVIOUS
  <2>2. from' = from /\ Emit(events)
    BY <1>5, <2>1 DEF Emit
  <2>3. \E T : events \in Seq(T)
    <3>1. PICK e1, e2 : events = <<e1, e2>>
      BY <2>1 DEF FailureEvents
    <3>2. events \in Seq({e1, e2})
      BY <3>1
    <3> QED
      BY <3>2
  <2>4. \A m : Shows(m) => Shows(ApplyInTurn(events, m))'
    BY <1>1, <1>5, <2>1, <2>2, FailureShows
  <2>5. nextObjectId' >= nextObjectId
    BY <1>1, <1>5 DEF FailUpload, TypeOK, requestVars
  <2> QED
    BY <2>2, <2>3, <2>4, <2>5, TransactionShows
<1>6. ASSUME NEW o \in ObjectId, MutableObject(o), NEW name, NEW status,
             \/ name = "UploadCancelled" /\ status = "Cancelled"
             \/ name = "UploadExpired" /\ status = "Expired",
             CloseUnsettled(o, status), Emit(ClosingEvents(o, name))
      PROVE  Started' /\ PendingShows'
  <2>1. PICK events : events = ClosingEvents(o, name)
    OBVIOUS
  <2>2. from' = from /\ Emit(events)
    BY <1>6, <2>1 DEF Emit
  <2>3. \E T : events \in Seq(T)
    <3>1. PICK e1, e2 : events = <<e1, e2>>
      BY <2>1 DEF ClosingEvents
    <3>2. events \in Seq({e1, e2})
      BY <3>1
    <3> QED
      BY <3>2
  <2>4. ASSUME NEW m, Shows(m) PROVE Shows(ApplyInTurn(events, m))'
    BY <1>1, <1>6, <2>1, <2>2, <2>4, ClosingShows
  <2>5. nextObjectId' >= nextObjectId
    BY <1>1, <1>6 DEF CloseUnsettled, TypeOK, requestVars
  <2> QED
    BY <2>2, <2>3, <2>4, <2>5, TransactionShows
<1> QED
  BY <1>2, <1>3, <1>4, <1>5, <1>6 DEF UploadEmits, CancelUpload, ExpireUpload

LEMMA AdministrationEmitsShow ==
  ASSUME RegistryInv, TypeOK', Started, PendingShows, AdministrationEmits
  PROVE  Started' /\ PendingShows'
<1>1. TypeOK
  BY DEF RegistryInv
<1>2. ASSUME UNCHANGED uploadVars, NEW e, Emit(<<e>>),
             \A m : Shows(m) => Shows(ApplyInTurn(<<e>>, m))'
      PROVE  Started' /\ PendingShows'
  <2>1. nextObjectId' >= nextObjectId
    BY <1>1, <1>2 DEF uploadVars, requestVars, TypeOK
  <2>2. <<e>> \in Seq({e})
    OBVIOUS
  <2> QED
    BY <1>2, <2>1, <2>2, TransactionShows
<1>3. ASSUME NEW caller \in Address, NEW newOwner \in NewOwners,
             TransferOwnership(caller, newOwner),
             Emit(<<[name |-> "OwnershipTransferred"]>>)
      PROVE  Started' /\ PendingShows'
  <2>1. PICK e : e = [name |-> "OwnershipTransferred"]
    OBVIOUS
  <2>2. Emit(<<e>>) /\ from' = from
    BY <1>3, <2>1 DEF Emit
  <2>3. /\ UNCHANGED uploadVars
        /\ UNCHANGED <<coordinatorPolicies, coordinatorAddresses, relayers,
                       relayerAddresses, datasetVars>>
    BY <1>3 DEF TransferOwnership
  <2>4. ASSUME NEW m, Shows(m) PROVE Shows(ApplyInTurn(<<e>>, m))'
    <3>1. Shows(m)'
      BY <2>2, <2>3, <2>4, AdministrationShows
    <3>2. ApplyInTurn(<<e>>, m) = m
      BY <2>1, OtherEventsIgnored
    <3> QED
      BY <3>1, <3>2
  <2> QED
    BY <1>2, <2>2, <2>3, <2>4
<1>4. ASSUME NEW caller \in Address, NEW newPolicy \in Policies,
             SetPolicy(caller, newPolicy), Emit(<<[name |-> "PolicyUpdated"]>>)
      PROVE  Started' /\ PendingShows'
  <2>1. PICK e : e = [name |-> "PolicyUpdated"]
    OBVIOUS
  <2>2. Emit(<<e>>) /\ from' = from
    BY <1>4, <2>1 DEF Emit
  <2>3. /\ UNCHANGED uploadVars
        /\ UNCHANGED <<coordinatorPolicies, coordinatorAddresses, relayers,
                       relayerAddresses, datasetVars>>
    BY <1>4 DEF SetPolicy
  <2>4. ASSUME NEW m, Shows(m) PROVE Shows(ApplyInTurn(<<e>>, m))'
    <3>1. Shows(m)'
      BY <2>2, <2>3, <2>4, AdministrationShows
    <3>2. ApplyInTurn(<<e>>, m) = m
      BY <2>1, OtherEventsIgnored
    <3> QED
      BY <3>1, <3>2
  <2> QED
    BY <1>2, <2>2, <2>3, <2>4
<1>5. ASSUME NEW caller \in Address, NEW c \in CoordinatorInputs,
             NEW cp \in CoordinatorPolicies, SetCoordinator(caller, c, cp),
             Emit(<<[name |-> "CoordinatorUpdated", coordinator |-> c, policy |-> cp]>>)
      PROVE  Started' /\ PendingShows'
  <2>1. PICK e : e = [name |-> "CoordinatorUpdated", coordinator |-> c, policy |-> cp]
    OBVIOUS
  <2>2. Emit(<<e>>) /\ from' = from
    BY <1>5, <2>1 DEF Emit
  <2>3. UNCHANGED uploadVars
    BY <1>5 DEF SetCoordinator
  <2>4. ASSUME NEW m, Shows(m) PROVE Shows(ApplyInTurn(<<e>>, m))'
    BY <1>5, <2>1, <2>2, <2>3, <2>4, AdministrationShows
  <2> QED
    BY <1>2, <2>2, <2>3, <2>4
<1>6. ASSUME NEW caller \in Address, NEW r \in RelayerInputs, NEW allowed \in BOOLEAN,
             SetRelayer(caller, r, allowed),
             Emit(<<[name |-> "RelayerUpdated", relayer |-> r, allowed |-> allowed]>>)
      PROVE  Started' /\ PendingShows'
  <2>1. PICK e : e = [name |-> "RelayerUpdated", relayer |-> r, allowed |-> allowed]
    OBVIOUS
  <2>2. Emit(<<e>>) /\ from' = from
    BY <1>6, <2>1 DEF Emit
  <2>3. UNCHANGED uploadVars
    BY <1>6 DEF SetRelayer
  <2>4. ASSUME NEW m, Shows(m) PROVE Shows(ApplyInTurn(<<e>>, m))'
    BY <1>6, <2>1, <2>2, <2>3, <2>4, AdministrationShows
  <2> QED
    BY <1>2, <2>2, <2>3, <2>4
<1>7. ASSUME NEW caller \in Address, NEW d \in DatasetInputs, RecordDataset(caller, d),
             Emit(<<[name |-> "DatasetRecorded", payer |-> d.payer,
                     key |-> <<d.accountId, d.dataset>>]>>)
      PROVE  Started' /\ PendingShows'
  <2>1. PICK e : e = [name |-> "DatasetRecorded", payer |-> d.payer,
                      key |-> <<d.accountId, d.dataset>>]
    OBVIOUS
  <2>2. Emit(<<e>>) /\ from' = from
    BY <1>7, <2>1 DEF Emit
  <2>3. UNCHANGED uploadVars
    BY <1>7 DEF RecordDataset, DatasetAccepted
  <2>4. ASSUME NEW m, Shows(m) PROVE Shows(ApplyInTurn(<<e>>, m))'
    BY <1>7, <2>1, <2>2, <2>3, <2>4, AdministrationShows
  <2> QED
    BY <1>2, <2>2, <2>3, <2>4
<1> QED
  BY <1>3, <1>4, <1>5, <1>6, <1>7 DEF AdministrationEmits

LEMMA ProjectionStep ==
  ASSUME RegistryInv, TypeOK', ReceiptsOfIssued, ProjectionInv, [EPNext]_EPvars
  PROVE  ProjectionInv'
<1>1. CASE Started
  <2>1. PendingShows
    BY <1>1 DEF ProjectionInv
  <2>2. CASE UploadEmits
    BY <1>1, <2>1, <2>2, UploadEmitsShow DEF ProjectionInv
  <2>3. CASE AdministrationEmits
    BY <1>1, <2>1, <2>3, AdministrationEmitsShow DEF ProjectionInv
  <2>4. ASSUME from' = from, UNCHANGED <<uploadVars, adminVars, datasetVars>>,
               \E S : pending' \in Seq(S),
               ApplyInTurn(pending', model') = ApplyInTurn(pending, model)
        PROVE  ProjectionInv'
    <3>1. PICK m : m = ApplyInTurn(pending, model) /\ Shows(m)
      BY <2>1 DEF PendingShows
    <3>2. Shows(m)'
      BY <2>4, <3>1, AdministrationShows
    <3>3. m = ApplyInTurn(pending', model')
      BY <2>4, <3>1
    <3>4. FromOK'
      <4>1. nextObjectId' >= nextObjectId
        BY <2>4 DEF uploadVars, requestVars, RegistryInv, TypeOK
      <4> QED
        BY <2>1, <2>4, <4>1, FromKept DEF PendingShows, RegistryInv
    <3>5. PendingShows'
      BY <2>4, <3>2, <3>3, <3>4 DEF PendingShows
    <3> QED
      BY <1>1, <2>4, <3>5 DEF ProjectionInv, Started
  <2>5. ASSUME UNCHANGED indexerVars, UNCHANGED <<uploadVars, adminVars, datasetVars>>
        PROVE  ProjectionInv'
    <3>1. from' = from /\ pending' = pending /\ model' = model
      BY <2>5 DEF indexerVars
    <3> QED
      BY <2>1, <2>4, <2>5, <3>1 DEF PendingShows
  <2>6. CASE Tick /\ UNCHANGED indexerVars
    BY <2>5, <2>6 DEF Tick
  <2>7. CASE UNCHANGED EPvars
    BY <2>5, <2>7 DEF EPvars, vars
  <2>8. CASE IndexEvents
    <3>1. from' = from /\ UNCHANGED vars
      BY <2>8 DEF IndexEvents, Index
    <3>2. UNCHANGED <<uploadVars, adminVars, datasetVars>>
      BY <3>1 DEF vars
    <3>3. PICK S : pending \in Seq(S)
      BY <2>1 DEF PendingShows
    <3>4. /\ ApplyInTurn(pending', model') = ApplyInTurn(pending, model)
          /\ pending' \in Seq(S)
      BY <2>8, <3>3, IndexKeepsFold
    <3> QED
      BY <2>4, <3>1, <3>2, <3>4
  <2> QED
    BY <1>1, <2>2, <2>3, <2>6, <2>7, <2>8 DEF EPNext, StartIndexing
<1>2. CASE ~Started
  <2>1. NothingProjected
    BY <1>2 DEF ProjectionInv
  <2>2. ASSUME pending' = <<>>, model' = model, from' = from
        PROVE  ProjectionInv'
    BY <1>2, <2>1, <2>2 DEF ProjectionInv, NothingProjected, Started
  <2>3. ASSUME NEW events, Emit(events) PROVE ProjectionInv'
    <3>1. pending' = <<>> /\ model' = model /\ from' = from
      BY <1>2, <2>3 DEF Emit
    <3> QED
      BY <2>2, <3>1
  <2>4. CASE UploadEmits
    BY <2>3, <2>4 DEF UploadEmits
  <2>5. CASE AdministrationEmits
    BY <2>3, <2>5 DEF AdministrationEmits
  <2>6. CASE UNCHANGED indexerVars
    BY <2>1, <2>2, <2>6 DEF indexerVars, NothingProjected
  <2>7. CASE StartIndexing
    BY <2>1, <2>7, StartIndexingShows DEF ProjectionInv
  <2>8. ~IndexEvents
    BY <2>1 DEF IndexEvents, NothingProjected
  <2> QED
    BY <2>4, <2>5, <2>6, <2>7, <2>8 DEF EPNext, EPvars
<1> QED
  BY <1>1, <1>2

\* Beside an indexer the contract takes only steps of its own.
LEMMA IndexedRegistry == EPSpec => Spec
<1>1. EPInit => Init
  BY DEF EPInit
<1> QED
  BY <1>1, ProjectionRefines, PTL DEF EPSpec, Spec

LEMMA ProjectionAlways == EPSpec => [](RegistryInv /\ ReceiptsOfIssued /\ ProjectionInv)
<1>1. EPInit => Init /\ ProjectionInv /\ ReceiptsOfIssued
  BY DEF EPInit, Init, ProjectionInv, NothingProjected, Started, ReceiptsOfIssued
<1>2. [EPNext]_EPvars => [Next]_vars
  BY ProjectionRefines
<1>3. EPSpec => Spec
  BY IndexedRegistry
<1>4. IndexMatchesStatus => IssuedInOrder
  BY DEF IndexMatchesStatus
<1>5. TypeOK /\ IssuedInOrder /\ TermsInv /\ [Next]_vars => TermsInv'
  BY TermsStep
<1>6. Spec => []TermsInv
  BY <1>4, <1>5, TypeCorrect, IndexCorrect, TermsInit, PTL DEF Spec
<1>7. RegistryInv <=> /\ TypeOK /\ IndexMatchesStatus /\ IdempotencyKeyNamesOneUpload
                      /\ LedgerMatchesUploads /\ TermsInv
  BY DEF RegistryInv
<1>8. Spec => []RegistryInv
  BY <1>6, <1>7, TypeCorrect, IndexCorrect, IdempotencyCorrect, LedgerCorrect, PTL
<1>9. RegistryInv /\ ReceiptsOfIssued /\ [Next]_vars => ReceiptsOfIssued'
  BY ReceiptsOfIssuedStep DEF RegistryInv, IndexMatchesStatus
<1>10. RegistryInv /\ RegistryInv' /\ ReceiptsOfIssued /\ ProjectionInv /\ [EPNext]_EPvars
         => ProjectionInv'
  BY ProjectionStep DEF RegistryInv
<1> QED
  BY <1>1, <1>2, <1>3, <1>8, <1>9, <1>10, PTL DEF EPSpec

\* Of a projection that has caught up, the maps are the registry's.
LEMMA CaughtUpMirrors ==
  ASSUME ProjectionInv, CaughtUp
  PROVE  /\ FromOK
         /\ Mirrored(model.objects, model.usage, model.copyReceipts,
                     model.receiptPayers, model.datasets, model.coordinators,
                     model.relayers, model.idempotency)
<1>1. PendingShows /\ pending = <<>>
  BY DEF ProjectionInv, CaughtUp
<1>2. PICK m : m = ApplyInTurn(pending, model) /\ Shows(m)
  BY <1>1 DEF PendingShows
<1>3. m = model
  BY <1>1, <1>2, FoldNone
<1> QED
  BY <1>1, <1>2, <1>3 DEF Shows, ModelIs, PendingShows

-----------------------------------------------------------------------------
(* The theorems *)

LEMMA MirroredRowAgrees ==
  ASSUME TypeOK, NEW o \in ObjectId,
         RowMirrors(RowOf(model.objects, o), objects[o], receipts[o]),
         o \in DOMAIN model.objects
  PROVE  RowAgrees(o)
<1> DEFINE row  == model.objects[o]
           obj  == objects[o]
           zero == [completedCopies |-> 0, actualCost |-> 0, receiptHash |-> FALSE,
                    receiptPayer |-> Zero]
           more == [receiptHash  |-> receipts[o].payer # Zero,
                    receiptPayer |-> receipts[o].payer]
           Late == {"completedCopies", "actualCost", "receiptHash", "receiptPayer"}
<1>1. RowOf(model.objects, o) = row
  BY DEF RowOf, Lookup
<1>2. /\ CoreFields \subseteq DOMAIN row /\ \A f \in CoreFields : row[f] = obj[f]
      /\ Lookup(row, "completedCopies", 0) = obj.completedCopies
      /\ Lookup(row, "actualCost", 0) = obj.actualCost
      /\ Lookup(row, "receiptHash", FALSE) = (receipts[o].payer # Zero)
      /\ Lookup(row, "receiptPayer", Zero) = receipts[o].payer
  BY <1>1 DEF RowMirrors
<1>3. obj \in StorageObject
  BY DEF TypeOK
<1>4. DOMAIN obj = CoreFields \cup {"completedCopies", "actualCost", "coordinator"}
  BY <1>3, StorageObjectFields
<1>5. ProjectedRow(o) = Patched(zero, row) /\ RegistryRow(o) = Patched(obj, more)
  BY DEF ProjectedRow, RegistryRow
<1> HIDE DEF row, obj
<1>6. ASSUME NEW f \in CoreFields
      PROVE  Patched(zero, row)[f] = Patched(obj, more)[f]
  <2>1. f \notin {"receiptHash", "receiptPayer"}
    BY CoreFieldsAre
  <2>2. Patched(zero, row)[f] = row[f]
    BY <1>2 DEF Patched
  <2>3. Patched(obj, more)[f] = obj[f]
    BY <1>4, <2>1 DEF Patched
  <2> QED
    BY <1>2, <2>2, <2>3
<1>7. /\ Patched(zero, row).completedCopies = obj.completedCopies
      /\ Patched(zero, row).actualCost = obj.actualCost
      /\ Patched(zero, row).receiptHash = (receipts[o].payer # Zero)
      /\ Patched(zero, row).receiptPayer = receipts[o].payer
  BY <1>2 DEF Patched, Lookup
<1>8. /\ Patched(obj, more).completedCopies = obj.completedCopies
      /\ Patched(obj, more).actualCost = obj.actualCost
      /\ Patched(obj, more).receiptHash = (receipts[o].payer # Zero)
      /\ Patched(obj, more).receiptPayer = receipts[o].payer
  BY <1>4 DEF Patched
<1> HIDE DEF zero, more
<1>9. \A f \in CoreFields \cup Late : ProjectedRow(o)[f] = RegistryRow(o)[f]
  BY <1>5, <1>6, <1>7, <1>8
<1>10. RequestFields \cup {"reservedCost", "status", "completedCopies", "actualCost",
                           "receiptHash", "receiptPayer"} = CoreFields \cup Late
  BY DEF CoreFields
<1> QED
  BY <1>9, <1>10 DEF RowAgrees

LEMMA MirrorsExact ==
  ASSUME RegistryInv, ProjectionInv
  PROVE  ProjectionExact
<1> SUFFICES ASSUME CaughtUp
             PROVE  ProjectionExact!2
  BY DEF ProjectionExact
<1>1. /\ TypeOK
      /\ RowsMirrored(model.objects)
      /\ ReceiptsMirrored(model.copyReceipts, model.receiptPayers)
      /\ KeysMirrored(model.idempotency)
      /\ CoordinatorsMirrored(model.coordinators) /\ RelayersMirrored(model.relayers)
      /\ DatasetsMirrored(model.datasets)
  BY CaughtUpMirrors DEF RegistryInv, Mirrored
<1>2. ASSUME NEW o \in ObjectId, Seen(o)
      PROVE  /\ o \in DOMAIN model.objects /\ RowAgrees(o)
             /\ Len(Lookup(model.copyReceipts, o, <<>>)) = receipts[o].copies
             /\ Lookup(model.receiptPayers, o, Zero) = receipts[o].payer
             /\ model.idempotency[<<objects[o].accountId,
                                    objects[o].idempotencyKey>>] = o
  <2>1. /\ o \in DOMAIN model.objects
        /\ RowMirrors(RowOf(model.objects, o), objects[o], receipts[o])
    BY <1>1, <1>2 DEF RowsMirrored
  <2>2. RowAgrees(o)
    BY <1>1, <2>1, MirroredRowAgrees
  <2> QED
    BY <1>1, <1>2, <2>1, <2>2 DEF ReceiptsMirrored, KeysMirrored
<1> QED
  BY <1>1, <1>2 DEF CoordinatorsMirrored, RelayersMirrored, DatasetsMirrored

\* Whatever the batches and the order of their queries, and wherever in the
\* history the indexer started, the read model of applyRegistryEvents shows
\* exactly what the registry holds once it has caught up with the log.
THEOREM ProjectionCorrect == EPSpec => []ProjectionExact
<1>1. RegistryInv /\ ProjectionInv => ProjectionExact
  BY MirrorsExact
<1> QED
  BY <1>1, ProjectionAlways, PTL

LEMMA MirrorsCounters ==
  ASSUME RegistryInv, ProjectionInv
  PROVE  CountersTrue
<1>1. CASE ~CaughtUp
  BY <1>1 DEF CountersTrue, CountersReconstructed, PartialHistoryBounded
<1>2. CASE CaughtUp
  <2>1. TypeOK /\ UsageMirrored(model.usage)
    BY <1>2, CaughtUpMirrors DEF RegistryInv, Mirrored
  <2>2. CountersReconstructed
    BY <2>1 DEF CountersReconstructed, UsageMirrored, UsageOf
  <2>3. ASSUME NEW a \in Account
        PROVE  LET u == Lookup(model.usage, a, NewUsage)
               IN  /\ u.pendingBytes
                        = Total([o \in SeenLive(a) |-> RequestedBytes(objects[o])])
                   /\ u.reservedCost
                        <= Total([o \in SeenLive(a) |-> objects[o].reservedCost])
    <3>1. PICK b, c, T : b = SeenBytes(a) /\ c = SeenCosts(a) /\ T = SeenLive(a)
      OBVIOUS
    <3>2. b \in [ObjectId -> Nat] /\ c \in [ObjectId -> Nat] /\ T \in SUBSET ObjectId
      BY <2>1, <3>1, SeenTypes DEF SeenLive
    <3>3. \A o \in ObjectId \ T : b[o] = 0 /\ c[o] = 0
      BY <3>1 DEF SeenBytes, SeenCosts
    <3>4. \A o \in T : b[o] = RequestedBytes(objects[o]) /\ c[o] = objects[o].reservedCost
      BY <3>1, <3>2 DEF SeenBytes, SeenCosts
    <3>5. PICK v, w : v = [o \in T |-> b[o]] /\ w = [o \in T |-> c[o]]
      OBVIOUS
    <3>6. Total(v) = Total(b) /\ Total(w) = Total(c)
      BY <3>2, <3>3, <3>5, TotalWithin
    <3>7. /\ v = [o \in SeenLive(a) |-> RequestedBytes(objects[o])]
          /\ w = [o \in SeenLive(a) |-> objects[o].reservedCost]
      BY <3>1, <3>4, <3>5
    <3>8. /\ UsageOf(model.usage, a).pendingBytes = Total(b)
          /\ UsageOf(model.usage, a).reservedCost <= Total(c)
      BY <2>1, <3>1 DEF UsageMirrored
    <3> QED
      BY <3>6, <3>7, <3>8 DEF UsageOf
  <2>4. PartialHistoryBounded
    BY <2>3 DEF PartialHistoryBounded
  <2> QED
    BY <2>2, <2>4 DEF CountersTrue
<1> QED
  BY <1>1, <1>2

\* The counters folded from the whole history are those of getAccountUsage;
\* folded from a part of it they have exactly the bytes in flight of the
\* uploads seen, and never more reserved than those uploads reserve.
THEOREM CountersCorrect == EPSpec => []CountersTrue
<1>1. RegistryInv /\ ProjectionInv => CountersTrue
  BY MirrorsCounters
<1> QED
  BY <1>1, ProjectionAlways, PTL

-----------------------------------------------------------------------------
(* The operator's report *)

Detail(o) == Reconcile!BuildObjectDetail(model, EmptyMap, o)
Details   == Reconcile!BuildObjectDetails(model, EmptyMap)

\* What a detail tells of an upload and its receipt.
DetailShows(d, obj, rec) ==
  /\ d.object.accountId = obj.accountId /\ d.object.status = obj.status
  /\ d.object.size = obj.size /\ d.object.requestedCopies = obj.requestedCopies
  /\ d.object.completedCopies = obj.completedCopies
  /\ d.object.reservedCost = obj.reservedCost
  /\ d.object.receiptHash = (rec.payer # Zero)
  /\ obj.status = "Uploading" => d.object.coordinator = obj.coordinator
  /\ Len(d.copyReceipts) = rec.copies
  /\ rec.payer # Zero => d.receiptPayer # Zero
  /\ d.focEvidence = Zero

LEMMA RowNormalized ==
  ASSUME NEW row, NEW obj, NEW rec, RowMirrors(row, obj, rec), NEW n,
         n = Reconcile!NormalizeObject(row)
  PROVE  /\ n.accountId = obj.accountId /\ n.status = obj.status
         /\ n.size = obj.size /\ n.requestedCopies = obj.requestedCopies
         /\ n.completedCopies = obj.completedCopies
         /\ n.reservedCost = obj.reservedCost
         /\ n.receiptHash = (rec.payer # Zero)
         /\ obj.status = "Uploading" => n.coordinator = obj.coordinator
<1>1. \A f \in {"accountId", "status", "size", "requestedCopies", "reservedCost"} :
        f \in DOMAIN row /\ row[f] = obj[f]
  BY CoreFieldsAre DEF RowMirrors
<1>2. \A f, d : Reconcile!FieldOf(row, f, d) = Lookup(row, f, d)
  BY DEF Reconcile!FieldOf, Lookup
<1>3. /\ n.accountId = Lookup(row, "accountId", Zero)
      /\ n.status = Lookup(row, "status", "Unknown")
      /\ n.size = Lookup(row, "size", 0)
      /\ n.requestedCopies = Lookup(row, "requestedCopies", 0)
      /\ n.completedCopies = Lookup(row, "completedCopies", 0)
      /\ n.reservedCost = Lookup(row, "reservedCost", Lookup(row, "maxCost", 0))
      /\ n.coordinator = Lookup(row, "coordinator", Zero)
      /\ n.receiptHash = Lookup(row, "receiptHash", FALSE)
  BY <1>2 DEF Reconcile!NormalizeObject
<1>4. /\ Lookup(row, "completedCopies", 0) = obj.completedCopies
      /\ Lookup(row, "receiptHash", FALSE) = (rec.payer # Zero)
      /\ obj.status = "Uploading" => Lookup(row, "coordinator", Zero) = obj.coordinator
  BY DEF RowMirrors
<1> QED
  BY <1>1, <1>3, <1>4 DEF Lookup

LEMMA ReportedDetails ==
  ASSUME RegistryInv, ProjectionInv, CaughtUp, from.object = 1
  PROVE  /\ DOMAIN model.objects = IssuedIds
         /\ \A o \in IssuedIds : DetailShows(Detail(o), objects[o], receipts[o])
<1>1. /\ RowsMirrored(model.objects)
      /\ ReceiptsMirrored(model.copyReceipts, model.receiptPayers)
  BY CaughtUpMirrors DEF Mirrored
<1>2. ASSUME NEW o \in IssuedIds PROVE o \in ObjectId /\ Seen(o)
  BY DEF IssuedIds, ObjectId, Seen
<1>3. DOMAIN model.objects = IssuedIds
  BY <1>1, <1>2 DEF RowsMirrored
<1>4. ASSUME NEW o \in IssuedIds
      PROVE  DetailShows(Detail(o), objects[o], receipts[o])
  <2>1. PICK row, obj, rec, copies, n, d :
          /\ row = model.objects[o] /\ obj = objects[o] /\ rec = receipts[o]
          /\ copies = Lookup(model.copyReceipts, o, <<>>)
          /\ n = Reconcile!NormalizeObject(row) /\ d = Detail(o)
    OBVIOUS
  <2>2. RowMirrors(row, obj, rec)
    BY <1>1, <1>2, <1>3, <2>1 DEF RowsMirrored, RowOf, Lookup
  <2>3. /\ Len(copies) = rec.copies /\ Lookup(model.receiptPayers, o, Zero) = rec.payer
    BY <1>1, <1>2, <2>1 DEF ReceiptsMirrored
  <2>4. /\ d.object = n /\ d.copyReceipts = copies /\ d.focEvidence = Zero
        /\ o \in DOMAIN model.receiptPayers => d.receiptPayer = model.receiptPayers[o]
    BY <2>1 DEF Detail, Reconcile!BuildObjectDetail, Reconcile!FieldOf, Lookup, EmptyMap
  <2>5. rec.payer # Zero => d.receiptPayer # Zero
    BY <2>3, <2>4 DEF Lookup
  <2>6. DetailShows(d, obj, rec)
    BY <2>1, <2>2, <2>3, <2>4, <2>5, RowNormalized DEF DetailShows
  <2> QED
    BY <2>1, <2>6
<1> QED
  BY <1>3, <1>4

\* The checks of one upload raise no error.
LEMMA NoObjectErrors ==
  ASSUME NEW d, NEW obj, NEW rec, DetailShows(d, obj, rec), Outcome(obj, rec), NEW o,
         NEW c \in Reconcile!ObjectChecks(d, o)
  PROVE  c.severity # "error"
<1>1. ASSUME NEW i, NEW x, x = [Reconcile!Check("warning", "missing_dataset_record", o)
                                  EXCEPT !.copy = i]
      PROVE  x.severity = "warning"
  BY <1>1 DEF Reconcile!Check
<1>2. Reconcile!CheckIf(/\ d.object.status = "Committed"
                        /\ d.object.completedCopies # d.object.requestedCopies,
                        "error", "committed_copy_count_mismatch", o) = {}
  BY DEF DetailShows, Outcome, Reconcile!CheckIf
<1>3. ASSUME d.object.status \in Reconcile!StoredStatuses,
             NEW x \in Reconcile!StoredChecks(d, o)
      PROVE  x.severity = "info"
  <2>1. Stored(obj.status)
    BY <1>3 DEF DetailShows, Stored, Reconcile!StoredStatuses
  <2>2. /\ Len(d.copyReceipts) = d.object.completedCopies
        /\ d.object.receiptHash /\ d.receiptPayer # Zero
    BY <2>1 DEF DetailShows, Outcome
  <2>3. x = Reconcile!Check("info", "foc_evidence_not_checked", o)
    BY <1>3, <2>2 DEF Reconcile!StoredChecks, Reconcile!FocEvidenceChecks,
                      Reconcile!CheckIf, DetailShows
  <2> QED
    BY <2>3 DEF Reconcile!Check
<1>4. ASSUME NEW x \in Reconcile!CheckIf(
                 /\ d.object.status \in {"Failed", "Cancelled", "Expired"}
                 /\ Len(d.copyReceipts) > 0,
                 "warning", "terminal_object_has_copy_receipts", o)
      PROVE  x.severity = "warning"
  BY <1>4 DEF Reconcile!CheckIf, Reconcile!Check
<1> QED
  BY <1>1, <1>2, <1>3, <1>4 DEF Reconcile!ObjectChecks

\* About the coordinator of an upload there is at most one error, and only if
\* the upload is in progress.
LEMMA CoordinatorErrors ==
  ASSUME NEW d, NEW obj, NEW rec, DetailShows(d, obj, rec), Outcome(obj, rec),
         NEW rows, NEW o, NEW c \in Reconcile!CoordinatorChecks(d, rows, o)
  PROVE  /\ c.severity = "error" /\ c.about = o
         /\ c.code \in {"uploading_object_disallowed_coordinator",
                        "uploading_object_expired_coordinator"}
<1>1. d.object.status = "Uploading" => d.object.coordinator # Zero
  BY DEF DetailShows, Outcome
<1>2. \/ c = Reconcile!Check("error", "uploading_object_disallowed_coordinator", o)
      \/ c = Reconcile!Check("error", "uploading_object_expired_coordinator", o)
  BY <1>1 DEF Reconcile!CoordinatorChecks, Reconcile!CheckIf
<1> QED
  BY <1>2 DEF Reconcile!Check

-----------------------------------------------------------------------------
(* The counters of the report *)

LEMMA ReportTotal == \A w : Reconcile!Total(w) = Total(w)
BY DEF Reconcile!Total, Reconcile!Units, Total, Units, Reconcile!Cardinality, Cardinality

\* A share of the uploads of one account, summed over a part of the uploads
\* that has all of it, is the total over all of them.
LEMMA SharesOf ==
  ASSUME TypeOK, NEW w \in [ObjectId -> Nat], NEW T \in SUBSET ObjectId,
         \A o \in ObjectId \ T : w[o] = 0, NEW v, v = [o \in T |-> w[o]]
  PROVE  Reconcile!Total(v) = Ledger!Total(w)
BY TotalWithin, ReportTotal, LedgerTotal

UsageReport(a) == Reconcile!UsageRow(model, Details, a)

LEMMA UsageReported ==
  ASSUME RegistryInv, ProjectionInv, CaughtUp, from.object = 1, NEW a \in Account
  PROVE  LET row == UsageReport(a)
         IN  /\ row.activeBytes = row.projectedActiveBytes
             /\ row.pendingBytes = row.projectedPendingBytes
             /\ row.reservedCost = row.projectedReservedCost
<1>1. /\ TypeOK /\ IssuedInOrder /\ LedgerMatchesUploads
  BY DEF RegistryInv, IndexMatchesStatus
<1>2. /\ DOMAIN model.objects = IssuedIds
      /\ \A o \in IssuedIds : DetailShows(Detail(o), objects[o], receipts[o])
  BY ReportedDetails
<1>3. PICK D : D = Details
  OBVIOUS
<1>4. DOMAIN D = IssuedIds /\ \A o \in IssuedIds : D[o] = Detail(o)
  BY <1>2, <1>3 DEF Details, Detail, Reconcile!BuildObjectDetails
<1>5. PICK mine, open :
        /\ mine = {o \in DOMAIN D : D[o].object.accountId = a}
        /\ open = {o \in mine : Reconcile!Pending(D[o].object)}
  OBVIOUS
<1>6. /\ mine \subseteq IssuedIds /\ open \subseteq mine /\ IssuedIds \subseteq ObjectId
      /\ \A o \in IssuedIds :
           /\ o \in mine <=> objects[o].accountId = a
           /\ o \in open <=> objects[o].accountId = a /\ Live(objects[o].status)
  BY <1>2, <1>4, <1>5
  DEF IssuedIds, DetailShows, Live, Reconcile!Pending, Reconcile!PendingStatuses
<1>7. PICK row, u : /\ row = UsageReport(a)
                    /\ u = Reconcile!FieldOf(model.usage, a, <<>>)
  OBVIOUS
<1>8. /\ row.activeBytes = Reconcile!FieldOf(u, "activeBytes", 0)
      /\ row.pendingBytes = Reconcile!FieldOf(u, "pendingBytes", 0)
      /\ row.reservedCost = Reconcile!FieldOf(u, "reservedCost", 0)
      /\ row.projectedActiveBytes
           = Reconcile!Total([o \in mine |-> Reconcile!ActiveBytes(D[o].object)])
      /\ row.projectedPendingBytes
           = Reconcile!Total([o \in open |-> Reconcile!RequestedBytes(D[o].object)])
      /\ row.projectedReservedCost
           = Reconcile!Total([o \in open |-> D[o].object.reservedCost])
  BY <1>3, <1>5, <1>7 DEF UsageReport, Reconcile!UsageRow
<1>9. /\ row.activeBytes = usage[a].activeBytes
      /\ row.pendingBytes = usage[a].pendingBytes
      /\ row.reservedCost = usage[a].reservedCost
  <2>1. UsageOf(model.usage, a) = usage[a]
    BY CaughtUpMirrors DEF Mirrored, UsageMirrored
  <2>2. CASE a \in DOMAIN model.usage
    <3>1. u = usage[a] /\ u \in AccountUsage
      BY <1>1, <1>7, <2>1, <2>2 DEF UsageOf, Lookup, TypeOK, Reconcile!FieldOf
    <3>2. {"activeBytes", "pendingBytes", "reservedCost"} \subseteq DOMAIN u
      BY <3>1 DEF AccountUsage
    <3> QED
      BY <1>8, <3>1, <3>2 DEF Reconcile!FieldOf
  <2>3. CASE a \notin DOMAIN model.usage
    <3>1. u = <<>> /\ usage[a] = NewUsage
      BY <1>7, <2>1, <2>3 DEF UsageOf, Lookup, Reconcile!FieldOf
    <3>2. DOMAIN u = {}
      BY <3>1
    <3> QED
      BY <1>8, <3>1, <3>2 DEF Reconcile!FieldOf, NewUsage
  <2> QED
    BY <2>2, <2>3
<1>10. PICK wa, wp, wc :
         /\ wa = [o \in ObjectId |-> Ledger!Part(Book[o], a, Book[o].phase = "stored",
                                                 Book[o].stored)]
         /\ wp = [o \in ObjectId |-> Ledger!Part(Book[o], a, Book[o].phase = "open",
                                                 Book[o].bytes)]
         /\ wc = [o \in ObjectId |-> Ledger!Part(Book[o], a, Book[o].phase = "open",
                                                 Book[o].cost)]
  OBVIOUS
<1>11. /\ usage[a].activeBytes = Ledger!Total(wa)
       /\ usage[a].pendingBytes = Ledger!Total(wp)
       /\ usage[a].reservedCost = Ledger!Total(wc)
  <2>1. PublishedTotals[a] = Ledger!TotalsOf(Book)[a]
    BY <1>1 DEF LedgerMatchesUploads
  <2>2. /\ PublishedTotals[a].activeBytes = usage[a].activeBytes
        /\ PublishedTotals[a].pendingBytes = usage[a].pendingBytes
        /\ PublishedTotals[a].reservedCost = usage[a].reservedCost
    BY DEF PublishedTotals
  <2>3. /\ Ledger!TotalsOf(Book)[a].activeBytes = Ledger!Total(wa)
        /\ Ledger!TotalsOf(Book)[a].pendingBytes = Ledger!Total(wp)
        /\ Ledger!TotalsOf(Book)[a].reservedCost = Ledger!Total(wc)
    BY <1>10 DEF Ledger!TotalsOf
  <2> QED
    BY <2>1, <2>2, <2>3
<1>12. ASSUME NEW o \in ObjectId
       PROVE  /\ wa[o] = IF objects[o].accountId = a /\ Stored(objects[o].status)
                         THEN StoredBytes(objects[o]) ELSE 0
              /\ wp[o] = IF objects[o].accountId = a /\ Live(objects[o].status)
                         THEN RequestedBytes(objects[o]) ELSE 0
              /\ wc[o] = IF objects[o].accountId = a /\ Live(objects[o].status)
                         THEN objects[o].reservedCost ELSE 0
              /\ wa[o] \in Nat /\ wp[o] \in Nat /\ wc[o] \in Nat
  <2>1. /\ Book[o] = BookEntry(objects[o]) /\ objects[o] \in StorageObject
    BY <1>1 DEF Book, TypeOK
  <2>2. /\ StoredBytes(objects[o]) \in Nat /\ RequestedBytes(objects[o]) \in Nat
        /\ objects[o].reservedCost \in Nat
    BY <2>1 DEF StorageObject, StoredBytes, RequestedBytes
  <2>3. /\ Phase(objects[o].status) = "stored" <=> Stored(objects[o].status)
        /\ Phase(objects[o].status) = "open" <=> Live(objects[o].status)
    BY DEF Phase, Stored, Live
  <2> QED
    BY <1>10, <2>1, <2>2, <2>3 DEF BookEntry, Ledger!Part
<1>13. /\ wa \in [ObjectId -> Nat] /\ wp \in [ObjectId -> Nat] /\ wc \in [ObjectId -> Nat]
  BY <1>10, <1>12
<1>14. \A o \in ObjectId \ IssuedIds : objects[o] = NoObject
  BY <1>1 DEF IssuedInOrder, IssuedIds
<1>15. /\ \A o \in ObjectId \ mine : wa[o] = 0
       /\ \A o \in ObjectId \ open : wp[o] = 0 /\ wc[o] = 0
  BY <1>6, <1>12, <1>14 DEF NoObject, Stored, Live
<1>16. /\ \A o \in mine : Reconcile!ActiveBytes(D[o].object) = wa[o]
       /\ \A o \in open : /\ Reconcile!RequestedBytes(D[o].object) = wp[o]
                          /\ D[o].object.reservedCost = wc[o]
  BY <1>2, <1>4, <1>6, <1>12
  DEF DetailShows, Stored, StoredBytes, RequestedBytes, Reconcile!ActiveBytes,
      Reconcile!RequestedBytes, Reconcile!StoredStatuses
<1>17. PICK va, vp, vc : /\ va = [o \in mine |-> wa[o]]
                         /\ vp = [o \in open |-> wp[o]] /\ vc = [o \in open |-> wc[o]]
  OBVIOUS
<1>18. /\ Reconcile!Total(va) = Ledger!Total(wa)
       /\ Reconcile!Total(vp) = Ledger!Total(wp)
       /\ Reconcile!Total(vc) = Ledger!Total(wc)
  BY <1>1, <1>6, <1>13, <1>15, <1>17, SharesOf
<1>19. /\ va = [o \in mine |-> Reconcile!ActiveBytes(D[o].object)]
       /\ vp = [o \in open |-> Reconcile!RequestedBytes(D[o].object)]
       /\ vc = [o \in open |-> D[o].object.reservedCost]
  BY <1>16, <1>17
<1> QED
  BY <1>7, <1>8, <1>9, <1>11, <1>18, <1>19

\* The checks of an account raise nothing.
LEMMA NoUsageErrors ==
  ASSUME RegistryInv, ProjectionInv, CaughtUp, from.object = 1,
         NEW rows, rows = Reconcile!BuildUsageRows(model, Details), NEW a \in DOMAIN rows
  PROVE  Reconcile!UsageChecks(rows[a], EmptyMap, a) = {}
<1>1. a \in Account
  <2>1. DOMAIN model.usage \subseteq Account
    BY CaughtUpMirrors DEF Mirrored, UsageMirrored
  <2>2. \A o \in IssuedIds : objects[o].accountId \in Account
    BY DEF RegistryInv, IndexMatchesStatus, IssuedInOrder, IssuedIds
  <2>3. \A o \in DOMAIN Details : Details[o].object.accountId \in Account
    BY <2>2, ReportedDetails DEF Details, Detail, Reconcile!BuildObjectDetails, DetailShows
  <2>4. DOMAIN rows = DOMAIN model.usage
          \cup ({Details[o].object.accountId : o \in DOMAIN Details} \ {Zero})
    BY DEF Reconcile!BuildUsageRows
  <2> QED
    BY <2>1, <2>3, <2>4
<1>2. rows[a] = UsageReport(a)
  BY DEF Reconcile!BuildUsageRows, UsageReport
<1>3. a \notin DOMAIN EmptyMap
  BY DEF EmptyMap
<1>4. PICK row : row = UsageReport(a)
  OBVIOUS
<1>5. /\ row.activeBytes = row.projectedActiveBytes
      /\ row.pendingBytes = row.projectedPendingBytes
      /\ row.reservedCost = row.projectedReservedCost
  BY <1>1, <1>4, UsageReported
<1>6. Reconcile!UsageChecks(row, EmptyMap, a) = {}
  BY <1>3, <1>5 DEF Reconcile!UsageChecks, Reconcile!CheckIf
<1> QED
  BY <1>2, <1>4, <1>6

-----------------------------------------------------------------------------
(* The errors of the report *)

CoordinatorRows == Reconcile!BuildCoordinatorRows(model, Details, now)

\* Of a complete projection nothing but the coordinators can be in error.
LEMMA ReportErrors ==
  ASSUME RegistryInv, ProjectionInv, Outcomes, CaughtUp, from.object = 1
  PROVE  Reconcile!Errors(Report)
           = UNION {Reconcile!CoordinatorChecks(Detail(o), CoordinatorRows, o) :
                      o \in IssuedIds}
<1> DEFINE D       == Details
           usages  == Reconcile!BuildUsageRows(model, D)
           ochecks == UNION {Reconcile!ObjectChecks(D[o], o) : o \in DOMAIN D}
           uchecks == UNION {Reconcile!UsageChecks(usages[a], EmptyMap, a) :
                               a \in DOMAIN usages}
           cchecks == UNION {Reconcile!CoordinatorChecks(D[o], CoordinatorRows, o) :
                               o \in DOMAIN D}
<1>1. usages = Reconcile!BuildUsageRows(model, Details)
  OBVIOUS
<1>2. Report.checks = ochecks \cup uchecks \cup cchecks
  BY DEF Report, Reconcile!BuildAdminSurfaces, CoordinatorRows, Details
<1>3. DOMAIN D = IssuedIds /\ \A o \in IssuedIds : D[o] = Detail(o)
  BY ReportedDetails DEF Details, Detail, Reconcile!BuildObjectDetails
<1> HIDE DEF D, usages
<1>4. \A o \in IssuedIds : /\ DetailShows(D[o], objects[o], receipts[o])
                           /\ Outcome(objects[o], receipts[o])
  BY <1>3, ReportedDetails DEF Outcomes, IssuedIds
<1>5. \A c \in ochecks : c.severity # "error"
  BY <1>3, <1>4, NoObjectErrors
<1>6. uchecks = {}
  BY <1>1, NoUsageErrors
<1>7. \A c \in cchecks : c.severity = "error"
  BY <1>3, <1>4, CoordinatorErrors
<1>8. cchecks = UNION {Reconcile!CoordinatorChecks(Detail(o), CoordinatorRows, o) :
                         o \in IssuedIds}
  BY <1>3
<1> HIDE DEF ochecks, uchecks, cchecks
<1>9. Reconcile!Errors(Report) = cchecks
  BY <1>2, <1>5, <1>6, <1>7 DEF Reconcile!Errors
<1> QED
  BY <1>8, <1>9

\* The report sees the coordinator of an upload in progress as the contract does.
LEMMA CoordinatorReported ==
  ASSUME RegistryInv, ProjectionInv, Outcomes, CoordinatorsExact, CaughtUp,
         from.object = 1, from.coordinators = 0,
         NEW o \in IssuedIds, objects[o].status = "Uploading"
  PROVE  Reconcile!CoordinatorChecks(Detail(o), CoordinatorRows, o) = {}
           <=> ActiveCoordinator(objects[o].coordinator)
<1>1. PICK D, d, c, rows :
        D = Details /\ d = Detail(o) /\ c = objects[o].coordinator /\ rows = CoordinatorRows
  OBVIOUS
<1>2. /\ DetailShows(d, objects[o], receipts[o]) /\ o \in DOMAIN D /\ D[o] = d
  BY <1>1, ReportedDetails DEF Details, Detail, Reconcile!BuildObjectDetails
<1>3. o \in ObjectId /\ TypeOK
  BY DEF IssuedIds, RegistryInv
<1>4. c \in Address /\ c # Zero
  <2>1. c # Zero
    BY <1>1, <1>3 DEF Outcomes, Outcome
  <2>2. objects[o] \in StorageObject
    BY <1>3 DEF TypeOK
  <2> QED
    BY <1>1, <2>1, <2>2 DEF StorageObject
<1>5. d.object.status = "Uploading" /\ d.object.coordinator = c
  BY <1>1, <1>2 DEF DetailShows
<1>6. PICK pol : pol = Reconcile!FieldOf(model.coordinators, c,
                          [allowed |-> FALSE, sessionKeyExpiresAt |-> 0])
  OBVIOUS
<1>7. /\ rows[c].allowed = pol.allowed
      /\ rows[c].sessionStatus = Reconcile!CoordinatorSessionStatus(pol, now)
  <2>1. c \in DOMAIN model.coordinators
               \cup ({D[q].object.coordinator : q \in DOMAIN D} \ {Zero})
    BY <1>2, <1>4, <1>5
  <2> QED
    BY <1>1, <1>6, <2>1 DEF CoordinatorRows, Reconcile!BuildCoordinatorRows
<1>8. /\ pol.allowed <=> coordinatorPolicies[c].allowed
      /\ pol.allowed => pol = coordinatorPolicies[c]
  <2>1. CoordinatorsMirrored(model.coordinators)
    BY CaughtUpMirrors DEF Mirrored
  <2>2. CASE c \in DOMAIN model.coordinators
    BY <1>6, <2>1, <2>2 DEF CoordinatorsMirrored, Reconcile!FieldOf
  <2>3. CASE c \notin DOMAIN model.coordinators
    <3>1. ~pol.allowed
      BY <1>6, <2>3 DEF Reconcile!FieldOf
    <3>2. c \notin Range(coordinatorAddresses)
      <4>1. coordinatorAddresses \in Seq(Address)
        BY <1>3 DEF TypeOK
      <4>2. \A i \in DOMAIN coordinatorAddresses : i > from.coordinators
        BY <4>1
      <4> QED
        BY <2>1, <2>3, <4>2 DEF CoordinatorsMirrored, Range
    <3>3. ~coordinatorPolicies[c].allowed
      BY <1>4, <3>2 DEF CoordinatorsExact
    <3> QED
      BY <3>1, <3>3
  <2> QED
    BY <2>2, <2>3
<1>9. coordinatorPolicies[c] \in CoordinatorPolicy /\ now \in Nat
  BY <1>3, <1>4 DEF TypeOK
<1>10. ActiveCoordinator(c)
         <=> /\ pol.allowed
             /\ Reconcile!CoordinatorSessionStatus(pol, now) # "expired"
  BY <1>8, <1>9 DEF ActiveCoordinator, CoordinatorPolicy,
                    Reconcile!CoordinatorSessionStatus
<1>11. Reconcile!CoordinatorChecks(d, rows, o) = {}
         <=> rows[c].allowed /\ rows[c].sessionStatus # "expired"
  BY <1>4, <1>5 DEF Reconcile!CoordinatorChecks, Reconcile!CheckIf
<1> QED
  BY <1>1, <1>7, <1>10, <1>11

\* What the theorems on the report rest on, together.
ReportInv == RegistryInv /\ ProjectionInv /\ Outcomes /\ CoordinatorsExact

LEMMA ReportInvAlways == EPSpec => []ReportInv
<1>1. EPSpec => Spec
  BY IndexedRegistry
<1>2. Spec => []ListsExact
  BY TypeCorrect, ListsInit, ListsStep, PTL DEF Spec
<1>3. RegistryInv /\ ProjectionInv /\ Outcomes /\ ListsExact => ReportInv
  BY DEF ReportInv, ListsExact, RolesExact
<1> QED
  BY <1>1, <1>2, <1>3, OutcomesAlways, ProjectionAlways, PTL

\* The report on a projection of the whole history raises no error about the
\* counters, copies, payers and hashes of an upload or an account
\* (buildReconciliation over applyRegistryEvents): what the contract keeps is
\* what the checks expect.
THEOREM ReportCorrect == EPSpec => []ProjectionReconciles
<1>1. ASSUME ReportInv PROVE ProjectionReconciles
  <2> SUFFICES ASSUME CaughtUp, from.object = 1, NEW e \in Reconcile!Errors(Report)
               PROVE  e.code \in {"uploading_object_disallowed_coordinator",
                                  "uploading_object_expired_coordinator"}
    BY DEF ProjectionReconciles
  <2>1. PICK o \in IssuedIds :
          e \in Reconcile!CoordinatorChecks(Detail(o), CoordinatorRows, o)
    BY <1>1, ReportErrors DEF ReportInv
  <2>2. /\ DetailShows(Detail(o), objects[o], receipts[o])
        /\ Outcome(objects[o], receipts[o])
    BY <1>1, ReportedDetails DEF ReportInv, Outcomes, IssuedIds
  <2> QED
    BY <2>1, <2>2, CoordinatorErrors
<1> QED
  BY <1>1, ReportInvAlways, PTL

\* The report on a projection of the whole history raises an error about an
\* upload in progress exactly when the contract would refuse its coordinator
\* at that second (coordinatorSessionStatus, _requireActiveCoordinator).
THEOREM AlarmsCorrect == EPSpec => []CoordinatorAlarmsExact
<1>1. ASSUME ReportInv PROVE CoordinatorAlarmsExact
  <2> SUFFICES ASSUME CaughtUp,
                      from = [object |-> 1, coordinators |-> 0, relayers |-> 0,
                              datasets |-> 0],
                      NEW o \in ObjectId, objects[o].status = "Uploading"
               PROVE  Reconcile!ChecksAbout(Reconcile!Errors(Report), o) = {}
                        <=> ActiveCoordinator(objects[o].coordinator)
    BY DEF CoordinatorAlarmsExact
  <2>1. from.object = 1 /\ from.coordinators = 0
    OBVIOUS
  <2>2. o \in IssuedIds
    BY <1>1 DEF ReportInv, RegistryInv, IndexMatchesStatus, IssuedInOrder, IssuedIds,
                NoObject
  <2>3. Reconcile!Errors(Report)
          = UNION {Reconcile!CoordinatorChecks(Detail(q), CoordinatorRows, q) :
                     q \in IssuedIds}
    BY <1>1, <2>1, ReportErrors DEF ReportInv
  <2>4. ASSUME NEW q \in IssuedIds,
               NEW e \in Reconcile!CoordinatorChecks(Detail(q), CoordinatorRows, q)
        PROVE  e.about = q
    <3>1. /\ DetailShows(Detail(q), objects[q], receipts[q])
          /\ Outcome(objects[q], receipts[q])
      BY <1>1, <2>1, ReportedDetails DEF ReportInv, Outcomes, IssuedIds
    <3> QED
      BY <2>4, <3>1, CoordinatorErrors
  <2>5. Reconcile!ChecksAbout(Reconcile!Errors(Report), o)
          = Reconcile!CoordinatorChecks(Detail(o), CoordinatorRows, o)
    BY <2>2, <2>3, <2>4 DEF Reconcile!ChecksAbout
  <2> QED
    BY <1>1, <2>1, <2>2, <2>5, CoordinatorReported DEF ReportInv
<1> QED
  BY <1>1, ReportInvAlways, PTL
=============================================================================

------------------------ MODULE DashboardPagerProofs ------------------------
(***************************************************************************)
(* The dashboard's paging, for every order of clicks, answers and failures *)
(* and for every growth of the lists: what is shown is what was last asked *)
(* for, and no row is skipped.                                             *)
(*                                                                         *)
(* The first follows from what a flight that can still be accepted was     *)
(* sent with.  For the second the invariant says of every position a view  *)
(* can go to, its own and the one its pager offers, that the rows before   *)
(* it are reached: shown, or not there when one of the pages was read.     *)
(***************************************************************************)
EXTENDS DashboardPager, FiniteSetTheorems, WellFoundedInduction, TLAPS

-----------------------------------------------------------------------------
(* Numbers *)

\* A set of numbers that is not empty has a least one.
LEMMA MinOf ==
  ASSUME NEW S, S \subseteq Nat, S # {}
  PROVE  Min(S) \in S /\ \A y \in S : Min(S) <= y
<1> DEFINE R == OpToRel(<, Nat)
<1>1. IsWellFoundedOn(R, Nat)
  BY NatLessThanWellFounded
<1>2. \A x, y \in Nat : y < x => <<y, x>> \in R
  BY DEF OpToRel
<1> HIDE DEF R
<1>3. PICK x \in S : \A y \in S : ~ (<<y, x>> \in R)
  BY <1>1, WFMin
<1>4. ASSUME NEW y \in S PROVE x <= y
  <2>1. ~(y < x)
    BY <1>2, <1>3
  <2> QED
    BY <2>1
<1>5. \E z \in S : \A y \in S : z <= y
  BY <1>4
<1> QED
  BY <1>5 DEF Min

LEMMA MinOfTwo ==
  ASSUME NEW a \in Nat, NEW b \in Nat
  PROVE  Min({a, b}) = IF a <= b THEN a ELSE b
<1>1. Min({a, b}) \in {a, b} /\ \A y \in {a, b} : Min({a, b}) <= y
  BY MinOf
<1> QED
  BY <1>1

LEMMA MaxOfTwo ==
  ASSUME NEW a \in Int, NEW b \in Int
  PROVE  Max({a, b}) = IF a >= b THEN a ELSE b
<1>1. \E x \in {a, b} : \A y \in {a, b} : x >= y
  OBVIOUS
<1>2. Max({a, b}) \in {a, b} /\ \A y \in {a, b} : Max({a, b}) >= y
  BY <1>1 DEF Max
<1> QED
  BY <1>2

-----------------------------------------------------------------------------
(* A page as it is read *)

\* What a list answers to a request.
RowsOf(ask, list) ==
  IF ask.view \in CursorViews THEN CursorRows(list, ask.from, ask.limit)
  ELSE OffsetRows(list, ask.from, ask.limit)

LengthType == length \in [ListNames -> 0..MaxLength]

\* Every view shows a list, and a view with a cursor shows the objects only.
LEMMA ListsOfViews ==
  ASSUME NEW v \in Views
  PROVE  /\ 1 \in DOMAIN ListsOf[v] /\ DOMAIN ListsOf[v] \subseteq Nat
         /\ v \in CursorViews => DOMAIN ListsOf[v] = {1}
         /\ v \in OpenViews => \A i \in DOMAIN ListsOf[v] : ListsOf[v][i] \in ListNames
<1>1. Views = {"files", "accounts", "datasets", "coordinators", "reconciliation"}
  BY DEF Views, ListsOf
<1>2. /\ 1 \in DOMAIN ListsOf[v] /\ DOMAIN ListsOf[v] \subseteq Nat
      /\ v \in CursorViews => DOMAIN ListsOf[v] = {1}
  BY <1>1 DEF ListsOf, CursorViews
<1>3. v \in OpenViews => \A i \in DOMAIN ListsOf[v] : ListsOf[v][i] \in ListNames
  BY DEF ListNames, Range
<1> QED
  BY <1>2, <1>3

\* An offset page holds the rows after the offset, up to the page size, and
\* is short only at the end of the list.
LEMMA OffsetPage ==
  ASSUME LengthType, NEW list \in ListNames, NEW from \in Nat,
         NEW limit \in Nat \ {0}
  PROVE  LET rows == OffsetRows(list, from, limit)
             n    == Cardinality(rows)
         IN  /\ n \in Nat /\ n <= limit /\ rows \subseteq Nat
             /\ \A x \in Nat : from < x /\ x <= from + limit /\ x <= length[list]
                                => x \in rows
             /\ n < limit => \A x \in Nat : from < x /\ x <= length[list]
                                => x \in rows
<1>1. length[list] \in Nat
  BY BoundsAssumption DEF LengthType
<1> DEFINE last == IF from + limit <= length[list] THEN from + limit ELSE length[list]
<1>2. OffsetRows(list, from, limit) = (from + 1)..last
  BY <1>1, MinOfTwo DEF OffsetRows
<1>3. last \in Nat
  BY <1>1
<1>4. Cardinality((from + 1)..last)
        = IF from + 1 > last THEN 0 ELSE last - (from + 1) + 1
  <2> HIDE DEF last
  <2>1. from + 1 \in Int /\ last \in Int
    BY <1>3
  <2> QED
    BY <2>1, FS_Interval
<1> QED
  BY <1>1, <1>2, <1>4

\* The newest id a cursor lets through.
Top(list, cursor) ==
  IF cursor = 0 \/ cursor > length[list] THEN length[list] ELSE cursor - 1

\* A cursor page holds the newest ids below the cursor and is short only at
\* the end of the list.
LEMMA CursorPage ==
  ASSUME LengthType, NEW list \in ListNames, NEW from \in Nat,
         NEW limit \in Nat \ {0}
  PROVE  LET rows == CursorRows(list, from, limit)
             n    == Cardinality(rows)
             top  == Top(list, from)
         IN  /\ top \in Nat /\ n \in Nat /\ n <= limit /\ rows \subseteq Nat
             /\ rows # {} => /\ Min(rows) \in Nat \ {0}
                             /\ \A x \in Nat : Min(rows) <= x /\ x <= top => x \in rows
             /\ n < limit => \A x \in Nat \ {0} : x <= top => x \in rows
<1> DEFINE top   == Top(list, from)
           first == IF 1 >= top - limit + 1 THEN 1 ELSE top - limit + 1
<1>1. top \in Nat
  BY BoundsAssumption DEF LengthType, Top
<1>2. CursorRows(list, from, limit) = first..top
  <2>1. CursorRows(list, from, limit) = Max({1, top - limit + 1})..top
    BY DEF CursorRows, Top
  <2>2. Max({1, top - limit + 1}) = first
    BY <1>1, MaxOfTwo
  <2> QED
    BY <2>1, <2>2
<1>3. first \in Nat \ {0}
  BY <1>1
<1>4. Cardinality(first..top) = IF first > top THEN 0 ELSE top - first + 1
  <2> HIDE DEF first, top
  <2>1. first \in Int /\ top \in Int
    BY <1>1, <1>3
  <2> QED
    BY <2>1, FS_Interval
<1>5. first..top # {} => /\ Min(first..top) \in Nat \ {0}
                         /\ Min(first..top) >= first
  <2> HIDE DEF first, top
  <2>1. first..top \subseteq Nat /\ \A x \in first..top : x >= first /\ x # 0
    BY <1>1, <1>3
  <2> QED
    BY <2>1, MinOf
<1> QED
  BY <1>1, <1>2, <1>3, <1>4, <1>5

-----------------------------------------------------------------------------
(* What the pages shown so far have to do with a row *)

EntriesOf(bodies, list) ==
  {e \in UNION {Range(body) : body \in bodies} : e.list = list}

\* The row has been shown, or was not there when one of the pages was read.
Reached(bodies, list, x) ==
  (\A e \in EntriesOf(bodies, list) : x <= e.total)
    => \E e \in EntriesOf(bodies, list) : x \in e.rows

ReachedBefore(bodies, v, position) ==
  \A list \in Range(ListsOf[v]) : \A x \in Before(v, position) :
    Reached(bodies, list, x)

AllReached(bodies, v) ==
  \A list \in Range(ListsOf[v]) : \A x \in Nat \ {0} : Reached(bodies, list, x)

\* A further page takes nothing back.
LEMMA ReachedStays ==
  ASSUME NEW old, NEW new, old \subseteq new, NEW list, NEW x, Reached(old, list, x)
  PROVE  Reached(new, list, x)
<1>1. EntriesOf(old, list) \subseteq EntriesOf(new, list)
  BY DEF EntriesOf
<1> QED
  BY <1>1 DEF Reached

LEMMA ReachedBeforeStays ==
  ASSUME NEW old, NEW new, old \subseteq new, NEW v, NEW position,
         ReachedBefore(old, v, position)
  PROVE  ReachedBefore(new, v, position)
BY ReachedStays DEF ReachedBefore

\* Nothing comes before the start of a view.
LEMMA StartReached ==
  ASSUME NEW bodies, NEW v
  PROVE  ReachedBefore(bodies, v, 0)
<1>1. Before(v, 0) = {}
  BY DEF Before
<1> QED
  BY <1>1 DEF ReachedBefore

Asked(f) ==
  /\ f.view \in OpenViews
  /\ f.from \in Nat
  /\ f.limit \in Limits

\* The answer for one list of the view.
LEMMA AnswerEntry ==
  ASSUME NEW f, NEW i \in DOMAIN ListsOf[f.view]
  PROVE  LET body == ReadDashboardApi(f)
             list == ListsOf[f.view][i]
             rows == RowsOf(f, list)
         IN  /\ body[i].list = list /\ body[i].rows = rows
             /\ body[i].total = length[list]
             /\ body[i].next = NextOf(f, rows)
             /\ body[i].hasNextPage = HasNextPage(Cardinality(rows), f.limit)
             /\ body[i] \in Range(body)
BY DEF ReadDashboardApi, RowsOf, Range

LEMMA AnswerDomain ==
  ASSUME NEW f
  PROVE  DOMAIN ReadDashboardApi(f) = DOMAIN ListsOf[f.view]
BY DEF ReadDashboardApi

\* A row of the answer is shown, and a row past the end was not there.
LEMMA AnswerReaches ==
  ASSUME LengthType, NEW f, Asked(f), NEW old,
         NEW i \in DOMAIN ListsOf[f.view], NEW x \in Nat,
         x \in RowsOf(f, ListsOf[f.view][i]) \/ x > length[ListsOf[f.view][i]]
  PROVE  Reached(old \cup {ReadDashboardApi(f)}, ListsOf[f.view][i], x)
<1> DEFINE body == ReadDashboardApi(f)
           list == ListsOf[f.view][i]
           new  == old \cup {body}
<1>1. /\ body[i].list = list /\ body[i].rows = RowsOf(f, list)
      /\ body[i].total = length[list] /\ body[i] \in Range(body)
  BY AnswerEntry
<1>2. length[list] \in Nat
  BY ListsOfViews, OpenViewsAssumption, BoundsAssumption DEF LengthType, Asked
<1>3. x \in RowsOf(f, list) \/ x > length[list]
  OBVIOUS
<1> HIDE DEF body, list
<1>4. body[i] \in EntriesOf(new, list)
  BY <1>1 DEF EntriesOf
<1> HIDE DEF new
<1>5. ASSUME x \in RowsOf(f, list) PROVE Reached(new, list, x)
  BY <1>1, <1>4, <1>5 DEF Reached
<1>6. ASSUME x > length[list] PROVE Reached(new, list, x)
  <2>1. ~(x <= body[i].total)
    BY <1>1, <1>2, <1>6
  <2> QED
    BY <2>1, <1>4 DEF Reached
<1>7. Reached(new, list, x)
  BY <1>3, <1>5, <1>6
<1> QED
  BY <1>7 DEF list, body, new

\* A position the answer offers: the rows before it are reached, whichever of
\* the tables of the view it came from.
LEMMA OffsetNext ==
  ASSUME LengthType, NEW f, Asked(f), f.view \notin CursorViews, NEW old,
         ReachedBefore(old, f.view, f.from), NEW n \in 0..f.limit
  PROVE  ReachedBefore(old \cup {ReadDashboardApi(f)}, f.view, f.from + n)
<1> DEFINE new == old \cup {ReadDashboardApi(f)}
<1> SUFFICES ASSUME NEW i \in DOMAIN ListsOf[f.view],
                    NEW x \in Before(f.view, f.from + n)
             PROVE  Reached(new, ListsOf[f.view][i], x)
  BY DEF ReachedBefore, Range
<1> DEFINE list == ListsOf[f.view][i]
<1>1. f.from \in Nat /\ f.limit \in Nat \ {0} /\ list \in ListNames
  BY LimitsAssumption, ListsOfViews, OpenViewsAssumption DEF Asked
<1>2. x \in Nat /\ 1 <= x /\ x <= f.from + n
  BY <1>1 DEF Before
<1>3. length[list] \in Nat
  BY <1>1, BoundsAssumption DEF LengthType
<1>4. CASE x <= f.from
  <2>1. x \in Before(f.view, f.from)
    BY <1>1, <1>2, <1>4 DEF Before
  <2>2. list \in Range(ListsOf[f.view])
    BY DEF Range
  <2>3. Reached(old, list, x)
    BY <2>1, <2>2 DEF ReachedBefore
  <2> QED
    BY <2>3, ReachedStays
<1>5. CASE x > f.from /\ x <= length[list]
  <2>1. x \in OffsetRows(list, f.from, f.limit)
    BY <1>1, <1>2, <1>5, OffsetPage
  <2>2. x \in RowsOf(f, list)
    BY <2>1 DEF RowsOf
  <2> QED
    BY <2>2, <1>2, AnswerReaches
<1>6. CASE x > length[list]
  BY <1>2, <1>6, AnswerReaches
<1> HIDE DEF list
<1>7. Reached(new, list, x)
  BY <1>1, <1>2, <1>3, <1>4, <1>5, <1>6 DEF list
<1> QED
  BY <1>7 DEF list

LEMMA CursorNext ==
  ASSUME LengthType, NEW f, Asked(f), f.view \in CursorViews, NEW old,
         ReachedBefore(old, f.view, f.from)
  PROVE  LET rows == RowsOf(f, ListsOf[f.view][1])
         IN  ReachedBefore(old \cup {ReadDashboardApi(f)}, f.view, NextOf(f, rows))
<1> DEFINE new  == old \cup {ReadDashboardApi(f)}
           list == ListsOf[f.view][1]
           rows == RowsOf(f, list)
           top  == Top(list, f.from)
<1>1. /\ f.from \in Nat /\ f.limit \in Nat \ {0} /\ list \in ListNames
      /\ DOMAIN ListsOf[f.view] = {1}
  BY LimitsAssumption, ListsOfViews, OpenViewsAssumption DEF Asked
<1>2. length[list] \in 0..MaxLength /\ MaxLength \in Nat
  BY <1>1, BoundsAssumption DEF LengthType
<1>3. rows = CursorRows(list, f.from, f.limit)
  BY DEF RowsOf
<1>4. /\ top \in Nat
      /\ rows # {} => /\ Min(rows) \in Nat \ {0}
                      /\ \A x \in Nat : Min(rows) <= x /\ x <= top => x \in rows
  <2> DEFINE Fits(r, t) ==
        /\ t \in Nat
        /\ r # {} => /\ Min(r) \in Nat \ {0}
                     /\ \A x \in Nat : Min(r) <= x /\ x <= t => x \in r
  <2>1. Fits(CursorRows(list, f.from, f.limit), Top(list, f.from))
    <3> HIDE DEF list
    <3> QED BY <1>1, CursorPage
  <2> QED
    BY <1>3, <2>1
<1>5. CASE rows = {}
  <2>1. NextOf(f, rows) = f.from
    BY <1>5 DEF NextOf
  <2> QED
    BY <1>1, <2>1, ReachedBeforeStays
<1>6. CASE rows # {}
  <2>1. NextOf(f, rows) = Min(rows)
    BY <1>6 DEF NextOf
  <2> SUFFICES ASSUME NEW x \in Before(f.view, Min(rows))
               PROVE  Reached(new, list, x)
    BY <1>1, <1>4, <1>6, <2>1 DEF ReachedBefore, Range
  <2>2. x \in Nat /\ Min(rows) <= x /\ x <= MaxLength /\ x # 0
    BY <1>2, <1>4, <1>6 DEF Before
  <2>3. CASE x \in rows \/ x > length[list]
    BY <1>1, <2>2, <2>3, AnswerReaches
  <2>4. CASE x \notin rows /\ x <= length[list]
    <3>1. x > top
      BY <1>4, <1>6, <2>2, <2>4
    <3>2. f.from # 0 /\ f.from <= x
      BY <1>1, <1>2, <2>2, <2>4, <3>1 DEF Top
    <3>3. x \in Before(f.view, f.from)
      BY <1>1, <1>2, <2>2, <3>2 DEF Before
    <3>4. Reached(old, list, x)
      BY <1>1, <3>3 DEF ReachedBefore, Range
    <3> QED
      BY <3>4, ReachedStays
  <2> QED
    BY <1>2, <2>2, <2>3, <2>4
<1> QED
  BY <1>5, <1>6

\* The answer without a successor: nothing is left.
LEMMA EndReached ==
  ASSUME LengthType, NEW f, Asked(f), NEW old,
         ReachedBefore(old, f.view, f.from),
         \A i \in DOMAIN ListsOf[f.view] :
           ~HasNextPage(Cardinality(RowsOf(f, ListsOf[f.view][i])), f.limit)
  PROVE  AllReached(old \cup {ReadDashboardApi(f)}, f.view)
<1> DEFINE new == old \cup {ReadDashboardApi(f)}
<1> SUFFICES ASSUME NEW i \in DOMAIN ListsOf[f.view], NEW x \in Nat \ {0}
             PROVE  Reached(new, ListsOf[f.view][i], x)
  BY DEF AllReached, Range
<1> DEFINE list == ListsOf[f.view][i]
           rows == RowsOf(f, list)
<1>1. /\ f.from \in Nat /\ f.limit \in Nat \ {0} /\ list \in ListNames
      /\ list \in Range(ListsOf[f.view])
  BY LimitsAssumption, ListsOfViews, OpenViewsAssumption DEF Asked, Range
<1>2. length[list] \in 0..MaxLength /\ MaxLength \in Nat
  BY <1>1, BoundsAssumption DEF LengthType
<1>3. ASSUME x \in Before(f.view, f.from) PROVE Reached(new, list, x)
  <2>1. Reached(old, list, x)
    BY <1>1, <1>3 DEF ReachedBefore
  <2> QED
    BY <2>1, ReachedStays
<1>4. ASSUME x \in rows \/ x > length[list] PROVE Reached(new, list, x)
  BY <1>4, AnswerReaches
<1>5. CASE f.view \in CursorViews
  <2>1. rows = CursorRows(list, f.from, f.limit)
    BY <1>5 DEF RowsOf
  <2>2. /\ Top(list, f.from) \in Nat /\ Cardinality(rows) \in Nat
        /\ Cardinality(rows) < f.limit => (x <= Top(list, f.from) => x \in rows)
    <3> HIDE DEF list
    <3>1. /\ Top(list, f.from) \in Nat
          /\ Cardinality(CursorRows(list, f.from, f.limit)) \in Nat
          /\ Cardinality(CursorRows(list, f.from, f.limit)) < f.limit
               => (x <= Top(list, f.from) => x \in CursorRows(list, f.from, f.limit))
      BY <1>1, CursorPage
    <3> QED
      BY <2>1, <3>1
  <2>3. Cardinality(rows) < f.limit
    BY <1>1, <2>2 DEF HasNextPage
  <2>4. x \notin rows /\ x <= length[list] => x \in Before(f.view, f.from)
    BY <1>1, <1>2, <1>5, <2>2, <2>3 DEF Top, Before
  <2> QED
    BY <1>2, <1>3, <1>4, <2>4
<1>6. CASE f.view \notin CursorViews
  <2>1. rows = OffsetRows(list, f.from, f.limit)
    BY <1>6 DEF RowsOf
  <2>2. /\ Cardinality(rows) \in Nat
        /\ Cardinality(rows) < f.limit
             => (f.from < x /\ x <= length[list] => x \in rows)
    BY <1>1, <2>1, OffsetPage
  <2>3. Cardinality(rows) < f.limit
    BY <1>1, <2>2 DEF HasNextPage
  <2>4. x \notin rows /\ x <= length[list] => x \in Before(f.view, f.from)
    BY <1>1, <1>2, <1>6, <2>2, <2>3 DEF Before
  <2> QED
    BY <1>2, <1>3, <1>4, <2>4
<1> QED
  BY <1>5, <1>6

PagedFrom(p, bodies, v) ==
  /\ p.mode = Mode(v)
  /\ ReachedBefore(bodies, v, p.next)
  /\ ~p.hasNextPage => AllReached(bodies, v)

\* The table the pagination of an answer is taken from.
Primary(body) ==
  LET withNext == {i \in DOMAIN body : body[i].hasNextPage}
  IN  IF withNext = {} THEN 1 ELSE Min(withNext)

LEMMA PrimaryIsOne ==
  ASSUME NEW f, f.view \in Views
  PROVE  Primary(ReadDashboardApi(f)) \in DOMAIN ListsOf[f.view]
<1> DEFINE body     == ReadDashboardApi(f)
           withNext == {i \in DOMAIN body : body[i].hasNextPage}
<1>1. /\ DOMAIN body = DOMAIN ListsOf[f.view]
      /\ DOMAIN body \subseteq Nat /\ 1 \in DOMAIN body
  BY ListsOfViews, AnswerDomain
<1>2. withNext # {} => Min(withNext) \in withNext
  <2>1. withNext \subseteq Nat
    BY <1>1
  <2> HIDE DEF withNext
  <2> QED
    BY <2>1, MinOf
<1> QED
  BY <1>1, <1>2 DEF Primary

\* Whatever was asked, the answer offers a number.
LEMMA AnswerNextType ==
  ASSUME LengthType, NEW f, Asked(f)
  PROVE  PrimaryPagination(f.view, ReadDashboardApi(f)).next \in Nat
<1> DEFINE body == ReadDashboardApi(f)
           k    == Primary(body)
           list == ListsOf[f.view][k]
           rows == RowsOf(f, list)
<1>1. f.view \in Views /\ f.from \in Nat /\ f.limit \in Nat \ {0}
  BY LimitsAssumption, OpenViewsAssumption DEF Asked
<1>2. k \in DOMAIN ListsOf[f.view]
  BY <1>1, PrimaryIsOne
<1>3. PrimaryPagination(f.view, body).next = body[k].next
  BY DEF PrimaryPagination, Primary
<1> HIDE DEF k
<1>4. body[k].next = NextOf(f, rows)
  BY <1>2, AnswerEntry
<1>5. list \in ListNames
  BY <1>1, <1>2, ListsOfViews DEF Asked
<1> HIDE DEF list
<1>6. CASE f.view \in CursorViews
  <2>1. rows = CursorRows(list, f.from, f.limit)
    BY <1>6 DEF RowsOf
  <2>2. CursorRows(list, f.from, f.limit) # {}
          => Min(CursorRows(list, f.from, f.limit)) \in Nat
    BY <1>1, <1>5, CursorPage
  <2> QED
    BY <1>1, <1>3, <1>4, <1>6, <2>1, <2>2 DEF NextOf
<1>7. CASE f.view \notin CursorViews
  <2>1. rows = OffsetRows(list, f.from, f.limit)
    BY <1>7 DEF RowsOf
  <2>2. Cardinality(OffsetRows(list, f.from, f.limit)) \in Nat
    BY <1>1, <1>5, OffsetPage
  <2> QED
    BY <1>1, <1>3, <1>4, <1>7, <2>1, <2>2 DEF NextOf
<1> QED
  BY <1>6, <1>7

\* The pagination of an answer, of one list or combined of two.
LEMMA AnswerPaged ==
  ASSUME LengthType, NEW f, Asked(f), NEW old,
         ReachedBefore(old, f.view, f.from)
  PROVE  LET body == ReadDashboardApi(f)
         IN  PagedFrom(PrimaryPagination(f.view, body), old \cup {body}, f.view)
<1> DEFINE body     == ReadDashboardApi(f)
           new      == old \cup {body}
           withNext == {i \in DOMAIN body : body[i].hasNextPage}
           primary  == Primary(body)
           rows(i)  == RowsOf(f, ListsOf[f.view][i])
           p        == PrimaryPagination(f.view, body)
<1>1. /\ p.mode = Mode(f.view) /\ p.next = body[primary].next
      /\ p.hasNextPage <=> withNext # {}
  BY DEF PrimaryPagination, Primary
<1>2. /\ f.view \in Views /\ f.from \in Nat /\ f.limit \in Nat \ {0}
      /\ DOMAIN body = DOMAIN ListsOf[f.view]
      /\ DOMAIN body \subseteq Nat /\ 1 \in DOMAIN body
  BY LimitsAssumption, ListsOfViews, OpenViewsAssumption, AnswerDomain DEF Asked
<1>3. primary \in DOMAIN ListsOf[f.view]
  BY <1>2, PrimaryIsOne
<1>4. \A i \in DOMAIN ListsOf[f.view] :
        /\ body[i].next = NextOf(f, rows(i))
        /\ body[i].hasNextPage = HasNextPage(Cardinality(rows(i)), f.limit)
  BY AnswerEntry
<1>5. ReachedBefore(new, f.view, p.next)
  <2>1. p.next = NextOf(f, rows(primary))
    BY <1>1, <1>3, <1>4
  <2> HIDE DEF p, primary, body
  <2>2. CASE f.view \in CursorViews
    <3>1. primary = 1
      BY <1>2, <1>3, <2>2, ListsOfViews
    <3> QED
      BY <2>1, <2>2, <3>1, CursorNext DEF body
  <2>3. CASE f.view \notin CursorViews
    <3> DEFINE list == ListsOf[f.view][primary]
    <3>1. rows(primary) = OffsetRows(list, f.from, f.limit)
      BY <2>3 DEF RowsOf
    <3>2. list \in ListNames
      BY <1>2, <1>3, ListsOfViews DEF Asked
    <3> HIDE DEF list
    <3>3. Cardinality(OffsetRows(list, f.from, f.limit)) \in 0..f.limit
      BY <1>2, <3>2, OffsetPage
    <3>4. NextOf(f, rows(primary)) = f.from + Cardinality(OffsetRows(list, f.from, f.limit))
      BY <2>3, <3>1 DEF NextOf
    <3> QED
      BY <1>2, <2>1, <2>3, <3>3, <3>4, OffsetNext DEF body
  <2> QED
    BY <2>2, <2>3
<1>6. ~p.hasNextPage => AllReached(new, f.view)
  <2> SUFFICES ASSUME withNext = {} PROVE AllReached(new, f.view)
    BY <1>1
  <2>1. \A i \in DOMAIN ListsOf[f.view] : ~body[i].hasNextPage
    BY <1>2
  <2>2. \A i \in DOMAIN ListsOf[f.view] :
          ~HasNextPage(Cardinality(RowsOf(f, ListsOf[f.view][i])), f.limit)
    BY <1>4, <2>1
  <2> QED
    BY <2>2, EndReached
<1> QED
  BY <1>1, <1>5, <1>6 DEF PagedFrom

-----------------------------------------------------------------------------
(* The invariant *)

Sent(f) ==
  /\ f.id \in 1..requestSeq
  /\ Asked(f)
  /\ f.id = requestSeq =>
       /\ f.view = view /\ f.from = pages[view]
       /\ f.limit = controls.limit /\ f.filter = controls.filter
       /\ f.q = controls.q \/ searchTimer

PageType ==
  /\ LengthType
  /\ view \in OpenViews
  /\ requestSeq \in Nat
  /\ pages \in [Views -> Nat]
  /\ pagination.next \in Nat
  /\ controls \in [limit : Limits, filter : Filters, q : Texts]
  /\ footer \in [buttons : BOOLEAN, first : BOOLEAN, view : Views, reset : BOOLEAN]
  /\ DOMAIN rendered = Views

\* Only the last load can still be accepted, and it asked for what the page
\* is at; a change of the search text is followed by a load.
FlightsOK == \A f \in flights : Sent(f)

\* The rows on the screen.
TableOK ==
  table.kind = "rows" =>
    /\ table.view = view /\ table.from = pages[view]
    /\ table.limit = controls.limit /\ table.filter = controls.filter
    /\ table.q = controls.q \/ searchTimer

\* Where a view is.
PositionsOK ==
  \A v \in Views \ strayed : ReachedBefore(rendered[v], v, pages[v])

\* Where Next leads to.
FooterOK ==
  footer.buttons /\ ~footer.reset /\ footer.view \notin strayed =>
    /\ pagination.mode = Mode(footer.view)
    /\ ReachedBefore(rendered[footer.view], footer.view, pagination.next)

Totals(bodies, list) == {e.total : e \in EntriesOf(bodies, list)}

\* What was shown of a view that has rows on the screen.
ShownOK ==
  table.kind = "rows" /\ view \notin strayed =>
    /\ \A list \in Range(ListsOf[view]) : EntriesOf(rendered[view], list) # {}
    /\ ~pagination.hasNextPage => AllReached(rendered[view], view)

RenderedOK ==
  \A v \in Views, list \in ListNames : Totals(rendered[v], list) \subseteq Nat

PagerInv ==
  /\ PageType /\ FlightsOK /\ TableOK
  /\ PositionsOK /\ FooterOK /\ ShownOK /\ RenderedOK

LEMMA NoEntries ==
  ASSUME NEW list PROVE EntriesOf({}, list) = {}
BY DEF EntriesOf

LEMMA InitPager == DPInit => PagerInv
<1> SUFFICES ASSUME DPInit PROVE PagerInv
  OBVIOUS
<1> USE DEF DPInit
<1>1. PageType
  BY OpenViewsAssumption DEF PageType, LengthType, NoPagination, NoPager, Views, ListsOf
<1>2. FlightsOK /\ TableOK /\ FooterOK /\ ShownOK
  BY DEF FlightsOK, TableOK, FooterOK, ShownOK, Loading, NoPager
<1>3. PositionsOK
  BY StartReached DEF PositionsOK
<1>4. RenderedOK
  BY NoEntries DEF RenderedOK, Totals
<1> QED
  BY <1>1, <1>2, <1>3, <1>4 DEF PagerInv

ControlType == [limit : Limits, filter : Filters, q : Texts]

\* A load outdates every flight and takes the rows off the screen.
LEMMA LoadKeeps ==
  ASSUME PagerInv, NEW v \in OpenViews, NEW positions \in [Views -> Nat],
         NEW values \in ControlType, LoadView(v, positions, values),
         view' = v, pages' = positions, controls' = values
  PROVE  FlightsOK' /\ TableOK' /\ ShownOK' /\ requestSeq' \in Nat
<1>1. requestSeq \in Nat /\ requestSeq' = requestSeq + 1 /\ table' = Loading(v)
  BY DEF LoadView, PagerInv, PageType
<1>2. TableOK' /\ ShownOK'
  BY <1>1 DEF TableOK, ShownOK, Loading
<1>3. FlightsOK'
  <2> SUFFICES ASSUME NEW f \in flights' PROVE Sent(f)'
    BY DEF FlightsOK
  <2>1. CASE f \in flights
    <3>1. f.id \in 1..requestSeq /\ Asked(f)
      BY <2>1 DEF PagerInv, FlightsOK, Sent
    <3> QED
      BY <1>1, <3>1 DEF Sent, Asked
  <2>2. CASE f = [id |-> requestSeq + 1, view |-> v, from |-> positions[v],
                  limit |-> values.limit, filter |-> values.filter, q |-> values.q]
    <3>1. positions[v] \in Nat /\ values.limit \in Limits
      BY OpenViewsAssumption DEF ControlType
    <3> QED
      BY <1>1, <2>2, <3>1 DEF Sent, Asked
  <2> QED
    BY <2>1, <2>2 DEF LoadView
<1> QED
  BY <1>1, <1>2, <1>3

\* A reset of all positions forgets what was shown.
LEMMA ResetKeeps ==
  ASSUME PagerInv, ResetAllPages, UNCHANGED <<pagination, length, view>>
  PROVE  /\ PositionsOK' /\ FooterOK' /\ RenderedOK'
         /\ pages' \in [Views -> Nat] /\ DOMAIN rendered' = Views
         /\ footer' \in [buttons : BOOLEAN, first : BOOLEAN, view : Views, reset : BOOLEAN]
<1>1. /\ pages' = [v \in Views |-> 0] /\ rendered' = [v \in Views |-> {}]
      /\ footer' = [footer EXCEPT !.reset = TRUE]
      /\ footer \in [buttons : BOOLEAN, first : BOOLEAN, view : Views, reset : BOOLEAN]
  BY DEF ResetAllPages, PagerInv, PageType
<1>2. footer' \in [buttons : BOOLEAN, first : BOOLEAN, view : Views, reset : BOOLEAN]
      /\ footer'.reset
  BY <1>1
<1>3. PositionsOK'
  BY <1>1, StartReached DEF PositionsOK
<1>4. RenderedOK'
  BY <1>1, NoEntries DEF RenderedOK, Totals
<1>5. FooterOK'
  BY <1>2 DEF FooterOK
<1> QED
  BY <1>1, <1>2, <1>3, <1>4, <1>5

\* What Next leads to in a view whose pager it is.
LEMMA NextReached ==
  ASSUME PagerInv, footer.buttons, OwnPager, view \notin strayed
  PROVE  ReachedBefore(rendered[view], view, NextPosition)
BY DEF PagerInv, FooterOK, OwnPager, NextPosition

LEMMA NextType ==
  ASSUME PagerInv PROVE NextPosition \in Nat /\ view \in Views
BY OpenViewsAssumption DEF PagerInv, PageType, NextPosition

\* Every step that starts a load.
LEMMA LoadsPager ==
  ASSUME PagerInv,
         \/ \E v \in OpenViews : Navigate(v)
         \/ \E limit \in Limits, filter \in Filters : ChangeControl(limit, filter)
         \/ SearchTimerFires
         \/ ClickNext
         \/ ClickFirst
         \/ OverviewSettles
  PROVE  PagerInv'
<1> USE DEF ControlType
<1>1. /\ PageType /\ LengthType /\ view \in OpenViews /\ pages \in [Views -> Nat]
      /\ controls \in ControlType /\ PositionsOK /\ FooterOK /\ RenderedOK
      /\ view \in Views
  BY OpenViewsAssumption DEF PagerInv, PageType
<1>2. ASSUME NEW v \in OpenViews, Navigate(v) PROVE PagerInv'
  <2>1. FlightsOK' /\ TableOK' /\ ShownOK' /\ requestSeq' \in Nat
    BY <1>1, <1>2, LoadKeeps DEF Navigate
  <2>2. PageType' /\ PositionsOK' /\ FooterOK' /\ RenderedOK'
    BY <1>1, <1>2, <2>1 DEF Navigate, LoadView, PageType, LengthType, PositionsOK,
       FooterOK, RenderedOK
  <2> QED
    BY <2>1, <2>2 DEF PagerInv
<1>3. ASSUME NEW limit \in Limits, NEW filter \in Filters, ChangeControl(limit, filter)
      PROVE PagerInv'
  <2>1. controls' \in ControlType /\ pages' = [v \in Views |-> 0]
    BY <1>1, <1>3 DEF ChangeControl, ResetAllPages
  <2>2. /\ LoadView(view, pages', controls') /\ ResetAllPages
        /\ UNCHANGED <<pagination, length, view>>
    BY <1>3, <2>1 DEF ChangeControl, LoadView
  <2>3. /\ PositionsOK' /\ FooterOK' /\ RenderedOK'
        /\ pages' \in [Views -> Nat] /\ DOMAIN rendered' = Views
        /\ footer' \in [buttons : BOOLEAN, first : BOOLEAN, view : Views, reset : BOOLEAN]
    BY <2>2, ResetKeeps
  <2>4. FlightsOK' /\ TableOK' /\ ShownOK' /\ requestSeq' \in Nat
    BY <1>1, <2>1, <2>2, <2>3, LoadKeeps
  <2>5. PageType'
    BY <1>1, <2>1, <2>2, <2>3, <2>4 DEF PageType, LengthType
  <2> QED
    BY <2>3, <2>4, <2>5 DEF PagerInv
<1>4. ASSUME SearchTimerFires PROVE PagerInv'
  <2>1. controls' = controls /\ pages' = [v \in Views |-> 0]
    BY <1>4 DEF SearchTimerFires, ResetAllPages
  <2>2. /\ LoadView(view, pages', controls') /\ ResetAllPages
        /\ UNCHANGED <<pagination, length, view>>
    BY <1>4, <2>1 DEF SearchTimerFires, LoadView
  <2>3. /\ PositionsOK' /\ FooterOK' /\ RenderedOK'
        /\ pages' \in [Views -> Nat] /\ DOMAIN rendered' = Views
        /\ footer' \in [buttons : BOOLEAN, first : BOOLEAN, view : Views, reset : BOOLEAN]
    BY <2>2, ResetKeeps
  <2>4. FlightsOK' /\ TableOK' /\ ShownOK' /\ requestSeq' \in Nat
    BY <1>1, <2>1, <2>2, <2>3, LoadKeeps
  <2>5. PageType'
    BY <1>1, <2>1, <2>2, <2>3, <2>4 DEF PageType, LengthType
  <2> QED
    BY <2>3, <2>4, <2>5 DEF PagerInv
<1>5. ASSUME NEW position \in Nat, ClickTo(position)
      PROVE  /\ FlightsOK' /\ TableOK' /\ ShownOK'
             /\ (DOMAIN rendered' = Views => PageType')
             /\ UNCHANGED <<length, view, footer, pagination>>
             /\ pages' = [pages EXCEPT ![view] = position]
  <2>1. /\ pages' = [pages EXCEPT ![view] = position]
        /\ LoadView(view, pages', controls')
        /\ UNCHANGED <<length, view, controls, searchTimer, booting, footer, pagination>>
    BY <1>5 DEF ClickTo, LoadView
  <2>2. pages' \in [Views -> Nat]
    BY <1>1, <2>1
  <2>3. FlightsOK' /\ TableOK' /\ ShownOK' /\ requestSeq' \in Nat
    BY <1>1, <2>1, <2>2, LoadKeeps
  <2>4. DOMAIN rendered' = Views => PageType'
    BY <1>1, <2>1, <2>2, <2>3 DEF PageType, LengthType
  <2> QED
    BY <2>1, <2>3, <2>4
<1>6. ASSUME ClickNext PROVE PagerInv'
  <2>1. NextPosition \in Nat /\ ClickTo(NextPosition) /\ footer.buttons
    BY <1>6, NextType DEF ClickNext
  <2>2. /\ FlightsOK' /\ TableOK' /\ ShownOK'
        /\ (DOMAIN rendered' = Views => PageType')
        /\ UNCHANGED <<length, view, footer, pagination>>
        /\ pages' = [pages EXCEPT ![view] = NextPosition]
    BY <1>5, <2>1
  <2>3. CASE OwnPager
    <3>1. UNCHANGED <<rendered, strayed>>
      BY <1>6, <2>3 DEF ClickNext
    <3>2. PositionsOK'
      BY <1>1, <2>1, <2>2, <2>3, <3>1, NextReached DEF PositionsOK
    <3>3. FooterOK' /\ RenderedOK' /\ DOMAIN rendered' = Views
      BY <1>1, <2>2, <3>1 DEF FooterOK, RenderedOK, PageType
    <3> QED
      BY <2>2, <3>2, <3>3 DEF PagerInv
  <2>4. CASE ~OwnPager
    <3>1. /\ strayed' = strayed \cup {view}
          /\ rendered' = [rendered EXCEPT ![view] = {}]
          /\ DOMAIN rendered = Views
      BY <1>1, <1>6, <2>4 DEF ClickNext, PageType
    <3>2. PositionsOK'
      BY <1>1, <2>2, <3>1 DEF PositionsOK
    <3>3. FooterOK'
      BY <1>1, <2>2, <2>4, <3>1 DEF FooterOK, OwnPager, PageType
    <3>4. RenderedOK'
      BY <1>1, <3>1, NoEntries DEF RenderedOK, Totals
    <3> QED
      BY <2>2, <3>1, <3>2, <3>3, <3>4 DEF PagerInv
  <2> QED
    BY <2>3, <2>4
<1>7. ASSUME ClickFirst PROVE PagerInv'
  <2>1. ClickTo(0) /\ UNCHANGED <<rendered, strayed>>
    BY <1>7 DEF ClickFirst
  <2>2. /\ FlightsOK' /\ TableOK' /\ ShownOK'
        /\ (DOMAIN rendered' = Views => PageType')
        /\ UNCHANGED <<length, view, footer, pagination>>
        /\ pages' = [pages EXCEPT ![view] = 0]
    BY <1>5, <2>1
  <2>3. PositionsOK'
    BY <1>1, <2>1, <2>2, StartReached DEF PositionsOK
  <2>4. FooterOK' /\ RenderedOK' /\ DOMAIN rendered' = Views
    BY <1>1, <2>1, <2>2 DEF FooterOK, RenderedOK, PageType
  <2> QED
    BY <2>2, <2>3, <2>4 DEF PagerInv
<1>8. ASSUME OverviewSettles PROVE PagerInv'
  <2>1. FlightsOK' /\ TableOK' /\ ShownOK' /\ requestSeq' \in Nat
    BY <1>1, <1>8, LoadKeeps DEF OverviewSettles
  <2>2. PageType' /\ PositionsOK' /\ FooterOK' /\ RenderedOK'
    BY <1>1, <1>8, <2>1 DEF OverviewSettles, LoadView, PageType, LengthType,
       PositionsOK, FooterOK, RenderedOK
  <2> QED
    BY <2>1, <2>2 DEF PagerInv
<1> QED
  BY <1>2, <1>3, <1>4, <1>6, <1>7, <1>8

LEMMA AnswerTotals ==
  ASSUME LengthType, NEW f, Asked(f), NEW e \in Range(ReadDashboardApi(f))
  PROVE  e.total \in Nat
<1>1. PICK i \in DOMAIN ListsOf[f.view] : e = ReadDashboardApi(f)[i]
  BY AnswerDomain DEF Range
<1>2. e.total = length[ListsOf[f.view][i]] /\ ListsOf[f.view][i] \in ListNames
  BY <1>1, AnswerEntry, ListsOfViews, OpenViewsAssumption DEF Asked
<1> QED
  BY <1>2, BoundsAssumption DEF LengthType

LEMMA AnswerLists ==
  ASSUME NEW f, NEW bodies, ReadDashboardApi(f) \in bodies,
         NEW list \in Range(ListsOf[f.view])
  PROVE  EntriesOf(bodies, list) # {}
<1>1. PICK i \in DOMAIN ListsOf[f.view] : list = ListsOf[f.view][i]
  BY DEF Range
<1> DEFINE body == ReadDashboardApi(f)
<1>2. body[i] \in Range(body) /\ body[i].list = list
  BY <1>1, AnswerEntry
<1> HIDE DEF body
<1>3. body[i] \in EntriesOf(bodies, list)
  BY <1>2 DEF EntriesOf, body
<1> QED
  BY <1>3

\* An answer that is accepted is the one to the last load.
LEMMA ArrivePager ==
  ASSUME PagerInv, NEW f \in flights, Arrive(f)
  PROVE  PagerInv'
<1>1. /\ PageType /\ LengthType /\ view \in OpenViews /\ pages \in [Views -> Nat]
      /\ PositionsOK /\ FooterOK /\ RenderedOK /\ FlightsOK /\ TableOK /\ ShownOK
      /\ view \in Views /\ DOMAIN rendered = Views /\ Sent(f) /\ Asked(f)
  BY OpenViewsAssumption DEF PagerInv, PageType, FlightsOK, Sent
<1>2. /\ UNCHANGED <<length, view, requestSeq, pages, controls, searchTimer, booting, strayed>>
      /\ flights' \subseteq flights
  BY DEF Arrive
<1>3. FlightsOK'
  BY <1>1, <1>2 DEF FlightsOK, Sent, Asked
<1>4. CASE ~Accepts(f)
  <2>1. UNCHANGED <<table, pagination, footer, rendered>>
    BY <1>4 DEF Arrive
  <2>2. PageType' /\ TableOK' /\ PositionsOK' /\ FooterOK' /\ ShownOK' /\ RenderedOK'
    BY <1>1, <1>2, <2>1 DEF PageType, LengthType, TableOK, PositionsOK, FooterOK,
       ShownOK, RenderedOK
  <2> QED
    BY <1>3, <2>2 DEF PagerInv
<1>5. CASE Accepts(f)
  <2> DEFINE body == ReadDashboardApi(f)
             p    == PrimaryPagination(view, body)
             new  == rendered[view] \cup {body}
  <2>1. /\ f.view = view /\ f.from = pages[view] /\ f.limit = controls.limit
        /\ f.filter = controls.filter /\ (f.q = controls.q \/ searchTimer)
    BY <1>1, <1>5 DEF Accepts, Sent
  <2>2. /\ table' = [kind |-> "rows", view |-> f.view, from |-> f.from,
                     limit |-> f.limit, filter |-> f.filter, q |-> f.q]
        /\ pagination' = p
        /\ footer' = [buttons |-> TRUE, first |-> pages[view] = 0,
                      view |-> view, reset |-> FALSE]
        /\ rendered' = [rendered EXCEPT ![view] = IF view \in strayed THEN {} ELSE new]
    BY <1>5, <2>1 DEF Arrive
  <2>3. p.next \in Nat
    BY <1>1, <2>1, AnswerNextType
  <2>4. ASSUME view \notin strayed PROVE PagedFrom(p, new, view)
    <3>1. ReachedBefore(rendered[view], f.view, f.from)
      BY <1>1, <2>1, <2>4 DEF PositionsOK
    <3> QED
      BY <1>1, <2>1, <3>1, AnswerPaged
  <2>5. ASSUME NEW list PROVE Totals(new, list) \subseteq Totals(rendered[view], list) \cup Nat
    BY <1>1, AnswerTotals DEF Totals, EntriesOf
  <2>6. ASSUME view \notin strayed, NEW list \in Range(ListsOf[view])
        PROVE  EntriesOf(new, list) # {}
    BY <2>1, <2>6, AnswerLists
  <2> HIDE DEF p, body
  <2>7. TableOK'
    BY <1>2, <2>1, <2>2 DEF TableOK
  <2>8. PageType'
    <3>1. footer' \in [buttons : BOOLEAN, first : BOOLEAN, view : Views, reset : BOOLEAN]
      BY <1>1, <2>2
    <3> QED
      BY <1>1, <1>2, <2>2, <2>3, <3>1 DEF PageType, LengthType
  <2>9. PositionsOK'
    <3> SUFFICES ASSUME NEW v \in Views \ strayed
                 PROVE  ReachedBefore(rendered'[v], v, pages[v])
      BY <1>2 DEF PositionsOK
    <3>1. ReachedBefore(rendered[v], v, pages[v]) /\ rendered[v] \subseteq rendered'[v]
      BY <1>1, <2>2 DEF PositionsOK
    <3> QED
      BY <3>1, ReachedBeforeStays
  <2>10. view \notin strayed => rendered'[view] = new
    BY <1>1, <2>2
  <2> HIDE DEF new
  <2>11. FooterOK'
    <3> SUFFICES ASSUME view \notin strayed
                 PROVE  p.mode = Mode(view) /\ ReachedBefore(rendered'[view], view, p.next)
      BY <1>2, <2>2 DEF FooterOK
    <3> QED
      BY <2>4, <2>10 DEF PagedFrom
  <2>12. ShownOK'
    BY <1>2, <2>2, <2>4, <2>6, <2>10 DEF ShownOK, PagedFrom
  <2>13. RenderedOK'
    <3> SUFFICES ASSUME NEW v \in Views, NEW list \in ListNames
                 PROVE  Totals(rendered'[v], list) \subseteq Nat
      BY DEF RenderedOK
    <3>1. Totals(rendered[v], list) \subseteq Nat
      BY <1>1 DEF RenderedOK
    <3>2. Totals({}, list) = {}
      BY NoEntries DEF Totals
    <3>3. CASE v = view
      <4>1. rendered'[v] = IF view \in strayed THEN {} ELSE new
        BY <1>1, <2>2, <3>3 DEF new
      <4>2. Totals(new, list) \subseteq Nat
        BY <2>5, <3>1, <3>3
      <4> QED
        BY <3>2, <4>1, <4>2
    <3>4. CASE v # view
      BY <1>1, <2>2, <3>1, <3>4
    <3> QED
      BY <3>3, <3>4
  <2> QED
    BY <1>3, <2>7, <2>8, <2>9, <2>11, <2>12, <2>13 DEF PagerInv
<1> QED
  BY <1>4, <1>5

LEMMA FailPager ==
  ASSUME PagerInv, NEW f \in flights, Fail(f)
  PROVE  PagerInv'
<1>1. /\ PageType /\ PositionsOK /\ FooterOK /\ RenderedOK /\ FlightsOK
      /\ TableOK /\ ShownOK
  BY DEF PagerInv
<1>2. /\ UNCHANGED <<length, view, requestSeq, pages, pagination, controls,
                     searchTimer, booting, rendered, strayed>>
      /\ flights' \subseteq flights
  BY DEF Fail
<1>3. \/ UNCHANGED <<table, footer>>
      \/ table'.kind = "error" /\ footer' = NoPager
  BY DEF Fail
<1>4. FlightsOK' /\ PositionsOK' /\ RenderedOK'
  BY <1>1, <1>2 DEF FlightsOK, Sent, Asked, PositionsOK, RenderedOK
<1>5. TableOK' /\ ShownOK'
  BY <1>1, <1>2, <1>3 DEF TableOK, ShownOK
<1>6. FooterOK'
  BY <1>1, <1>2, <1>3 DEF FooterOK, NoPager
<1>7. PageType'
  <2>1. NoPager \in [buttons : BOOLEAN, first : BOOLEAN, view : Views, reset : BOOLEAN]
    BY DEF NoPager, Views, ListsOf
  <2> QED
    BY <1>1, <1>2, <1>3, <2>1 DEF PageType, LengthType
<1> QED
  BY <1>4, <1>5, <1>6, <1>7 DEF PagerInv

\* A change of the search text makes a load due; rows of the lists come.
LEMMA OtherPager ==
  ASSUME PagerInv,
         \/ \E q \in Texts : TypeText(q)
         \/ \E list \in ListNames : Grow(list)
         \/ UNCHANGED DPvars
  PROVE  PagerInv'
<1>1. /\ PageType /\ PositionsOK /\ FooterOK /\ RenderedOK /\ FlightsOK
      /\ TableOK /\ ShownOK
  BY DEF PagerInv
<1>2. ASSUME NEW q \in Texts, TypeText(q) PROVE PagerInv'
  <2>1. /\ controls' = [controls EXCEPT !.q = q] /\ searchTimer' = TRUE
        /\ UNCHANGED <<length, view, requestSeq, pages, pagination, booting, table,
                       footer, flights, rendered, strayed>>
        /\ controls \in ControlType
    BY <1>1, <1>2 DEF TypeText, PageType, ControlType
  <2>2. /\ controls' \in ControlType
        /\ controls'.limit = controls.limit /\ controls'.filter = controls.filter
    BY <2>1 DEF ControlType
  <2>3. PageType' /\ PositionsOK' /\ FooterOK' /\ ShownOK' /\ RenderedOK'
    BY <1>1, <2>1, <2>2 DEF PageType, LengthType, PositionsOK, FooterOK, ShownOK,
       RenderedOK, ControlType
  <2>4. FlightsOK' /\ TableOK'
    BY <1>1, <2>1, <2>2 DEF FlightsOK, Sent, Asked, TableOK
  <2> QED
    BY <2>3, <2>4 DEF PagerInv
<1>3. ASSUME NEW list \in ListNames, Grow(list) PROVE PagerInv'
  <2>1. /\ length' = [length EXCEPT ![list] = @ + 1]
        /\ length[list] < MaxLength /\ UNCHANGED pageVars
    BY <1>3 DEF Grow
  <2>2. LengthType'
    BY <1>1, <2>1, BoundsAssumption DEF PageType, LengthType
  <2> QED
    BY <1>1, <2>1, <2>2 DEF PagerInv, pageVars, PageType, FlightsOK, Sent, Asked,
       TableOK, PositionsOK, FooterOK, ShownOK, RenderedOK
<1>4. ASSUME UNCHANGED DPvars PROVE PagerInv'
  BY <1>1, <1>4 DEF DPvars, pageVars, PagerInv, PageType, LengthType, FlightsOK, Sent,
     Asked, TableOK, PositionsOK, FooterOK, ShownOK, RenderedOK
<1> QED
  BY <1>2, <1>3, <1>4

LEMMA PagerInductive == DPSpec => []PagerInv
<1>1. PagerInv /\ [DPNext]_DPvars => PagerInv'
  BY LoadsPager, ArrivePager, FailPager, OtherPager DEF DPNext
<1> QED
  BY InitPager, <1>1, PTL DEF DPSpec

-----------------------------------------------------------------------------
(* The properties *)

\* In whatever order loads are started, answered, or fail, the rows on the
\* screen are those last asked for: loadView drops every other answer.
THEOREM ShownCorrect == DPSpec => []ShownIsCurrent
<1>1. PagerInv => ShownIsCurrent
  <2> SUFFICES ASSUME PagerInv, table.kind = "rows", ~searchTimer
               PROVE  /\ table.view = view /\ table.from = pages[view]
                      /\ [limit |-> table.limit, filter |-> table.filter,
                          q |-> table.q] = controls
    BY DEF ShownIsCurrent
  <2>1. controls \in [limit : Limits, filter : Filters, q : Texts] /\ TableOK
    BY DEF PagerInv, PageType
  <2> QED
    BY <2>1 DEF TableOK
<1> QED
  BY <1>1, PagerInductive, PTL

LEMMA KnownRow ==
  ASSUME RenderedOK, NEW v \in Views, NEW list \in ListNames,
         EntriesOf(rendered[v], list) # {}, NEW x \in Known(v, list)
  PROVE  /\ x \in Nat \ {0}
         /\ Reached(rendered[v], list, x) => x \in Seen(v, list)
<1> DEFINE E == EntriesOf(rendered[v], list)
<1>1. E = Entries(v, list)
  BY DEF EntriesOf, Entries
<1>2. /\ x \in 1..Min({e.total : e \in E})
      /\ Seen(v, list) = UNION {e.rows : e \in E}
  BY <1>1 DEF Known, Seen
<1>3. {e.total : e \in E} \subseteq Nat /\ {e.total : e \in E} # {}
  BY DEF RenderedOK, Totals
<1> HIDE DEF E
<1>4. Min({e.total : e \in E}) \in Nat
  BY <1>3, MinOf
<1>5. \A e \in E : Min({d.total : d \in E}) <= e.total
  BY <1>3, MinOf
<1>6. x \in Nat \ {0} /\ \A e \in E : x <= e.total
  BY <1>2, <1>3, <1>4, <1>5
<1> QED
  BY <1>2, <1>6 DEF Reached, E

\* Paging shows every row: none is passed over by Next, by a detour or after
\* a failed load, and the last page is the end of each of its lists.
THEOREM PagingCorrect == DPSpec => []PagingComplete
<1>1. ASSUME PagerInv PROVE PagingComplete
  <2> SUFFICES ASSUME OwnRows, NEW list \in Range(ListsOf[table.view]),
                      NEW x \in Known(table.view, list)
               PROVE  /\ x \in Before(table.view, table.from) => x \in Seen(table.view, list)
                      /\ ~pagination.hasNextPage => x \in Seen(table.view, list)
    BY DEF PagingComplete, NoRowSkipped, EndMeansAll
  <2>1. /\ table.view = view /\ table.from = pages[view] /\ view \notin strayed
        /\ view \in Views /\ RenderedOK /\ list \in ListNames
        /\ EntriesOf(rendered[view], list) # {}
        /\ ~pagination.hasNextPage => AllReached(rendered[view], view)
        /\ ReachedBefore(rendered[view], view, pages[view])
    BY <1>1, OpenViewsAssumption DEF OwnRows, PagerInv, PageType, TableOK, ShownOK,
       PositionsOK, ListNames
  <2>2. /\ x \in Nat \ {0}
        /\ Reached(rendered[view], list, x) => x \in Seen(view, list)
    BY <2>1, KnownRow
  <2> QED
    BY <2>1, <2>2 DEF ReachedBefore, AllReached
<1> QED
  BY <1>1, PagerInductive, PTL
=============================================================================
